---------------------- MODULE MCEditorRenderCoordinator -----------------------
(* Two values of the edit; a few drags, panel switches and view changes.       *)
EXTENDS EditorRenderCoordinator

CONSTANTS e1, e2
================================================================================
