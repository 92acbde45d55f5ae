-------------------------- MODULE MCAiSidecarRuntime ---------------------------
(* Image analysis (on the UI thread, no model), label generation (a timer      *)
(* first, with the model) and a worker that needs the model.                   *)
EXTENDS AiSidecarRuntime

CONSTANTS analysis, generation, activation
================================================================================
