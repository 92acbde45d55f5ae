---------------------------- MODULE MCProjectSession ----------------------------
(* Two projects, two images; an edit, an import and an analysis twice, others once. *)
EXTENDS ProjectSession

CONSTANTS p1, p2, i1, i2

MCProjects == {p1, p2}
MCImages == {i1, i2}
MCBound == [w \in Kinds |-> IF w \in {"analysis", "edit", "import"} THEN 2 ELSE 1]
================================================================================
