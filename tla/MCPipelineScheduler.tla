--------------------------- MODULE MCPipelineScheduler --------------------------
(* TLC instances of PipelineScheduler: the tasks, where they go, the memory. *)
EXTENDS PipelineScheduler

CONSTANTS s1, s2, e1, e2, a, b, c

Kinds      == [t \in Tasks |-> CASE t = a -> "thumbnail" [] t = b -> "preview" [] t = c -> "export"]
FastKinds  == [t \in Tasks |-> IF t = b THEN "fast" ELSE Kinds[t]]
\* An export renders at full size.
Costs      == [t \in Tasks |-> IF t = c THEN 2 ELSE 1]

\* One scheduler for all, or the preview on one of its own as in the application;
\* a thumbnail and a preview of one executor, an export of another.
OneHome    == [t \in Tasks |-> s1]
TwoHomes   == [t \in Tasks |-> IF t = b THEN s2 ELSE s1]
TwoExecs   == [t \in Tasks |-> IF t = c THEN e2 ELSE e1]

\* Room for the small renders one at a time, or for both or the export.
ScarceMemory == {[check |-> 1, grant |-> 1], [check |-> 2, grant |-> 2]}
ExportFits   == {[check |-> 2, grant |-> 2]}
================================================================================
