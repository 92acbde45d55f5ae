--------------------------- MODULE MCImageAnalysisJobs --------------------------
(* TLC instances of ImageAnalysisJobs: an analyze job and a describe job.   *)
EXTENDS ImageAnalysisJobs

CONSTANTS batched, single

Sizes   == [j \in Jobs |-> IF j = batched THEN 2 ELSE 1]
Batches == [j \in Jobs |-> IF j = batched THEN 2 ELSE 1]
Secrets == [j \in Jobs |-> j = batched]
================================================================================
