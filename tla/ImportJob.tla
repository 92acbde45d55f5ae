-------------------------------- MODULE ImportJob --------------------------------
(* One import: ImportServiceImpl::ImportToFolder submits a metadata task for    *)
(* each file from the thread that calls it, eight pool threads run the tasks,   *)
(* and whoever sees the submission closed and every task finished reports the   *)
(* result, once.                                                                *)
(*                                                                              *)
(* The application calls ImportToFolder on the UI thread, which is also the     *)
(* only thread that sets canceled_, so the loop never sees the flag and the     *)
(* workers do not look at it: a cancel changes nothing but a text.              *)
EXTENDS Naturals

CONSTANT MaxFiles   \* bound: files of an import

ASSUME FilesAssumption == MaxFiles \in Nat

VARIABLE job        \* current_import_job_ and its ImportProgress

NoImport == [running |-> FALSE]

\* "counting" and "asking" are the pool threads that have yet to count their task
\* as finished, and to try to finish the job.
NewJob(files) ==
    [running |-> TRUE, total |-> files, left |-> files, submitted |-> 0, finished |-> 0,
     done |-> 0, failed |-> 0, counting |-> 0, asking |-> 0, closed |-> FALSE,
     acked |-> FALSE]

Acked(j) == j.running /\ j.acked

\* Tasks that are queued in the pool or running.
Unread(j) == j.submitted - j.finished - j.counting

AllFinished_Open(j) == j.submitted > 0 /\ j.finished = j.submitted

\* What TryFinishImportJob reads, and the exchange of cancelation_acked_.
AllFinished(j) == j.closed /\ j.finished = j.submitted
TryFinishImportJob(j) == IF AllFinished(j) THEN [j EXCEPT !.acked = TRUE] ELSE j

--------------------------------------------------------------------------------
(* The caller.                                                                  *)

\* One turn of the loop: the file is refused, or cannot be created in the
\* library, or a task is submitted for it.
SubmitFile ==
    /\ job.running /\ job.left > 0
    /\ \/ job' = [job EXCEPT !.left = @ - 1, !.failed = @ + 1]
       \/ job' = [job EXCEPT !.left = @ - 1, !.submitted = @ + 1]

CloseSubmission_TriesFirst ==
    /\ job.running /\ job.left = 0 /\ ~job.closed
    /\ job' = [TryFinishImportJob(job) EXCEPT !.closed = TRUE]

\* The end of ImportToFolder, which may find that every task is finished already.
CloseSubmission ==
    /\ job.running /\ job.left = 0 /\ ~job.closed
    /\ job' = TryFinishImportJob([job EXCEPT !.closed = TRUE])

--------------------------------------------------------------------------------
(* The pool threads.                                                            *)

\* A task extracts its metadata, or fails to.
RunTask ==
    /\ job.running /\ Unread(job) > 0
    /\ \/ job' = [job EXCEPT !.done = @ + 1, !.counting = @ + 1]
       \/ job' = [job EXCEPT !.failed = @ + 1, !.counting = @ + 1]

Count ==
    /\ job.running /\ job.counting > 0
    /\ job' = [job EXCEPT !.counting = @ - 1, !.finished = @ + 1, !.asking = @ + 1]

Ask ==
    /\ job.running /\ job.asking > 0
    /\ job' = TryFinishImportJob([job EXCEPT !.asking = @ - 1])
================================================================================
