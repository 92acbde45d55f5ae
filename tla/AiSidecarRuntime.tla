--------------------------- MODULE AiSidecarRuntime ----------------------------
(* The sidecar process as AiSidecarRuntimeService keeps it, and the runs that   *)
(* share it: image analysis, label generation, model activation and semantic   *)
(* search (app/ai_sidecar_runtime_service.cpp; image_analysis_controller.cpp,  *)
(* semantic_generation_controller.cpp; app/project_service.cpp).               *)
(*                                                                             *)
(* Every method of the service runs on the UI thread: a call from another      *)
(* thread is posted to it and waited for.  An interactive start polls the      *)
(* sidecar in a loop that pumps the UI's events between two polls, so whatever *)
(* the UI may run, another start included, can run inside it.  The starts in   *)
(* progress are therefore a stack, of which only the innermost is polling, and *)
(* they share one process, one set of options and one cancel flag.             *)
(*                                                                             *)
(* Left out: ports, arguments, messages and the offline fallback (no           *)
(* environment of the program reports offline mode).  A kill is taken to end   *)
(* the process (kStopTimedOut does not occur).                                 *)
EXTENDS Integers, Sequences, FiniteSets

CONSTANTS
    Users,       \* the parts of the program that run the sidecar
    Workers,     \* those that run on a thread of their own
    Delayed,     \* those that begin with a timer (label generation)
    NeedsModel,  \* those that ask for require_model_info
    Quiet,       \* those that use StartAndWait, which pumps no events
    Cancelable,  \* those with a Cancel button
    MaxRuns,     \* bound: how often each runs
    MaxCrashes,  \* bound: how often the process dies by itself
    MayFail,     \* whether the process may fail to start
    MayClose     \* whether the project may be closed

ASSUME UsersAssumption ==
    /\ Workers \subseteq Users /\ Delayed \subseteq Users \ Workers
    /\ NeedsModel \subseteq Users /\ Quiet \subseteq Workers
    /\ Cancelable \subseteq Users \ Workers
ASSUME BoundsAssumption ==
    MaxRuns \in Nat \ {0} /\ MaxCrashes \in Nat /\ MayFail \in BOOLEAN /\ MayClose \in BOOLEAN

VARIABLES
    runtime,   \* the service: see Runtimes
    boots,     \* the calls of WaitForReadiness, innermost first
    late,      \* how many of them, outermost first, are past their deadline
    phase,     \* of each user's run
    canceled,  \* start_canceled_ of each user
    runs,      \* how often each user has begun
    crashes,
    closed,    \* StopForProjectClose has been called
    harmed,    \* users whose process a crash, a close, a cancel or a deadline took
    disturbed  \* something has gone wrong or been canceled since the program started

vars == <<runtime, boots, late, phase, canceled, runs, crashes, closed,
          harmed, disturbed>>

\* process_: a process that is "serving" answers Ping, one that is "modelled" also
\* answers GetModelInfo.
Processes == {"none", "booting", "serving", "modelled"}
States    == {"stopped", "starting", "ready", "stopping", "failed"}
Runtimes  == [process : Processes, state : States, info : BOOLEAN, client : BOOLEAN,
              require : BOOLEAN, leases : Nat, cancel : BOOLEAN]
Boots     == [user : Users, owner : BOOLEAN]

Ended  == {"succeeded", "canceled", "failed"}
Phases == {"idle", "delayed", "checking", "starting", "booting", "verifying",
           "quitting", "working"} \cup Ended

Init ==
    /\ runtime = [process |-> "none", state |-> "stopped", info |-> FALSE, client |-> FALSE,
                  require |-> TRUE, leases |-> 0, cancel |-> FALSE]
    /\ boots = <<>> /\ late = 0
    /\ phase = [u \in Users |-> "idle"]
    /\ canceled = {}
    /\ runs = [u \in Users |-> 0]
    /\ crashes = 0 /\ closed = FALSE /\ harmed = {} /\ disturbed = FALSE

Working == {u \in Users : phase[u] = "working"}
Holders == {u \in Users : phase[u] \notin {"idle", "delayed"} \cup Ended}

--------------------------------------------------------------------------------
(* The service's own steps, on its record.                                     *)

\* RefreshProcessExit: the status learns that the process is gone.
Refresh(r) ==
    IF r.process = "none" /\ r.state \in {"ready", "starting", "stopping"}
    THEN [r EXCEPT !.client = FALSE, !.state = "failed"] ELSE r

\* terminate, then kill, and what is reset with the process.
Terminated(r, state) ==
    [r EXCEPT !.process = "none", !.client = FALSE, !.state = state]

Stopped(r) == Terminated(Refresh(r), "stopped")

Acquired(r) == [r EXCEPT !.leases = @ + 1]

Released_Always(r) == Stopped([r EXCEPT !.leases = IF @ > 0 THEN @ - 1 ELSE 0])

\* ReleaseLease: the last lease stops a process that runs.
Released(r) ==
    LET left == [r EXCEPT !.leases = IF @ > 0 THEN @ - 1 ELSE 0]
    IN  IF left.leases > 0 THEN left
        ELSE IF left.process # "none" THEN Stopped(left) ELSE Refresh(left)

\* What a caller reads off Status() before and after it asks for a start.
Ready(r, u) == r.state = "ready" /\ (u \in NeedsModel => r.info)

\* The UI thread can take an event: it is in its loop, or the innermost start
\* pumps it.
CanRun == boots # <<>> => Head(boots).user \notin Quiet

--------------------------------------------------------------------------------
(* A run that goes on after its start.                                         *)

Go(u, to, r) == phase' = [phase EXCEPT ![u] = to] /\ runtime' = r

\* The start did not succeed: a run on the UI thread gives its lease back at
\* once, one on a worker posts that.
GiveUp(u, r) ==
    IF u \in Workers THEN Go(u, "quitting", r)
    ELSE Go(u, IF u \in canceled THEN "canceled" ELSE "failed", Released(r))

Succeed_Trusting(u, r) == Go(u, IF u \in Workers THEN "verifying" ELSE "working", r)

\* The start succeeded: every caller looks at Status() once more.
Succeed(u, r) ==
    IF u \in Workers THEN Go(u, "verifying", r)
    ELSE IF Ready(Refresh(r), u) THEN Go(u, "working", Refresh(r))
    ELSE Go(u, "failed", Released(Refresh(r)))

Wait(u, r, owner) ==
    /\ Go(u, "booting", r)
    /\ boots' = <<[user |-> u, owner |-> owner]>> \o boots

Join_KeepsOptions(u, r) ==
    IF Ready(r, u)
    THEN Succeed(u, r) /\ UNCHANGED <<boots, disturbed>>
    ELSE Wait(u, r, FALSE) /\ UNCHANGED disturbed

\* StartAndWaitBody with a process that runs: join it, or return at once.  Only
\* what is missing makes the shared options stricter.
Join(u, r) ==
    IF Ready(r, u)
    THEN Succeed(u, r) /\ UNCHANGED <<boots, disturbed>>
    ELSE /\ Wait(u, [r EXCEPT !.require = @ \/ (u \in NeedsModel /\ ~r.info)], FALSE)
         /\ UNCHANGED disturbed

\* StartAndWaitBody without one: a new process under this caller's options, or
\* none (no binary, no start, no client).
Launch(u, r) ==
    LET fresh == [r EXCEPT !.info = FALSE, !.client = FALSE, !.require = u \in NeedsModel]
    IN  \/ /\ Wait(u, [fresh EXCEPT !.process = "booting", !.state = "starting",
                                    !.client = TRUE], TRUE)
           /\ UNCHANGED disturbed
        \/ /\ MayFail
           /\ Go(u, IF u \in Workers THEN "quitting" ELSE "failed",
                 IF u \in Workers THEN Terminated(fresh, "failed")
                 ELSE Released(Terminated(fresh, "failed")))
           /\ disturbed' = TRUE
           /\ UNCHANGED boots

\* StartAndWaitInteractive and StartAndWait: the caller has just reset its
\* start_canceled_, and the interactive call resets the cancel flag.
Start(u, r) ==
    LET clear == Refresh([r EXCEPT !.cancel = IF u \in Quiet THEN @ ELSE FALSE])
    IN  /\ canceled' = canceled \ {u}
        /\ IF clear.process # "none" THEN Join(u, clear) ELSE Launch(u, clear)

\* AcquireLease, then the look at Status() that may make a start unnecessary.
LeaseAndStart(u) ==
    LET held == Refresh(Acquired(runtime))
    IN  IF Ready(held, u)
        THEN Go(u, "working", held) /\ UNCHANGED <<boots, canceled, disturbed>>
        ELSE Start(u, held)

--------------------------------------------------------------------------------
(* The runs.                                                                   *)

MayBegin(u) == phase[u] \in {"idle"} \cup Ended /\ runs[u] < MaxRuns /\ CanRun /\ ~closed

\* StartForTargets and ValidateConnectionForProfile: all of it on the UI thread.
BeginHere(u) ==
    /\ u \notin Workers \cup Delayed /\ MayBegin(u)
    /\ runs' = [runs EXCEPT ![u] = @ + 1]
    /\ LeaseAndStart(u)
    /\ UNCHANGED <<late, crashes, closed, harmed>>

\* StartGenerationForItems: running_ is set, the rest follows after 160 ms.
BeginLater(u) ==
    /\ u \in Delayed /\ MayBegin(u)
    /\ runs' = [runs EXCEPT ![u] = @ + 1]
    /\ Go(u, "delayed", runtime)
    /\ UNCHANGED <<boots, late, canceled, crashes, closed, harmed, disturbed>>

\* ContinueGenerationForItems.
Continue(u) ==
    /\ phase[u] = "delayed" /\ CanRun
    /\ IF closed THEN Go(u, "failed", runtime) /\ UNCHANGED <<boots, canceled, disturbed>>
       ELSE LeaseAndStart(u)
    /\ UNCHANGED <<late, runs, crashes, closed, harmed>>

\* ActivateSelectedModel and the search: the lease first, the rest on a worker.
BeginOnWorker(u) ==
    /\ u \in Workers /\ MayBegin(u)
    /\ runs' = [runs EXCEPT ![u] = @ + 1]
    /\ Go(u, "checking", Acquired(runtime))
    /\ UNCHANGED <<boots, late, canceled, crashes, closed, harmed, disturbed>>

\* The worker asks for the status.
Check(u) ==
    /\ phase[u] = "checking" /\ CanRun
    /\ LET r == Refresh(runtime) IN Go(u, IF Ready(r, u) THEN "working" ELSE "starting", r)
    /\ UNCHANGED <<boots, late, canceled, runs, crashes, closed, harmed, disturbed>>

\* The worker's start is taken from the event queue.
StartForWorker(u) ==
    /\ phase[u] = "starting" /\ CanRun
    /\ Start(u, runtime)
    /\ UNCHANGED <<late, runs, crashes, closed, harmed>>

\* The worker asks for the status after a start that returned true.
Verify(u) ==
    /\ phase[u] = "verifying" /\ CanRun
    /\ LET r == Refresh(runtime) IN Go(u, IF Ready(r, u) THEN "working" ELSE "quitting", r)
    /\ UNCHANGED <<boots, late, canceled, runs, crashes, closed, harmed, disturbed>>

\* The worker's lease is released on the UI thread.
Quit(u) ==
    /\ phase[u] = "quitting" /\ CanRun
    /\ Go(u, "failed", Released(runtime))
    /\ UNCHANGED <<boots, late, canceled, runs, crashes, closed, harmed, disturbed>>

\* The job is over, its Finish runs and drops the lease.
Finish(u) ==
    /\ phase[u] = "working" /\ CanRun
    /\ Go(u, "succeeded", Released(runtime))
    /\ harmed' = harmed \ {u}
    /\ UNCHANGED <<boots, late, canceled, runs, crashes, closed, disturbed>>

\* CancelAnalysis, CancelGeneration before there is a job.
Cancel(u) ==
    /\ u \in Cancelable /\ phase[u] \in {"delayed", "booting"} /\ u \notin canceled
    /\ CanRun
    /\ canceled' = canceled \cup {u}
    /\ runtime' = [runtime EXCEPT !.cancel = TRUE]
    /\ disturbed' = TRUE
    /\ UNCHANGED <<boots, late, phase, runs, crashes, closed, harmed>>

\* StopForProjectClose.
Close ==
    /\ MayClose /\ ~closed /\ CanRun
    /\ closed' = TRUE
    /\ runtime' = Stopped([runtime EXCEPT !.leases = 0])
    /\ harmed' = harmed \cup Holders /\ disturbed' = TRUE
    /\ UNCHANGED <<boots, late, phase, canceled, runs, crashes>>

--------------------------------------------------------------------------------
(* One turn of the loop in WaitForReadiness, by the innermost start.           *)

Return ==
    /\ boots' = Tail(boots)
    /\ late' = IF late < Len(boots) THEN late ELSE late - 1

Answers(r) == r.client /\ r.process \in {"serving", "modelled"}

Enough(r) == r.process = "modelled" \/ ~r.require

Overdue_OwnersOnly == boots # <<>> /\ late = Len(boots) /\ Head(boots).owner

\* The innermost start is past its deadline.
Overdue == boots # <<>> /\ late = Len(boots)

\* Past the deadline: a start that only joined leaves a living process alone.
TimedOut ==
    /\ Overdue
    /\ LET b == Head(boots)
           spared == ~b.owner /\ runtime.process # "none"
       IN  /\ GiveUp(b.user, IF spared THEN Refresh(runtime) ELSE Terminated(runtime, "failed"))
           /\ harmed' = IF spared THEN harmed ELSE harmed \cup Working
    /\ Return
    /\ UNCHANGED <<canceled, runs, crashes, closed, disturbed>>

InTime == boots # <<>> /\ late < Len(boots)

\* The process has been found dead.
PollFailed ==
    /\ InTime /\ Refresh(runtime).state = "failed"
    /\ GiveUp(Head(boots).user, Refresh(runtime))
    /\ Return
    /\ UNCHANGED <<canceled, runs, crashes, closed, harmed, disturbed>>

\* Ping and, where the options ask for it, GetModelInfo have answered.
PollReady ==
    /\ InTime
    /\ LET r == Refresh(runtime)
       IN  /\ r.state # "failed" /\ Answers(r) /\ Enough(r)
           /\ Succeed(Head(boots).user,
                      [r EXCEPT !.state = "ready", !.info = @ \/ r.process = "modelled"])
    /\ Return
    /\ UNCHANGED <<canceled, runs, crashes, closed, harmed, disturbed>>

\* The checkpoint of the cancel flag.
PollCanceled ==
    /\ InTime /\ Head(boots).user \notin Quiet
    /\ LET r == Refresh(runtime)
       IN  /\ r.state # "failed" /\ ~(Answers(r) /\ Enough(r)) /\ r.cancel
           /\ GiveUp(Head(boots).user, Terminated(r, "stopped"))
    /\ Return
    /\ harmed' = harmed \cup Working
    /\ UNCHANGED <<canceled, runs, crashes, closed, disturbed>>

Expire ==
    /\ late < Len(boots)
    /\ late' = late + 1
    /\ disturbed' = TRUE
    /\ UNCHANGED <<runtime, boots, phase, canceled, runs, crashes, closed, harmed>>

--------------------------------------------------------------------------------
(* The process.                                                                *)

Serve ==
    /\ runtime.process = "booting"
    /\ runtime' = [runtime EXCEPT !.process = "serving"]
    /\ UNCHANGED <<boots, late, phase, canceled, runs, crashes, closed, harmed, disturbed>>

LoadModel ==
    /\ runtime.process = "serving"
    /\ runtime' = [runtime EXCEPT !.process = "modelled"]
    /\ UNCHANGED <<boots, late, phase, canceled, runs, crashes, closed, harmed, disturbed>>

Crash ==
    /\ runtime.process # "none" /\ crashes < MaxCrashes
    /\ runtime' = [runtime EXCEPT !.process = "none"]
    /\ crashes' = crashes + 1
    /\ harmed' = harmed \cup Working /\ disturbed' = TRUE
    /\ UNCHANGED <<boots, late, phase, canceled, runs, closed>>

--------------------------------------------------------------------------------

Poll == TimedOut \/ PollFailed \/ PollReady \/ PollCanceled

Event(u) ==
    \/ Continue(u) \/ Check(u) \/ StartForWorker(u) \/ Verify(u) \/ Quit(u) \/ Finish(u)

Next ==
    \/ \E u \in Users : BeginHere(u) \/ BeginLater(u) \/ BeginOnWorker(u) \/ Event(u) \/ Cancel(u)
    \/ Poll \/ Expire \/ Close \/ Serve \/ LoadModel \/ Crash

Spec == Init /\ [][Next]_vars

\* The poll goes on, time passes, posted events are taken, jobs end.
FairSpec ==
    Spec /\ WF_vars(Poll) /\ WF_vars(Expire) /\ \A u \in Users : WF_vars(Event(u))

--------------------------------------------------------------------------------
(* Properties.                                                                 *)

TypeOK ==
    /\ runtime \in Runtimes
    /\ boots \in Seq(Boots) /\ late \in 0..Len(boots)
    /\ phase \in [Users -> Phases]
    /\ canceled \subseteq Cancelable
    /\ runs \in [Users -> 0..MaxRuns] /\ crashes \in 0..MaxCrashes
    /\ closed \in BOOLEAN /\ harmed \subseteq Users /\ disturbed \in BOOLEAN

\* A run that works has a process, whoever else starts, joins, gives up or
\* finishes, unless the process died, a start was canceled, the start that
\* launched the process missed its deadline or the project was closed under it.
LeaseKeepsProcess == \A u \in Working \ harmed : runtime.process # "none"

\* When nobody uses the sidecar there is no process, also after a crash, a
\* canceled start or a close that set the leases back under their holders.
NoOrphan == Holders = {} => runtime.process = "none"

\* The process runs exactly as long as somebody uses it, in variables that have
\* their types.
ProcessOwned == TypeOK /\ LeaseKeepsProcess /\ NoOrphan

\* A run begins to work only on a sidecar that is ready and, if it needs the
\* model, has reported it, although another caller's start may have replaced
\* the options this one was waiting under.
WorksOnlyWhenReady ==
    [][\A u \in Users :
         phase[u] # "working" /\ phase'[u] = "working" =>
            /\ runtime'.state = "ready" /\ runtime'.process # "none"
            /\ u \in NeedsModel => runtime'.info]_vars

\* A run fails, or ends as canceled, only after something went wrong: a start
\* inside another start, a joined start and a search in between do not by
\* themselves make any of them fail.
FailsForAReason == (\E u \in Users : phase[u] \in {"failed", "canceled"}) => disturbed

\* Every run comes to an end, also a start that waits below another one, or
\* whose process a closed project has taken away.
RunsEnd == \A u \in Users : phase[u] \notin {"idle"} \cup Ended ~> phase[u] \in Ended
================================================================================
