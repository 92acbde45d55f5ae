---------------------------- MODULE PipelineScheduler ----------------------------
(***************************************************************************)
(* PipelineScheduler (renderer/pipeline_scheduler.cpp) with the process's  *)
(* MemoryBudgetManager (renderer/memory_budget_manager.cpp).               *)
(*                                                                         *)
(* ScheduleTask submits a task to the scheduler's thread pool, or parks it *)
(* when the memory is short.  A task takes its executor's render lock, asks *)
(* for a budget, renders, and on its way out returns the budget, submits   *)
(* what was parked, puts the editor's frame sink back and lets the lock go.*)
(* The editor attaches and detaches its sink under the same lock.          *)
(*                                                                         *)
(* A memory reading is what is left after the safety margin, once for      *)
(* CanAllocate and once for RequestBudget, which differ on a machine with  *)
(* a discrete GPU.  What an executor's render parameters (resolution,      *)
(* region, decoding, forced CPU output, cancel function) are set to is the *)
(* task they were set for, or the baseline.  The backend an executor is    *)
(* left on by the CPU fallback is state of PipelineMgmtService.            *)
(***************************************************************************)
EXTENDS Naturals, Sequences, FiniteSets, Functions

CONSTANTS
    Schedulers, Tasks, Execs,
    Home,          \* the scheduler a task is given to
    Exec,          \* the executor it renders with
    Kind,          \* render_type_: "thumbnail", "export", "fast" (preview) or "preview"
    Cost,          \* estimated_bytes
    Threads,       \* size of a scheduler's thread pool
    Readings,      \* what RefreshMemoryStatus may find
    LockTimeouts,  \* may a task's wait for the render lock time out?
    SinkTimeouts,  \* may the editor's wait for it time out?
    MayThrow,      \* may loading, rendering or a callback throw?
    MaxSinks       \* bound: frame sinks the editor creates

Free     == "free"
NoSink   == 0
Baseline == "baseline"

ASSUME SchedulerAssumption ==
    /\ Free \notin Tasks /\ Baseline \notin Tasks
    /\ Home \in [Tasks -> Schedulers] /\ Exec \in [Tasks -> Execs]
    /\ Kind \in [Tasks -> {"thumbnail", "export", "fast", "preview"}]
    /\ Cost \in [Tasks -> Nat \ {0}]
    /\ Threads \in Nat \ {0} /\ MaxSinks \in Nat
    /\ Readings \subseteq [check : Nat, grant : Nat]
    /\ \A r \in Readings : r.check <= r.grant
    /\ {LockTimeouts, SinkTimeouts, MayThrow} \subseteq BOOLEAN

Running   == {"started", "rendering", "returning", "released", "flushing", "unlocked"}
LockHeld  == {"rendering", "returning", "released", "flushing"}
Stages    == Running \cup {"idle", "refused", "parked", "queued", "done"}
Outcomes  == {"none", "answered", "copy", "thrown"}

VARIABLES
    memory,    \* what the next RefreshMemoryStatus finds
    reading,   \* status_
    budgets,   \* budgets_: operation number -> bytes granted
    nextId,    \* id_generator_ of each scheduler
    number,    \* task_id_
    parked,    \* pending_tasks_
    queue,     \* tasks_ of the thread pool
    stage,     \* where a task is
    again,     \* tasks_to_submit of a worker inside TryFlushPendingTasks
    outcome,   \* how the task leaves the block that holds the lock
    answers,   \* history: callbacks called or promise set
    lock,      \* render_lock_: the task that holds it
    params,    \* render parameters of an executor
    sink,      \* frame_sink_ of an executor
    saved,     \* saved_frame_sink
    routed,    \* history: the sink the editor attached to an executor
    lost,      \* history: sinks a throw left detached
    orphaned,  \* history: sinks destroyed while they could not be detached
    tap,       \* the editor's live sink (final_display_frame_tap_)
    sinks      \* history: sinks created so far

memoryVars == <<memory, reading, budgets>>
queueVars  == <<nextId, number, parked, queue, again>>
taskVars   == <<stage, outcome, answers>>
sinkVars   == <<sink, saved, routed, lost, orphaned, tap, sinks>>
vars == <<memoryVars, queueVars, taskVars, lock, params, sinkVars>>

Init ==
    /\ memory \in Readings /\ reading = memory
    /\ budgets = [n \in {} |-> 0]
    /\ nextId = [s \in Schedulers |-> 0]
    /\ number = [t \in Tasks |-> 0]
    /\ parked = [s \in Schedulers |-> <<>>]
    /\ queue = [s \in Schedulers |-> <<>>]
    /\ stage = [t \in Tasks |-> "idle"]
    /\ again = [t \in Tasks |-> <<>>]
    /\ outcome = [t \in Tasks |-> "none"]
    /\ answers = [t \in Tasks |-> 0]
    /\ lock = [e \in Execs |-> Free]
    /\ params = [e \in Execs |-> Baseline]
    /\ sink = [e \in Execs |-> NoSink]
    /\ saved = [t \in Tasks |-> NoSink]
    /\ routed = [e \in Execs |-> NoSink]
    /\ lost = {} /\ orphaned = {}
    /\ tap = NoSink /\ sinks = 0

-----------------------------------------------------------------------------
(* MemoryBudgetManager.                                                    *)

Budgeted == SumFunction(budgets)

CanAllocate(bytes, r) == bytes + Budgeted <= r.check

Granted_IgnoresOthers(bytes) == IF bytes < reading.grant THEN bytes ELSE reading.grant
Granted(bytes) ==
    LET left == IF reading.grant > Budgeted THEN reading.grant - Budgeted ELSE 0
    IN  IF bytes < left THEN bytes ELSE left

RequestBudget(n, bytes) ==
    [i \in DOMAIN budgets \cup {n} |-> IF i = n THEN Granted(bytes) ELSE budgets[i]]

ReleaseBudget_Zeroed(n) == [i \in DOMAIN budgets |-> IF i = n THEN 0 ELSE budgets[i]]
ReleaseBudget(n) == Restrict(budgets, DOMAIN budgets \ {n})

MemoryChanges ==
    /\ memory' \in Readings \ {memory}
    /\ UNCHANGED <<reading, budgets, queueVars, taskVars, lock, params, sinkVars>>

-----------------------------------------------------------------------------
(* ScheduleTask, called for a new task or by a worker that resubmits one.  *)

Goes(t, to) == stage' = [stage EXCEPT ![t] = to]

Resubmitter(t) == {u \in Tasks : again[u] # <<>> /\ Head(again[u]) = t}

\* Calling ScheduleTask for t returns: its caller goes on to the next one.
Returns(t) == again' = [u \in Tasks |-> IF u \in Resubmitter(t) THEN Tail(again[u]) ELSE again[u]]

ScheduleTask(t) ==
    LET s == Home[t] IN
    /\ \/ stage[t] = "idle"
       \/ stage[t] = "parked" /\ Resubmitter(t) # {}
    /\ number' = [number EXCEPT ![t] = nextId[s]]
    /\ nextId' = [nextId EXCEPT ![s] = @ + 1]
    /\ reading' = memory
    /\ IF CanAllocate(Cost[t], memory)
       THEN /\ Goes(t, "queued")
            /\ queue' = [queue EXCEPT ![s] = Append(@, t)]
            /\ Returns(t)
       ELSE Goes(t, "refused") /\ UNCHANGED <<queue, again>>
    /\ UNCHANGED <<memory, budgets, parked, outcome, answers, lock, params, sinkVars>>

\* The refused task is put away in a critical section of its own.
Park(t) ==
    /\ stage[t] = "refused"
    /\ Goes(t, "parked")
    /\ parked' = [parked EXCEPT ![Home[t]] = Append(@, t)]
    /\ Returns(t)
    /\ UNCHANGED <<memoryVars, nextId, number, queue, outcome, answers, lock, params, sinkVars>>

-----------------------------------------------------------------------------
(* The task, on a thread of the pool.                                      *)

Busy_Leaks(s) == {t \in Tasks : /\ Home[t] = s
                                /\ \/ stage[t] \in Running
                                   \/ stage[t] = "done" /\ outcome[t] = "thrown"}
Busy(s) == {t \in Tasks : Home[t] = s /\ stage[t] \in Running}

Answer(t)   == answers' = [answers EXCEPT ![t] = @ + 1]
Leaves(t, how) == outcome' = [outcome EXCEPT ![t] = how]

\* apply_state_transition_after_render: a fast preview's parameters stay.
ResetParams(t) ==
    params' = IF Kind[t] = "fast" THEN params ELSE [params EXCEPT ![Exec[t]] = Baseline]

Start(t) ==
    LET s == Home[t] IN
    /\ queue[s] # <<>> /\ Head(queue[s]) = t
    /\ Cardinality(Busy(s)) < Threads
    /\ queue' = [queue EXCEPT ![s] = Tail(@)]
    /\ Goes(t, "started")
    /\ UNCHANGED <<memoryVars, nextId, number, parked, again, outcome, answers, lock, params, sinkVars>>

\* Cancelled, or prepare_ failed: only thumbnails have either.
GiveUp(t) ==
    /\ stage[t] = "started" /\ Kind[t] = "thumbnail"
    /\ Goes(t, "done") /\ Answer(t)
    /\ UNCHANGED <<memoryVars, queueVars, outcome, lock, params, sinkVars>>

\* Loading the input throws.
LoadFails(t) ==
    /\ MayThrow /\ stage[t] = "started"
    /\ Goes(t, "unlocked") /\ Leaves(t, "thrown")
    /\ UNCHANGED <<memoryVars, queueVars, answers, lock, params, sinkVars>>

\* Thumbnail and export tasks keep the editor's sink away from their frames.
Previews    == {"fast", "preview"}
Diverts(t)  == Kind[t] \notin Previews
Diverted(t) == IF Diverts(t) THEN NoSink ELSE sink[Exec[t]]

AcquireLock(t) ==
    LET e == Exec[t] IN
    /\ stage[t] = "started" /\ lock[e] = Free
    /\ lock' = [lock EXCEPT ![e] = t]
    /\ saved' = [saved EXCEPT ![t] = IF Diverts(t) THEN sink[e] ELSE NoSink]
    /\ sink' = [sink EXCEPT ![e] = Diverted(t)]
    /\ Goes(t, "rendering")
    /\ budgets' = RequestBudget(number[t], Cost[t])
    /\ params' = [params EXCEPT ![e] = t]
    /\ UNCHANGED <<memory, reading, queueVars, outcome, answers, routed, lost, orphaned, tap, sinks>>

\* InjectRawMetadata throws under the lock, before the guards that put the sink
\* back and return the budget exist.
InjectThrows(t) ==
    LET e == Exec[t] IN
    /\ MayThrow /\ stage[t] = "started" /\ lock[e] = Free
    /\ sink' = [sink EXCEPT ![e] = Diverted(t)]
    /\ lost' = IF Diverts(t) THEN lost \cup {sink[e]} ELSE lost
    /\ Goes(t, "unlocked") /\ Leaves(t, "thrown")
    /\ UNCHANGED <<memoryVars, queueVars, answers, lock, params, saved, routed, orphaned, tap, sinks>>

\* deadlock_abort: the parameters are reset without the lock.
LockTimesOut(t) ==
    /\ LockTimeouts /\ stage[t] = "started" /\ lock[Exec[t]] # Free
    /\ ResetParams(t)
    /\ Goes(t, "done") /\ Answer(t)
    /\ UNCHANGED <<memoryVars, queueVars, outcome, lock, sinkVars>>

\* Cancelled, a preview, or a result without pixels: answered under the lock.
RenderAnswers(t) ==
    /\ stage[t] = "rendering"
    /\ Answer(t) /\ ResetParams(t)
    /\ Goes(t, "returning") /\ Leaves(t, "answered")
    /\ UNCHANGED <<memoryVars, queueVars, lock, sinkVars>>

\* A result to copy: answered once the lock is free again.
RenderCopies(t) ==
    /\ stage[t] = "rendering" /\ Kind[t] \notin Previews
    /\ ResetParams(t)
    /\ Goes(t, "returning") /\ Leaves(t, "copy")
    /\ UNCHANGED <<memoryVars, queueVars, answers, lock, sinkVars>>

RenderThrows(t) ==
    /\ MayThrow /\ stage[t] = "rendering"
    /\ Goes(t, "returning") /\ Leaves(t, "thrown")
    /\ UNCHANGED <<memoryVars, queueVars, answers, lock, params, sinkVars>>

\* The guards of the block, innermost first: the budget ...
Release(t) ==
    /\ stage[t] = "returning"
    /\ Goes(t, "released")
    /\ budgets' = ReleaseBudget(number[t])
    /\ UNCHANGED <<memory, reading, queueVars, outcome, answers, lock, params, sinkVars>>

\* ... TryFlushPendingTasks ...
TryFlush_KeepsList(t) ==
    /\ stage[t] = "released"
    /\ Goes(t, "flushing")
    /\ again' = [again EXCEPT ![t] = parked[Home[t]]]
    /\ parked' = parked
    /\ UNCHANGED <<memoryVars, nextId, number, queue, outcome, answers, lock, params, sinkVars>>

TryFlush_OnlyAfterSuccess(t) ==
    LET list == IF outcome[t] = "thrown" THEN <<>> ELSE parked[Home[t]] IN
    /\ stage[t] = "released"
    /\ Goes(t, "flushing")
    /\ again' = [again EXCEPT ![t] = list]
    /\ parked' = [parked EXCEPT ![Home[t]] = IF list = <<>> THEN @ ELSE <<>>]
    /\ UNCHANGED <<memoryVars, nextId, number, queue, outcome, answers, lock, params, sinkVars>>

TryFlush(t) ==
    /\ stage[t] = "released"
    /\ Goes(t, "flushing")
    /\ again' = [again EXCEPT ![t] = parked[Home[t]]]
    /\ parked' = [parked EXCEPT ![Home[t]] = <<>>]
    /\ UNCHANGED <<memoryVars, nextId, number, queue, outcome, answers, lock, params, sinkVars>>

\* ... the editor's sink, and the lock.
Restored_Always(t) == saved[t]
Restored(t) == IF saved[t] # NoSink THEN saved[t] ELSE sink[Exec[t]]

Unlock(t) ==
    LET e == Exec[t] IN
    /\ stage[t] = "flushing" /\ again[t] = <<>>
    /\ Goes(t, "unlocked")
    /\ sink' = [sink EXCEPT ![e] = Restored(t)]
    /\ saved' = [saved EXCEPT ![t] = NoSink]
    /\ lock' = [lock EXCEPT ![e] = Free]
    /\ UNCHANGED <<memoryVars, queueVars, outcome, answers, params, routed, lost, orphaned, tap, sinks>>

End(t) ==
    /\ stage[t] = "unlocked" /\ outcome[t] = "answered"
    /\ Goes(t, "done")
    /\ UNCHANGED <<memoryVars, queueVars, outcome, answers, lock, params, sinkVars>>

\* The callback gets the copy; one that throws sends the task to the handler.
Deliver(t) ==
    /\ stage[t] = "unlocked" /\ outcome[t] = "copy"
    /\ Answer(t)
    /\ \/ Goes(t, "done") /\ UNCHANGED outcome
       \/ MayThrow /\ Leaves(t, "thrown") /\ UNCHANGED stage
    /\ UNCHANGED <<memoryVars, queueVars, lock, params, sinkVars>>

\* catch (...): the parameters are reset after the lock was let go.
Catch(t) ==
    /\ stage[t] = "unlocked" /\ outcome[t] = "thrown"
    /\ ResetParams(t)
    /\ Goes(t, "done") /\ Answer(t)
    /\ UNCHANGED <<memoryVars, queueVars, outcome, lock, sinkVars>>

-----------------------------------------------------------------------------
(* EditorFrameManager, on the UI thread: one editor at a time.             *)

\* AttachExecutionStages.  Giving up the wait leaves the executor as it was.
AttachSink(e) ==
    /\ \A x \in Execs : routed[x] = NoSink
    /\ sinks < MaxSinks /\ sinks' = sinks + 1 /\ tap' = sinks + 1
    /\ lock[e] = Free \/ SinkTimeouts
    /\ sink' = [sink EXCEPT ![e] = IF lock[e] = Free THEN tap' ELSE @]
    /\ routed' = [routed EXCEPT ![e] = IF lock[e] = Free THEN tap' ELSE @]
    /\ UNCHANGED <<memoryVars, queueVars, taskVars, lock, params, saved, lost, orphaned>>

\* The destructor: the sink dies whether or not it could be detached.
Detachable(e) == lock[e] = Free

DestroySink(e) ==
    /\ routed[e] # NoSink
    /\ Detachable(e) \/ SinkTimeouts
    /\ sink' = [sink EXCEPT ![e] = IF Detachable(e) THEN NoSink ELSE @]
    /\ tap' = NoSink /\ routed' = [routed EXCEPT ![e] = NoSink]
    /\ orphaned' = IF Detachable(e) THEN orphaned ELSE orphaned \cup {routed[e]}
    /\ UNCHANGED <<memoryVars, queueVars, taskVars, lock, params, saved, lost, sinks>>

-----------------------------------------------------------------------------
WorkerStep(t) ==
    \/ Start(t) \/ GiveUp(t) \/ LoadFails(t) \/ AcquireLock(t) \/ InjectThrows(t)
    \/ LockTimesOut(t) \/ RenderAnswers(t) \/ RenderCopies(t) \/ RenderThrows(t)
    \/ Release(t) \/ TryFlush(t) \/ Unlock(t) \/ End(t) \/ Deliver(t) \/ Catch(t)

\* A call of ScheduleTask that has begun.
CallStep(t) == Park(t) \/ (Resubmitter(t) # {} /\ ScheduleTask(t))

Next ==
    \/ \E t \in Tasks : ScheduleTask(t) \/ Park(t) \/ WorkerStep(t)
    \/ \E e \in Execs : AttachSink(e) \/ DestroySink(e)
    \/ MemoryChanges

Spec == Init /\ [][Next]_vars

\* The threads of the pools run, and so does a caller inside ScheduleTask.
FairSpec == Spec /\ \A t \in Tasks : WF_vars(WorkerStep(t) \/ CallStep(t))

-----------------------------------------------------------------------------
\* Every variable has its type; a task was answered at most twice.
TypeOK ==
    /\ memory \in Readings /\ reading \in Readings
    /\ DOMAIN budgets \subseteq Nat /\ \A n \in DOMAIN budgets : budgets[n] \in Nat
    /\ nextId \in [Schedulers -> Nat] /\ number \in [Tasks -> Nat]
    /\ parked \in [Schedulers -> Seq(Tasks)] /\ queue \in [Schedulers -> Seq(Tasks)]
    /\ again \in [Tasks -> Seq(Tasks)]
    /\ stage \in [Tasks -> Stages] /\ outcome \in [Tasks -> Outcomes]
    /\ answers \in [Tasks -> 0..2]
    /\ lock \in [Execs -> Tasks \cup {Free}]
    /\ params \in [Execs -> Tasks \cup {Baseline}]
    /\ sink \in [Execs -> 0..MaxSinks] /\ routed \in [Execs -> 0..MaxSinks]
    /\ saved \in [Tasks -> 0..MaxSinks]
    /\ lost \subseteq 0..MaxSinks /\ orphaned \subseteq 0..MaxSinks
    /\ tap \in 0..MaxSinks /\ sinks \in 0..MaxSinks

Occurs(list, t) == {i \in DOMAIN list : list[i] = t}
Places(t) ==
    Cardinality(Occurs(queue[Home[t]], t)) + Cardinality(Occurs(parked[Home[t]], t))
    + Cardinality(UNION {{u} \X Occurs(again[u], t) : u \in Tasks})

\* Parking, swapping pending_tasks_ out and submitting again neither loses a
\* task nor runs it twice: one that waits is in one list, once.
EachTaskOnce ==
    \A t \in Tasks :
        /\ stage[t] \in {"queued", "parked"} => Places(t) = 1
        /\ stage[t] = "refused" => Places(t) <= 1
        /\ stage[t] \in Running \cup {"idle", "done"} => Places(t) = 0

RendersUnderWay == {t \in Tasks : stage[t] \in {"rendering", "returning"}}

\* "Generate a unique operation ID from the task ID for budget tracking": the
\* operations with a budget are the renders under way, one each. Each scheduler
\* numbers its tasks from 0, so two of them share a budget and lose it early.
BudgetsMatchRenders ==
    /\ DOMAIN budgets = {number[t] : t \in RendersUnderWay}
    /\ Cardinality(DOMAIN budgets) = Cardinality(RendersUnderWay)

\* "ensure budget is released on every exit path": whichever way the renders
\* end, and however many schedulers share the manager, no budget is left that
\* no render under way asked for; and two renders share one only if they are of
\* two schedulers.
BudgetsOfRenders ==
    /\ \A n \in DOMAIN budgets : \E t \in RendersUnderWay : number[t] = n
    /\ \A t, u \in RendersUnderWay : number[t] = number[u] /\ Home[t] = Home[u] => t = u

\* Together the renders under way are never granted more than the memory was
\* ever found to hold, in spite of renders admitted before any asked.
GrantsWithinMemory == \E r \in Readings : Budgeted <= r.grant

\* Whichever of its many ways out a task takes, its caller hears of it: a
\* callback was called or the promise was set.
EndsAnswered == \A t \in Tasks : stage[t] = "done" => answers[t] > 0

\* From Submit to its answer a task is somewhere, once.
TasksAccounted == TypeOK /\ EachTaskOnce /\ EndsAnswered

\* A thumbnail or an export that borrows the editor's executor never shows in
\* the editor, and the editor's sink is back when the lock is free; but for a
\* sink that a throw left detached, and for one that its editor could not detach
\* in time when it was destroyed, which stays.
SinkKept ==
    \A e \in Execs :
        IF lock[e] = Free
        THEN \/ sink[e] = routed[e]
             \/ sink[e] = NoSink /\ routed[e] \in lost
             \/ sink[e] \in orphaned /\ routed[e] = NoSink
        ELSE Diverts(lock[e]) => sink[e] = NoSink

\* "a race where the old viewer/scope-tap is destroyed while a render is still
\* referencing it": no executor and no task refers to a sink that is gone, save
\* where the editor gave up its wait for the lock.
NoDanglingSink ==
    /\ \A e \in Execs : sink[e] \in {NoSink, tap} \cup orphaned
    /\ \A t \in Tasks : saved[t] \in {NoSink, tap} \cup orphaned

\* The render parameters an executor has are the baseline or those of the task
\* that holds its lock, of a fast preview that has let it go, or of a task that
\* has thrown and whose handler has yet to reset them. (That handler, and a wait
\* for the lock that timed out, may reset them under the next task: an executor
\* is not serialized there.)
ParamsOfHolder ==
    \A e \in Execs :
        \/ params[e] \in {Baseline, lock[e]}
        \/ Kind[params[e]] = "fast" /\ stage[params[e]] \in {"unlocked", "done"}
        \/ stage[params[e]] = "unlocked" /\ outcome[params[e]] = "thrown"

\* What tasks that share an executor with each other and with an editor leave in
\* it: whose sink and whose parameters, with the exceptions the parts name. (The
\* backend preference is not among them: the CPU fallback leaves it changed.)
SinksAndParams == SinkKept /\ NoDanglingSink /\ ParamsOfHolder

\* A task that was submitted to the pool ends, whatever it waits for.
TaskEnds == \A t \in Tasks : stage[t] = "queued" ~> stage[t] = "done"

\* "Called when budget is released": a parked task is tried again when a task
\* of its scheduler that had a budget ends, however that one ends.
Returning(s) == \E u \in Tasks : Home[u] = s /\ stage[u] = "returning"
ParkedTriedAgain ==
    \A t \in Tasks : (stage[t] = "parked" /\ Returning(Home[t])) ~> stage[t] # "parked"
================================================================================
