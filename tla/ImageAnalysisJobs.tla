---------------------------- MODULE ImageAnalysisJobs ----------------------------
(***************************************************************************)
(* Remote image analysis (app/image_analysis_service.cpp): the jobs of the *)
(* services that share one ImageAnalysisInFlightGate, and the analysis     *)
(* renditions they ask ThumbnailService for.                               *)
(*                                                                         *)
(* A job has two threads.  The producer has each item rendered, encodes it *)
(* and hands it on through a bounded queue; the worker takes entries from  *)
(* the queue, wins the gate's slot for the paid call, and appends one      *)
(* result for each item.  Cancel runs on the caller's thread, step by step *)
(* beside both.  All jobs analyse the same images, so that a rendition's   *)
(* cancel token, which ThumbnailService keeps per image, is shared.        *)
(*                                                                         *)
(* The calls of the sidecar and the rendering are external: they answer    *)
(* whatever they like, and a rendering may never answer.                   *)
(***************************************************************************)
EXTENDS Naturals, Sequences, FiniteSets

CONSTANTS
    Jobs, NoJob,  \* NoJob: no request id
    Size,         \* how many items a job has
    Batch,        \* items of one call: kImageAnalysisBatchSize, or 1 unless kAnalyze
    Prefetch,     \* options.prefetch
    Secret,       \* do a job's options carry a credential's secret?
    MaxPrefetch,  \* kMaxImageAnalysisPrefetch
    Cancelable    \* bound: the jobs somebody may cancel

ASSUME JobsAssumption ==
    /\ NoJob \notin Jobs
    /\ Size \in [Jobs -> Nat] /\ Batch \in [Jobs -> Nat \ {0}]
    /\ Secret \in [Jobs -> BOOLEAN]
    /\ Prefetch \in Nat /\ MaxPrefetch \in Nat
    /\ Cancelable \subseteq Jobs
    /\ \A j \in Jobs : Batch[j] <= MaxPrefetch

Items(j)  == 1..Size[j]

\* The queue holds at least one call's worth of entries.
Capacity_Unclamped(j) == Prefetch
Capacity(j) ==
    IF Prefetch < Batch[j] THEN Batch[j]
    ELSE IF Prefetch > MaxPrefetch THEN MaxPrefetch ELSE Prefetch

\* The worker owns the slot of the gate from AcquireAndPublish to Release.
InSlot     == {"mark", "recheck", "send", "rpc", "unmark", "clear", "release",
               "undo", "undoUnmark"}
Published  == {"mark", "recheck", "send", "rpc", "unmark", "clear", "undo"}
Ended      == {"report", "reportEarly", "revokeLate", "done"}
WorkerAt   == {"new", "register", "spawn", "loop", "gate", "blocking", "waiting",
               "record", "join", "revoke"} \cup InSlot \cup Ended
ProducerAt == {"none", "next", "wait", "pushGood", "pushBad", "done"}
Verdicts   == {"analyzed", "failed", "canceled"}

VARIABLES
    worker,     \* where RunJob is
    producer,   \* where producer_body is
    next,       \* the item the producer is at
    rendition,  \* its request to ThumbnailService, by the state of its token
    thumb,      \* state->result of WaitForOneThumbnail
    queue,      \* PrefillQueue: entries [item, good]
    popped,     \* items taken from the queue
    held,       \* items of the call the worker is at
    answers,    \* results_: how many there are of an item
    verdict,    \* results_: the status of the last
    progress,   \* progress_
    cred,       \* the credential handle in the sidecar's vault; "left": given back in vain
    busy,       \* in_flight_ of the gate
    shown,      \* in_flight_request_id_: the job it belongs to
    mark,       \* am_in_flight_; "storing" before other threads see it
    canceled,   \* canceled_ and cancel_barrier_
    canceler,   \* where Cancel is
    pulled,     \* history: the items whose rendition another job's cancel reached
    asked,      \* history: the jobs whose call Cancel asked the sidecar to stop
    late        \* history: jobs that sent a call after a Cancel that asked to stop none

prodVars   == <<producer, next, rendition, thumb, pulled>>
resultVars == <<answers, verdict, progress>>
slotVars   == <<busy, shown, mark>>
cancelVars == <<canceled, canceler, asked>>
vars == <<worker, prodVars, queue, popped, held, resultVars, cred, slotVars, cancelVars, late>>

Each(x) == [j \in Jobs |-> x]

Init ==
    /\ worker = Each("new") /\ producer = Each("none") /\ next = Each(1)
    /\ rendition = Each("none") /\ thumb = Each("none")
    /\ queue = Each(<<>>) /\ popped = Each(0) /\ held = Each({})
    /\ answers = [j \in Jobs |-> [i \in Items(j) |-> 0]]
    /\ verdict = [j \in Jobs |-> [i \in Items(j) |-> "none"]]
    /\ progress = Each([v \in Verdicts |-> 0])
    /\ cred = Each("none") /\ pulled = Each({})
    /\ busy = FALSE /\ shown = NoJob /\ mark = Each("no")
    /\ canceled = Each(FALSE) /\ canceler = Each("idle") /\ asked = Each({})
    /\ late = {}

WorkerTo(j, from, to) == worker[j] = from /\ worker' = [worker EXCEPT ![j] = to]

\* AppendResult for the items of S, and their count in the progress.
AddResults(j, S, v) ==
    /\ answers' = [answers EXCEPT ![j] = [i \in Items(j) |-> IF i \in S THEN @[i] + 1 ELSE @[i]]]
    /\ verdict' = [verdict EXCEPT ![j] = [i \in Items(j) |-> IF i \in S THEN v ELSE @[i]]]
    /\ progress' = [progress EXCEPT ![j][v] = @ + Cardinality(S)]

-----------------------------------------------------------------------------
(* The analysis renditions of ThumbnailService.  Requests for an image share
   its token until the token is erased; a request is canceled when the token
   has moved since it was made. *)

\* CancelAnalysisRendition moves the token of an image, for whoever shares it.
MoveToken(i) ==
    [k \in Jobs |-> IF rendition[k] = "live" /\ next[k] = i THEN "moved" ELSE rendition[k]]

\* ReleaseAnalysisRendition erases the token: a later cancel misses who held it.
EraseToken_Moves(i) ==
    [k \in Jobs |-> IF rendition[k] = "live" /\ next[k] = i THEN "moved" ELSE rendition[k]]
EraseToken(i) ==
    [k \in Jobs |-> IF rendition[k] = "live" /\ next[k] = i THEN "orphan" ELSE rendition[k]]

\* The callback of a request.  A cancel may be too late for a rendering to see.
\* WaitForOneThumbnail takes the result unless it has abandoned the request.
Deliver(j, result) ==
    /\ rendition[j] # "none"
    /\ result = "canceled" => rendition[j] = "moved"
    /\ IF producer[j] = "wait"
       THEN /\ thumb' = [thumb EXCEPT ![j] = result]
            /\ rendition' = [rendition EXCEPT ![j] = "none"]
       ELSE /\ rendition' = [(IF result = "ready" THEN EraseToken(next[j]) ELSE rendition)
                               EXCEPT ![j] = "none"]
            /\ UNCHANGED thumb
    /\ UNCHANGED <<worker, producer, next, pulled, queue, popped, held, resultVars, cred, slotVars,
                   cancelVars, late>>

-----------------------------------------------------------------------------
(* The producer. *)

ProducerRest == UNCHANGED <<worker, popped, held, resultVars, cred, slotVars, cancelVars, late>>
ProducerTo(j, to) == producer' = [producer EXCEPT ![j] = to]

Request(j) ==
    /\ producer[j] = "next"
    /\ IF canceled[j] \/ next[j] > Size[j]
       THEN ProducerTo(j, "done") /\ UNCHANGED rendition
       ELSE ProducerTo(j, "wait") /\ rendition' = [rendition EXCEPT ![j] = "live"]
    /\ UNCHANGED <<next, thumb, pulled, queue>> /\ ProducerRest

\* Other jobs wait for the same image.
Sharers(j) == {k \in Jobs \ {j} : producer[k] = "wait" /\ rendition[k] # "none" /\ next[k] = next[j]}

\* WaitForOneThumbnail sees the cancel: it abandons the request and cancels it.
GiveUp(j) ==
    /\ producer[j] = "wait" /\ thumb[j] = "none" /\ canceled[j]
    /\ ProducerTo(j, "done") /\ rendition' = MoveToken(next[j])
    /\ pulled' = [k \in Jobs |-> IF k \in Sharers(j) THEN pulled[k] \cup {next[k]} ELSE pulled[k]]
    /\ UNCHANGED <<next, thumb, queue>> /\ ProducerRest

\* A rendition has come: encode it, and release it before it is handed on.
Prepare(j, encoded) ==
    /\ producer[j] = "wait" /\ thumb[j] # "none"
    /\ thumb' = [thumb EXCEPT ![j] = "none"]
    /\ IF canceled[j] \/ thumb[j] = "canceled"
       THEN ProducerTo(j, "done") /\ UNCHANGED rendition
       ELSE IF thumb[j] = "ready"
            THEN ProducerTo(j, IF encoded THEN "pushGood" ELSE "pushBad")
                 /\ rendition' = EraseToken(next[j])
            ELSE ProducerTo(j, "pushBad") /\ UNCHANGED rendition
    /\ UNCHANGED <<next, pulled, queue>> /\ ProducerRest

Push(j) ==
    /\ producer[j] \in {"pushGood", "pushBad"}
    /\ IF canceled[j] THEN ProducerTo(j, "done") /\ UNCHANGED <<next, queue>>
       ELSE /\ Len(queue[j]) < Capacity(j)
            /\ queue' = [queue EXCEPT ![j] =
                            Append(@, [item |-> next[j], good |-> producer[j] = "pushGood"])]
            /\ next' = [next EXCEPT ![j] = @ + 1] /\ ProducerTo(j, "next")
    /\ UNCHANGED <<rendition, thumb, pulled>> /\ ProducerRest

Produce(j) ==
    \/ Request(j) \/ GiveUp(j) \/ Push(j)
    \/ \E encoded \in BOOLEAN : Prepare(j, encoded)

-----------------------------------------------------------------------------
(* The worker: RunJob. *)

StartAnalysis(j) ==
    /\ WorkerTo(j, "new", "register")
    /\ UNCHANGED <<prodVars, queue, popped, held, resultVars, cred, slotVars, cancelVars, late>>

\* RegisterCredential, when the options carry a secret.
Register(j, registered) ==
    /\ worker[j] = "register"
    /\ IF registered
       THEN WorkerTo(j, "register", "spawn") /\ UNCHANGED resultVars
       ELSE /\ Secret[j] /\ WorkerTo(j, "register", "report")
            /\ AddResults(j, Items(j), "failed")
    /\ cred' = [cred EXCEPT ![j] = IF Secret[j] /\ registered THEN "live" ELSE "none"]
    /\ UNCHANGED <<prodVars, queue, popped, held, slotVars, cancelVars, late>>

\* The system may have no thread left for the producer.
Spawn(j, spawned) ==
    /\ worker[j] = "spawn"
    /\ IF spawned
       THEN WorkerTo(j, "spawn", "loop") /\ ProducerTo(j, "next") /\ UNCHANGED resultVars
       ELSE /\ WorkerTo(j, "spawn", "reportEarly") /\ AddResults(j, Items(j), "failed")
            /\ UNCHANGED producer
    /\ UNCHANGED <<next, rendition, thumb, pulled, queue, popped, held, cred, slotVars, cancelVars, late>>

WorkerRest == UNCHANGED <<prodVars, cred, cancelVars>>

\* Pop or PopBatch: a whole batch, or what is left once the producer is done.
Take(j, c) ==
    LET entries == {queue[j][n] : n \in 1..c}
    IN  /\ AddResults(j, {e.item : e \in {f \in entries : ~f.good}}, "failed")
        /\ held' = [held EXCEPT ![j] = {e.item : e \in {f \in entries : f.good}}]
        /\ queue' = [queue EXCEPT ![j] = SubSeq(@, c + 1, Len(@))]
        /\ popped' = [popped EXCEPT ![j] = @ + c]
        /\ WorkerTo(j, "loop", IF \E e \in entries : e.good THEN "gate" ELSE "loop")

Consume(j) ==
    /\ worker[j] = "loop"
    /\ IF canceled[j] \/ popped[j] >= Size[j] \/ (producer[j] = "done" /\ queue[j] = <<>>)
       THEN WorkerTo(j, "loop", "join") /\ UNCHANGED <<queue, popped, held, resultVars>>
       ELSE \/ Len(queue[j]) >= Batch[j] /\ Take(j, Batch[j])
            \/ /\ producer[j] = "done" /\ Len(queue[j]) < Batch[j]
               /\ Take(j, Len(queue[j]))
    /\ UNCHANGED <<slotVars, late>> /\ WorkerRest

\* A waiter that is about to block still holds the gate's mutex.
GateFree == \A j \in Jobs : worker[j] # "blocking"

\* AcquireAndPublish evaluates its predicate.
TryGate(j) ==
    /\ worker[j] = "gate" /\ GateFree
    /\ IF canceled[j]
       THEN /\ AddResults(j, held[j], "canceled") /\ held' = [held EXCEPT ![j] = {}]
            /\ WorkerTo(j, "gate", "loop") /\ UNCHANGED <<busy, shown>>
       ELSE IF busy
            THEN WorkerTo(j, "gate", "blocking") /\ UNCHANGED <<resultVars, held, busy, shown>>
            ELSE /\ WorkerTo(j, "gate", "mark") /\ busy' = TRUE /\ shown' = j
                 /\ UNCHANGED <<resultVars, held>>
    /\ UNCHANGED <<mark, queue, popped, late>> /\ WorkerRest

SlotStep(j, from, to) ==
    WorkerTo(j, from, to) /\ UNCHANGED <<queue, popped, held, resultVars>> /\ WorkerRest

Block(j) == SlotStep(j, "blocking", "waiting") /\ UNCHANGED <<slotVars, late>>

\* am_in_flight_ is stored and canceled_ loaded with release and acquire order
\* only: the load may come before other threads see the store.
MarkInFlight(j) ==
    SlotStep(j, "mark", "recheck") /\ mark' = [mark EXCEPT ![j] = "storing"]
    /\ UNCHANGED <<busy, shown, late>>
Rechecked_Late(j) == "send"
Rechecked(j) == IF canceled[j] THEN "undo" ELSE "send"
Recheck(j) == SlotStep(j, "recheck", Rechecked(j)) /\ UNCHANGED <<slotVars, late>>
Send(j) ==
    /\ SlotStep(j, "send", "rpc") /\ mark' = [mark EXCEPT ![j] = "yes"]
    /\ late' = IF canceler[j] \in {"done", "missed"} /\ j \notin asked[j]
               THEN late \cup {j} ELSE late
    /\ UNCHANGED <<busy, shown>>
Return(j) == SlotStep(j, "rpc", "unmark") /\ UNCHANGED <<slotVars, late>>

Unmark(j) ==
    /\ SlotStep(j, "unmark", "clear") \/ SlotStep(j, "undoUnmark", "release")
    /\ mark' = [mark EXCEPT ![j] = "no"] /\ UNCHANGED <<busy, shown, late>>
ClearRequestId(j) ==
    /\ GateFree /\ (SlotStep(j, "clear", "release") \/ SlotStep(j, "undo", "undoUnmark"))
    /\ shown' = NoJob /\ UNCHANGED <<busy, mark, late>>
Wake(w) == [k \in Jobs |-> IF w[k] = "waiting" THEN "gate" ELSE w[k]]
Release(j) ==
    /\ GateFree /\ worker[j] = "release" /\ busy' = FALSE
    /\ worker' = Wake([worker EXCEPT ![j] = "record"])
    /\ UNCHANGED <<queue, popped, held, resultVars, shown, mark, late>> /\ WorkerRest

\* The call's results, one by one; the cancel is looked at for each.
Record(j, v) ==
    /\ worker[j] = "record" /\ (v = "canceled" <=> canceled[j])
    /\ \E i \in held[j] :
          /\ \A k \in held[j] : i <= k
          /\ AddResults(j, {i}, v) /\ held' = [held EXCEPT ![j] = @ \ {i}]
          /\ worker' = [worker EXCEPT ![j] = IF held[j] = {i} THEN "loop" ELSE "record"]
    /\ UNCHANGED <<queue, popped, slotVars, late>> /\ WorkerRest

\* Join the producer; what was never taken from the queue is canceled.
Untaken_OneMore(j) == {i \in Items(j) : i >= popped[j]}
Untaken(j) == {i \in Items(j) : i > popped[j]}
Finalized_ByGuard == "reportEarly"
Finalized == "revoke"
JoinProducer(j) ==
    /\ producer[j] = "done" /\ WorkerTo(j, "join", Finalized)
    /\ AddResults(j, Untaken(j), "canceled")
    /\ UNCHANGED <<queue, popped, held, slotVars, late>> /\ WorkerRest

\* RevokeCredential before on_finished, or by the guard when RunJob returns.  It does
\* nothing when the sidecar is not ready, and when it fails there is only a warning.
Revoke(j, revoked) ==
    /\ WorkerTo(j, "revoke", "report") \/ WorkerTo(j, "revokeLate", "done")
    /\ cred' = [cred EXCEPT ![j] = IF @ = "none" THEN @ ELSE IF revoked THEN "revoked" ELSE "left"]
    /\ UNCHANGED <<prodVars, queue, popped, held, resultVars, slotVars, cancelVars, late>>

\* on_finished, then Finish.
Report(j) ==
    /\ WorkerTo(j, "report", "done") \/ WorkerTo(j, "reportEarly", "revokeLate")
    /\ UNCHANGED <<prodVars, queue, popped, held, resultVars, cred, slotVars, cancelVars, late>>

RunJob(j) ==
    \/ \E ok \in BOOLEAN : Register(j, ok) \/ Spawn(j, ok) \/ Revoke(j, ok)
    \/ Consume(j) \/ TryGate(j) \/ Block(j)
    \/ MarkInFlight(j) \/ Recheck(j) \/ Send(j) \/ Return(j)
    \/ Unmark(j) \/ ClearRequestId(j) \/ Release(j)
    \/ \E v \in Verdicts : Record(j, v)
    \/ JoinProducer(j) \/ Report(j)

\* Other threads see the store to am_in_flight_.
StoreSeen(j) ==
    /\ mark[j] = "storing" /\ mark' = [mark EXCEPT ![j] = "yes"]
    /\ UNCHANGED <<worker, prodVars, queue, popped, held, resultVars, cred, busy, shown,
                   cancelVars, late>>

-----------------------------------------------------------------------------
(* ImageAnalysisJob::Cancel, on the thread of its caller. *)

CancelRest == UNCHANGED <<prodVars, queue, popped, held, resultVars, cred, slotVars, late>>
CancelerTo(j, from, to) == canceler[j] = from /\ canceler' = [canceler EXCEPT ![j] = to]

Cancel(j) ==
    /\ j \in Cancelable /\ worker[j] # "new" /\ CancelerTo(j, "idle", "notify")
    /\ canceled' = [canceled EXCEPT ![j] = TRUE]
    /\ UNCHANGED <<worker, asked>> /\ CancelRest
\* NotifyAll without the gate's mutex: it misses a waiter about to block.
NotifyGate(j) ==
    /\ CancelerTo(j, "notify", "look") /\ worker' = Wake(worker)
    /\ UNCHANGED <<canceled, asked>> /\ CancelRest
\* A store to am_in_flight_ that is not seen yet is missed.
LookInFlight(j) ==
    /\ CancelerTo(j, "look", CASE mark[j] = "yes" -> "ask" [] mark[j] = "no" -> "done"
                               [] mark[j] = "storing" -> "missed")
    /\ UNCHANGED <<worker, canceled, asked>> /\ CancelRest
CancelTask(j) ==
    /\ GateFree /\ CancelerTo(j, "ask", "done")
    /\ asked' = [asked EXCEPT ![j] = @ \cup ({shown} \ {NoJob})]
    /\ UNCHANGED <<worker, canceled>> /\ CancelRest

CancelStep(j) == NotifyGate(j) \/ LookInFlight(j) \/ CancelTask(j)

-----------------------------------------------------------------------------
Delivery(j) == \E result \in {"ready", "error", "canceled"} : Deliver(j, result)

Next ==
    \E j \in Jobs :
        \/ StartAnalysis(j) \/ RunJob(j) \/ Produce(j) \/ Delivery(j) \/ StoreSeen(j)
        \/ Cancel(j) \/ CancelStep(j)

Spec == Init /\ [][Next]_vars

\* Threads run, the calls of the sidecar answer, by their time limit at the latest,
\* and a started Cancel goes on; nobody has to start or cancel.  A rendition has no
\* time limit, and the scheduler may have parked its task: nothing says that it comes.
FairSpec ==
    /\ Spec
    /\ \A j \in Jobs : WF_vars(RunJob(j)) /\ WF_vars(Produce(j)) /\ WF_vars(CancelStep(j))

-----------------------------------------------------------------------------
\* Every variable keeps its type.
TypeOK ==
    /\ worker \in [Jobs -> WorkerAt] /\ producer \in [Jobs -> ProducerAt]
    /\ next \in [Jobs -> Nat \ {0}]
    /\ rendition \in [Jobs -> {"none", "live", "moved", "orphan"}]
    /\ thumb \in [Jobs -> {"none", "ready", "error", "canceled"}]
    /\ queue \in [Jobs -> Seq([item : Nat \ {0}, good : BOOLEAN])]
    /\ popped \in [Jobs -> Nat] /\ held \in [Jobs -> SUBSET (Nat \ {0})]
    /\ DOMAIN answers = Jobs /\ \A j \in Jobs : answers[j] \in [Items(j) -> Nat]
    /\ DOMAIN verdict = Jobs /\ \A j \in Jobs : verdict[j] \in [Items(j) -> Verdicts \cup {"none"}]
    /\ progress \in [Jobs -> [Verdicts -> Nat]]
    /\ cred \in [Jobs -> {"none", "live", "revoked", "left"}]
    /\ pulled \in [Jobs -> SUBSET (Nat \ {0})]
    /\ busy \in BOOLEAN /\ shown \in Jobs \cup {NoJob} /\ mark \in [Jobs -> {"no", "storing", "yes"}]
    /\ canceled \in [Jobs -> BOOLEAN]
    /\ canceler \in [Jobs -> {"idle", "notify", "look", "ask", "done", "missed"}]
    /\ asked \in [Jobs -> SUBSET Jobs] /\ late \subseteq Jobs

\* "every input item gets exactly one result": never two of one item, none
\* missing when on_finished is called, and the progress counts the same ones.
OneResultEach ==
    \A j \in Jobs :
        /\ \A i \in Items(j) : answers[j][i] <= 1
        /\ worker[j] \in Ended =>
              /\ \A i \in Items(j) : answers[j][i] = 1
              /\ \A v \in Verdicts :
                    progress[j][v] = Cardinality({i \in Items(j) : verdict[j][i] = v})

\* At most one remote call is out over all jobs, and while a job has the slot
\* the gate shows that job's request.
OneCallAtATime ==
    \A j \in Jobs :
        /\ worker[j] \in InSlot =>
              busy /\ \A k \in Jobs \ {j} : worker[k] \notin InSlot
        /\ worker[j] \in Published => shown = j

\* The same, of variables that have their types.
ResultsComplete == TypeOK /\ OneResultEach

\* An item is reported as canceled only if its job was canceled, or if the cancel
\* of another job reached the rendition of this item or of one before it, while both
\* jobs waited for that image: no other cancel of one job reaches the other's items.
CanceledForAReason ==
    \A j \in Jobs : \A i \in Items(j) :
        verdict[j][i] = "canceled" => canceled[j] \/ \E m \in pulled[j] : m <= i

\* "What prevents the paid provider call from going out after a cancel that sent
\* no CancelTask" is the second look at the flag.  It does, except when Cancel
\* looked at am_in_flight_ before it could see the store that the worker made.
SilentCancelStopsCalls == \A j \in late : canceler[j] = "missed"

\* What the gate and the flags are for: the paid calls go out one by one, and none
\* after a cancel that believed there was none to stop.
CallDiscipline == OneCallAtATime /\ SilentCancelStopsCalls

\* "Revoke the credential BEFORE signaling finish": when a job reports it has tried
\* to give its credential back, unless the producer could not be started; and not
\* sooner: a paid call goes out with a credential nobody has tried to revoke.
RevokedOnceBetween ==
    \A j \in Jobs :
        /\ worker[j] \in Ended /\ cred[j] = "live" => producer[j] = "none"
        /\ worker[j] \in {"send", "rpc"} /\ Secret[j] => cred[j] = "live"

\* The renditions the producer of a job waits for come, or the job is canceled.
RenditionsCome(j) == []<>(producer[j] # "wait" \/ thumb[j] # "none")

\* A job that is canceled ends, whatever it waits for.  Another ends if its own
\* renditions come: a job that hangs on one keeps no other job from ending.
JobsFinish ==
    \A j \in Jobs :
        /\ canceled[j] ~> worker[j] = "done"
        /\ RenditionsCome(j) => (worker[j] = "register" ~> worker[j] = "done")
================================================================================
