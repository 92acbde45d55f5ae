------------------------ MODULE ImageAnalysisJobs_proofs ------------------------
(* What TLAPS proves of ImageAnalysisJobs, for any number of jobs and items.     *)
EXTENDS ImageAnalysisJobs, FiniteSetTheorems, TLAPS

Renditions == {"none", "live", "moved", "orphan"}
Results    == {"none", "ready", "error", "canceled"}
Cancelers  == {"idle", "notify", "look", "ask", "done", "missed"}
Entries    == [item : Nat \ {0}, good : BOOLEAN]

ControlTypes ==
    /\ worker \in [Jobs -> WorkerAt] /\ producer \in [Jobs -> ProducerAt]
    /\ next \in [Jobs -> Nat \ {0}]
    /\ rendition \in [Jobs -> Renditions] /\ thumb \in [Jobs -> Results]
    /\ cred \in [Jobs -> {"none", "live", "revoked", "left"}]
    /\ pulled \in [Jobs -> SUBSET (Nat \ {0})]
    /\ busy \in BOOLEAN /\ shown \in Jobs \cup {NoJob}
    /\ mark \in [Jobs -> {"no", "storing", "yes"}]
    /\ canceled \in [Jobs -> BOOLEAN] /\ canceler \in [Jobs -> Cancelers]
    /\ asked \in [Jobs -> SUBSET Jobs] /\ late \subseteq Jobs

--------------------------------------------------------------------------------
LEMMA InitControl == Init => ControlTypes
<1> SUFFICES ASSUME Init PROVE ControlTypes
  OBVIOUS
<1>1. worker \in [Jobs -> WorkerAt] /\ producer \in [Jobs -> ProducerAt]
  BY DEF Init, Each, WorkerAt, ProducerAt
<1>2. /\ next \in [Jobs -> Nat \ {0}]
      /\ asked \in [Jobs -> SUBSET Jobs] /\ late \subseteq Jobs
  BY DEF Init, Each
<1>3. rendition \in [Jobs -> Renditions] /\ thumb \in [Jobs -> Results]
  BY DEF Init, Each, Renditions, Results
<1>4. /\ cred \in [Jobs -> {"none", "live", "revoked", "left"}]
      /\ mark \in [Jobs -> {"no", "storing", "yes"}] /\ pulled \in [Jobs -> SUBSET (Nat \ {0})]
  BY DEF Init, Each
<1>5. canceled \in [Jobs -> BOOLEAN] /\ canceler \in [Jobs -> Cancelers]
  BY DEF Init, Each, Cancelers
<1>6. busy \in BOOLEAN /\ shown \in Jobs \cup {NoJob}
  BY DEF Init
<1> QED
  BY <1>1, <1>2, <1>3, <1>4, <1>5, <1>6 DEF ControlTypes

LEMMA StepControl == ControlTypes /\ [Next]_vars => ControlTypes'
<1> SUFFICES ASSUME ControlTypes, [Next]_vars PROVE ControlTypes'
  OBVIOUS
<1> USE JobsAssumption DEF ControlTypes, WorkerAt, InSlot, Ended, ProducerAt, Renditions,
      Results, Cancelers
<1>1. ASSUME NEW j \in Jobs, StartAnalysis(j) PROVE ControlTypes'
  BY <1>1 DEF StartAnalysis, WorkerTo, prodVars, resultVars, slotVars, cancelVars
<1>2. ASSUME NEW j \in Jobs, NEW ok \in BOOLEAN, Register(j, ok) PROVE ControlTypes'
  BY <1>2 DEF Register, WorkerTo, prodVars, resultVars, slotVars, cancelVars
<1>3. ASSUME NEW j \in Jobs, NEW ok \in BOOLEAN, Spawn(j, ok) PROVE ControlTypes'
  BY <1>3 DEF Spawn, WorkerTo, ProducerTo, prodVars, resultVars, slotVars, cancelVars
<1>4. ASSUME NEW j \in Jobs, Consume(j) PROVE ControlTypes'
  <2>1. \E to \in {"join", "gate", "loop"} : worker' = [worker EXCEPT ![j] = to]
    BY <1>4 DEF Consume, Take, WorkerTo
  <2>3. UNCHANGED <<slotVars, late, prodVars, cred, cancelVars>>
    BY <1>4 DEF Consume, WorkerRest
  <2> QED
    BY <2>1, <2>3 DEF prodVars, slotVars, cancelVars
<1>5. ASSUME NEW j \in Jobs, TryGate(j) PROVE ControlTypes'
  <2>1. \E to \in {"loop", "blocking", "mark"} : worker' = [worker EXCEPT ![j] = to]
    BY <1>5 DEF TryGate, WorkerTo
  <2>2. busy' \in BOOLEAN /\ shown' \in Jobs \cup {NoJob}
    BY <1>5 DEF TryGate
  <2>3. UNCHANGED <<mark, late, prodVars, cred, cancelVars>>
    BY <1>5 DEF TryGate, WorkerRest
  <2> QED
    BY <2>1, <2>2, <2>3 DEF prodVars, cancelVars
<1>6. ASSUME NEW j \in Jobs, Block(j) PROVE ControlTypes'
  BY <1>6 DEF Block, SlotStep, WorkerTo, WorkerRest, prodVars, resultVars, slotVars,
     cancelVars
<1>7. ASSUME NEW j \in Jobs, MarkInFlight(j) PROVE ControlTypes'
  BY <1>7 DEF MarkInFlight, SlotStep, WorkerTo, WorkerRest, prodVars, resultVars,
     slotVars, cancelVars
<1>8. ASSUME NEW j \in Jobs, Recheck(j) PROVE ControlTypes'
  BY <1>8 DEF Recheck, Rechecked, SlotStep, WorkerTo, WorkerRest, prodVars, resultVars,
     slotVars, cancelVars
<1>9. ASSUME NEW j \in Jobs, Send(j) PROVE ControlTypes'
  BY <1>9 DEF Send, SlotStep, WorkerTo, WorkerRest, prodVars, resultVars, slotVars,
     cancelVars
<1>10. ASSUME NEW j \in Jobs, Return(j) PROVE ControlTypes'
  BY <1>10 DEF Return, SlotStep, WorkerTo, WorkerRest, prodVars, resultVars, slotVars,
     cancelVars
<1>11. ASSUME NEW j \in Jobs, Unmark(j) PROVE ControlTypes'
  BY <1>11 DEF Unmark, SlotStep, WorkerTo, WorkerRest, prodVars, resultVars, slotVars,
     cancelVars
<1>12. ASSUME NEW j \in Jobs, ClearRequestId(j) PROVE ControlTypes'
  BY <1>12 DEF ClearRequestId, SlotStep, WorkerTo, WorkerRest, prodVars, resultVars,
     slotVars, cancelVars
<1>13. ASSUME NEW j \in Jobs, Release(j) PROVE ControlTypes'
  BY <1>13 DEF Release, Wake, WorkerRest, prodVars, resultVars, slotVars, cancelVars
<1>14. ASSUME NEW j \in Jobs, NEW v \in Verdicts, Record(j, v) PROVE ControlTypes'
  BY <1>14 DEF Record, WorkerRest, prodVars, resultVars, slotVars, cancelVars
<1>15. ASSUME NEW j \in Jobs, JoinProducer(j) PROVE ControlTypes'
  BY <1>15 DEF JoinProducer, WorkerTo, WorkerRest, Finalized, prodVars, resultVars,
     slotVars, cancelVars
<1>16. ASSUME NEW j \in Jobs, NEW ok \in BOOLEAN, Revoke(j, ok) PROVE ControlTypes'
  BY <1>16 DEF Revoke, WorkerTo, prodVars, resultVars, slotVars, cancelVars
<1>17. ASSUME NEW j \in Jobs, Report(j) PROVE ControlTypes'
  BY <1>17 DEF Report, WorkerTo, prodVars, resultVars, slotVars, cancelVars
<1>18. ASSUME NEW j \in Jobs, Request(j) PROVE ControlTypes'
  BY <1>18 DEF Request, ProducerTo, ProducerRest, prodVars, resultVars, slotVars,
     cancelVars
<1>19. ASSUME NEW j \in Jobs, GiveUp(j) PROVE ControlTypes'
  BY <1>19 DEF GiveUp, ProducerTo, ProducerRest, MoveToken, prodVars, resultVars,
     slotVars, cancelVars
<1>20. ASSUME NEW j \in Jobs, NEW e \in BOOLEAN, Prepare(j, e) PROVE ControlTypes'
  <2>1. producer' \in [Jobs -> ProducerAt] /\ thumb' \in [Jobs -> Results]
    BY <1>20 DEF Prepare, ProducerTo
  <2>2. rendition' \in [Jobs -> Renditions]
    BY <1>20 DEF Prepare, EraseToken
  <2>3. UNCHANGED <<next, pulled, worker, cred, slotVars, cancelVars, late>>
    BY <1>20 DEF Prepare, ProducerRest
  <2> QED
    BY <2>1, <2>2, <2>3 DEF slotVars, cancelVars
<1>21. ASSUME NEW j \in Jobs, Push(j) PROVE ControlTypes'
  <2>1. \E to \in {"done", "next"} : producer' = [producer EXCEPT ![j] = to]
    BY <1>21 DEF Push, ProducerTo
  <2>2. next' \in [Jobs -> Nat \ {0}]
    BY <1>21 DEF Push
  <2>3. UNCHANGED <<rendition, thumb, pulled, worker, cred, slotVars, cancelVars, late>>
    BY <1>21 DEF Push, ProducerRest
  <2>4. producer' \in [Jobs -> ProducerAt]
    BY <2>1
  <2> QED
    BY <2>2, <2>3, <2>4 DEF slotVars, cancelVars
<1>22. ASSUME NEW j \in Jobs, NEW r \in {"ready", "error", "canceled"}, Deliver(j, r)
       PROVE  ControlTypes'
  <2>1. rendition' \in [Jobs -> Renditions]
    <3>1. EraseToken(next[j]) \in [Jobs -> Renditions]
      BY DEF EraseToken
    <3> QED
      BY <3>1, <1>22 DEF Deliver
  <2>2. thumb' \in [Jobs -> Results]
    BY <1>22 DEF Deliver
  <2>3. UNCHANGED <<worker, producer, next, pulled, cred, slotVars, cancelVars, late>>
    BY <1>22 DEF Deliver
  <2> QED
    BY <2>1, <2>2, <2>3 DEF slotVars, cancelVars
<1>23. ASSUME NEW j \in Jobs, StoreSeen(j) PROVE ControlTypes'
  BY <1>23 DEF StoreSeen, prodVars, resultVars, slotVars, cancelVars
<1>24. ASSUME NEW j \in Jobs, Cancel(j) PROVE ControlTypes'
  BY <1>24 DEF Cancel, CancelerTo, CancelRest, prodVars, resultVars, slotVars,
     cancelVars
<1>25. ASSUME NEW j \in Jobs, NotifyGate(j) PROVE ControlTypes'
  BY <1>25 DEF NotifyGate, CancelerTo, CancelRest, Wake, prodVars, resultVars, slotVars,
     cancelVars
<1>26. ASSUME NEW j \in Jobs, LookInFlight(j) PROVE ControlTypes'
  BY <1>26 DEF LookInFlight, CancelerTo, CancelRest, prodVars, resultVars, slotVars,
     cancelVars
<1>27. ASSUME NEW j \in Jobs, CancelTask(j) PROVE ControlTypes'
  BY <1>27 DEF CancelTask, CancelerTo, CancelRest, prodVars, resultVars, slotVars,
     cancelVars
<1>28. CASE UNCHANGED vars
  BY <1>28 DEF vars, prodVars, resultVars, slotVars, cancelVars
<1> QED
  BY <1>1, <1>2, <1>3, <1>4, <1>5, <1>6, <1>7, <1>8, <1>9, <1>10, <1>11, <1>12, <1>13,
     <1>14, <1>15, <1>16, <1>17, <1>18, <1>19, <1>20, <1>21, <1>22, <1>23, <1>24, <1>25,
     <1>26, <1>27, <1>28 DEF Next, RunJob, Produce, Delivery, CancelStep


--------------------------------------------------------------------------------
(* The calls: who has the slot, what it has shown, who was asked to stop.          *)
CallInv ==
    /\ OneCallAtATime
    /\ SilentCancelStopsCalls
    /\ \A j \in Jobs :
          /\ worker[j] \in {"recheck", "send"} => mark[j] \in {"storing", "yes"}
          /\ canceled[j] <=> canceler[j] # "idle"
          /\ worker[j] = "send" /\ canceler[j] = "done" => j \in asked[j]

LEMMA InitCall == Init => CallInv
  BY DEF Init, CallInv, OneCallAtATime, SilentCancelStopsCalls, Each, InSlot, Published

LEMMA StepCall == ControlTypes /\ CallInv /\ [Next]_vars => CallInv'
<1> SUFFICES ASSUME ControlTypes, CallInv, [Next]_vars PROVE CallInv'
  OBVIOUS
<1> USE JobsAssumption DEF ControlTypes, CallInv, OneCallAtATime, SilentCancelStopsCalls,
      WorkerAt, InSlot, Published
<1>1. ASSUME NEW j \in Jobs, StartAnalysis(j) PROVE CallInv'
  BY <1>1 DEF StartAnalysis, WorkerTo, prodVars, resultVars, slotVars, cancelVars
<1>2. ASSUME NEW j \in Jobs, NEW ok \in BOOLEAN, Register(j, ok) PROVE CallInv'
  BY <1>2 DEF Register, WorkerTo, prodVars, resultVars, slotVars, cancelVars
<1>3. ASSUME NEW j \in Jobs, NEW ok \in BOOLEAN, Spawn(j, ok) PROVE CallInv'
  BY <1>3 DEF Spawn, WorkerTo, ProducerTo, prodVars, resultVars, slotVars, cancelVars
<1>4. ASSUME NEW j \in Jobs, Consume(j) PROVE CallInv'
  <2>1. \E to \in {"join", "gate", "loop"} : worker' = [worker EXCEPT ![j] = to]
    BY <1>4 DEF Consume, Take, WorkerTo
  <2>2. UNCHANGED <<slotVars, late, cancelVars>> /\ worker[j] = "loop"
    BY <1>4 DEF Consume, WorkerRest
  <2> QED
    BY <2>1, <2>2 DEF slotVars, cancelVars
<1>5. ASSUME NEW j \in Jobs, TryGate(j) PROVE CallInv'
  BY <1>5 DEF TryGate, WorkerTo, WorkerRest, prodVars, resultVars, slotVars, cancelVars
<1>6. ASSUME NEW j \in Jobs, Block(j) PROVE CallInv'
  BY <1>6 DEF Block, SlotStep, WorkerTo, WorkerRest, prodVars, resultVars, slotVars,
     cancelVars
<1>7. ASSUME NEW j \in Jobs, MarkInFlight(j) PROVE CallInv'
  BY <1>7 DEF MarkInFlight, SlotStep, WorkerTo, WorkerRest, prodVars, resultVars,
     slotVars, cancelVars
<1>8. ASSUME NEW j \in Jobs, Recheck(j) PROVE CallInv'
  BY <1>8 DEF Recheck, Rechecked, SlotStep, WorkerTo, WorkerRest, prodVars, resultVars,
     slotVars, cancelVars
<1>9. ASSUME NEW j \in Jobs, Send(j) PROVE CallInv'
  BY <1>9 DEF Send, SlotStep, WorkerTo, WorkerRest, prodVars, resultVars, slotVars,
     cancelVars
<1>10. ASSUME NEW j \in Jobs, Return(j) PROVE CallInv'
  BY <1>10 DEF Return, SlotStep, WorkerTo, WorkerRest, prodVars, resultVars, slotVars,
     cancelVars
<1>11. ASSUME NEW j \in Jobs, Unmark(j) PROVE CallInv'
  BY <1>11 DEF Unmark, SlotStep, WorkerTo, WorkerRest, prodVars, resultVars, slotVars,
     cancelVars
<1>12. ASSUME NEW j \in Jobs, ClearRequestId(j) PROVE CallInv'
  BY <1>12 DEF ClearRequestId, SlotStep, WorkerTo, WorkerRest, prodVars, resultVars,
     slotVars, cancelVars
<1>13. ASSUME NEW j \in Jobs, Release(j) PROVE CallInv'
  BY <1>13 DEF Release, Wake, WorkerRest, prodVars, resultVars, slotVars, cancelVars
<1>14. ASSUME NEW j \in Jobs, NEW v \in Verdicts, Record(j, v) PROVE CallInv'
  BY <1>14 DEF Record, WorkerRest, prodVars, resultVars, slotVars, cancelVars
<1>15. ASSUME NEW j \in Jobs, JoinProducer(j) PROVE CallInv'
  BY <1>15 DEF JoinProducer, WorkerTo, WorkerRest, Finalized, prodVars, resultVars,
     slotVars, cancelVars
<1>16. ASSUME NEW j \in Jobs, NEW ok \in BOOLEAN, Revoke(j, ok) PROVE CallInv'
  BY <1>16 DEF Revoke, WorkerTo, prodVars, resultVars, slotVars, cancelVars
<1>17. ASSUME NEW j \in Jobs, Report(j) PROVE CallInv'
  BY <1>17 DEF Report, WorkerTo, prodVars, resultVars, slotVars, cancelVars
<1>18. ASSUME NEW j \in Jobs, Request(j) PROVE CallInv'
  BY <1>18 DEF Request, ProducerTo, ProducerRest, prodVars, resultVars, slotVars,
     cancelVars
<1>19. ASSUME NEW j \in Jobs, GiveUp(j) PROVE CallInv'
  BY <1>19 DEF GiveUp, ProducerTo, ProducerRest, MoveToken, prodVars, resultVars,
     slotVars, cancelVars
<1>20. ASSUME NEW j \in Jobs, NEW e \in BOOLEAN, Prepare(j, e) PROVE CallInv'
  BY <1>20 DEF Prepare, ProducerTo, ProducerRest, EraseToken, prodVars, resultVars,
     slotVars, cancelVars
<1>21. ASSUME NEW j \in Jobs, Push(j) PROVE CallInv'
  BY <1>21 DEF Push, ProducerTo, ProducerRest, prodVars, resultVars, slotVars,
     cancelVars
<1>22. ASSUME NEW j \in Jobs, NEW r \in {"ready", "error", "canceled"}, Deliver(j, r)
       PROVE  CallInv'
  BY <1>22 DEF Deliver, EraseToken, prodVars, resultVars, slotVars, cancelVars
<1>23. ASSUME NEW j \in Jobs, StoreSeen(j) PROVE CallInv'
  BY <1>23 DEF StoreSeen, prodVars, resultVars, slotVars, cancelVars
<1>24. ASSUME NEW j \in Jobs, Cancel(j) PROVE CallInv'
  BY <1>24 DEF Cancel, CancelerTo, CancelRest, prodVars, resultVars, slotVars,
     cancelVars
<1>25. ASSUME NEW j \in Jobs, NotifyGate(j) PROVE CallInv'
  BY <1>25 DEF NotifyGate, CancelerTo, CancelRest, Wake, prodVars, resultVars, slotVars,
     cancelVars
<1>26. ASSUME NEW j \in Jobs, LookInFlight(j) PROVE CallInv'
  BY <1>26 DEF LookInFlight, CancelerTo, CancelRest, prodVars, resultVars, slotVars,
     cancelVars
<1>27. ASSUME NEW j \in Jobs, CancelTask(j) PROVE CallInv'
  BY <1>27 DEF CancelTask, CancelerTo, CancelRest, prodVars, resultVars, slotVars,
     cancelVars
<1>28. CASE UNCHANGED vars
  BY <1>28 DEF vars, prodVars, resultVars, slotVars, cancelVars
<1> QED
  BY <1>1, <1>2, <1>3, <1>4, <1>5, <1>6, <1>7, <1>8, <1>9, <1>10, <1>11, <1>12, <1>13,
     <1>14, <1>15, <1>16, <1>17, <1>18, <1>19, <1>20, <1>21, <1>22, <1>23, <1>24, <1>25,
     <1>26, <1>27, <1>28 DEF Next, RunJob, Produce, Delivery, CancelStep


--------------------------------------------------------------------------------
(* The credential.                                                                 *)
RevokeInv ==
    /\ RevokedOnceBetween
    /\ \A j \in Jobs :
          /\ worker[j] \in {"new", "register", "spawn"} => producer[j] = "none"
          /\ worker[j] \notin {"new", "register", "report", "done"} /\ Secret[j] => cred[j] = "live"

LEMMA InitRevoke == Init => RevokeInv
  BY DEF Init, RevokeInv, RevokedOnceBetween, Each, Ended

LEMMA StepRevoke == ControlTypes /\ RevokeInv /\ [Next]_vars => RevokeInv'
<1> SUFFICES ASSUME ControlTypes, RevokeInv, [Next]_vars PROVE RevokeInv'
  OBVIOUS
<1> USE JobsAssumption DEF ControlTypes, RevokeInv, RevokedOnceBetween, WorkerAt, InSlot,
      Ended, ProducerAt
<1>1. ASSUME NEW j \in Jobs, StartAnalysis(j) PROVE RevokeInv'
  BY <1>1 DEF StartAnalysis, WorkerTo, prodVars, resultVars, slotVars, cancelVars
<1>2. ASSUME NEW j \in Jobs, NEW ok \in BOOLEAN, Register(j, ok) PROVE RevokeInv'
  BY <1>2 DEF Register, WorkerTo, prodVars, resultVars, slotVars, cancelVars
<1>3. ASSUME NEW j \in Jobs, NEW ok \in BOOLEAN, Spawn(j, ok) PROVE RevokeInv'
  BY <1>3 DEF Spawn, WorkerTo, ProducerTo, prodVars, resultVars, slotVars, cancelVars
<1>4. ASSUME NEW j \in Jobs, Consume(j) PROVE RevokeInv'
  <2>1. \E to \in {"join", "gate", "loop"} : worker' = [worker EXCEPT ![j] = to]
    BY <1>4 DEF Consume, Take, WorkerTo
  <2>2. UNCHANGED <<producer, cred>> /\ worker[j] = "loop"
    BY <1>4 DEF Consume, WorkerRest, prodVars
  <2> QED
    BY <2>1, <2>2
<1>5. ASSUME NEW j \in Jobs, TryGate(j) PROVE RevokeInv'
  BY <1>5 DEF TryGate, WorkerTo, WorkerRest, prodVars, resultVars, slotVars, cancelVars
<1>6. ASSUME NEW j \in Jobs, Block(j) PROVE RevokeInv'
  BY <1>6 DEF Block, SlotStep, WorkerTo, WorkerRest, prodVars, resultVars, slotVars,
     cancelVars
<1>7. ASSUME NEW j \in Jobs, MarkInFlight(j) PROVE RevokeInv'
  BY <1>7 DEF MarkInFlight, SlotStep, WorkerTo, WorkerRest, prodVars, resultVars,
     slotVars, cancelVars
<1>8. ASSUME NEW j \in Jobs, Recheck(j) PROVE RevokeInv'
  BY <1>8 DEF Recheck, Rechecked, SlotStep, WorkerTo, WorkerRest, prodVars, resultVars,
     slotVars, cancelVars
<1>9. ASSUME NEW j \in Jobs, Send(j) PROVE RevokeInv'
  BY <1>9 DEF Send, SlotStep, WorkerTo, WorkerRest, prodVars, resultVars, slotVars,
     cancelVars
<1>10. ASSUME NEW j \in Jobs, Return(j) PROVE RevokeInv'
  BY <1>10 DEF Return, SlotStep, WorkerTo, WorkerRest, prodVars, resultVars, slotVars,
     cancelVars
<1>11. ASSUME NEW j \in Jobs, Unmark(j) PROVE RevokeInv'
  BY <1>11 DEF Unmark, SlotStep, WorkerTo, WorkerRest, prodVars, resultVars, slotVars,
     cancelVars
<1>12. ASSUME NEW j \in Jobs, ClearRequestId(j) PROVE RevokeInv'
  BY <1>12 DEF ClearRequestId, SlotStep, WorkerTo, WorkerRest, prodVars, resultVars,
     slotVars, cancelVars
<1>13. ASSUME NEW j \in Jobs, Release(j) PROVE RevokeInv'
  BY <1>13 DEF Release, Wake, WorkerRest, prodVars, resultVars, slotVars, cancelVars
<1>14. ASSUME NEW j \in Jobs, NEW v \in Verdicts, Record(j, v) PROVE RevokeInv'
  BY <1>14 DEF Record, WorkerRest, prodVars, resultVars, slotVars, cancelVars
<1>15. ASSUME NEW j \in Jobs, JoinProducer(j) PROVE RevokeInv'
  BY <1>15 DEF JoinProducer, WorkerTo, WorkerRest, Finalized, prodVars, resultVars,
     slotVars, cancelVars
<1>16. ASSUME NEW j \in Jobs, NEW ok \in BOOLEAN, Revoke(j, ok) PROVE RevokeInv'
  BY <1>16 DEF Revoke, WorkerTo, prodVars, resultVars, slotVars, cancelVars
<1>17. ASSUME NEW j \in Jobs, Report(j) PROVE RevokeInv'
  BY <1>17 DEF Report, WorkerTo, prodVars, resultVars, slotVars, cancelVars
<1>18. ASSUME NEW j \in Jobs, Request(j) PROVE RevokeInv'
  BY <1>18 DEF Request, ProducerTo, ProducerRest, prodVars, resultVars, slotVars,
     cancelVars
<1>19. ASSUME NEW j \in Jobs, GiveUp(j) PROVE RevokeInv'
  BY <1>19 DEF GiveUp, ProducerTo, ProducerRest, MoveToken, prodVars, resultVars,
     slotVars, cancelVars
<1>20. ASSUME NEW j \in Jobs, NEW e \in BOOLEAN, Prepare(j, e) PROVE RevokeInv'
  BY <1>20 DEF Prepare, ProducerTo, ProducerRest, EraseToken, prodVars, resultVars,
     slotVars, cancelVars
<1>21. ASSUME NEW j \in Jobs, Push(j) PROVE RevokeInv'
  BY <1>21 DEF Push, ProducerTo, ProducerRest, prodVars, resultVars, slotVars,
     cancelVars
<1>22. ASSUME NEW j \in Jobs, NEW r \in {"ready", "error", "canceled"}, Deliver(j, r)
       PROVE  RevokeInv'
  BY <1>22 DEF Deliver, EraseToken, prodVars, resultVars, slotVars, cancelVars
<1>23. ASSUME NEW j \in Jobs, StoreSeen(j) PROVE RevokeInv'
  BY <1>23 DEF StoreSeen, prodVars, resultVars, slotVars, cancelVars
<1>24. ASSUME NEW j \in Jobs, Cancel(j) PROVE RevokeInv'
  BY <1>24 DEF Cancel, CancelerTo, CancelRest, prodVars, resultVars, slotVars,
     cancelVars
<1>25. ASSUME NEW j \in Jobs, NotifyGate(j) PROVE RevokeInv'
  BY <1>25 DEF NotifyGate, CancelerTo, CancelRest, Wake, prodVars, resultVars, slotVars,
     cancelVars
<1>26. ASSUME NEW j \in Jobs, LookInFlight(j) PROVE RevokeInv'
  BY <1>26 DEF LookInFlight, CancelerTo, CancelRest, prodVars, resultVars, slotVars,
     cancelVars
<1>27. ASSUME NEW j \in Jobs, CancelTask(j) PROVE RevokeInv'
  BY <1>27 DEF CancelTask, CancelerTo, CancelRest, prodVars, resultVars, slotVars,
     cancelVars
<1>28. CASE UNCHANGED vars
  BY <1>28 DEF vars, prodVars, resultVars, slotVars, cancelVars
<1> QED
  BY <1>1, <1>2, <1>3, <1>4, <1>5, <1>6, <1>7, <1>8, <1>9, <1>10, <1>11, <1>12, <1>13,
     <1>14, <1>15, <1>16, <1>17, <1>18, <1>19, <1>20, <1>21, <1>22, <1>23, <1>24, <1>25,
     <1>26, <1>27, <1>28 DEF Next, RunJob, Produce, Delivery, CancelStep


--------------------------------------------------------------------------------
(* The queue between the producer and the worker.                                  *)
Handing == {"wait", "pushGood", "pushBad"}
Before  == {"new", "register", "spawn"}

\* Entries carry the items in their order, one each, after those taken.
QueueInv ==
    /\ queue \in [Jobs -> Seq(Entries)] /\ popped \in [Jobs -> Nat]
    /\ \A j \in Jobs :
          /\ \A n \in 1..Len(queue[j]) : queue[j][n].item = popped[j] + n
          /\ next[j] = popped[j] + Len(queue[j]) + 1
          /\ next[j] <= Size[j] + 1
          /\ producer[j] \in Handing => next[j] <= Size[j]
          /\ worker[j] \in Before => next[j] = 1

LEMMA InitQueue == Init => QueueInv
<1> SUFFICES ASSUME Init PROVE QueueInv
  OBVIOUS
<1>1. \A j \in Jobs : queue[j] = <<>> /\ Len(queue[j]) = 0
  BY DEF Init, Each
<1>2. queue \in [Jobs -> Seq(Entries)] /\ popped \in [Jobs -> Nat]
  BY DEF Init, Each
<1> QED
  BY <1>1, <1>2, JobsAssumption DEF Init, Each, QueueInv, Handing, Before

\* The good entries among those taken are held; all are popped.
TakenItems(j, c, g) == {popped[j] + n : n \in {m \in 1..c : queue[j][m].good = g}}

LEMMA TakeEffect ==
  ASSUME QueueInv, NEW j \in Jobs, NEW c \in Nat, c <= Len(queue[j]), Take(j, c)
  PROVE  /\ AddResults(j, TakenItems(j, c, FALSE), "failed")
         /\ held' = [held EXCEPT ![j] = TakenItems(j, c, TRUE)]
         /\ queue' = [queue EXCEPT ![j] = SubSeq(queue[j], c + 1, Len(queue[j]))]
         /\ popped' = [popped EXCEPT ![j] = popped[j] + c]
         /\ worker' = [worker EXCEPT ![j] = IF TakenItems(j, c, TRUE) = {} THEN "loop" ELSE "gate"]
<1> DEFINE entries == {queue[j][n] : n \in 1..c}
<1>1. /\ queue[j] \in Seq(Entries) /\ popped[j] \in Nat
      /\ \A n \in 1..c : n \in 1..Len(queue[j])
  BY DEF QueueInv
<1>2. \A n \in 1..c : queue[j][n].good \in BOOLEAN /\ queue[j][n].item = popped[j] + n
  <2>1. \A n \in 1..c : queue[j][n] \in Entries
    BY <1>1
  <2> QED
    BY <1>1, <2>1 DEF QueueInv, Entries
<1>3. {e.item : e \in {f \in entries : ~f.good}} = TakenItems(j, c, FALSE)
  BY <1>2 DEF TakenItems
<1>4. {e.item : e \in {f \in entries : f.good}} = TakenItems(j, c, TRUE)
  BY <1>2 DEF TakenItems
<1>5. (\E e \in entries : e.good) <=> TakenItems(j, c, TRUE) # {}
  BY <1>2 DEF TakenItems
<1> QED
  BY <1>3, <1>4, <1>5 DEF Take, WorkerTo

\* How many entries Consume takes.
LEMMA ConsumeTakes ==
  ASSUME QueueInv, NEW j \in Jobs, Consume(j)
  PROVE  /\ worker[j] = "loop" /\ UNCHANGED <<prodVars, cred, cancelVars>>
         /\ \/ /\ worker' = [worker EXCEPT ![j] = "join"]
               /\ canceled[j] \/ popped[j] >= Size[j] \/ (producer[j] = "done" /\ queue[j] = <<>>)
               /\ UNCHANGED <<queue, popped, held, resultVars>>
            \/ \E c \in Nat : c <= Len(queue[j]) /\ Take(j, c)
<1>1. queue[j] \in Seq(Entries) /\ Len(queue[j]) \in Nat
  BY DEF QueueInv
<1> QED
  BY <1>1, JobsAssumption DEF Consume, WorkerTo, WorkerRest

\* What only Consume and Push may do.
QueueKept ==
    /\ UNCHANGED <<queue, popped, next>>
    /\ \A j \in Jobs :
          /\ producer'[j] \in Handing => producer[j] \in Handing \/ next[j] <= Size[j]
          /\ worker'[j] \in Before => worker[j] \in Before

LEMMA QueueFrame ==
  ControlTypes /\ [Next]_vars => QueueKept \/ \E j \in Jobs : Consume(j) \/ Push(j)
<1> SUFFICES ASSUME ControlTypes, [Next]_vars, ~ \E j \in Jobs : Consume(j) \/ Push(j)
             PROVE  QueueKept
  OBVIOUS
<1> USE JobsAssumption DEF ControlTypes, QueueKept, Handing, Before, WorkerAt, InSlot, Ended,
      ProducerAt
<1>1. ASSUME NEW j \in Jobs, StartAnalysis(j) PROVE QueueKept
  BY <1>1 DEF StartAnalysis, WorkerTo, prodVars, resultVars, slotVars, cancelVars
<1>2. ASSUME NEW j \in Jobs, NEW ok \in BOOLEAN, Register(j, ok) PROVE QueueKept
  BY <1>2 DEF Register, WorkerTo, prodVars, resultVars, slotVars, cancelVars
<1>3. ASSUME NEW j \in Jobs, NEW ok \in BOOLEAN, Spawn(j, ok) PROVE QueueKept
  BY <1>3 DEF Spawn, WorkerTo, ProducerTo, prodVars, resultVars, slotVars, cancelVars
<1>4. ASSUME NEW j \in Jobs, Consume(j) PROVE QueueKept
  BY <1>4
<1>5. ASSUME NEW j \in Jobs, TryGate(j) PROVE QueueKept
  BY <1>5 DEF TryGate, WorkerTo, WorkerRest, prodVars, resultVars, slotVars, cancelVars
<1>6. ASSUME NEW j \in Jobs, Block(j) PROVE QueueKept
  BY <1>6 DEF Block, SlotStep, WorkerTo, WorkerRest, prodVars, resultVars, slotVars,
     cancelVars
<1>7. ASSUME NEW j \in Jobs, MarkInFlight(j) PROVE QueueKept
  BY <1>7 DEF MarkInFlight, SlotStep, WorkerTo, WorkerRest, prodVars, resultVars,
     slotVars, cancelVars
<1>8. ASSUME NEW j \in Jobs, Recheck(j) PROVE QueueKept
  BY <1>8 DEF Recheck, Rechecked, SlotStep, WorkerTo, WorkerRest, prodVars, resultVars,
     slotVars, cancelVars
<1>9. ASSUME NEW j \in Jobs, Send(j) PROVE QueueKept
  BY <1>9 DEF Send, SlotStep, WorkerTo, WorkerRest, prodVars, resultVars, slotVars,
     cancelVars
<1>10. ASSUME NEW j \in Jobs, Return(j) PROVE QueueKept
  BY <1>10 DEF Return, SlotStep, WorkerTo, WorkerRest, prodVars, resultVars, slotVars,
     cancelVars
<1>11. ASSUME NEW j \in Jobs, Unmark(j) PROVE QueueKept
  BY <1>11 DEF Unmark, SlotStep, WorkerTo, WorkerRest, prodVars, resultVars, slotVars,
     cancelVars
<1>12. ASSUME NEW j \in Jobs, ClearRequestId(j) PROVE QueueKept
  BY <1>12 DEF ClearRequestId, SlotStep, WorkerTo, WorkerRest, prodVars, resultVars,
     slotVars, cancelVars
<1>13. ASSUME NEW j \in Jobs, Release(j) PROVE QueueKept
  BY <1>13 DEF Release, Wake, WorkerRest, prodVars, resultVars, slotVars, cancelVars
<1>14. ASSUME NEW j \in Jobs, NEW v \in Verdicts, Record(j, v) PROVE QueueKept
  BY <1>14 DEF Record, WorkerRest, prodVars, resultVars, slotVars, cancelVars
<1>15. ASSUME NEW j \in Jobs, JoinProducer(j) PROVE QueueKept
  BY <1>15 DEF JoinProducer, WorkerTo, WorkerRest, Finalized, prodVars, resultVars,
     slotVars, cancelVars
<1>16. ASSUME NEW j \in Jobs, NEW ok \in BOOLEAN, Revoke(j, ok) PROVE QueueKept
  BY <1>16 DEF Revoke, WorkerTo, prodVars, resultVars, slotVars, cancelVars
<1>17. ASSUME NEW j \in Jobs, Report(j) PROVE QueueKept
  BY <1>17 DEF Report, WorkerTo, prodVars, resultVars, slotVars, cancelVars
<1>18. ASSUME NEW j \in Jobs, Request(j) PROVE QueueKept
  BY <1>18 DEF Request, ProducerTo, ProducerRest, prodVars, resultVars, slotVars,
     cancelVars
<1>19. ASSUME NEW j \in Jobs, GiveUp(j) PROVE QueueKept
  BY <1>19 DEF GiveUp, ProducerTo, ProducerRest, MoveToken, prodVars, resultVars,
     slotVars, cancelVars
<1>20. ASSUME NEW j \in Jobs, NEW e \in BOOLEAN, Prepare(j, e) PROVE QueueKept
  BY <1>20 DEF Prepare, ProducerTo, ProducerRest, EraseToken, prodVars, resultVars,
     slotVars, cancelVars
<1>21. ASSUME NEW j \in Jobs, Push(j) PROVE QueueKept
  BY <1>21
<1>22. ASSUME NEW j \in Jobs, NEW r \in {"ready", "error", "canceled"}, Deliver(j, r)
       PROVE  QueueKept
  BY <1>22 DEF Deliver, EraseToken, prodVars, resultVars, slotVars, cancelVars
<1>23. ASSUME NEW j \in Jobs, StoreSeen(j) PROVE QueueKept
  BY <1>23 DEF StoreSeen, prodVars, resultVars, slotVars, cancelVars
<1>24. ASSUME NEW j \in Jobs, Cancel(j) PROVE QueueKept
  BY <1>24 DEF Cancel, CancelerTo, CancelRest, prodVars, resultVars, slotVars,
     cancelVars
<1>25. ASSUME NEW j \in Jobs, NotifyGate(j) PROVE QueueKept
  BY <1>25 DEF NotifyGate, CancelerTo, CancelRest, Wake, prodVars, resultVars, slotVars,
     cancelVars
<1>26. ASSUME NEW j \in Jobs, LookInFlight(j) PROVE QueueKept
  BY <1>26 DEF LookInFlight, CancelerTo, CancelRest, prodVars, resultVars, slotVars,
     cancelVars
<1>27. ASSUME NEW j \in Jobs, CancelTask(j) PROVE QueueKept
  BY <1>27 DEF CancelTask, CancelerTo, CancelRest, prodVars, resultVars, slotVars,
     cancelVars
<1>28. CASE UNCHANGED vars
  BY <1>28 DEF vars, prodVars, resultVars, slotVars, cancelVars
<1> QED
  BY <1>1, <1>2, <1>3, <1>4, <1>5, <1>6, <1>7, <1>8, <1>9, <1>10, <1>11, <1>12, <1>13,
     <1>14, <1>15, <1>16, <1>17, <1>18, <1>19, <1>20, <1>21, <1>22, <1>23, <1>24, <1>25,
     <1>26, <1>27, <1>28 DEF Next, RunJob, Produce, Delivery, CancelStep

LEMMA StepQueue == ControlTypes /\ RevokeInv /\ QueueInv /\ [Next]_vars => QueueInv'
<1> SUFFICES ASSUME ControlTypes, RevokeInv, QueueInv, [Next]_vars PROVE QueueInv'
  OBVIOUS
<1>1. CASE QueueKept
  BY <1>1, JobsAssumption DEF QueueKept, QueueInv, ControlTypes
<1>2. ASSUME NEW j \in Jobs, Consume(j) PROVE QueueInv'
  <2>1. UNCHANGED <<producer, next>> /\ worker[j] = "loop"
    BY <1>2, ConsumeTakes DEF prodVars
  <2>2. CASE UNCHANGED <<queue, popped>> /\ worker' = [worker EXCEPT ![j] = "join"]
    BY <2>1, <2>2 DEF ControlTypes, QueueInv, Before
  <2>3. ASSUME NEW c \in Nat, c <= Len(queue[j]), Take(j, c) PROVE QueueInv'
    <3> DEFINE R == SubSeq(queue[j], c + 1, Len(queue[j]))
    <3>1. queue' = [queue EXCEPT ![j] = R] /\ popped' = [popped EXCEPT ![j] = popped[j] + c]
      BY <2>3, TakeEffect
    <3>2. \A k \in Jobs : worker'[k] \in Before => worker[k] \in Before
      BY <2>3, TakeEffect DEF ControlTypes, Before
    <3>3. /\ queue[j] \in Seq(Entries) /\ Len(queue[j]) \in Nat /\ popped[j] \in Nat
          /\ next[j] = popped[j] + Len(queue[j]) + 1
          /\ \A n \in 1..Len(queue[j]) : queue[j][n].item = popped[j] + n
      BY DEF QueueInv
    <3>4. R \in Seq(Entries) /\ Len(R) = Len(queue[j]) - c /\ \A n \in 1..Len(R) : R[n] = queue[j][c + n]
      BY <2>3, <3>3
    <3>5. \A n \in 1..Len(R) : R[n].item = popped[j] + c + n
      BY <2>3, <3>3, <3>4
    <3>6. next[j] = popped[j] + c + Len(R) + 1
      BY <2>3, <3>3, <3>4
    <3> HIDE DEF R
    <3>7. queue' \in [Jobs -> Seq(Entries)] /\ popped' \in [Jobs -> Nat]
      BY <3>1, <3>3, <3>4 DEF QueueInv
    <3>8. ASSUME NEW k \in Jobs
          PROVE  /\ \A n \in 1..Len(queue'[k]) : queue'[k][n].item = popped'[k] + n
                 /\ next'[k] = popped'[k] + Len(queue'[k]) + 1
      BY <2>1, <3>1, <3>5, <3>6 DEF QueueInv
    <3> QED
      BY <2>1, <3>2, <3>7, <3>8 DEF QueueInv
  <2> QED
    BY <1>2, <2>2, <2>3, ConsumeTakes
<1>3. ASSUME NEW j \in Jobs, Push(j) PROVE QueueInv'
  <2>1. UNCHANGED <<worker, popped>>
    BY <1>3 DEF Push, ProducerRest
  <2>2. CASE canceled[j]
    BY <2>1, <2>2, <1>3 DEF Push, ProducerTo, ControlTypes, QueueInv, Handing
  <2>3. CASE ~canceled[j]
    <3> DEFINE e == [item |-> next[j], good |-> producer[j] = "pushGood"]
               A == Append(queue[j], e)
    <3>1. /\ queue' = [queue EXCEPT ![j] = A] /\ next' = [next EXCEPT ![j] = next[j] + 1]
          /\ producer' = [producer EXCEPT ![j] = "next"]
          /\ producer[j] \in {"pushGood", "pushBad"}
      BY <2>3, <1>3 DEF Push, ProducerTo
    <3>2. e \in Entries /\ e.item = next[j]
      BY DEF Entries, ControlTypes
    <3> HIDE DEF e
    <3>3. /\ queue[j] \in Seq(Entries) /\ Len(queue[j]) \in Nat /\ popped[j] \in Nat
          /\ next[j] = popped[j] + Len(queue[j]) + 1 /\ next[j] <= Size[j]
          /\ \A n \in 1..Len(queue[j]) : queue[j][n].item = popped[j] + n
          /\ worker[j] \notin Before
      BY <3>1 DEF QueueInv, Handing, RevokeInv, Before
    <3>4. /\ A \in Seq(Entries) /\ Len(A) = Len(queue[j]) + 1
          /\ \A n \in 1..Len(queue[j]) : A[n] = queue[j][n]
          /\ A[Len(queue[j]) + 1] = e
      BY <3>2, <3>3
    <3>5. ASSUME NEW n \in 1..Len(A) PROVE A[n].item = popped[j] + n
      <4> DEFINE L == Len(queue[j])
      <4>1. L \in Nat /\ Len(A) = L + 1 /\ A[L + 1] = e /\ e.item = popped[j] + (L + 1)
        BY <3>2, <3>3, <3>4
      <4>2. CASE n \in 1..L
        BY <4>2, <3>3, <3>4
      <4>3. CASE n = L + 1
        BY <4>1, <4>3
      <4> HIDE DEF L
      <4> QED
        BY <4>1, <4>2, <4>3
    <3> HIDE DEF A
    <3>6. queue' \in [Jobs -> Seq(Entries)] /\ popped' \in [Jobs -> Nat]
      BY <2>1, <3>1, <3>4 DEF QueueInv
    <3>7. ASSUME NEW k \in Jobs
          PROVE  /\ \A n \in 1..Len(queue'[k]) : queue'[k][n].item = popped'[k] + n
                 /\ next'[k] = popped'[k] + Len(queue'[k]) + 1
                 /\ next'[k] <= Size[k] + 1
                 /\ producer'[k] \in Handing => next'[k] <= Size[k]
                 /\ worker'[k] \in Before => next'[k] = 1
      <4>1. CASE k = j
        <5>1. /\ queue'[j] = A /\ next'[j] = next[j] + 1 /\ next[j] \in Nat
              /\ popped'[j] = popped[j]
              /\ producer'[j] = "next" /\ worker'[j] = worker[j]
          BY <2>1, <3>1, <3>6 DEF ControlTypes, QueueInv
        <5>2. \A n \in 1..Len(queue'[j]) : queue'[j][n].item = popped'[j] + n
          BY <5>1, <3>5
        <5>3. next'[j] = popped'[j] + Len(queue'[j]) + 1
          BY <5>1, <3>3, <3>4
        <5>4. next'[j] <= Size[j] + 1
          <6>1. Size[j] \in Nat
            BY JobsAssumption
          <6> QED
            BY <5>1, <3>3, <6>1
        <5> QED
          BY <4>1, <5>1, <5>2, <5>3, <5>4, <3>3 DEF Handing, Before
      <4>2. CASE k # j
        BY <4>2, <2>1, <3>1 DEF QueueInv, ControlTypes
      <4> QED
        BY <4>1, <4>2
    <3> QED
      BY <3>6, <3>7 DEF QueueInv
  <2> QED
    BY <2>2, <2>3
<1> QED
  BY <1>1, <1>2, <1>3, QueueFrame


--------------------------------------------------------------------------------
(* The results: each item has one, or is held, or is still to be taken.            *)
Calling == {"gate", "blocking", "waiting", "record"} \cup InSlot
Final   == Ended \cup {"revoke"}

HeldInv ==
    /\ held \in [Jobs -> SUBSET (Nat \ {0})]
    /\ \A j \in Jobs :
          /\ held[j] \subseteq 1..popped[j]
          /\ worker[j] \notin Calling => held[j] = {}

Answered(j) ==
    IF worker[j] \in Final THEN Items(j) ELSE {i \in 1..popped[j] : i \notin held[j]}

ResultInv ==
    /\ DOMAIN answers = Jobs /\ \A j \in Jobs : answers[j] \in [Items(j) -> Nat]
    /\ DOMAIN verdict = Jobs
    /\ \A j \in Jobs : verdict[j] \in [Items(j) -> Verdicts \cup {"none"}]
    /\ progress \in [Jobs -> [Verdicts -> Nat]]
    /\ \A j \in Jobs : \A i \in Items(j) :
          /\ answers[j][i] = IF i \in Answered(j) THEN 1 ELSE 0
          /\ verdict[j][i] = "none" <=> i \notin Answered(j)
    /\ \A j \in Jobs : \A v \in Verdicts :
          progress[j][v] = Cardinality({i \in Items(j) : verdict[j][i] = v})

LEMMA InitHeld == Init => HeldInv
  BY DEF Init, Each, HeldInv

LEMMA InitResults == Init => ResultInv
<1> SUFFICES ASSUME Init PROVE ResultInv
  OBVIOUS
<1>1. \A j \in Jobs : Answered(j) = {}
  BY DEF Init, Each, Answered, Final, Ended
<1>2. /\ answers = [j \in Jobs |-> [i \in Items(j) |-> 0]]
      /\ verdict = [j \in Jobs |-> [i \in Items(j) |-> "none"]]
      /\ progress = [j \in Jobs |-> [v \in Verdicts |-> 0]]
  BY DEF Init, Each
<1>3. \A j \in Jobs : \A i \in Items(j) :
         /\ answers[j][i] = IF i \in Answered(j) THEN 1 ELSE 0
         /\ verdict[j][i] = "none" <=> i \notin Answered(j)
  BY <1>1, <1>2
<1>4. ASSUME NEW j \in Jobs, NEW v \in Verdicts
      PROVE  progress[j][v] = Cardinality({i \in Items(j) : verdict[j][i] = v})
  <2>1. {i \in Items(j) : verdict[j][i] = v} = {}
    BY <1>2 DEF Verdicts
  <2> QED
    BY <2>1, <1>2, FS_EmptySet
<1> QED
  BY <1>2, <1>3, <1>4 DEF ResultInv

\* What only the worker's steps that add results, take entries or give up
\* the items held may do.
ResultsKept ==
    /\ UNCHANGED <<popped, held, resultVars>>
    /\ \A j \in Jobs :
          /\ worker'[j] \in Final <=> worker[j] \in Final
          /\ worker'[j] \notin Calling => worker[j] \notin Calling

Resulting(j) ==
    \/ \E ok \in BOOLEAN : Register(j, ok) \/ Spawn(j, ok)
    \/ Consume(j) \/ TryGate(j) \/ JoinProducer(j)
    \/ \E v \in Verdicts : Record(j, v)

LEMMA ResultFrame == ControlTypes /\ [Next]_vars => ResultsKept \/ \E j \in Jobs : Resulting(j)
<1> SUFFICES ASSUME ControlTypes, [Next]_vars, ~ \E j \in Jobs : Resulting(j)
             PROVE  ResultsKept
  OBVIOUS
<1> USE JobsAssumption DEF ControlTypes, ResultsKept, Calling, Final, WorkerAt, InSlot, Ended,
      ProducerAt
<1>1. ASSUME NEW j \in Jobs, StartAnalysis(j) PROVE ResultsKept
  BY <1>1 DEF StartAnalysis, WorkerTo, prodVars, resultVars, slotVars, cancelVars
<1>2. ASSUME NEW j \in Jobs, NEW ok \in BOOLEAN, Register(j, ok) PROVE ResultsKept
  BY <1>2 DEF Resulting
<1>3. ASSUME NEW j \in Jobs, NEW ok \in BOOLEAN, Spawn(j, ok) PROVE ResultsKept
  BY <1>3 DEF Resulting
<1>4. ASSUME NEW j \in Jobs, Consume(j) PROVE ResultsKept
  BY <1>4 DEF Resulting
<1>5. ASSUME NEW j \in Jobs, TryGate(j) PROVE ResultsKept
  BY <1>5 DEF Resulting
<1>6. ASSUME NEW j \in Jobs, Block(j) PROVE ResultsKept
  BY <1>6 DEF Block, SlotStep, WorkerTo, WorkerRest, prodVars, resultVars, slotVars,
     cancelVars
<1>7. ASSUME NEW j \in Jobs, MarkInFlight(j) PROVE ResultsKept
  BY <1>7 DEF MarkInFlight, SlotStep, WorkerTo, WorkerRest, prodVars, resultVars,
     slotVars, cancelVars
<1>8. ASSUME NEW j \in Jobs, Recheck(j) PROVE ResultsKept
  BY <1>8 DEF Recheck, Rechecked, SlotStep, WorkerTo, WorkerRest, prodVars, resultVars,
     slotVars, cancelVars
<1>9. ASSUME NEW j \in Jobs, Send(j) PROVE ResultsKept
  BY <1>9 DEF Send, SlotStep, WorkerTo, WorkerRest, prodVars, resultVars, slotVars,
     cancelVars
<1>10. ASSUME NEW j \in Jobs, Return(j) PROVE ResultsKept
  BY <1>10 DEF Return, SlotStep, WorkerTo, WorkerRest, prodVars, resultVars, slotVars,
     cancelVars
<1>11. ASSUME NEW j \in Jobs, Unmark(j) PROVE ResultsKept
  BY <1>11 DEF Unmark, SlotStep, WorkerTo, WorkerRest, prodVars, resultVars, slotVars,
     cancelVars
<1>12. ASSUME NEW j \in Jobs, ClearRequestId(j) PROVE ResultsKept
  BY <1>12 DEF ClearRequestId, SlotStep, WorkerTo, WorkerRest, prodVars, resultVars,
     slotVars, cancelVars
<1>13. ASSUME NEW j \in Jobs, Release(j) PROVE ResultsKept
  BY <1>13 DEF Release, Wake, WorkerRest, prodVars, resultVars, slotVars, cancelVars
<1>14. ASSUME NEW j \in Jobs, NEW v \in Verdicts, Record(j, v) PROVE ResultsKept
  BY <1>14 DEF Resulting
<1>15. ASSUME NEW j \in Jobs, JoinProducer(j) PROVE ResultsKept
  BY <1>15 DEF Resulting
<1>16. ASSUME NEW j \in Jobs, NEW ok \in BOOLEAN, Revoke(j, ok) PROVE ResultsKept
  BY <1>16 DEF Revoke, WorkerTo, prodVars, resultVars, slotVars, cancelVars
<1>17. ASSUME NEW j \in Jobs, Report(j) PROVE ResultsKept
  BY <1>17 DEF Report, WorkerTo, prodVars, resultVars, slotVars, cancelVars
<1>18. ASSUME NEW j \in Jobs, Request(j) PROVE ResultsKept
  BY <1>18 DEF Request, ProducerTo, ProducerRest, prodVars, resultVars, slotVars,
     cancelVars
<1>19. ASSUME NEW j \in Jobs, GiveUp(j) PROVE ResultsKept
  BY <1>19 DEF GiveUp, ProducerTo, ProducerRest, MoveToken, prodVars, resultVars,
     slotVars, cancelVars
<1>20. ASSUME NEW j \in Jobs, NEW e \in BOOLEAN, Prepare(j, e) PROVE ResultsKept
  BY <1>20 DEF Prepare, ProducerTo, ProducerRest, EraseToken, prodVars, resultVars,
     slotVars, cancelVars
<1>21. ASSUME NEW j \in Jobs, Push(j) PROVE ResultsKept
  BY <1>21 DEF Push, ProducerTo, ProducerRest, prodVars, resultVars, slotVars,
     cancelVars
<1>22. ASSUME NEW j \in Jobs, NEW r \in {"ready", "error", "canceled"}, Deliver(j, r)
       PROVE  ResultsKept
  BY <1>22 DEF Deliver, EraseToken, prodVars, resultVars, slotVars, cancelVars
<1>23. ASSUME NEW j \in Jobs, StoreSeen(j) PROVE ResultsKept
  BY <1>23 DEF StoreSeen, prodVars, resultVars, slotVars, cancelVars
<1>24. ASSUME NEW j \in Jobs, Cancel(j) PROVE ResultsKept
  BY <1>24 DEF Cancel, CancelerTo, CancelRest, prodVars, resultVars, slotVars,
     cancelVars
<1>25. ASSUME NEW j \in Jobs, NotifyGate(j) PROVE ResultsKept
  BY <1>25 DEF NotifyGate, CancelerTo, CancelRest, Wake, prodVars, resultVars, slotVars,
     cancelVars
<1>26. ASSUME NEW j \in Jobs, LookInFlight(j) PROVE ResultsKept
  BY <1>26 DEF LookInFlight, CancelerTo, CancelRest, prodVars, resultVars, slotVars,
     cancelVars
<1>27. ASSUME NEW j \in Jobs, CancelTask(j) PROVE ResultsKept
  BY <1>27 DEF CancelTask, CancelerTo, CancelRest, prodVars, resultVars, slotVars,
     cancelVars
<1>28. CASE UNCHANGED vars
  BY <1>28 DEF vars, prodVars, resultVars, slotVars, cancelVars
<1> QED
  BY <1>1, <1>2, <1>3, <1>4, <1>5, <1>6, <1>7, <1>8, <1>9, <1>10, <1>11, <1>12, <1>13,
     <1>14, <1>15, <1>16, <1>17, <1>18, <1>19, <1>20, <1>21, <1>22, <1>23, <1>24, <1>25,
     <1>26, <1>27, <1>28 DEF Next, RunJob, Produce, Delivery, CancelStep

LEMMA StepHeld == ControlTypes /\ QueueInv /\ HeldInv /\ [Next]_vars => HeldInv'
<1> SUFFICES ASSUME ControlTypes, QueueInv, HeldInv, [Next]_vars PROVE HeldInv'
  OBVIOUS
<1>1. CASE ResultsKept
  BY <1>1 DEF ResultsKept, HeldInv
<1>2. ASSUME NEW j \in Jobs, NEW ok \in BOOLEAN, Register(j, ok) \/ Spawn(j, ok) PROVE HeldInv'
  BY <1>2 DEF Register, Spawn, WorkerTo, HeldInv, ControlTypes, Calling, InSlot
<1>3. ASSUME NEW j \in Jobs, Consume(j) PROVE HeldInv'
  <2>1. worker[j] = "loop" /\ held[j] = {}
    BY <1>3, ConsumeTakes DEF HeldInv, Calling, InSlot
  <2>2. CASE UNCHANGED <<popped, held>> /\ worker' = [worker EXCEPT ![j] = "join"]
    BY <2>1, <2>2 DEF HeldInv, ControlTypes
  <2>3. ASSUME NEW c \in Nat, c <= Len(queue[j]), Take(j, c) PROVE HeldInv'
    <3> DEFINE H == TakenItems(j, c, TRUE)
    <3>1. /\ held' = [held EXCEPT ![j] = H] /\ popped' = [popped EXCEPT ![j] = popped[j] + c]
          /\ worker' = [worker EXCEPT ![j] = IF H = {} THEN "loop" ELSE "gate"]
      BY <2>3, TakeEffect
    <3>2. H \subseteq 1..(popped[j] + c) /\ H \subseteq Nat \ {0}
      BY DEF TakenItems, QueueInv
    <3> HIDE DEF H
    <3> QED
      BY <3>1, <3>2 DEF HeldInv, ControlTypes, QueueInv, Calling, InSlot
  <2> QED
    BY <1>3, <2>2, <2>3, ConsumeTakes
<1>4. ASSUME NEW j \in Jobs, TryGate(j) PROVE HeldInv'
  BY <1>4 DEF TryGate, WorkerTo, HeldInv, ControlTypes, Calling, InSlot
<1>5. ASSUME NEW j \in Jobs, JoinProducer(j) PROVE HeldInv'
  BY <1>5 DEF JoinProducer, WorkerTo, HeldInv, ControlTypes, Calling, InSlot
<1>6. ASSUME NEW j \in Jobs, NEW v \in Verdicts, Record(j, v) PROVE HeldInv'
  BY <1>6 DEF Record, HeldInv, ControlTypes, Calling, InSlot
<1> QED
  BY <1>1, <1>2, <1>3, <1>4, <1>5, <1>6, ResultFrame DEF Resulting

\* Answering items that had no answer, and only those, keeps the count.
LEMMA ResultsAdded ==
  ASSUME ResultInv, NEW j \in Jobs, NEW S, NEW v \in Verdicts, AddResults(j, S, v),
         S \subseteq Items(j), \A i \in S : i \notin Answered(j),
         \A i \in Items(j) : i \in Answered(j)' <=> i \in Answered(j) \/ i \in S,
         \A k \in Jobs \ {j} : Answered(k)' = Answered(k)
  PROVE  ResultInv'
<1>1. /\ DOMAIN answers' = Jobs /\ DOMAIN verdict' = Jobs
      /\ \A k \in Jobs \ {j} : answers'[k] = answers[k] /\ verdict'[k] = verdict[k]
                               /\ progress'[k] = progress[k]
      /\ answers'[j] = [i \in Items(j) |-> IF i \in S THEN answers[j][i] + 1 ELSE answers[j][i]]
      /\ verdict'[j] = [i \in Items(j) |-> IF i \in S THEN v ELSE verdict[j][i]]
      /\ progress' = [progress EXCEPT ![j] = [progress[j] EXCEPT ![v] = @ + Cardinality(S)]]
  BY DEF AddResults, ResultInv
<1>2. Size[j] \in Nat /\ IsFiniteSet(Items(j)) /\ IsFiniteSet(S) /\ Cardinality(S) \in Nat
  <2>1. Size[j] \in Nat
    BY JobsAssumption
  <2>2. IsFiniteSet(Items(j))
    BY <2>1, FS_Interval DEF Items
  <2>3. IsFiniteSet(S)
    BY <2>2, FS_Subset
  <2> QED
    BY <2>1, <2>2, <2>3, FS_CardinalityType
<1>3. \A i \in Items(j) :
         /\ answers[j][i] = IF i \in Answered(j) THEN 1 ELSE 0
         /\ answers[j][i] \in Nat /\ verdict[j][i] \in Verdicts \cup {"none"}
         /\ verdict[j][i] = "none" <=> i \notin Answered(j)
  BY DEF ResultInv
<1>4. \A i \in Items(j) :
         /\ answers'[j][i] = IF i \in Answered(j)' THEN 1 ELSE 0
         /\ answers'[j][i] \in Nat /\ verdict'[j][i] \in Verdicts \cup {"none"}
         /\ verdict'[j][i] = "none" <=> i \notin Answered(j)'
  BY <1>1, <1>3 DEF Verdicts
<1>5. ASSUME NEW w \in Verdicts
      PROVE  progress'[j][w] = Cardinality({i \in Items(j) : verdict'[j][i] = w})
  <2> DEFINE Old == {i \in Items(j) : verdict[j][i] = w}
  <2>1. progress[j] \in [Verdicts -> Nat] /\ progress[j][w] = Cardinality(Old)
    BY DEF ResultInv
  <2>2. Old \cap S = {}
    BY <1>3 DEF Verdicts
  <2>3. CASE w = v
    <3>1. {i \in Items(j) : verdict'[j][i] = w} = Old \cup S
      BY <2>3, <1>1
    <3>2. IsFiniteSet(Old) /\ Cardinality(Old) \in Nat
      BY <1>2, FS_Subset, FS_CardinalityType
    <3>3. Cardinality(Old \cup S) = Cardinality(Old) + Cardinality(S)
      <4> HIDE DEF Old
      <4>1. Cardinality(Old \cap S) = 0
        BY <2>2, FS_EmptySet
      <4>2. Cardinality(Old \cup S) = Cardinality(Old) + Cardinality(S) - Cardinality(Old \cap S)
        BY <1>2, <3>2, FS_Union
      <4> QED
        BY <1>2, <3>2, <4>1, <4>2
    <3>4. progress'[j][w] = progress[j][w] + Cardinality(S)
      BY <2>3, <2>1, <1>1 DEF ResultInv
    <3> QED
      BY <2>1, <3>1, <3>3, <3>4
  <2>4. CASE w # v
    <3>1. {i \in Items(j) : verdict'[j][i] = w} = Old
      BY <2>4, <1>1, <2>2
    <3>2. progress'[j][w] = progress[j][w]
      BY <2>4, <2>1, <1>1 DEF ResultInv
    <3> QED
      BY <2>1, <3>1, <3>2
  <2> QED
    BY <2>3, <2>4
<1>6. progress' \in [Jobs -> [Verdicts -> Nat]]
  <2>1. progress[j] \in [Verdicts -> Nat]
    BY DEF ResultInv
  <2>2. [progress[j] EXCEPT ![v] = @ + Cardinality(S)] \in [Verdicts -> Nat]
    BY <2>1, <1>2
  <2> QED
    BY <2>2, <1>1 DEF ResultInv
<1>7. answers'[j] \in [Items(j) -> Nat] /\ verdict'[j] \in [Items(j) -> Verdicts \cup {"none"}]
  BY <1>1, <1>4
<1>8. ASSUME NEW k \in Jobs \ {j}
      PROVE  /\ answers'[k] \in [Items(k) -> Nat]
             /\ verdict'[k] \in [Items(k) -> Verdicts \cup {"none"}]
             /\ \A i \in Items(k) :
                   /\ answers'[k][i] = IF i \in Answered(k)' THEN 1 ELSE 0
                   /\ verdict'[k][i] = "none" <=> i \notin Answered(k)'
             /\ \A w \in Verdicts : progress'[k][w] = Cardinality({i \in Items(k) : verdict'[k][i] = w})
  BY <1>1 DEF ResultInv
<1>9. ASSUME NEW k \in Jobs
      PROVE  /\ answers'[k] \in [Items(k) -> Nat]
             /\ verdict'[k] \in [Items(k) -> Verdicts \cup {"none"}]
             /\ \A i \in Items(k) :
                   /\ answers'[k][i] = IF i \in Answered(k)' THEN 1 ELSE 0
                   /\ verdict'[k][i] = "none" <=> i \notin Answered(k)'
             /\ \A w \in Verdicts : progress'[k][w] = Cardinality({i \in Items(k) : verdict'[k][i] = w})
  <2>1. CASE k = j
    BY <2>1, <1>4, <1>5, <1>7
  <2>2. CASE k # j
    BY <2>2, <1>8
  <2> QED
    BY <2>1, <2>2
<1> QED
  BY <1>1, <1>6, <1>9 DEF ResultInv

LEMMA ResultsUnchanged ==
  ASSUME ResultInv, UNCHANGED resultVars, \A j \in Jobs : Answered(j)' = Answered(j)
  PROVE  ResultInv'
  BY DEF ResultInv, resultVars


LEMMA StepResults ==
  ControlTypes /\ QueueInv /\ HeldInv /\ ResultInv /\ [Next]_vars => ResultInv'
<1> SUFFICES ASSUME ControlTypes, QueueInv, HeldInv, ResultInv, [Next]_vars PROVE ResultInv'
  OBVIOUS
<1>1. CASE ResultsKept
  BY <1>1, ResultsUnchanged DEF ResultsKept, Answered
\* No result before the first entry is taken.
<1>2. ASSUME NEW j \in Jobs, worker[j] \in Before PROVE Answered(j) = {}
  <2>1. popped[j] = 0
    <3>1. next[j] = 1 /\ next[j] = popped[j] + Len(queue[j]) + 1 /\ popped[j] \in Nat /\ Len(queue[j]) \in Nat
      BY <1>2 DEF QueueInv
    <3> QED
      BY <3>1
  <2> QED
    BY <2>1, <1>2 DEF Answered, Final, Ended, Before
<1>3. ASSUME NEW j \in Jobs, worker[j] \in Before, UNCHANGED <<popped, held>>,
             NEW to \in {"spawn", "loop", "report", "reportEarly"},
             worker' = [worker EXCEPT ![j] = to],
             IF to \in Final THEN AddResults(j, Items(j), "failed") ELSE UNCHANGED resultVars
      PROVE  ResultInv'
  <2>1. \A k \in Jobs \ {j} : Answered(k)' = Answered(k)
    BY <1>3 DEF Answered, ControlTypes
  <2>2. Answered(j) = {} /\ (to \notin Final => Answered(j)' = Answered(j))
    BY <1>2, <1>3 DEF Answered, ControlTypes, Final, Ended, Before
  <2>3. CASE to \in Final
    <3>1. Answered(j)' = Items(j)
      BY <2>3, <1>3 DEF Answered, ControlTypes
    <3>2. "failed" \in Verdicts
      BY DEF Verdicts
    <3> QED
      BY <2>1, <2>2, <2>3, <3>1, <3>2, <1>3, ResultsAdded
  <2> QED
    BY <2>1, <2>2, <2>3, <1>3, ResultsUnchanged
<1>4. ASSUME NEW j \in Jobs, NEW ok \in BOOLEAN, Register(j, ok) PROVE ResultInv'
  BY <1>3, <1>4 DEF Register, WorkerTo, Before, Final, Ended
<1>5. ASSUME NEW j \in Jobs, NEW ok \in BOOLEAN, Spawn(j, ok) PROVE ResultInv'
  BY <1>3, <1>5 DEF Spawn, WorkerTo, Before, Final, Ended
<1>6. ASSUME NEW j \in Jobs, Consume(j) PROVE ResultInv'
  <2>1. worker[j] = "loop" /\ held[j] = {} /\ popped[j] \in Nat /\ Len(queue[j]) \in Nat
    <3>1. worker[j] = "loop"
      BY <1>6, ConsumeTakes
    <3>2. held[j] = {}
      BY <3>1 DEF HeldInv, Calling, InSlot
    <3>3. queue[j] \in Seq(Entries) /\ popped[j] \in Nat
      BY DEF QueueInv
    <3> QED
      BY <3>1, <3>2, <3>3
  <2>2. Answered(j) = 1..popped[j]
    BY <2>1 DEF Answered, Final, Ended
  <2>3. CASE UNCHANGED <<popped, held, resultVars>> /\ worker' = [worker EXCEPT ![j] = "join"]
    <3>1. \A k \in Jobs : Answered(k)' = Answered(k)
      BY <2>1, <2>3 DEF Answered, ControlTypes, Final, Ended
    <3> QED
      BY <3>1, <2>3, ResultsUnchanged
  <2>4. ASSUME NEW c \in Nat, c <= Len(queue[j]), Take(j, c) PROVE ResultInv'
    <3> DEFINE H == TakenItems(j, c, TRUE)  S == TakenItems(j, c, FALSE)
    <3>1. /\ AddResults(j, S, "failed")
          /\ held' = [held EXCEPT ![j] = H] /\ popped' = [popped EXCEPT ![j] = popped[j] + c]
          /\ worker' = [worker EXCEPT ![j] = IF H = {} THEN "loop" ELSE "gate"]
      BY <2>4, TakeEffect
    <3>2. \A i \in Nat : i \in 1..(popped[j] + c) =>
             (i \notin H <=> i \in 1..popped[j] \/ i \in S)
      <4>1. \A n \in 1..c : queue[j][n].good \in BOOLEAN
        <5>1. \A n \in 1..c : n \in 1..Len(queue[j]) /\ queue[j][n] \in Entries
          BY <2>1, <2>4 DEF QueueInv
        <5> QED
          BY <5>1 DEF Entries
      <4>2. ASSUME NEW i \in 1..(popped[j] + c), i \notin 1..popped[j]
            PROVE  i \notin H <=> i \in S
        <5>1. (i - popped[j]) \in 1..c /\ i = popped[j] + (i - popped[j])
          BY <2>1, <4>2
        <5>2. \A n \in 1..c : i = popped[j] + n => n = i - popped[j]
          BY <2>1
        <5>3. i \in H <=> queue[j][i - popped[j]].good = TRUE
          BY <5>1, <5>2 DEF TakenItems
        <5>4. i \in S <=> queue[j][i - popped[j]].good = FALSE
          BY <5>1, <5>2 DEF TakenItems
        <5> QED
          BY <5>1, <5>3, <5>4, <4>1
      <4>3. ASSUME NEW i \in 1..popped[j] PROVE i \notin H
        BY <2>1 DEF TakenItems
      <4> QED
        BY <4>2, <4>3
    <3>3. S \subseteq 1..(popped[j] + c) /\ \A i \in S : i \notin 1..popped[j]
      BY <2>1 DEF TakenItems
    <3> HIDE DEF H, S
    <3>4. S \subseteq Items(j)
      <4>1. popped[j] + c <= Size[j] /\ Size[j] \in Nat
        <5>1. next[j] = popped[j] + Len(queue[j]) + 1 /\ next[j] <= Size[j] + 1 /\ Size[j] \in Nat
          BY JobsAssumption DEF QueueInv
        <5> QED
          BY <2>1, <2>4, <5>1
      <4> QED
        BY <2>1, <3>3, <4>1 DEF Items
    <3>5. Answered(j)' = {i \in 1..(popped[j] + c) : i \notin H}
      BY <3>1 DEF Answered, ControlTypes, Final, Ended, QueueInv, HeldInv
    <3>6. \A i \in Items(j) : i \in Answered(j)' <=> i \in Answered(j) \/ i \in S
      BY <2>1, <2>2, <3>2, <3>3, <3>5 DEF Items
    <3>7. \A k \in Jobs \ {j} : Answered(k)' = Answered(k)
      BY <3>1 DEF Answered, ControlTypes, QueueInv, HeldInv
    <3>8. "failed" \in Verdicts
      BY DEF Verdicts
    <3> QED
      BY <2>2, <3>1, <3>3, <3>4, <3>6, <3>7, <3>8, ResultsAdded
  <2> QED
    BY <1>6, <2>3, <2>4, ConsumeTakes
\* What is held are items of the job without a result.
<1>7. ASSUME NEW j \in Jobs PROVE held[j] \subseteq Items(j)
  <2>1. /\ next[j] = popped[j] + Len(queue[j]) + 1 /\ next[j] <= Size[j] + 1
        /\ Size[j] \in Nat /\ popped[j] \in Nat /\ Len(queue[j]) \in Nat
    BY JobsAssumption DEF QueueInv
  <2>2. popped[j] <= Size[j]
    BY <2>1
  <2> QED
    BY <2>1, <2>2 DEF HeldInv, Items
<1>8. ASSUME NEW j \in Jobs, TryGate(j) PROVE ResultInv'
  <2>1. UNCHANGED popped /\ worker[j] = "gate"
    BY <1>8 DEF TryGate
  <2>2. CASE canceled[j]
    <3>1. /\ AddResults(j, held[j], "canceled") /\ held' = [held EXCEPT ![j] = {}]
          /\ worker' = [worker EXCEPT ![j] = "loop"]
      BY <2>2, <1>8 DEF TryGate, WorkerTo
    <3>2. \A k \in Jobs \ {j} : Answered(k)' = Answered(k)
      BY <2>1, <3>1 DEF Answered, ControlTypes, HeldInv
    <3>3. Answered(j) = {i \in 1..popped[j] : i \notin held[j]} /\ Answered(j)' = 1..popped[j]
      BY <2>1, <3>1 DEF Answered, ControlTypes, HeldInv, Final, Ended
    <3>4. held[j] \subseteq 1..popped[j] /\ "canceled" \in Verdicts
      BY DEF HeldInv, Verdicts
    <3> QED
      BY <1>7, <3>1, <3>2, <3>3, <3>4, ResultsAdded
  <2>3. CASE ~canceled[j]
    <3>1. UNCHANGED <<held, resultVars>> /\ \E to \in {"blocking", "mark"} : worker' = [worker EXCEPT ![j] = to]
      BY <2>3, <1>8 DEF TryGate, WorkerTo
    <3>2. \A k \in Jobs : Answered(k)' = Answered(k)
      BY <2>1, <3>1 DEF Answered, ControlTypes, Final, Ended
    <3> QED
      BY <3>1, <3>2, ResultsUnchanged
  <2> QED
    BY <2>2, <2>3
<1>9. ASSUME NEW j \in Jobs, JoinProducer(j) PROVE ResultInv'
  <2>1. /\ worker[j] = "join" /\ worker' = [worker EXCEPT ![j] = "revoke"]
        /\ UNCHANGED <<popped, held>> /\ AddResults(j, Untaken(j), "canceled")
    BY <1>9 DEF JoinProducer, WorkerTo, Finalized
  <2>2. Answered(j) = 1..popped[j] /\ Answered(j)' = Items(j)
    BY <2>1 DEF Answered, ControlTypes, Final, Ended, HeldInv, Calling, InSlot
  <2>3. \A k \in Jobs \ {j} : Answered(k)' = Answered(k)
    BY <2>1 DEF Answered, ControlTypes
  <2>4. /\ Untaken(j) \subseteq Items(j) /\ "canceled" \in Verdicts
        /\ \A i \in Items(j) : i \in Untaken(j) <=> i \notin 1..popped[j]
    BY DEF Untaken, Verdicts, Items, QueueInv
  <2>5. /\ \A i \in Untaken(j) : i \notin Answered(j)
        /\ \A i \in Items(j) : i \in Answered(j)' <=> i \in Answered(j) \/ i \in Untaken(j)
    BY <2>2, <2>4
  <2> QED
    BY <2>1, <2>3, <2>4, <2>5, ResultsAdded
<1>10. ASSUME NEW j \in Jobs, NEW v \in Verdicts, Record(j, v) PROVE ResultInv'
  <2>1. PICK i \in held[j] :
           /\ AddResults(j, {i}, v) /\ held' = [held EXCEPT ![j] = @ \ {i}]
           /\ worker' = [worker EXCEPT ![j] = IF held[j] = {i} THEN "loop" ELSE "record"]
    BY <1>10 DEF Record
  <2>2. UNCHANGED popped /\ worker[j] = "record"
    BY <1>10 DEF Record
  <2>3. \A k \in Jobs \ {j} : Answered(k)' = Answered(k)
    BY <2>1, <2>2 DEF Answered, ControlTypes, HeldInv
  <2>4. /\ Answered(j) = {n \in 1..popped[j] : n \notin held[j]}
        /\ Answered(j)' = {n \in 1..popped[j] : n \notin held[j] \ {i}}
    BY <2>1, <2>2 DEF Answered, ControlTypes, HeldInv, Final, Ended
  <2>5. i \in 1..popped[j]
    BY DEF HeldInv
  <2>6. /\ {i} \subseteq Items(j) /\ \A n \in {i} : n \notin Answered(j)
        /\ \A n \in Items(j) : n \in Answered(j)' <=> n \in Answered(j) \/ n \in {i}
    BY <1>7, <2>4, <2>5 DEF Items
  <2> QED
    BY <2>1, <2>3, <2>6, ResultsAdded
<1> QED
  BY <1>1, <1>4, <1>5, <1>6, <1>8, <1>9, <1>10, ResultFrame DEF Resulting


--------------------------------------------------------------------------------
(* Unless a job is canceled, or a rendition of it is, nothing of it ends early.     *)
Pulled(j, n) == \E m \in pulled[j] : m <= n

ReasonOf(j) ==
    /\ rendition[j] # "none" \/ thumb[j] # "none" => producer[j] = "wait"
    /\ thumb[j] # "none" => rendition[j] = "none"
    /\ rendition[j] = "moved" \/ thumb[j] = "canceled" => Pulled(j, next[j])
    /\ producer[j] = "done" => next[j] > Size[j] \/ Pulled(j, next[j])
    /\ worker[j] = "join" => popped[j] >= Size[j] \/ Pulled(j, popped[j] + 1)
    /\ \A i \in Items(j) : verdict[j][i] = "canceled" => Pulled(j, i)

ReasonInv == \A j \in Jobs : ~canceled[j] => ReasonOf(j)

LEMMA InitReason == Init => ReasonInv
  BY DEF Init, Each, ReasonInv, ReasonOf

\* What only a step of the producer, of a rendition, or one that adds results may do.
ReasonsKept ==
    /\ UNCHANGED <<prodVars, popped, verdict>>
    /\ \A j \in Jobs : worker'[j] = "join" => worker[j] = "join"
    /\ \A j \in Jobs : canceled[j] => canceled'[j]

Reasoning(j) ==
    Resulting(j) \/ Produce(j) \/ Delivery(j)

LEMMA ReasonFrame == ControlTypes /\ [Next]_vars => ReasonsKept \/ \E j \in Jobs : Reasoning(j)
<1> SUFFICES ASSUME ControlTypes, [Next]_vars, ~ \E j \in Jobs : Reasoning(j)
             PROVE  ReasonsKept
  OBVIOUS
<1> USE JobsAssumption DEF ControlTypes, ReasonsKept, WorkerAt, InSlot, Ended, ProducerAt
<1>1. ASSUME NEW j \in Jobs, StartAnalysis(j) PROVE ReasonsKept
  BY <1>1 DEF StartAnalysis, WorkerTo, prodVars, resultVars, slotVars, cancelVars
<1>2. ASSUME NEW j \in Jobs, NEW ok \in BOOLEAN, Register(j, ok) PROVE ReasonsKept
  BY <1>2 DEF Reasoning, Resulting
<1>3. ASSUME NEW j \in Jobs, NEW ok \in BOOLEAN, Spawn(j, ok) PROVE ReasonsKept
  BY <1>3 DEF Reasoning, Resulting
<1>4. ASSUME NEW j \in Jobs, Consume(j) PROVE ReasonsKept
  BY <1>4 DEF Reasoning, Resulting
<1>5. ASSUME NEW j \in Jobs, TryGate(j) PROVE ReasonsKept
  BY <1>5 DEF Reasoning, Resulting
<1>6. ASSUME NEW j \in Jobs, Block(j) PROVE ReasonsKept
  BY <1>6 DEF Block, SlotStep, WorkerTo, WorkerRest, prodVars, resultVars, slotVars,
     cancelVars
<1>7. ASSUME NEW j \in Jobs, MarkInFlight(j) PROVE ReasonsKept
  BY <1>7 DEF MarkInFlight, SlotStep, WorkerTo, WorkerRest, prodVars, resultVars,
     slotVars, cancelVars
<1>8. ASSUME NEW j \in Jobs, Recheck(j) PROVE ReasonsKept
  BY <1>8 DEF Recheck, Rechecked, SlotStep, WorkerTo, WorkerRest, prodVars, resultVars,
     slotVars, cancelVars
<1>9. ASSUME NEW j \in Jobs, Send(j) PROVE ReasonsKept
  BY <1>9 DEF Send, SlotStep, WorkerTo, WorkerRest, prodVars, resultVars, slotVars,
     cancelVars
<1>10. ASSUME NEW j \in Jobs, Return(j) PROVE ReasonsKept
  BY <1>10 DEF Return, SlotStep, WorkerTo, WorkerRest, prodVars, resultVars, slotVars,
     cancelVars
<1>11. ASSUME NEW j \in Jobs, Unmark(j) PROVE ReasonsKept
  BY <1>11 DEF Unmark, SlotStep, WorkerTo, WorkerRest, prodVars, resultVars, slotVars,
     cancelVars
<1>12. ASSUME NEW j \in Jobs, ClearRequestId(j) PROVE ReasonsKept
  BY <1>12 DEF ClearRequestId, SlotStep, WorkerTo, WorkerRest, prodVars, resultVars,
     slotVars, cancelVars
<1>13. ASSUME NEW j \in Jobs, Release(j) PROVE ReasonsKept
  BY <1>13 DEF Release, Wake, WorkerRest, prodVars, resultVars, slotVars, cancelVars
<1>14. ASSUME NEW j \in Jobs, NEW v \in Verdicts, Record(j, v) PROVE ReasonsKept
  BY <1>14 DEF Reasoning, Resulting
<1>15. ASSUME NEW j \in Jobs, JoinProducer(j) PROVE ReasonsKept
  BY <1>15 DEF Reasoning, Resulting
<1>16. ASSUME NEW j \in Jobs, NEW ok \in BOOLEAN, Revoke(j, ok) PROVE ReasonsKept
  BY <1>16 DEF Revoke, WorkerTo, prodVars, resultVars, slotVars, cancelVars
<1>17. ASSUME NEW j \in Jobs, Report(j) PROVE ReasonsKept
  BY <1>17 DEF Report, WorkerTo, prodVars, resultVars, slotVars, cancelVars
<1>18. ASSUME NEW j \in Jobs, Request(j) PROVE ReasonsKept
  BY <1>18 DEF Reasoning, Produce
<1>19. ASSUME NEW j \in Jobs, GiveUp(j) PROVE ReasonsKept
  BY <1>19 DEF Reasoning, Produce
<1>20. ASSUME NEW j \in Jobs, NEW e \in BOOLEAN, Prepare(j, e) PROVE ReasonsKept
  BY <1>20 DEF Reasoning, Produce
<1>21. ASSUME NEW j \in Jobs, Push(j) PROVE ReasonsKept
  BY <1>21 DEF Reasoning, Produce
<1>22. ASSUME NEW j \in Jobs, NEW r \in {"ready", "error", "canceled"}, Deliver(j, r)
       PROVE  ReasonsKept
  BY <1>22 DEF Reasoning, Delivery
<1>23. ASSUME NEW j \in Jobs, StoreSeen(j) PROVE ReasonsKept
  BY <1>23 DEF StoreSeen, prodVars, resultVars, slotVars, cancelVars
<1>24. ASSUME NEW j \in Jobs, Cancel(j) PROVE ReasonsKept
  BY <1>24 DEF Cancel, CancelerTo, CancelRest, prodVars, resultVars, slotVars,
     cancelVars
<1>25. ASSUME NEW j \in Jobs, NotifyGate(j) PROVE ReasonsKept
  BY <1>25 DEF NotifyGate, CancelerTo, CancelRest, Wake, prodVars, resultVars, slotVars,
     cancelVars
<1>26. ASSUME NEW j \in Jobs, LookInFlight(j) PROVE ReasonsKept
  BY <1>26 DEF LookInFlight, CancelerTo, CancelRest, prodVars, resultVars, slotVars,
     cancelVars
<1>27. ASSUME NEW j \in Jobs, CancelTask(j) PROVE ReasonsKept
  BY <1>27 DEF CancelTask, CancelerTo, CancelRest, prodVars, resultVars, slotVars,
     cancelVars
<1>28. CASE UNCHANGED vars
  BY <1>28 DEF vars, prodVars, resultVars, slotVars, cancelVars
<1> QED
  BY <1>1, <1>2, <1>3, <1>4, <1>5, <1>6, <1>7, <1>8, <1>9, <1>10, <1>11, <1>12, <1>13,
     <1>14, <1>15, <1>16, <1>17, <1>18, <1>19, <1>20, <1>21, <1>22, <1>23, <1>24, <1>25,
     <1>26, <1>27, <1>28 DEF Next, RunJob, Produce, Delivery, CancelStep

\* Adding results that are not "canceled" adds none that is.
LEMMA NoneCanceledAdded ==
  ASSUME ResultInv, NEW j \in Jobs, NEW S, NEW v, v # "canceled", AddResults(j, S, v)
  PROVE  \A k \in Jobs : \A i \in Items(k) :
            verdict'[k][i] = "canceled" => verdict[k][i] = "canceled"
  BY DEF AddResults, ResultInv

\* Steps of the worker that cancel nothing, and that do not end the loop.
LEMMA StepKeepsReason ==
  ASSUME ReasonInv, UNCHANGED <<next, rendition, thumb, pulled, popped, canceled>>,
         \A k \in Jobs : producer'[k] = producer[k] \/ (producer[k] = "none" /\ producer'[k] = "next"),
         \A k \in Jobs : worker'[k] = "join" => worker[k] = "join",
         \A k \in Jobs : ~canceled[k] => \A i \in Items(k) :
            verdict'[k][i] = "canceled" => verdict[k][i] = "canceled"
  PROVE  ReasonInv'
  BY DEF ReasonInv, ReasonOf, Pulled

LEMMA StepReason ==
  ControlTypes /\ RevokeInv /\ QueueInv /\ HeldInv /\ ResultInv /\ ReasonInv /\ [Next]_vars => ReasonInv'
<1> SUFFICES ASSUME ControlTypes, RevokeInv, QueueInv, HeldInv, ResultInv, ReasonInv, [Next]_vars
             PROVE  ReasonInv'
  OBVIOUS
<1>1. CASE ReasonsKept
  BY <1>1 DEF ReasonsKept, ReasonInv, ReasonOf, Pulled, prodVars, ControlTypes
<1>3. ASSUME NEW j \in Jobs, NEW ok \in BOOLEAN, Register(j, ok) \/ Spawn(j, ok)
      PROVE  ReasonInv'
  <2>1. UNCHANGED <<next, rendition, thumb, pulled, popped, canceled>>
    BY <1>3 DEF Register, Spawn, prodVars, cancelVars
  <2>2. /\ \A k \in Jobs : worker'[k] = "join" => worker[k] = "join"
        /\ \A k \in Jobs :
              producer'[k] = producer[k] \/ (producer[k] = "none" /\ producer'[k] = "next")
    BY <1>3 DEF Register, Spawn, WorkerTo, ProducerTo, ControlTypes, prodVars, RevokeInv
  <2>3. UNCHANGED verdict \/ AddResults(j, Items(j), "failed")
    BY <1>3 DEF Register, Spawn, resultVars
  <2>4. \A k \in Jobs : \A i \in Items(k) :
           verdict'[k][i] = "canceled" => verdict[k][i] = "canceled"
    BY <2>3, NoneCanceledAdded
  <2> QED
    BY <2>1, <2>2, <2>4, StepKeepsReason
<1>4. ASSUME NEW j \in Jobs, Consume(j) PROVE ReasonInv'
  <2>1. UNCHANGED <<producer, next, rendition, thumb, pulled, canceled>>
    BY <1>4, ConsumeTakes DEF prodVars, cancelVars
  <2>2. ASSUME canceled[j] \/ popped[j] >= Size[j] \/ (producer[j] = "done" /\ queue[j] = <<>>),
               UNCHANGED <<queue, popped, held, resultVars>>,
               worker' = [worker EXCEPT ![j] = "join"]
        PROVE  ReasonInv'
    <3>1. ~canceled[j] => popped[j] >= Size[j] \/ Pulled(j, popped[j] + 1)
      <4>1. ASSUME ~canceled[j], producer[j] = "done", queue[j] = <<>>
            PROVE  popped[j] >= Size[j] \/ Pulled(j, popped[j] + 1)
        <5>1. next[j] = popped[j] + Len(queue[j]) + 1 /\ Len(queue[j]) = 0 /\ popped[j] \in Nat
          BY <4>1 DEF QueueInv
        <5>2. next[j] = popped[j] + 1
          BY <5>1
        <5>3. next[j] > Size[j] \/ Pulled(j, next[j])
          BY <4>1 DEF ReasonInv, ReasonOf
        <5>4. next[j] > Size[j] => popped[j] >= Size[j]
          BY <5>1, <5>2, JobsAssumption
        <5> QED
          BY <5>2, <5>3, <5>4
      <4> QED
        BY <2>2, <4>1
    <3>2. \A k \in Jobs : worker'[k] = "join" => worker[k] = "join" \/ k = j
      BY <2>2 DEF ControlTypes
    <3> QED
      BY <2>1, <2>2, <3>1, <3>2 DEF ReasonInv, ReasonOf, Pulled, resultVars
  <2>3. ASSUME NEW c \in Nat, c <= Len(queue[j]), Take(j, c) PROVE ReasonInv'
    <3>1. /\ AddResults(j, TakenItems(j, c, FALSE), "failed")
          /\ \A k \in Jobs : worker'[k] = "join" => worker[k] = "join" /\ popped'[k] = popped[k]
      BY <2>3, TakeEffect DEF ControlTypes, QueueInv
    <3>2. \A k \in Jobs : \A i \in Items(k) :
             verdict'[k][i] = "canceled" => verdict[k][i] = "canceled"
      BY <3>1, NoneCanceledAdded
    <3> QED
      BY <2>1, <3>1, <3>2 DEF ReasonInv, ReasonOf, Pulled
  <2> QED
    BY <1>4, <2>2, <2>3, ConsumeTakes
<1>5. ASSUME NEW j \in Jobs, TryGate(j) PROVE ReasonInv'
  <2>1. UNCHANGED <<producer, next, rendition, thumb, pulled, popped, canceled>>
    BY <1>5 DEF TryGate, WorkerRest, prodVars, cancelVars
  <2>2. \A k \in Jobs : worker'[k] = "join" => worker[k] = "join"
    BY <1>5 DEF TryGate, WorkerTo, ControlTypes
  <2>3. \A k \in Jobs : ~canceled[k] => \A i \in Items(k) :
           verdict'[k][i] = "canceled" => verdict[k][i] = "canceled"
    BY <1>5 DEF TryGate, AddResults, ResultInv, resultVars
  <2> QED
    BY <2>1, <2>2, <2>3, StepKeepsReason
<1>6. ASSUME NEW j \in Jobs, JoinProducer(j) PROVE ReasonInv'
  <2>1. /\ UNCHANGED <<producer, next, rendition, thumb, pulled, popped, canceled>>
        /\ worker[j] = "join" /\ worker' = [worker EXCEPT ![j] = "revoke"]
        /\ AddResults(j, Untaken(j), "canceled")
    BY <1>6 DEF JoinProducer, WorkerTo, WorkerRest, Finalized, prodVars, cancelVars
  <2>2. /\ \A k \in Jobs : worker'[k] = "join" => worker[k] = "join"
        /\ popped[j] \in Nat /\ Size[j] \in Nat /\ pulled[j] \subseteq Nat
    BY <2>1, JobsAssumption DEF ControlTypes, QueueInv
  <2>3. ASSUME NEW k \in Jobs, ~canceled[k], NEW i \in Items(k), verdict'[k][i] = "canceled"
        PROVE  Pulled(k, i)
    <3>1. CASE verdict[k][i] = "canceled"
      BY <2>3, <3>1 DEF ReasonInv, ReasonOf
    <3>2. CASE verdict[k][i] # "canceled"
      <4>1. k = j /\ i \in Untaken(j)
        BY <2>1, <2>3, <3>2 DEF AddResults, ResultInv
      <4>2. i \in Nat /\ i <= Size[j] /\ i > popped[j]
        BY <4>1, <2>2 DEF Untaken, Items
      <4>3. Pulled(j, popped[j] + 1)
        BY <2>1, <2>2, <2>3, <4>1, <4>2 DEF ReasonInv, ReasonOf
      <4> QED
        BY <2>2, <4>1, <4>2, <4>3 DEF Pulled
    <3> QED
      BY <3>1, <3>2
  <2> QED
    BY <2>1, <2>2, <2>3 DEF ReasonInv, ReasonOf, Pulled
<1>7. ASSUME NEW j \in Jobs, NEW v \in Verdicts, Record(j, v) PROVE ReasonInv'
  <2>1. /\ UNCHANGED <<producer, next, rendition, thumb, pulled, popped, canceled>>
        /\ v = "canceled" <=> canceled[j]
    BY <1>7 DEF Record, WorkerRest, prodVars, cancelVars
  <2>2. PICK i \in held[j] : AddResults(j, {i}, v)
    BY <1>7 DEF Record
  <2>4. \A k \in Jobs : ~canceled[k] => \A n \in Items(k) :
           verdict'[k][n] = "canceled" => verdict[k][n] = "canceled"
    BY <2>1, <2>2 DEF AddResults, ResultInv
  <2>5. \A k \in Jobs : worker'[k] = "join" => worker[k] = "join"
    BY <1>7 DEF Record, ControlTypes
  <2> QED
    BY <2>1, <2>4, <2>5, StepKeepsReason
<1>8. ASSUME NEW j \in Jobs, Produce(j) PROVE ReasonInv'
  <2>1. /\ UNCHANGED <<worker, popped, verdict, canceled>>
        /\ next[j] \in Nat /\ Size[j] \in Nat /\ pulled[j] \subseteq Nat
    BY <1>8, JobsAssumption
    DEF Produce, Request, GiveUp, Push, Prepare, ProducerRest, resultVars, cancelVars,
        ControlTypes
  <2>3. ASSUME Request(j) PROVE ReasonInv'
    BY <2>1, <2>3 DEF Request, ProducerTo, ReasonInv, ReasonOf, Pulled, ControlTypes
  <2>4. ASSUME Push(j) PROVE ReasonInv'
    BY <2>1, <2>4 DEF Push, ProducerTo, ReasonInv, ReasonOf, Pulled, ControlTypes
  <2>5. ASSUME NEW encoded \in BOOLEAN, Prepare(j, encoded) PROVE ReasonInv'
    BY <2>1, <2>5 DEF Prepare, ProducerTo, EraseToken, ReasonInv, ReasonOf, Pulled, ControlTypes
  \* The cancel moves the token of those who wait for the image, and of nobody else.
  <2>6. ASSUME GiveUp(j) PROVE ReasonInv'
    <3>1. /\ canceled[j] /\ UNCHANGED <<next, thumb>>
          /\ producer' = [producer EXCEPT ![j] = "done"]
          /\ rendition' = MoveToken(next[j])
          /\ pulled' = [k \in Jobs |->
                          IF k \in Sharers(j) THEN pulled[k] \cup {next[k]} ELSE pulled[k]]
      BY <2>6 DEF GiveUp, ProducerTo
    <3>2. \A k \in Jobs : \A n : Pulled(k, n) => Pulled(k, n)'
      BY <3>1 DEF Pulled
    <3>3. ASSUME NEW k \in Jobs, ~canceled[k] PROVE ReasonOf(k)'
      <4>1. k # j /\ producer'[k] = producer[k] /\ ReasonOf(k)
        BY <3>1, <3>3 DEF ReasonInv, ControlTypes
      <4>2. /\ rendition'[k] # "none" => rendition[k] # "none"
            /\ rendition[k] = "none" => rendition'[k] = "none"
        BY <3>1 DEF MoveToken
      <4>3. ASSUME rendition'[k] = "moved" PROVE Pulled(k, next[k])'
        <5>1. CASE rendition[k] = "moved"
          BY <4>1, <5>1, <3>1, <3>2 DEF ReasonOf
        <5>2. CASE rendition[k] # "moved"
          <6>1. rendition[k] = "live" /\ next[k] = next[j]
            BY <4>3, <5>2, <3>1 DEF MoveToken
          <6>2. k \in Sharers(j)
            BY <4>1, <6>1 DEF Sharers, ReasonOf
          <6>3. next[k] \in pulled'[k] /\ next[k] \in Nat
            BY <3>1, <6>2 DEF ControlTypes
          <6> QED
            BY <3>1, <6>3 DEF Pulled
        <5> QED
          BY <5>1, <5>2
      <4> QED
        BY <2>1, <3>1, <3>2, <4>1, <4>2, <4>3 DEF ReasonOf
    <3> QED
      BY <2>1, <3>3 DEF ReasonInv
  <2> QED
    BY <1>8, <2>3, <2>4, <2>5, <2>6 DEF Produce
<1>9. ASSUME NEW j \in Jobs, NEW r \in {"ready", "error", "canceled"}, Deliver(j, r)
      PROVE  ReasonInv'
  <2>1. UNCHANGED <<worker, popped, verdict, canceled, producer, next, pulled>>
    BY <1>9 DEF Deliver, resultVars, cancelVars
  <2>2. CASE producer[j] = "wait"
    <3>1. /\ thumb' = [thumb EXCEPT ![j] = r] /\ rendition' = [rendition EXCEPT ![j] = "none"]
          /\ r = "canceled" => rendition[j] = "moved"
      BY <1>9, <2>2 DEF Deliver
    <3> QED
      BY <2>1, <2>2, <3>1 DEF ReasonInv, ReasonOf, Pulled, ControlTypes
  <2>3. CASE producer[j] # "wait"
    <3>1. /\ UNCHANGED thumb
          /\ \A k \in Jobs : /\ rendition'[k] = "moved" => rendition[k] = "moved"
                             /\ rendition'[k] # "none" => rendition[k] # "none"
      BY <1>9, <2>3 DEF Deliver, EraseToken, ControlTypes
    <3> QED
      BY <2>1, <3>1 DEF ReasonInv, ReasonOf, Pulled
  <2> QED
    BY <2>2, <2>3
<1> QED
  BY <1>1, <1>3, <1>4, <1>5, <1>6, <1>7, <1>8, <1>9, ReasonFrame DEF Reasoning, Resulting,
    Delivery

--------------------------------------------------------------------------------
IInv ==
    ControlTypes /\ CallInv /\ RevokeInv /\ QueueInv /\ HeldInv /\ ResultInv /\ ReasonInv

\* Control points, the gate, the credential, the queue, the items in the worker's
\* hands, the verdicts and the reasons of a cancel, kept together by every step.
THEOREM Invariance == Spec => []IInv
<1>1. Init => IInv
  BY InitControl, InitCall, InitRevoke, InitQueue, InitHeld, InitResults, InitReason DEF IInv
<1>2. IInv /\ [Next]_vars => IInv'
  BY StepControl, StepCall, StepRevoke, StepQueue, StepHeld, StepResults, StepReason DEF IInv
<1> QED
  BY <1>1, <1>2, PTL DEF Spec

\* Between two looks at the queue every item has one result, is held by the call
\* the worker is at, or is still to be taken; when on_finished is called all have one.
THEOREM ResultsAreComplete == Spec => []ResultsComplete
<1>1. IInv => TypeOK
  <2> SUFFICES ASSUME IInv PROVE TypeOK
    OBVIOUS
  <2>1. queue \in [Jobs -> Seq([item : Nat \ {0}, good : BOOLEAN])] /\ popped \in [Jobs -> Nat]
    BY DEF IInv, QueueInv, Entries
  <2> QED
    BY <2>1 DEF IInv, ControlTypes, HeldInv, ResultInv, TypeOK, Renditions, Results, Cancelers
<1>2. IInv => OneResultEach
  <2> SUFFICES ASSUME IInv, NEW j \in Jobs
               PROVE  /\ \A i \in Items(j) : answers[j][i] <= 1
                      /\ worker[j] \in Ended =>
                            /\ \A i \in Items(j) : answers[j][i] = 1
                            /\ \A v \in Verdicts :
                                  progress[j][v] = Cardinality({i \in Items(j) : verdict[j][i] = v})
    BY DEF OneResultEach
  <2>1. \A i \in Items(j) : answers[j][i] = IF i \in Answered(j) THEN 1 ELSE 0
    BY DEF IInv, ResultInv
  <2>2. worker[j] \in Ended => Answered(j) = Items(j)
    BY DEF Answered, Final
  <2> QED
    BY <2>1, <2>2 DEF IInv, ResultInv
<1> QED
  BY <1>1, <1>2, Invariance, PTL DEF ResultsComplete

\* The gate and the flags: one call at a time over all jobs, and none after a
\* cancel that looked and found no call.
THEOREM CallsAreDisciplined == Spec => []CallDiscipline
<1>1. IInv => CallDiscipline
  BY DEF IInv, CallInv, CallDiscipline
<1> QED
  BY <1>1, Invariance, PTL

\* A job that spawned its producer tries to revoke its credential before on_finished,
\* and sends no call once it has.
THEOREM CredentialRevoked == Spec => []RevokedOnceBetween
<1>1. IInv => RevokedOnceBetween
  BY DEF IInv, RevokeInv
<1> QED
  BY <1>1, Invariance, PTL

\* A cancel of one job reaches an item of another only through the image they both
\* wait for, and the items after it.
THEOREM CancelsHaveReason == Spec => []CanceledForAReason
<1>1. IInv => CanceledForAReason
  BY DEF IInv, ReasonInv, ReasonOf, Pulled, CanceledForAReason
<1> QED
  BY <1>1, Invariance, PTL

================================================================================
