------------------------ MODULE ThumbnailService_proofs ------------------------
(***************************************************************************)
(* Theorems of ThumbnailService, for any number of requests, elements and  *)
(* tiers and any capacity.  Custody is inductive: every action moves       *)
(* callbacks in one of four ways (a work takes a pending_ entry, a work    *)
(* answers what it took, entries are answered, entries are dropped) or     *)
(* only adds one.  With it Sound is: Flow bounds the age of every image on *)
(* its way to an answer and says who holds a pipeline, CacheShape ties the *)
(* list of the cache to its data, PinsInv counts pins.  Rest says that the *)
(* work that made a pending_ entry is still on it.                         *)
(***************************************************************************)
EXTENDS ThumbnailService, FiniteSetTheorems, TLAPS

\* A request that has not been issued has no key of the cache.
LEMMA NoKeyIsNoKey == NoKey \notin Keys
  BY DEF NoKey, Keys

-----------------------------------------------------------------------------
\* PublishRead, PrepareFail and TaskCallback move a pending_ entry to a work.
LEMMA TakeKeepsCustody ==
  ASSUME Custody, NEW w \in Works, key[w] # NoKey,
         pending' = [pending EXCEPT ![key[w]] = {}],
         taken' = [taken EXCEPT ![w] = pending[key[w]]],
         UNCHANGED <<answers, dropped, key, ui>>,
         work' \in [Works -> WorkStates],
         \A v \in Works \ {w} : work'[v] = work[v]
  PROVE  Custody'
<1> USE DEF Works
<1>0. key[w] \in Keys
  BY DEF Custody, CustodyTypes
<1>1. CustodyTypes'
  BY <1>0 DEF Custody, CustodyTypes
<1>2. Settled'
  BY DEF Custody, Settled
<1>3. PendingHeld'
  BY <1>0 DEF Custody, CustodyTypes, PendingHeld, Unanswered
<1>4. TakenHeld'
  BY <1>0 DEF Custody, CustodyTypes, PendingHeld, TakenHeld, Unanswered
<1>5. RegisteringHeld'
  BY <1>0 DEF Custody, CustodyTypes, RegisteringHeld, Unanswered
<1> QED
  BY <1>1, <1>2, <1>3, <1>4, <1>5 DEF Custody

\* DispatchRead, DispatchFailed and Finish answer what the work took.
LEMMA GiveKeepsCustody ==
  ASSUME Custody, NEW w \in Works, NEW g,
         Dispatch(taken[w], g), taken' = [taken EXCEPT ![w] = {}],
         UNCHANGED <<pending, dropped, key, ui>>,
         key[w] # NoKey,
         work' \in [Works -> WorkStates],
         \A v \in Works \ {w} : work'[v] = work[v]
  PROVE  Custody'
<1> USE DEF Works
<1>0. \A r \in Requests : answers'[r] = IF r \in taken[w] THEN answers[r] + 1 ELSE answers[r]
  BY DEF Dispatch
<1>a. \A r \in taken[w] : r \in Requests /\ answers[r] = 0 /\ r \notin dropped /\ key[r] # NoKey
  BY DEF Custody, CustodyTypes, TakenHeld, Unanswered
<1>b. answers' \in [Requests -> {0, 1}]
  BY <1>a DEF Custody, CustodyTypes, Dispatch
<1>1. CustodyTypes'
  BY <1>b DEF Custody, CustodyTypes
<1>2. Settled'
  BY <1>0, <1>a DEF Custody, Settled
<1>3. PendingHeld'
  BY <1>0 DEF Custody, CustodyTypes, PendingHeld, TakenHeld, Unanswered
<1>4. TakenHeld'
  BY <1>0 DEF Custody, CustodyTypes, TakenHeld, Unanswered
<1>5. RegisteringHeld'
  BY <1>0 DEF Custody, CustodyTypes, RegisteringHeld, Unanswered
<1> QED
  BY <1>1, <1>2, <1>3, <1>4, <1>5 DEF Custody

\* What is drained from pending_ is unanswered and in no other place.
LEMMA DrainedIsPending ==
  ASSUME Custody, NEW K \in SUBSET Keys
  PROVE  \A r \in Drained(K) :
            /\ r \in Requests /\ Unanswered(r)
            /\ \E k \in K : r \in pending[k]
  BY DEF Custody, CustodyTypes, PendingHeld, Drained

\* CancelPending, by CancelElement or ReleaseThumbnail, answers entries.
LEMMA CancelKeepsCustody ==
  ASSUME Custody, NEW K \in SUBSET Keys, CancelPending(K), ui = Free,
         \A r \in Requests : ui' # <<"register", r>>
  PROVE  Custody'
<1> USE DEF Works
<1>0. /\ \A r \in Requests :
            answers'[r] = IF r \in Drained(K) THEN answers[r] + 1 ELSE answers[r]
      /\ \A k \in Keys : pending'[k] = IF k \in K THEN {} ELSE pending[k]
      /\ UNCHANGED <<key, dropped, taken, work>>
  BY DEF CancelPending, Dispatch
<1>a. \A r \in Drained(K) : /\ r \in Requests /\ Unanswered(r)
                            /\ \E k \in K : r \in pending[k]
  BY DrainedIsPending
<1>1. CustodyTypes'
  BY <1>a DEF Custody, CustodyTypes, CancelPending, Dispatch, Unanswered
<1>2. Settled'
  BY <1>0, <1>a DEF Custody, Settled, Unanswered
<1>3. PendingHeld'
  <2> SUFFICES ASSUME NEW k \in Keys, NEW r \in pending'[k]
               PROVE  key'[r] = k /\ Unanswered(r)'
    BY DEF PendingHeld
  <2>1. k \notin K /\ r \in pending[k] /\ r \in Requests /\ key[r] = k /\ Unanswered(r)
    BY <1>0 DEF Custody, CustodyTypes, PendingHeld
  <2>2. r \notin Drained(K)
    BY <2>1, <1>a DEF Custody, PendingHeld
  <2> QED
    BY <2>1, <2>2, <1>0 DEF Unanswered
<1>4. TakenHeld'
  <2> SUFFICES ASSUME NEW w \in Works, NEW r \in taken[w]
               PROVE  /\ Unanswered(r)'
                      /\ \A k \in Keys : r \notin pending'[k]
                      /\ \A v \in Works \ {w} : r \notin taken[v]
    BY <1>0 DEF TakenHeld
  <2>1. r \in Requests /\ r \notin Drained(K)
    BY <1>a DEF Custody, CustodyTypes, TakenHeld
  <2> QED
    BY <2>1, <1>0 DEF Custody, TakenHeld, Unanswered
<1>5. RegisteringHeld'
  BY DEF RegisteringHeld
<1> QED
  BY <1>1, <1>2, <1>3, <1>4, <1>5 DEF Custody

\* InvalidateThumbnail drops entries.
LEMMA InvalidateKeepsCustody ==
  ASSUME Custody, NEW e \in Elements, Invalidate(e)
  PROVE  Custody'
<1> USE DEF Works
<1> DEFINE K == KeysFor(e)
<1>k. K \in SUBSET Keys
  BY DEF KeysFor, Keys
<1>0. /\ dropped' = dropped \cup Drained(K)
      /\ \A k \in Keys : pending'[k] = IF k \in K THEN {} ELSE pending[k]
      /\ UNCHANGED <<key, answers, taken, work>>
      /\ ui' = <<"purge", e>>
  BY DEF Invalidate
<1>a. \A r \in Drained(K) : /\ r \in Requests /\ Unanswered(r)
                            /\ \E k \in K : r \in pending[k]
  BY <1>k, DrainedIsPending
<1> HIDE DEF K
<1>1. CustodyTypes'
  <2>1. pending' \in [Keys -> SUBSET Requests]
    BY DEF Custody, CustodyTypes, Invalidate
  <2> QED
    BY <2>1, <1>0, <1>a DEF Custody, CustodyTypes
<1>2. Settled'
  BY <1>0, <1>a DEF Custody, Settled, Unanswered, CustodyTypes
<1>3. PendingHeld'
  <2> SUFFICES ASSUME NEW k \in Keys, NEW r \in pending'[k]
               PROVE  key'[r] = k /\ Unanswered(r)'
    BY DEF PendingHeld
  <2>1. k \notin K /\ r \in pending[k] /\ r \in Requests /\ key[r] = k /\ Unanswered(r)
    BY <1>0 DEF Custody, CustodyTypes, PendingHeld
  <2>2. r \notin Drained(K)
    BY <2>1, <1>a, <1>k DEF Custody, PendingHeld
  <2> QED
    BY <2>1, <2>2, <1>0 DEF Unanswered
<1>4. TakenHeld'
  <2> SUFFICES ASSUME NEW w \in Works, NEW r \in taken[w]
               PROVE  /\ Unanswered(r)'
                      /\ \A k \in Keys : r \notin pending'[k]
                      /\ \A v \in Works \ {w} : r \notin taken[v]
    BY <1>0 DEF TakenHeld
  <2>1. r \in Requests /\ r \notin Drained(K)
    BY <1>a, <1>k DEF Custody, CustodyTypes, TakenHeld
  <2> QED
    BY <2>1, <1>0 DEF Custody, TakenHeld, Unanswered
<1>5. RegisteringHeld'
  BY <1>0 DEF RegisteringHeld
<1> QED
  BY <1>1, <1>2, <1>3, <1>4, <1>5 DEF Custody

-----------------------------------------------------------------------------
\* GetThumbnailDetailed answers at once or hands the request on to Register.
LEMMA LookupKeepsCustody ==
  ASSUME Custody, NEW r \in Requests, NEW k \in Keys, Lookup(r, k)
  PROVE  Custody'
<1> USE DEF Works
<1>0. /\ key[r] = NoKey /\ key' = [key EXCEPT ![r] = k] /\ k # NoKey
      /\ ui = Free /\ UNCHANGED <<pending, dropped, taken, work>>
  BY NoKeyIsNoKey DEF Lookup, workVars
<1>a. /\ answers[r] = 0 /\ r \notin dropped
      /\ \A j \in Keys : r \notin pending[j]
      /\ \A w \in Works : r \notin taken[w]
  BY <1>0 DEF Custody, CustodyTypes, Settled, PendingHeld, TakenHeld, Unanswered
<1>b. /\ answers' \in [Requests -> {0, 1}]
      /\ \A q \in Requests \ {r} : answers'[q] = answers[q]
  BY <1>a DEF Lookup, Dispatch, Custody, CustodyTypes
<1>c. \/ answers'[r] = 1 /\ ui' = Free
      \/ answers'[r] = 0 /\ ui' = <<"register", r>>
  BY <1>a, <1>0 DEF Lookup, Dispatch, Custody, CustodyTypes
<1>1. CustodyTypes'
  BY <1>0, <1>b DEF Custody, CustodyTypes
<1>2. Settled'
  BY <1>0, <1>a, <1>b DEF Custody, CustodyTypes, Settled
<1>3. PendingHeld'
  BY <1>0, <1>a, <1>b DEF Custody, CustodyTypes, PendingHeld, Unanswered
<1>4. TakenHeld'
  BY <1>0, <1>a, <1>b DEF Custody, CustodyTypes, TakenHeld, Unanswered
<1>5. RegisteringHeld'
  BY <1>0, <1>a, <1>c DEF Custody, CustodyTypes, RegisteringHeld, Unanswered, Free
<1> QED
  BY <1>1, <1>2, <1>3, <1>4, <1>5 DEF Custody

\* Register puts the request into one pending_ entry.
LEMMA RegisterKeepsCustody ==
  ASSUME Custody, NEW r \in Requests, Register(r)
  PROVE  Custody'
<1> USE DEF Works
<1>0. /\ ui = <<"register", r>> /\ ui' = Free
      /\ pending' = [pending EXCEPT ![key[r]] = @ \cup {r}]
      /\ UNCHANGED <<key, answers, dropped, taken>>
      /\ \A w \in Works \ {r} : work'[w] = work[w]
      /\ work' \in [Works -> WorkStates]
  BY DEF Register, Step, requestVars, Custody, CustodyTypes, WorkStates
<1>a. /\ Unanswered(r) /\ key[r] \in Keys
      /\ \A k \in Keys : r \notin pending[k]
      /\ \A w \in Works : r \notin taken[w]
  BY <1>0 DEF Custody, CustodyTypes, RegisteringHeld, Unanswered
<1>1. CustodyTypes'
  BY <1>0, <1>a DEF Custody, CustodyTypes, Unanswered
<1>2. Settled'
  BY <1>0 DEF Custody, Settled
<1>3. PendingHeld'
  BY <1>0, <1>a DEF Custody, CustodyTypes, PendingHeld, Unanswered
<1>4. TakenHeld'
  BY <1>0, <1>a DEF Custody, CustodyTypes, TakenHeld, Unanswered
<1>5. RegisteringHeld'
  BY <1>0 DEF RegisteringHeld, Free
<1> QED
  BY <1>1, <1>2, <1>3, <1>4, <1>5 DEF Custody

\* A step that leaves callbacks and keys alone, and lets no UI thread begin a
\* registration, keeps Custody.
LEMMA QuietKeepsCustody ==
  ASSUME Custody, UNCHANGED <<pending, taken, answers, dropped, key>>,
         \A r \in Requests : ui' = <<"register", r>> => ui = <<"register", r>>,
         work' \in [Works -> WorkStates],
         \A w \in Works : work'[w] # "none" => work[w] # "none"
  PROVE  Custody'
  BY DEF Custody, CustodyTypes, Settled, PendingHeld, TakenHeld, RegisteringHeld,
         Unanswered, Works

\* No call of the UI thread puts a callback into two places.
LEMMA UIStepKeepsCustody ==
  ASSUME Custody, UIStep
  PROVE  Custody'
<1>1. ASSUME NEW r \in Requests, NEW k \in Keys, Lookup(r, k) PROVE Custody'
  BY <1>1, LookupKeepsCustody
<1>2. ASSUME NEW r \in Requests, Register(r) PROVE Custody'
  BY <1>2, RegisterKeepsCustody
<1>3. ASSUME NEW r \in Requests, Release(r) PROVE Custody'
  <2>1. key[r] \in Keys
    BY <1>3 DEF Release, Issued, Custody, CustodyTypes
  <2>2. ui' = <<"unpin", key[r]>> /\ ui = Free /\ CancelPending({key[r]})
    BY <1>3 DEF Release
  <2>3. \A q \in Requests : ui' # <<"register", q>>
    BY <2>2
  <2> QED
    BY <2>1, <2>2, <2>3, CancelKeepsCustody
<1>4. ASSUME NEW e \in Elements, CancelElement(e) PROVE Custody'
  <2>1. KeysFor(e) \in SUBSET Keys
    BY DEF KeysFor, Keys
  <2>2. ui' = Free /\ ui = Free /\ CancelPending(KeysFor(e))
    BY <1>4 DEF CancelElement
  <2>3. \A q \in Requests : ui' # <<"register", q>>
    BY <2>2 DEF Free
  <2> QED
    BY <2>1, <2>2, <2>3, CancelKeepsCustody
<1>5. ASSUME NEW e \in Elements, Invalidate(e) PROVE Custody'
  BY <1>5, InvalidateKeepsCustody
<1>6. ASSUME NEW k \in Keys, Unpin(k) PROVE Custody'
  BY <1>6, QuietKeepsCustody
  DEF Unpin, requestVars, workVars, Free, Custody, CustodyTypes
<1>7. ASSUME NEW e \in Elements, PurgeDisk(e) \/ Edit(e) \/ Commit(e) PROVE Custody'
  BY <1>7, QuietKeepsCustody
  DEF PurgeDisk, Edit, Commit, requestVars, workVars, Free, Custody, CustodyTypes
<1>8. ASSUME NEW n \in Sizes, ResizeCache(n) PROVE Custody'
  <2>1. UNCHANGED <<pending, requestVars, workVars, ui>>
    BY <1>8 DEF ResizeCache
  <2> QED
    BY <2>1, QuietKeepsCustody DEF requestVars, workVars, Custody, CustodyTypes
<1> QED
  BY <1>1, <1>2, <1>3, <1>4, <1>5, <1>6, <1>7, <1>8 DEF UIStep

\* A step of work w moves only w on.
LEMMA StepMoves ==
  ASSUME Custody, NEW w \in Works, NEW to \in WorkStates, Step(w, to), work[w] # "none"
  PROVE  /\ key[w] # NoKey
         /\ work' \in [Works -> WorkStates]
         /\ \A v \in Works \ {w} : work'[v] = work[v]
         /\ \A v \in Works : work'[v] # "none" => work[v] # "none"
  BY DEF Step, Custody, CustodyTypes

\* No step of a task or a disk read puts a callback into two places.
LEMMA WorkStepKeepsCustody ==
  ASSUME Custody, NEW w \in Works, WorkStep(w)
  PROVE  Custody'
<1>1. CASE ReadDisk(w) \/ StartTask(w) \/ PrepareOk(w) \/ Render(w)
  <2>1. \E to \in WorkStates : Step(w, to)
    BY <1>1 DEF ReadDisk, StartTask, PrepareOk, Render, WorkStates
  <2>2. work[w] # "none" /\ UNCHANGED <<pending, taken, requestVars, ui>>
    BY <1>1 DEF ReadDisk, StartTask, PrepareOk, Render
  <2> QED
    BY <2>1, <2>2, StepMoves, QuietKeepsCustody DEF requestVars
<1>2. CASE PublishRead(w)
  <2>1. work[w] # "none" /\ UNCHANGED <<requestVars, ui>>
    BY <1>2 DEF PublishRead
  <2>2. CASE UNCHANGED <<pending, taken>> /\ Step(w, "done")
    BY <2>1, <2>2, StepMoves, QuietKeepsCustody DEF requestVars, WorkStates
  <2>3. CASE /\ Step(w, "dispatch") /\ pending' = [pending EXCEPT ![key[w]] = {}]
             /\ taken' = [taken EXCEPT ![w] = pending[key[w]]]
    BY <2>1, <2>3, StepMoves, TakeKeepsCustody DEF requestVars, WorkStates
  <2> QED
    BY <1>2, <2>2, <2>3 DEF PublishRead
<1>3. CASE DispatchRead(w) \/ DispatchFailed(w)
  <2>1. \E to \in WorkStates : Step(w, to)
    BY <1>3 DEF DispatchRead, DispatchFailed, WorkStates
  <2>2. /\ work[w] # "none" /\ taken' = [taken EXCEPT ![w] = {}]
        /\ UNCHANGED <<pending, dropped, key, ui>>
        /\ \E g : Dispatch(taken[w], g)
    BY <1>3 DEF DispatchRead, DispatchFailed
  <2> QED
    BY <2>1, <2>2, StepMoves, GiveKeepsCustody
<1>4. CASE PrepareFail(w)
  <2>1. /\ work[w] # "none" /\ Step(w, "failed") /\ UNCHANGED <<requestVars, ui>>
        /\ pending' = [pending EXCEPT ![key[w]] = {}]
        /\ taken' = [taken EXCEPT ![w] = pending[key[w]]]
    BY <1>4 DEF PrepareFail
  <2> QED
    BY <2>1, StepMoves, TakeKeepsCustody DEF requestVars, WorkStates
<1>5. CASE TaskCallback(w)
  <2>1. work[w] # "none" /\ UNCHANGED <<requestVars, ui>>
    BY <1>5 DEF TaskCallback
  <2>2. CASE w \in stale
    <3>1. Step(w, "done") /\ UNCHANGED <<pending, taken>>
      BY <1>5, <2>2 DEF TaskCallback
    <3> QED
      BY <2>1, <3>1, StepMoves, QuietKeepsCustody DEF requestVars, WorkStates
  <2>3. CASE w \notin stale
    <3>1. /\ \E to \in WorkStates : Step(w, to)
          /\ pending' = [pending EXCEPT ![key[w]] = {}]
          /\ taken' = [taken EXCEPT ![w] = pending[key[w]]]
      BY <1>5, <2>3 DEF TaskCallback, WorkStates
    <3> QED
      BY <2>1, <3>1, StepMoves, TakeKeepsCustody DEF requestVars
  <2> QED
    BY <2>2, <2>3
<1>6. CASE Finish(w)
  <2>1. /\ work[w] # "none" /\ Step(w, "done") /\ taken' = [taken EXCEPT ![w] = {}]
        /\ UNCHANGED <<pending, dropped, key, ui>>
        /\ \E g : Dispatch(taken[w], g)
    BY <1>6 DEF Finish
  <2> QED
    BY <2>1, StepMoves, GiveKeepsCustody DEF WorkStates
<1> QED
  BY <1>1, <1>2, <1>3, <1>4, <1>5, <1>6 DEF WorkStep

\* Nothing was asked yet.
LEMMA InitCustody == Init => Custody
  BY NoKeyIsNoKey
  DEF Init, Custody, CustodyTypes, Settled, PendingHeld, TakenHeld, RegisteringHeld,
      Unanswered, WorkStates, Works, Free

\* Custody is inductive.
LEMMA NextKeepsCustody == Custody /\ [Next]_vars => Custody'
<1> SUFFICES ASSUME Custody, [Next]_vars PROVE Custody'
  OBVIOUS
<1>1. CASE UIStep
  BY <1>1, UIStepKeepsCustody
<1>2. ASSUME NEW w \in Works, WorkStep(w) PROVE Custody'
  BY <1>2, WorkStepKeepsCustody
<1>3. CASE UNCHANGED vars
  BY <1>3, QuietKeepsCustody DEF vars, requestVars, workVars, Custody, CustodyTypes
<1> QED
  BY <1>1, <1>2, <1>3 DEF Next

\* An unanswered callback of GetThumbnailDetailed is in one place only: with
\* the registering UI thread, in one pending_ entry, or moved out by one work.
THEOREM CustodyInvariant == Spec => []Custody
<1>1. Init => Custody
  BY InitCustody
<1>2. Custody /\ [Next]_vars => Custody'
  BY NextKeepsCustody
<1> QED
  BY <1>1, <1>2, PTL DEF Spec

-----------------------------------------------------------------------------
(* The refinement: under Custody, status is the plain reading of the       *)
(* history variables, and every step is one of the promise or a stutter.   *)

StatusReading ==
    status = [r \in Requests |->
                IF r \in dropped THEN "dropped"
                ELSE IF answers[r] = 1 THEN "answered"
                ELSE IF key[r] = NoKey THEN "idle" ELSE "waiting"]

\* Under Custody nobody is answered again.
LEMMA StatusUnderCustody == Custody => StatusReading
<1> SUFFICES ASSUME Custody PROVE StatusReading
  OBVIOUS
<1>1. ASSUME NEW r \in Requests
      PROVE  (answers[r] + (IF r \in dropped THEN 1 ELSE 0) > 1) = FALSE
  <2>1. answers[r] \in {0, 1} /\ (answers[r] = 1 => r \notin dropped)
    BY DEF Custody, CustodyTypes, Settled
  <2>2. CASE answers[r] = 1
    BY <2>1, <2>2
  <2>3. CASE answers[r] = 0
    BY <2>3
  <2> QED
    BY <2>1, <2>2, <2>3
<1> QED
  BY <1>1 DEF status, StatusReading

\* A step that leaves the requests alone is a stutter of the promise.
LEMMA StutterStep ==
  ASSUME UNCHANGED <<answers, dropped, key>>
  PROVE  UNCHANGED status
  BY DEF status

\* An unanswered request waits.
LEMMA WaitingUnanswered ==
  ASSUME Custody, NEW r \in Requests, Unanswered(r)
  PROVE  r \in Promise!Waiting
  BY StatusUnderCustody DEF StatusReading, Promise!Waiting, Unanswered

\* Dispatching to unanswered requests is Answer.
LEMMA AnswerStep ==
  ASSUME Custody, Custody', NEW S \in SUBSET Requests, \A r \in S : Unanswered(r),
         NEW g, Dispatch(S, g), UNCHANGED <<dropped, key>>
  PROVE  Promise!Answer(S)
<1>1. S \subseteq Promise!Waiting
  BY WaitingUnanswered
<1>2. StatusReading /\ StatusReading'
  BY StatusUnderCustody, PTL
<1>3. \A r \in Requests : status'[r] = IF r \in S THEN "answered" ELSE status[r]
  BY <1>2 DEF StatusReading, Dispatch, Unanswered, Custody, CustodyTypes
<1> QED
  BY <1>1, <1>2, <1>3 DEF StatusReading, Promise!Answer, Promise!Move

\* Dropping unanswered requests is Drop.
LEMMA DropStep ==
  ASSUME Custody, Custody', NEW S \in SUBSET Requests, \A r \in S : Unanswered(r),
         dropped' = dropped \cup S, UNCHANGED <<answers, key>>
  PROVE  Promise!Drop(S)
<1>1. S \subseteq Promise!Waiting
  BY WaitingUnanswered
<1>2. StatusReading /\ StatusReading'
  BY StatusUnderCustody, PTL
<1>3. \A r \in Requests : status'[r] = IF r \in S THEN "dropped" ELSE status[r]
  BY <1>2 DEF StatusReading, Unanswered
<1> QED
  BY <1>1, <1>2, <1>3 DEF StatusReading, Promise!Drop, Promise!Move

\* A new request is Ask, or AskHit when the memory cache has the image.
LEMMA LookupStep ==
  ASSUME Custody, Custody', NEW r \in Requests, NEW k \in Keys, Lookup(r, k)
  PROVE  Promise!Ask(r) \/ Promise!AskHit(r)
<1>0. /\ key[r] = NoKey /\ key' = [key EXCEPT ![r] = k] /\ k # NoKey
      /\ UNCHANGED dropped
      /\ answers[r] = 0 /\ r \notin dropped
  BY NoKeyIsNoKey DEF Lookup, Custody, Settled
<1>1. /\ \A q \in Requests \ {r} : answers'[q] = answers[q] /\ key'[q] = key[q]
      /\ answers'[r] \in {0, 1} /\ key'[r] = k
  BY <1>0 DEF Lookup, Dispatch, Custody, CustodyTypes
<1>2. StatusReading /\ StatusReading'
  BY StatusUnderCustody, PTL
<1>3. status[r] = "idle"
  BY <1>0, <1>2 DEF StatusReading
<1>4. CASE answers'[r] = 1
  <2>1. \A q \in Requests : status'[q] = IF q \in {r} THEN "answered" ELSE status[q]
    BY <1>0, <1>1, <1>2, <1>4 DEF StatusReading
  <2> QED
    BY <1>2, <1>3, <2>1 DEF StatusReading, Promise!AskHit, Promise!Move
<1>5. CASE answers'[r] = 0
  <2>1. \A q \in Requests : status'[q] = IF q \in {r} THEN "waiting" ELSE status[q]
    BY <1>0, <1>1, <1>2, <1>5 DEF StatusReading
  <2> QED
    BY <1>2, <1>3, <2>1 DEF StatusReading, Promise!Ask, Promise!Move
<1> QED
  BY <1>1, <1>4, <1>5

\* Cancelling a pending_ entry is Answer.
LEMMA CancelStep ==
  ASSUME Custody, Custody', NEW K \in SUBSET Keys, CancelPending(K)
  PROVE  Promise!Answer(Drained(K))
<1>1. Drained(K) \in SUBSET Requests /\ \A r \in Drained(K) : Unanswered(r)
  BY DrainedIsPending
<1> QED
  BY <1>1, AnswerStep DEF CancelPending

\* Every call of the UI thread is a step of the promise or a stutter.
LEMMA UIStepRefines ==
  ASSUME Custody, Custody', UIStep
  PROVE  [Promise!Next]_status
<1>1. ASSUME NEW r \in Requests, NEW k \in Keys, Lookup(r, k) PROVE Promise!Next
  BY <1>1, LookupStep DEF Promise!Next
<1>2. ASSUME NEW r \in Requests, Release(r) PROVE Promise!Next
  <2>1. key[r] \in Keys /\ CancelPending({key[r]})
    BY <1>2 DEF Release, Issued, Custody, CustodyTypes
  <2>2. Drained({key[r]}) \in SUBSET Requests
    BY <2>1, DrainedIsPending
  <2> QED
    BY <2>1, <2>2, CancelStep DEF Promise!Next
<1>3. ASSUME NEW e \in Elements, CancelElement(e) PROVE Promise!Next
  <2>1. KeysFor(e) \in SUBSET Keys /\ CancelPending(KeysFor(e))
    BY <1>3 DEF CancelElement, KeysFor, Keys
  <2>2. Drained(KeysFor(e)) \in SUBSET Requests
    BY <2>1, DrainedIsPending
  <2> QED
    BY <2>1, <2>2, CancelStep DEF Promise!Next
<1>4. ASSUME NEW e \in Elements, Invalidate(e) PROVE Promise!Next
  <2>1. KeysFor(e) \in SUBSET Keys
    BY DEF KeysFor, Keys
  <2>2. /\ Drained(KeysFor(e)) \in SUBSET Requests
        /\ \A r \in Drained(KeysFor(e)) : Unanswered(r)
    BY <2>1, DrainedIsPending
  <2>3. dropped' = dropped \cup Drained(KeysFor(e)) /\ UNCHANGED <<answers, key>>
    BY <1>4 DEF Invalidate
  <2> QED
    BY <2>2, <2>3, DropStep DEF Promise!Next
<1>5. ASSUME \/ \E r \in Requests : Register(r)
             \/ \E k \in Keys : Unpin(k)
             \/ \E e \in Elements : PurgeDisk(e) \/ Edit(e) \/ Commit(e)
             \/ \E n \in Sizes : ResizeCache(n)
      PROVE UNCHANGED status
  <2>1. UNCHANGED requestVars
    BY <1>5 DEF Register, Unpin, PurgeDisk, Edit, Commit, ResizeCache
  <2> QED
    BY <2>1, StutterStep DEF requestVars
<1> QED
  BY <1>1, <1>2, <1>3, <1>4, <1>5 DEF UIStep

\* Every step of a task or a disk read is a step of the promise or a stutter.
LEMMA WorkStepRefines ==
  ASSUME Custody, Custody', NEW w \in Works, WorkStep(w)
  PROVE  [Promise!Next]_status
<1>1. CASE DispatchRead(w) \/ DispatchFailed(w) \/ Finish(w)
  <2>1. UNCHANGED <<dropped, key>> /\ \E g : Dispatch(taken[w], g)
    BY <1>1 DEF DispatchRead, DispatchFailed, Finish
  <2>2. taken[w] \in SUBSET Requests /\ \A r \in taken[w] : Unanswered(r)
    BY DEF Custody, CustodyTypes, TakenHeld
  <2> QED
    BY <2>1, <2>2, AnswerStep DEF Promise!Next
<1>2. CASE \/ ReadDisk(w) \/ PublishRead(w) \/ StartTask(w) \/ PrepareOk(w)
           \/ PrepareFail(w) \/ Render(w) \/ TaskCallback(w)
  <2>1. UNCHANGED requestVars
    BY <1>2 DEF ReadDisk, PublishRead, StartTask, PrepareOk, PrepareFail, Render, TaskCallback
  <2> QED
    BY <2>1, StutterStep DEF requestVars
<1> QED
  BY <1>1, <1>2 DEF WorkStep

\* Every callback of GetThumbnailDetailed runs at most once, and never after
\* InvalidateThumbnail dropped it: ThumbnailService implements the promise.
THEOREM ServiceKeepsPromise == Spec => RequestsPromise
<1>1. Init => Promise!Init
  BY InitCustody DEF Init, status, Promise!Init
<1>2. Custody /\ Custody' /\ [Next]_vars => [Promise!Next]_status
  <2> SUFFICES ASSUME Custody, Custody', [Next]_vars PROVE [Promise!Next]_status
    OBVIOUS
  <2>1. CASE UIStep
    BY <2>1, UIStepRefines
  <2>2. ASSUME NEW w \in Works, WorkStep(w) PROVE [Promise!Next]_status
    BY <2>2, WorkStepRefines
  <2>3. CASE UNCHANGED vars
    BY <2>3, StutterStep DEF vars, requestVars
  <2> QED
    BY <2>1, <2>2, <2>3 DEF Next
<1>3. Spec => []Custody
  BY CustodyInvariant
<1> QED
  BY <1>1, <1>2, <1>3, PTL DEF Spec, RequestsPromise, Promise!Spec
-----------------------------------------------------------------------------
(* Where the age of an image shows: on disk, in the work that read or      *)
(* rendered it, in the guard that was published, in the answer.            *)

Shown  == {"dispatch", "published", "done"}
Owning == {"prepared", "rendered", "empty", "published", "unmade"}

Purges(e) == ui = <<"purge", e>>
Begins(r) == ui = <<"register", r>>

FlowTypes ==
    /\ content \in [Elements -> Vers] /\ hash \in [Elements -> Vers]
    /\ fresh \in [Elements -> Vers]
    /\ disk \in [Keys -> [Vers -> SUBSET Vers]]
    /\ cached \in [Keys -> Works \cup {NoWork}]
    /\ floor \in [Requests -> Vers] /\ given \in [Requests -> Works \cup {NoWork}]
    /\ released \subseteq Requests
    /\ readHash \in [Works -> Vers] /\ wver \in [Works -> Vers]
    /\ stale \subseteq Works
    /\ pipe \in [Works -> {"none", "held", "returned"}]

\* A request that registers has no work yet.
BeginsNew == \A r \in Requests : Begins(r) => work[r] = "none"

PipeHeld == \A w \in Works : pipe[w] = "held" => work[w] \in Owning

EditOrder == \A e \in Elements : fresh[e] <= content[e]

FloorInv == \A r \in Requests : key[r] # NoKey => floor[r] <= fresh[key[r][1]]

\* Between the two halves of InvalidateThumbnail the disk still has what it
\* outdates, but every work that could read it is outdated as well.
DiskInv == \A k \in Keys, h \in Vers : \A v \in disk[k][h] : fresh[k[1]] <= v \/ Purges(k[1])
Purging == \A w \in Works : Running(w) /\ Purges(key[w][1]) => w \in stale

WorkInv == \A w \in Works \ stale :
               work[w] \in {"read", "rendered"} => fresh[key[w][1]] <= wver[w]

TakenInv == \A w \in Works : work[w] \in {"dispatch", "published"} =>
                \A r \in taken[w] : floor[r] <= wver[w]

GuardInv == \A k \in Keys : cached[k] # NoWork =>
                /\ key[cached[k]] = k /\ work[cached[k]] \in Shown
                /\ fresh[k[1]] <= wver[cached[k]]

GivenInv == \A r \in Requests : given[r] # NoWork =>
                /\ key[r] # NoKey
                /\ work[given[r]] \in Shown /\ floor[r] <= wver[given[r]]

Ages == EditOrder /\ FloorInv /\ DiskInv /\ Purging /\ WorkInv /\ TakenInv /\ GuardInv /\ GivenInv
Flow == FlowTypes /\ BeginsNew /\ PipeHeld /\ Ages

LEMMA VersAre == Vers \subseteq Nat
  BY ThumbnailAssumption DEF Vers

LEMMA KeyIs ==
  ASSUME NEW k \in Keys
  PROVE  k[1] \in Elements /\ k # NoKey /\ \A e \in Elements : k \in KeysFor(e) <=> k[1] = e
  BY DEF Keys, KeysFor, NoKey

LEMMA KeyOf ==
  ASSUME Custody, NEW w \in Works, work[w] # "none"
  PROVE  key[w] \in Keys /\ key[w] # NoKey /\ key[w][1] \in Elements
  BY KeyIs DEF Custody, CustodyTypes, Works

LEMMA AskedFor ==
  ASSUME Custody, NEW r \in Requests, key[r] # NoKey
  PROVE  key[r] \in Keys /\ key[r][1] \in Elements
  BY KeyIs DEF Custody, CustodyTypes

LEMMA UiFree ==
  ASSUME ui = Free
  PROVE  (\A e : ~Purges(e)) /\ (\A r : ~Begins(r))
  BY DEF Free, Purges, Begins

LEMMA UiOther ==
  ASSUME NEW x \in {"unpin", "committed"}, NEW y, ui = <<x, y>>
  PROVE  (\A e : ~Purges(e)) /\ (\A r : ~Begins(r))
  BY DEF Purges, Begins

LEMMA UiRegister ==
  ASSUME NEW y, ui = <<"register", y>>
  PROVE  (\A e : ~Purges(e)) /\ (\A r : Begins(r) <=> r = y)
  BY DEF Purges, Begins

LEMMA UiPurge ==
  ASSUME NEW y, ui = <<"purge", y>>
  PROVE  (\A r : ~Begins(r)) /\ (\A e : Purges(e) <=> e = y)
  BY DEF Purges, Begins

-----------------------------------------------------------------------------
\* What a step of work w may do to the flow of images.
WorkOk(w) ==
    /\ UNCHANGED <<content, hash, fresh, floor, key, stale, ui, readHash, released>>
    /\ work[w] \notin {"none", "done"}
    /\ \A v \in Works : v # w => /\ work'[v] = work[v] /\ wver'[v] = wver[v]
                                 /\ taken'[v] = taken[v] /\ pipe'[v] = pipe[v]
    /\ wver' \in [Works -> Vers] /\ pipe' \in [Works -> {"none", "held", "returned"}]
    /\ disk' \in [Keys -> [Vers -> SUBSET Vers]]
    /\ cached' \in [Keys -> Works \cup {NoWork}] /\ given' \in [Requests -> Works \cup {NoWork}]

WorkAges(w) ==
    /\ wver'[w] = wver[w] \/ work[w] \in {"reading", "prepared"}
    /\ work[w] \in Shown => work'[w] \in Shown
    /\ pipe'[w] = "held" => work'[w] \in Owning
    /\ w \notin stale /\ work'[w] \in {"read", "rendered"} => fresh[key[w][1]] <= wver'[w]
    /\ work'[w] \in {"dispatch", "published"} => \A r \in taken'[w] : floor[r] <= wver'[w]

WorkShows(w) ==
    /\ \A k \in Keys, h \in Vers : \A v \in disk'[k][h] : v \in disk[k][h] \/ fresh[k[1]] <= v
    /\ \A k \in Keys : \/ cached'[k] = cached[k] \/ cached'[k] = NoWork
                       \/ /\ k = key[w] /\ cached'[k] = w /\ fresh[k[1]] <= wver'[w]
                          /\ work'[w] \in Shown
    /\ \A r \in Requests : \/ given'[r] = given[r] \/ given'[r] = NoWork
                           \/ /\ given'[r] = w /\ floor[r] <= wver'[w] /\ work'[w] \in Shown
                              /\ key[r] # NoKey

LEMMA WorkFlow ==
  ASSUME Custody, Flow, NEW w \in Works, WorkOk(w), WorkAges(w), WorkShows(w)
  PROVE  Flow'
<1>1. FlowTypes'
  BY DEF Flow, FlowTypes, WorkOk
<1>2. BeginsNew'
  <2> SUFFICES ASSUME NEW r \in Requests, Begins(r) PROVE work'[r] = "none"
    BY DEF BeginsNew, Begins, WorkOk
  <2>1. work[r] = "none"
    BY DEF Flow, BeginsNew
  <2> QED
    BY <2>1 DEF WorkOk, Works
<1>3. PipeHeld'
  <2> SUFFICES ASSUME NEW v \in Works, pipe'[v] = "held" PROVE work'[v] \in Owning
    BY DEF PipeHeld
  <2> QED
    BY DEF WorkOk, WorkAges, Flow, PipeHeld
<1>4. EditOrder' /\ FloorInv'
  BY DEF Flow, Ages, EditOrder, FloorInv, WorkOk
<1>5. DiskInv'
  <2> SUFFICES ASSUME NEW k \in Keys, NEW h \in Vers, NEW v \in disk'[k][h]
               PROVE  fresh[k[1]] <= v \/ Purges(k[1])
    BY DEF DiskInv, WorkOk, Purges
  <2> QED
    BY DEF WorkShows, Flow, Ages, DiskInv
<1>6. Purging'
  <2> SUFFICES ASSUME NEW v \in Works, work'[v] \notin {"none", "done"}, Purges(key[v][1])
               PROVE  v \in stale
    BY DEF Purging, Running, WorkOk, Purges
  <2>1. Running(v)
    BY DEF Running, WorkOk
  <2> QED
    BY <2>1 DEF Flow, Ages, Purging
<1>7. WorkInv'
  <2> SUFFICES ASSUME NEW v \in Works \ stale, work'[v] \in {"read", "rendered"}
               PROVE  fresh[key[v][1]] <= wver'[v]
    BY DEF WorkInv, WorkOk
  <2> QED
    BY DEF WorkOk, WorkAges, Flow, Ages, WorkInv
<1>8. TakenInv'
  <2> SUFFICES ASSUME NEW v \in Works, work'[v] \in {"dispatch", "published"}, NEW r \in taken'[v]
               PROVE  floor[r] <= wver'[v]
    BY DEF TakenInv, WorkOk
  <2> QED
    BY DEF WorkOk, WorkAges, Flow, Ages, TakenInv
<1>a. \A g \in Works : work[g] \in Shown => work'[g] \in Shown /\ wver'[g] = wver[g]
  BY DEF WorkOk, WorkAges, Shown
<1>9. GuardInv'
  <2> SUFFICES ASSUME NEW k \in Keys, cached'[k] # NoWork
               PROVE  /\ key[cached'[k]] = k /\ work'[cached'[k]] \in Shown
                      /\ fresh[k[1]] <= wver'[cached'[k]]
    BY DEF GuardInv, WorkOk
  <2>1. CASE cached'[k] = cached[k]
    <3>1. cached[k] \in Works
      BY <2>1 DEF Flow, FlowTypes
    <3> QED
      BY <1>a, <2>1, <3>1 DEF Flow, Ages, GuardInv
  <2>2. CASE cached'[k] # cached[k]
    BY <2>2 DEF WorkShows
  <2> QED
    BY <2>1, <2>2
<1>10. GivenInv'
  <2> SUFFICES ASSUME NEW r \in Requests, given'[r] # NoWork
               PROVE  key[r] # NoKey /\ work'[given'[r]] \in Shown /\ floor[r] <= wver'[given'[r]]
    BY DEF GivenInv, WorkOk
  <2>1. CASE given'[r] = given[r]
    <3>1. given[r] \in Works
      BY <2>1 DEF Flow, FlowTypes
    <3> QED
      BY <1>a, <2>1, <3>1 DEF Flow, Ages, GivenInv
  <2>2. CASE given'[r] # given[r]
    BY <2>2 DEF WorkShows
  <2> QED
    BY <2>1, <2>2
<1> QED
  BY <1>1, <1>2, <1>3, <1>4, <1>5, <1>6, <1>7, <1>8, <1>9, <1>10 DEF Flow, Ages

\* What a call of the UI thread may do that starts no work and outdates nothing.
QuietOk ==
    /\ UNCHANGED <<fresh, disk, floor, key, work, readHash, wver, taken, pipe>>
    /\ content' \in [Elements -> Vers] /\ hash' \in [Elements -> Vers]
    /\ \A e \in Elements : content[e] <= content'[e]
    /\ cached' \in [Keys -> Works \cup {NoWork}] /\ given' \in [Requests -> Works \cup {NoWork}]
    /\ \A k \in Keys : cached'[k] = cached[k] \/ cached'[k] = NoWork
    /\ \A r \in Requests : given'[r] = given[r] \/ given'[r] = NoWork
    /\ stale \subseteq stale' /\ stale' \subseteq Works /\ released' \subseteq Requests
    /\ \A e \in Elements : ~Purges(e) /\ ~Purges(e)'
    /\ \A r \in Requests : ~Begins(r)'

LEMMA QuietFlow ==
  ASSUME Custody, Flow, QuietOk
  PROVE  Flow'
<1>0. UNCHANGED <<fresh, disk, floor, key, work, readHash, wver, taken, pipe>>
  BY DEF QuietOk
<1>1. FlowTypes'
  BY DEF Flow, FlowTypes, QuietOk
<1>2. BeginsNew'
  BY DEF QuietOk, BeginsNew
<1>3. PipeHeld'
  BY DEF QuietOk, Flow, PipeHeld
<1>4. EditOrder'
  <2> SUFFICES ASSUME NEW e \in Elements PROVE fresh[e] <= content'[e]
    BY <1>0 DEF EditOrder
  <2>1. fresh[e] \in Nat /\ content[e] \in Nat /\ content'[e] \in Nat
    BY VersAre DEF Flow, FlowTypes, QuietOk
  <2>2. fresh[e] <= content[e] /\ content[e] <= content'[e]
    BY DEF Flow, Ages, EditOrder, QuietOk
  <2> QED
    BY <2>1, <2>2
<1>5. FloorInv' /\ TakenInv'
  BY <1>0 DEF Flow, Ages, FloorInv, TakenInv
<1>6. DiskInv'
  <2> SUFFICES ASSUME NEW k \in Keys, NEW h \in Vers, NEW v \in disk[k][h] PROVE fresh[k[1]] <= v
    BY <1>0 DEF DiskInv
  <2> QED
    BY KeyIs DEF QuietOk, Flow, Ages, DiskInv
<1>7. Purging'
  <2> SUFFICES ASSUME NEW w \in Works, Running(w), Purges(key[w][1])' PROVE FALSE
    BY <1>0 DEF Purging, Running
  <2> QED
    BY <1>0, KeyOf DEF QuietOk, Running
<1>8. WorkInv'
  BY <1>0 DEF QuietOk, Flow, Ages, WorkInv
<1>9. GuardInv'
  <2> SUFFICES ASSUME NEW k \in Keys, cached'[k] # NoWork
               PROVE  /\ key[cached'[k]] = k /\ work[cached'[k]] \in Shown
                      /\ fresh[k[1]] <= wver[cached'[k]]
    BY <1>0 DEF GuardInv
  <2>1. cached'[k] = cached[k]
    BY DEF QuietOk
  <2> QED
    BY <2>1 DEF Flow, Ages, GuardInv
<1>10. GivenInv'
  <2> SUFFICES ASSUME NEW r \in Requests, given'[r] # NoWork
               PROVE  key[r] # NoKey /\ work[given'[r]] \in Shown /\ floor[r] <= wver[given'[r]]
    BY <1>0 DEF GivenInv
  <2>1. given'[r] = given[r]
    BY DEF QuietOk
  <2> QED
    BY <2>1 DEF Flow, Ages, GivenInv
<1> QED
  BY <1>1, <1>2, <1>3, <1>4, <1>5, <1>6, <1>7, <1>8, <1>9, <1>10 DEF Flow, Ages
--------------------------------------------------------------------------------
\* Induction for a set of numbers, by counting.
LEMMA AllNaturals ==
  ASSUME NEW S \in SUBSET Nat, 0 \in S, \A n \in S : n + 1 \in S
  PROVE  S = Nat
<1> SUFFICES ASSUME NEW n \in Nat, n \notin S PROVE FALSE
  OBVIOUS
<1> DEFINE U == S \cap 0..n
           f == [x \in U |-> x + 1]
<1>1. IsFiniteSet(U)
  <2>1. IsFiniteSet(0..n)
    BY FS_Interval
  <2> QED
    BY <2>1, FS_Subset
<1>2. 0 \in U
  OBVIOUS
<1>3. /\ IsFiniteSet(U \ {0}) /\ Cardinality(U \ {0}) = Cardinality(U) - 1
      /\ Cardinality(U) \in Nat
  BY <1>1, <1>2, FS_RemoveElement, FS_CardinalityType
<1>4. f \in Injection(U, U \ {0})
  BY DEF Injection, IsInjective
<1> HIDE DEF U, f
<1>5. Cardinality(U) <= Cardinality(U \ {0})
  BY <1>3, <1>4, FS_Injection
<1> QED
  BY <1>3, <1>5

--------------------------------------------------------------------------------
(* The operations of LRU on a list without repetitions.                           *)

Distinct(s) == \A i, j \in 1..Len(s) : s[i] = s[j] => i = j
Caches  == [keys : Seq(Keys), cap : Nat]
Good(c) == c \in Caches /\ Distinct(c.keys)

LEMMA RecKeys ==
  ASSUME NEW c, NEW t, c = [keys |-> c.keys, cap |-> c.cap]
  PROVE  [c EXCEPT !.keys = t] = [keys |-> t, cap |-> c.cap]
<1> DEFINE a == c.keys
           b == c.cap
<1>1. c = [keys |-> a, cap |-> b]
  OBVIOUS
<1> HIDE DEF a, b
<1>2. [c EXCEPT !.keys = t] = [keys |-> t, cap |-> b] /\ c.cap = b
  BY <1>1
<1> QED
  BY <1>2

LEMMA GoodFacts ==
  ASSUME NEW c, Good(c)
  PROVE  /\ c.keys \in Seq(Keys) /\ c.cap \in Nat /\ Len(c.keys) \in Nat
         /\ \A i \in 1..Len(c.keys) : c.keys[i] \in Keys
         /\ \A i, j \in 1..Len(c.keys) : c.keys[i] = c.keys[j] => i = j
         /\ c = [keys |-> c.keys, cap |-> c.cap]
<1>1. c.keys \in Seq(Keys) /\ c.cap \in Nat /\ c = [keys |-> c.keys, cap |-> c.cap]
  BY DEF Good, Caches
<1> QED
  BY <1>1 DEF Good, Distinct

\* The list without its key number i.
LEMMA RemoveFirstIs ==
  ASSUME NEW S, NEW s \in Seq(S), Distinct(s), NEW i \in 1..Len(s),
         NEW r, r = RemoveFirst(s, s[i])
  PROVE  /\ r \in Seq(S) /\ Len(r) = Len(s) - 1
         /\ \A j \in 1..Len(r) : r[j] = IF j < i THEN s[j] ELSE s[j + 1]
<1> DEFINE I == {k \in 1..Len(s) : s[k] = s[i]}
<1>1. I = {i}
  BY DEF Distinct
<1>2. Min(I) = i
  BY <1>1 DEF Min
<1>3. SelectInSeq(s, LAMBDA v : v = s[i]) = i
  BY <1>1, <1>2 DEF SelectInSeq
<1>4. r = RemoveAt(s, i)
  BY <1>3 DEF RemoveFirst
<1> DEFINE p == SubSeq(s, 1, i - 1)
           q == SubSeq(s, i + 1, Len(s))
<1>5. /\ p \in Seq(S) /\ Len(p) = i - 1 /\ \A j \in 1..(i - 1) : p[j] = s[j]
      /\ q \in Seq(S) /\ Len(q) = Len(s) - i /\ \A j \in 1..(Len(s) - i) : q[j] = s[j + i]
  OBVIOUS
<1>6. r = p \o q
  BY <1>4 DEF RemoveAt
<1> HIDE DEF p, q
<1>7. r \in Seq(S) /\ Len(r) = Len(s) - 1
  <2>1. r \in Seq(S) /\ Len(r) = Len(p) + Len(q)
    <3>1. p \in Seq(S) /\ q \in Seq(S)
      BY <1>5
    <3>2. p \o q \in Seq(S) /\ Len(p \o q) = Len(p) + Len(q)
      BY <3>1
    <3> QED
      BY <3>2, <1>6
  <2>2. Len(s) \in Nat /\ i \in Nat
    OBVIOUS
  <2> QED
    BY <1>5, <2>1, <2>2
<1>8. \A j \in 1..(i - 1) : r[j] = p[j]
  BY <1>5, <1>6
<1>9. \A j \in 1..(Len(s) - i) : r[i - 1 + j] = q[j]
  BY <1>5, <1>6
<1>10. ASSUME NEW j \in 1..Len(r) PROVE r[j] = IF j < i THEN s[j] ELSE s[j + 1]
  <2>1. CASE j < i
    BY <1>5, <1>8, <2>1
  <2>2. CASE j >= i
    <3>1. j - i + 1 \in 1..(Len(s) - i) /\ i - 1 + (j - i + 1) = j
      BY <1>7, <2>2
    <3>2. r[j] = q[j - i + 1] /\ q[j - i + 1] = s[j - i + 1 + i]
      BY <1>5, <1>9, <3>1
    <3>3. j - i + 1 + i = j + 1 /\ ~(j < i)
      BY <2>2
    <3> QED
      BY <3>2, <3>3
  <2> QED
    BY <2>1, <2>2
<1> QED
  BY <1>7, <1>10

\* A key that is in the list goes to its head, the others keep their order.
LEMMA MoveFacts ==
  ASSUME NEW c, Good(c), NEW k, Cached(c, k)
  PROVE  /\ Good(MoveToFront(c, k)) /\ KeysOf(MoveToFront(c, k)) = KeysOf(c)
         /\ MoveToFront(c, k).cap = c.cap /\ Len(MoveToFront(c, k).keys) = Len(c.keys)
<1> DEFINE s == c.keys
<1>0. PICK i \in 1..Len(s) : k = s[i]
  BY DEF Cached, KeysOf
<1>1. s \in Seq(Keys) /\ Len(s) \in Nat /\ Distinct(s)
  BY GoodFacts DEF Good
<1> DEFINE r == RemoveFirst(s, k)
           t == <<k>> \o r
<1>2. MoveToFront(c, k) = [keys |-> t, cap |-> c.cap]
  <2>1. MoveToFront(c, k) = [c EXCEPT !.keys = t]
    BY DEF MoveToFront
  <2> HIDE DEF t
  <2> QED
    BY <2>1, GoodFacts, RecKeys
<1> HIDE DEF s
<1>3. /\ r \in Seq(Keys) /\ Len(r) = Len(s) - 1
      /\ \A j \in 1..Len(r) : r[j] = IF j < i THEN s[j] ELSE s[j + 1]
  BY <1>0, <1>1, RemoveFirstIs
<1> HIDE DEF r
<1>4. k \in Keys /\ Len(s) \in Nat \ {0}
  BY <1>0, <1>1
<1>5. /\ t \in Seq(Keys) /\ Len(t) = Len(s) /\ t[1] = k
      /\ \A j \in 2..Len(t) : t[j] = r[j - 1]
  BY <1>3, <1>4
<1>6. \A j \in 2..Len(t) : t[j] = IF j - 1 < i THEN s[j - 1] ELSE s[j]
  BY <1>3, <1>5
<1> HIDE DEF t
<1>7. Distinct(t)
  <2> SUFFICES ASSUME NEW a \in 1..Len(t), NEW b \in 1..Len(t), t[a] = t[b], a < b PROVE FALSE
    BY <1>1, <1>5 DEF Distinct
  <2> DEFINE from(j) == IF j - 1 < i THEN j - 1 ELSE j
  <2>1. b \in 2..Len(t) /\ t[b] = s[from(b)] /\ from(b) \in 1..Len(s) /\ from(b) # i
    BY <1>0, <1>1, <1>5, <1>6
  <2>2. CASE a = 1
    BY <1>0, <1>1, <1>5, <2>1, <2>2 DEF Distinct
  <2>3. CASE a # 1
    <3>1. a \in 2..Len(t) /\ t[a] = s[from(a)] /\ from(a) \in 1..Len(s) /\ from(a) # from(b)
      BY <1>0, <1>1, <1>5, <1>6, <2>3
    <3> HIDE DEF from
    <3> QED
      BY <1>1, <2>1, <3>1 DEF Distinct
  <2> QED
    BY <2>2, <2>3
<1>8. ASSUME NEW x PROVE (\E j \in 1..Len(t) : t[j] = x) <=> (\E j \in 1..Len(s) : s[j] = x)
  <2>1. ASSUME NEW j \in 1..Len(t), t[j] = x PROVE \E m \in 1..Len(s) : s[m] = x
    BY <1>0, <1>5, <1>6, <2>1
  <2>2. ASSUME NEW j \in 1..Len(s), s[j] = x PROVE \E m \in 1..Len(t) : t[m] = x
    <3>1. CASE j = i
      BY <1>0, <1>4, <1>5, <2>2, <3>1
    <3>2. CASE j < i
      <4>1. j + 1 \in 2..Len(t) /\ t[j + 1] = s[j]
        BY <1>0, <1>4, <1>5, <1>6, <3>2
      <4> QED
        BY <2>2, <4>1
    <3>3. CASE j > i
      <4>1. j \in 2..Len(t) /\ t[j] = s[j]
        BY <1>0, <1>4, <1>5, <1>6, <3>3
      <4> QED
        BY <2>2, <4>1
    <3> QED
      BY <3>1, <3>2, <3>3, <1>0
  <2> QED
    BY <2>1, <2>2
<1>9. KeysOf([keys |-> t, cap |-> c.cap]) = KeysOf(c)
  BY <1>8 DEF KeysOf, s
<1> QED
  BY <1>2, <1>5, <1>7, <1>9, GoodFacts DEF Good, Caches, s

LEMMA RemoveFacts ==
  ASSUME NEW c, Good(c), NEW k
  PROVE  /\ Good(RemoveRecord(c, k)) /\ KeysOf(RemoveRecord(c, k)) = KeysOf(c) \ {k}
         /\ RemoveRecord(c, k).cap = c.cap /\ Len(RemoveRecord(c, k).keys) <= Len(c.keys)
<1> DEFINE s == c.keys
           r == RemoveFirst(s, k)
<1>1. s \in Seq(Keys) /\ Len(s) \in Nat /\ Distinct(s)
  BY GoodFacts DEF Good
<1>2. RemoveRecord(c, k) = [keys |-> r, cap |-> c.cap]
  BY GoodFacts DEF RemoveRecord
<1>3. CASE ~Cached(c, k)
  <2>1. r = s
    BY <1>3 DEF RemoveFirst, Cached, KeysOf
  <2> QED
    BY <1>1, <1>2, <1>3, <2>1, GoodFacts DEF Cached
<1>4. CASE Cached(c, k)
  <2>0. PICK i \in 1..Len(s) : k = s[i]
    BY <1>4 DEF Cached, KeysOf
  <2> HIDE DEF s
  <2>1. /\ r \in Seq(Keys) /\ Len(r) = Len(s) - 1
        /\ \A j \in 1..Len(r) : r[j] = IF j < i THEN s[j] ELSE s[j + 1]
    BY <1>1, <2>0, RemoveFirstIs
  <2> HIDE DEF r
  <2>2. Distinct(r)
    BY <1>1, <2>0, <2>1 DEF Distinct
  <2>3. ASSUME NEW x
        PROVE  (\E j \in 1..Len(r) : r[j] = x) <=> (x # k /\ \E j \in 1..Len(s) : s[j] = x)
    <3>1. ASSUME NEW j \in 1..Len(r), r[j] = x PROVE x # k /\ \E m \in 1..Len(s) : s[m] = x
      <4>1. PICK m \in 1..Len(s) : m # i /\ r[j] = s[m]
        BY <1>1, <2>0, <2>1
      <4> QED
        BY <1>1, <2>0, <3>1, <4>1 DEF Distinct
    <3>2. ASSUME NEW j \in 1..Len(s), s[j] = x, x # k PROVE \E m \in 1..Len(r) : r[m] = x
      <4>1. CASE j < i
        <5>1. j \in 1..Len(r) /\ r[j] = s[j]
          BY <1>1, <2>0, <2>1, <4>1
        <5> QED
          BY <3>2, <5>1
      <4>2. CASE j > i
        <5>1. j - 1 \in 1..Len(r) /\ r[j - 1] = s[j]
          BY <1>1, <2>0, <2>1, <4>2
        <5> QED
          BY <3>2, <5>1
      <4> QED
        BY <2>0, <3>2, <4>1, <4>2
    <3> QED
      BY <3>1, <3>2
  <2>4. KeysOf([keys |-> r, cap |-> c.cap]) = KeysOf(c) \ {k}
    BY <2>3 DEF KeysOf, s
  <2> QED
    BY <1>1, <1>2, <2>1, <2>2, <2>4, GoodFacts DEF Good, Caches, s
<1> QED
  BY <1>3, <1>4

\* A new key goes in front of the list, or of the list without its last key.
LEMMA RecordIs ==
  ASSUME NEW c, Good(c), NEW k \in Keys, ~Cached(c, k),
         NEW m, m = IF Full(c) /\ c.keys # <<>> THEN Len(c.keys) - 1 ELSE Len(c.keys),
         NEW d, d = RecordAccess(c, k)
  PROVE  /\ Good(d) /\ d.cap = c.cap /\ Len(d.keys) = m + 1 /\ m \in Nat /\ d.keys[1] = k
         /\ \A j \in 2..(m + 1) : d.keys[j] = c.keys[j - 1]
<1> DEFINE s == c.keys
           f == SubSeq(s, 1, Len(s) - 1)
           p == IF Full(c) /\ s # <<>> THEN f ELSE s
           t == <<k>> \o p
<1>1. s \in Seq(Keys) /\ Len(s) \in Nat /\ Distinct(s) /\ \A i \in 1..Len(s) : s[i] # k
  BY GoodFacts DEF Good, Cached, KeysOf
<1>2. d = [keys |-> t, cap |-> c.cap]
  <2>0. c = [keys |-> c.keys, cap |-> c.cap]
    BY GoodFacts
  <2>1. CASE Full(c) /\ s # <<>>
    <3>1. Evict(c) = [c EXCEPT !.keys = f]
      BY <2>1 DEF Evict, Front
    <3>2. p = f /\ d = [Evict(c) EXCEPT !.keys = <<k>> \o @]
      BY <2>1 DEF RecordAccess
    <3> DEFINE v == Evict(c)
    <3> HIDE DEF f, p, v
    <3>3. v = [keys |-> f, cap |-> c.cap]
      BY <2>0, <3>1, RecKeys DEF v
    <3>4. v = [keys |-> v.keys, cap |-> v.cap] /\ v.keys = f /\ v.cap = c.cap
      BY <3>3
    <3>5. d = [v EXCEPT !.keys = t]
      BY <3>2, <3>4 DEF v
    <3> HIDE DEF t
    <3> QED
      BY <3>4, <3>5, RecKeys
  <2>2. CASE ~(Full(c) /\ s # <<>>)
    <3>1. p = s /\ (Full(c) => Evict(c) = c)
      BY <2>2 DEF Evict
    <3>2. d = [c EXCEPT !.keys = t]
      BY <3>1 DEF RecordAccess
    <3> HIDE DEF t
    <3> QED
      BY <2>0, <3>2, RecKeys
  <2> QED
    BY <2>1, <2>2
<1>3. s # <<>> => /\ f \in Seq(Keys) /\ Len(f) = Len(s) - 1 /\ Len(s) - 1 \in Nat
                  /\ \A j \in 1..(Len(s) - 1) : f[j] = s[j]
  BY <1>1
<1> HIDE DEF f
<1>4. p \in Seq(Keys) /\ Len(p) = m /\ m \in Nat /\ m <= Len(s) /\ \A j \in 1..m : p[j] = s[j]
  BY <1>1, <1>3
<1> HIDE DEF p
<1>5. /\ t \in Seq(Keys) /\ Len(t) = m + 1 /\ t[1] = k
      /\ \A j \in 2..(m + 1) : t[j] = s[j - 1]
  BY <1>4
<1> HIDE DEF t
<1>6. Distinct(t)
  <2> HIDE DEF s
  <2> SUFFICES ASSUME NEW a \in 1..Len(t), NEW b \in 1..Len(t), t[a] = t[b], a < b PROVE FALSE
    BY <1>4, <1>5 DEF Distinct
  <2>1. b \in 2..(m + 1) /\ t[b] = s[b - 1] /\ b - 1 \in 1..Len(s)
    BY <1>1, <1>4, <1>5
  <2>2. CASE a = 1
    BY <1>1, <1>5, <2>1, <2>2
  <2>3. CASE a # 1
    <3>1. t[a] = s[a - 1] /\ a - 1 \in 1..Len(s)
      BY <1>1, <1>4, <1>5, <2>3
    <3> QED
      BY <1>1, <2>1, <3>1 DEF Distinct
  <2> QED
    BY <2>2, <2>3
<1> QED
  BY <1>2, <1>4, <1>5, <1>6, GoodFacts DEF Good, Caches

LEMMA RecordNew ==
  ASSUME NEW c, Good(c), NEW k \in Keys, ~Cached(c, k), ~Full(c)
  PROVE  /\ Good(RecordAccess(c, k)) /\ KeysOf(RecordAccess(c, k)) = KeysOf(c) \cup {k}
         /\ RecordAccess(c, k).cap = c.cap /\ Len(RecordAccess(c, k).keys) = Len(c.keys) + 1
<1> DEFINE d == RecordAccess(c, k)
           m == Len(c.keys)
           s == d.keys
<1>0. m = IF Full(c) /\ c.keys # <<>> THEN Len(c.keys) - 1 ELSE Len(c.keys)
  OBVIOUS
<1>1. /\ Good(d) /\ d.cap = c.cap /\ Len(d.keys) = m + 1 /\ m \in Nat /\ d.keys[1] = k
      /\ \A j \in 2..(m + 1) : d.keys[j] = c.keys[j - 1]
  BY <1>0, RecordIs
<1> HIDE DEF d
<1>2. ASSUME NEW x
      PROVE  (\E j \in 1..Len(s) : s[j] = x) <=> (x = k \/ \E j \in 1..m : c.keys[j] = x)
  <2>1. ASSUME NEW j \in 1..m, c.keys[j] = x PROVE \E i \in 1..Len(s) : s[i] = x
    <3>1. j + 1 \in 2..(m + 1) /\ s[j + 1] = c.keys[j]
      BY <1>1
    <3> QED
      BY <1>1, <2>1, <3>1
  <2> QED
    BY <1>1, <2>1
<1>3. KeysOf(d) = KeysOf(c) \cup {k}
  BY <1>2 DEF KeysOf
<1> QED
  BY <1>1, <1>3 DEF d

LEMMA CardKeys ==
  ASSUME NEW c, Good(c)
  PROVE  IsFiniteSet(KeysOf(c)) /\ Cardinality(KeysOf(c)) = Len(c.keys)
<1> DEFINE f == [i \in 1..Len(c.keys) |-> c.keys[i]]
<1>0. Len(c.keys) \in Nat
  BY GoodFacts
<1>1. f \in Bijection(1..Len(c.keys), KeysOf(c))
  <2>1. \A i, j \in 1..Len(c.keys) : c.keys[i] = c.keys[j] => i = j
    BY GoodFacts
  <2>2. f \in [1..Len(c.keys) -> KeysOf(c)] /\ \A i, j \in 1..Len(c.keys) : f[i] = f[j] => i = j
    BY <2>1 DEF KeysOf
  <2>3. \A x \in KeysOf(c) : \E i \in 1..Len(c.keys) : f[i] = x
    BY DEF KeysOf
  <2> HIDE DEF f
  <2> QED
    BY <2>2, <2>3 DEF Bijection, Injection, Surjection, IsInjective
<1>2. IsFiniteSet(1..Len(c.keys)) /\ Cardinality(1..Len(c.keys)) = Len(c.keys)
  BY <1>0, FS_Interval
<1>3. ExistsBijection(1..Len(c.keys), KeysOf(c))
  BY <1>1 DEF ExistsBijection
<1> QED
  BY <1>2, <1>3, FS_Bijection


\* RecordAccess of a new key by a full list drops the oldest one.
LEMMA RecordFull ==
  ASSUME NEW c, Good(c), NEW k \in Keys, ~Cached(c, k), Full(c), c.keys # <<>>
  PROVE  /\ Good(RecordAccess(c, k)) /\ Oldest(c) \in KeysOf(c)
         /\ KeysOf(RecordAccess(c, k)) = (KeysOf(c) \ {Oldest(c)}) \cup {k}
         /\ RecordAccess(c, k).cap = c.cap /\ Len(RecordAccess(c, k).keys) = Len(c.keys)
<1> DEFINE d == RecordAccess(c, k)
           n == Len(c.keys)
           m == n - 1
           s == d.keys
<1>0. n \in Nat \ {0} /\ m = IF Full(c) /\ c.keys # <<>> THEN Len(c.keys) - 1 ELSE Len(c.keys)
  BY GoodFacts
<1>1. /\ Good(d) /\ d.cap = c.cap /\ Len(d.keys) = m + 1 /\ m \in Nat /\ d.keys[1] = k
      /\ \A j \in 2..(m + 1) : d.keys[j] = c.keys[j - 1]
  <2>1. d = RecordAccess(c, k)
    OBVIOUS
  <2> HIDE DEF d, m, n
  <2> QED
    BY <1>0, <2>1, RecordIs
<1>2. Oldest(c) = c.keys[n] /\ Oldest(c) \in KeysOf(c)
  BY <1>0 DEF Oldest, Last, KeysOf
<1>3. \A i, j \in 1..n : c.keys[i] = c.keys[j] => i = j
  BY GoodFacts
<1> HIDE DEF d
<1>4. ASSUME NEW x
      PROVE  (\E j \in 1..Len(s) : s[j] = x) <=>
                (x = k \/ (x # c.keys[n] /\ \E j \in 1..n : c.keys[j] = x))
  <2>1. ASSUME NEW j \in 1..n, c.keys[j] = x, x # c.keys[n] PROVE \E i \in 1..Len(s) : s[i] = x
    <3>1. j # n /\ j + 1 \in 2..(m + 1)
      BY <1>0, <2>1
    <3>2. s[j + 1] = c.keys[j]
      BY <1>0, <1>1, <3>1
    <3> QED
      BY <1>1, <2>1, <3>1, <3>2
  <2>2. ASSUME NEW j \in 1..Len(s), s[j] = x, x # k
        PROVE  x # c.keys[n] /\ \E i \in 1..n : c.keys[i] = x
    <3>1. j \in 2..(m + 1) /\ s[j] = c.keys[j - 1] /\ j - 1 \in 1..n /\ j - 1 # n
      BY <1>0, <1>1, <2>2
    <3> QED
      BY <1>0, <1>3, <2>2, <3>1
  <2>3. x = k => \E i \in 1..Len(s) : s[i] = x
    BY <1>1
  <2> QED
    BY <2>1, <2>2, <2>3
<1>5. KeysOf(d) = (KeysOf(c) \ {Oldest(c)}) \cup {k}
  <2> HIDE DEF n
  <2>1. \A x : x \in KeysOf(d) <=> \E j \in 1..Len(s) : s[j] = x
    BY DEF KeysOf
  <2>2. \A x : x \in KeysOf(c) <=> \E j \in 1..n : c.keys[j] = x
    BY DEF KeysOf, n
  <2> QED
    BY <1>2, <1>4, <2>1, <2>2
<1>6. m + 1 = n
  BY <1>0
<1> QED
  BY <1>1, <1>2, <1>5, <1>6 DEF d

\* What RemoveRecords keeps of the first n keys of a list.
Keeps(f, s, K, n) ==
    f = [i \in 0..n |-> IF i = 0 THEN <<>>
                        ELSE IF s[i] \in K THEN f[i - 1] ELSE Append(f[i - 1], s[i])]

LEMMA KeepsExist ==
  ASSUME NEW s, NEW K, NEW n \in Nat
  PROVE  \E f : Keeps(f, s, K, n)
<1> DEFINE Ns == {k \in Nat : \E f : Keeps(f, s, K, k)}
<1>1. 0 \in Ns
  <2> DEFINE f == [i \in 0..0 |-> <<>>]
  <2>1. Keeps(f, s, K, 0)
    BY DEF Keeps
  <2> QED
    BY <2>1
<1>2. ASSUME NEW k \in Ns PROVE k + 1 \in Ns
  <2>1. PICK f : Keeps(f, s, K, k)
    OBVIOUS
  <2> DEFINE g == [i \in 0..(k + 1) |->
                     IF i = 0 THEN <<>>
                     ELSE IF s[i] \in K THEN f[i - 1] ELSE Append(f[i - 1], s[i])]
  <2>2. ASSUME NEW i \in 0..k PROVE g[i] = f[i]
    <3>1. f = [j \in 0..k |-> IF j = 0 THEN <<>>
                ELSE IF s[j] \in K THEN f[j - 1] ELSE Append(f[j - 1], s[j])]
      BY <2>1 DEF Keeps
    <3>2. f[i] = IF i = 0 THEN <<>>
                 ELSE IF s[i] \in K THEN f[i - 1] ELSE Append(f[i - 1], s[i])
      BY <3>1, Zenon
    <3>3. i \in 0..(k + 1)
      OBVIOUS
    <3> QED
      BY <3>2, <3>3
  <2>3. g = [i \in 0..(k + 1) |->
               IF i = 0 THEN <<>>
               ELSE IF s[i] \in K THEN g[i - 1] ELSE Append(g[i - 1], s[i])]
    <3>1. \A i \in 0..(k + 1) : i # 0 => g[i - 1] = f[i - 1]
      <4>1. \A i \in 0..(k + 1) : i # 0 => i - 1 \in 0..k
        OBVIOUS
      <4> HIDE DEF g
      <4> QED
        BY <2>2, <4>1
    <3> QED
      BY <3>1, Zenon
  <2> HIDE DEF g
  <2>4. Keeps(g, s, K, k + 1)
    BY <2>3 DEF Keeps
  <2> QED
    BY <2>4
<1>3. Ns = Nat
  <2>1. Ns \in SUBSET Nat
    OBVIOUS
  <2> HIDE DEF Ns
  <2> QED
    BY <1>1, <1>2, <2>1, AllNaturals
<1> QED
  BY <1>3

\* t holds the elements of s[1..n] that are not in K, each once.
Kept(t, s, K, n) ==
    /\ t \in Seq(Keys) /\ Len(t) \in Nat /\ Len(t) <= n
    /\ Distinct(t)
    /\ \A x : (\E j \in 1..Len(t) : t[j] = x) <=> (x \notin K /\ \E j \in 1..n : s[j] = x)

LEMMA KeptMore ==
  ASSUME NEW s \in Seq(Keys), Distinct(s), NEW K, NEW n \in Nat, n + 1 <= Len(s),
         NEW t, Kept(t, s, K, n), NEW r, r = IF s[n + 1] \in K THEN t ELSE Append(t, s[n + 1])
  PROVE  Kept(r, s, K, n + 1)
<1>0. n + 1 \in 1..Len(s) /\ s[n + 1] \in Keys /\ Len(s) \in Nat
  OBVIOUS
<1>1. ASSUME NEW x
      PROVE  (\E j \in 1..(n + 1) : s[j] = x) <=> (x = s[n + 1] \/ \E j \in 1..n : s[j] = x)
  OBVIOUS
<1>2. \A j \in 1..n : s[j] # s[n + 1]
  BY <1>0 DEF Distinct
<1>3. CASE s[n + 1] \in K
  <2>1. r = t
    BY <1>3
  <2>2. \A x : (\E j \in 1..Len(t) : t[j] = x) <=> (x \notin K /\ \E j \in 1..(n + 1) : s[j] = x)
    BY <1>1, <1>3 DEF Kept
  <2>3. t \in Seq(Keys) /\ Len(t) \in Nat /\ Len(t) <= n + 1 /\ Distinct(t)
    BY DEF Kept
  <2> QED
    BY <2>1, <2>2, <2>3 DEF Kept
<1>4. CASE s[n + 1] \notin K
  <2> DEFINE y == s[n + 1]
  <2>0. t \in Seq(Keys) /\ y \in Keys /\ Len(t) \in Nat /\ Len(t) <= n /\ r = Append(t, y)
    BY <1>0, <1>4 DEF Kept
  <2> HIDE DEF y
  <2>1. /\ r \in Seq(Keys) /\ Len(r) = Len(t) + 1 /\ r[Len(t) + 1] = y
        /\ \A j \in 1..Len(t) : r[j] = t[j]
    BY <2>0
  <2>2. \A j \in 1..Len(t) : t[j] # y
    BY <1>2 DEF Kept, y
  <2>3. Distinct(r)
    <3> SUFFICES ASSUME NEW a \in 1..Len(r), NEW b \in 1..Len(r), r[a] = r[b], a < b PROVE FALSE
      BY <2>0, <2>1 DEF Distinct
    <3>1. a \in 1..Len(t) /\ r[a] = t[a]
      BY <2>0, <2>1
    <3>2. CASE b = Len(t) + 1
      BY <2>1, <2>2, <3>1, <3>2
    <3>3. CASE b # Len(t) + 1
      <4> DEFINE l == Len(t)
      <4>0. b \in Nat /\ 1 <= b /\ b <= l + 1 /\ l \in Nat /\ b # l + 1
        BY <2>0, <2>1, <3>3
      <4> HIDE DEF l
      <4>1. b \in 1..l
        BY <4>0
      <4>2. r[b] = t[b]
        BY <2>1, <4>1 DEF l
      <4> QED
        BY <3>1, <4>1, <4>2 DEF Kept, Distinct, l
    <3> QED
      BY <3>2, <3>3
  <2>4. ASSUME NEW x
        PROVE  (\E j \in 1..Len(r) : r[j] = x) <=> (x = y \/ \E j \in 1..Len(t) : t[j] = x)
    BY <2>0, <2>1
  <2>5. \A x : (\E j \in 1..Len(r) : r[j] = x) <=> (x \notin K /\ \E j \in 1..(n + 1) : s[j] = x)
    BY <1>1, <1>4, <2>4 DEF Kept, y
  <2>6. r \in Seq(Keys) /\ Len(r) \in Nat /\ Len(r) <= n + 1
    BY <2>0, <2>1
  <2> QED
    BY <2>3, <2>5, <2>6 DEF Kept
<1> QED
  BY <1>3, <1>4

LEMMA RemoveAllFacts ==
  ASSUME NEW c, Good(c), NEW K, NEW d, d = RemoveRecords(c, K)
  PROVE  /\ Good(d) /\ KeysOf(d) = KeysOf(c) \ K
         /\ d.cap = c.cap /\ Len(d.keys) <= Len(c.keys)
<1> DEFINE s == c.keys
           n == Len(s)
           f == CHOOSE g : Keeps(g, s, K, n)
<1>0. /\ s \in Seq(Keys) /\ n \in Nat /\ Distinct(s) /\ c = [keys |-> c.keys, cap |-> c.cap]
      /\ c.cap \in Nat
  BY GoodFacts DEF Good
<1>1. Keeps(f, s, K, n)
  BY <1>0, KeepsExist
<1>2. d = [c EXCEPT !.keys = f[n]]
  BY DEF RemoveRecords, Keeps
<1>3. d = [keys |-> f[n], cap |-> c.cap]
  <2> HIDE DEF f, n
  <2> QED
    BY <1>0, <1>2, RecKeys
<1> HIDE DEF f, s
<1>4. /\ f[0] = <<>>
      /\ \A i \in 0..n : i # n =>
            f[i + 1] = IF s[i + 1] \in K THEN f[i] ELSE Append(f[i], s[i + 1])
  <2> HIDE DEF n
  <2>1. f = [j \in 0..n |-> IF j = 0 THEN <<>>
              ELSE IF s[j] \in K THEN f[j - 1] ELSE Append(f[j - 1], s[j])]
    BY <1>1 DEF Keeps
  <2>2. \A j \in 0..n : f[j] = IF j = 0 THEN <<>>
              ELSE IF s[j] \in K THEN f[j - 1] ELSE Append(f[j - 1], s[j])
    BY <2>1, Zenon
  <2>3. n \in Nat
    BY <1>0 DEF n
  <2>4. f[0] = <<>>
    BY <2>2, <2>3
  <2>5. ASSUME NEW i \in 0..n, i # n
        PROVE f[i + 1] = IF s[i + 1] \in K THEN f[i] ELSE Append(f[i], s[i + 1])
    <3>1. i + 1 \in 0..n /\ i + 1 # 0 /\ (i + 1) - 1 = i
      BY <2>3, <2>5
    <3> DEFINE j == i + 1
    <3>2. j \in 0..n /\ j # 0 /\ j - 1 = i
      BY <3>1
    <3> HIDE DEF j
    <3>3. f[j] = IF s[j] \in K THEN f[i] ELSE Append(f[i], s[j])
      BY <2>2, <3>2
    <3> QED
      BY <3>3 DEF j
  <2> QED
    BY <2>4, <2>5
<1> HIDE DEF n
<1> DEFINE Ns == {i \in Nat : i <= n => Kept(f[i], s, K, i)}
<1>5. 0 \in Ns
  <2>1. f[0] = <<>>
    BY <1>4
  <2>2. f[0] \in Seq(Keys) /\ Len(f[0]) = 0 /\ Distinct(f[0])
    BY <2>1 DEF Distinct
  <2>3. \A x : (\E j \in 1..Len(f[0]) : f[0][j] = x) <=> (x \notin K /\ \E j \in 1..0 : s[j] = x)
    BY <2>2
  <2> QED
    BY <2>2, <2>3 DEF Kept
<1>6. ASSUME NEW i \in Ns PROVE i + 1 \in Ns
  <2> SUFFICES ASSUME i + 1 <= n PROVE Kept(f[i + 1], s, K, i + 1)
    OBVIOUS
  <2>1. i \in 0..n /\ i # n /\ i \in Nat /\ Kept(f[i], s, K, i)
    BY <1>0
  <2>2. f[i + 1] = IF s[i + 1] \in K THEN f[i] ELSE Append(f[i], s[i + 1])
    BY <1>4, <2>1
  <2> QED
    BY <1>0, <2>1, <2>2, KeptMore DEF n
<1>7. Ns = Nat
  <2>1. Ns \in SUBSET Nat
    OBVIOUS
  <2> HIDE DEF Ns
  <2> QED
    BY <1>5, <1>6, <2>1, AllNaturals
<1>8. Kept(f[n], s, K, n)
  BY <1>0, <1>7
<1>9. d.keys = f[n] /\ d.cap = c.cap /\ d \in Caches
  BY <1>0, <1>3, <1>8 DEF Caches, Kept
<1>10. KeysOf(d) = KeysOf(c) \ K
  BY <1>8, <1>9 DEF KeysOf, Kept, s, n
<1> QED
  BY <1>8, <1>9, <1>10 DEF Good, Kept, s, n

\* A list shorter than the new capacity loses nothing.
LEMMA ResizeFacts ==
  ASSUME NEW c, Good(c), NEW n \in Nat, Len(c.keys) <= n, NEW d, d = Resize(c, n)
  PROVE  Good(d) /\ d.keys = c.keys /\ d.cap = n
<1>0. /\ c.keys \in Seq(Keys) /\ c.cap \in Nat /\ c = [keys |-> c.keys, cap |-> c.cap]
      /\ Len(c.keys) \in Nat
  BY GoodFacts
<1>1. SubSeq(c.keys, 1, Len(c.keys)) = c.keys
  BY <1>0
<1>2. (IF Len(c.keys) < n THEN Len(c.keys) ELSE n) = Len(c.keys)
  BY <1>0
<1> DEFINE a == c.keys
           b == c.cap
<1>3. d = [keys |-> a, cap |-> n]
  <2>1. CASE n > b
    BY <1>1, <1>2, <2>1 DEF Resize
  <2>2. CASE ~(n > b)
    <3>1. c = [keys |-> a, cap |-> b] /\ d = [c EXCEPT !.cap = n]
      BY <1>0, <2>2 DEF Resize
    <3> HIDE DEF a, b
    <3> QED
      BY <3>1
  <2> QED
    BY <2>1, <2>2
<1> QED
  BY <1>0, <1>3 DEF Good, Caches

Fits(c) == c.cap # 0 /\ Len(c.keys) <= c.cap

\* Resize_WithEvict parts the list into what stays and what it hands back.
LEMMA TrimFacts ==
  ASSUME NEW c, Good(c), Fits(c), NEW n \in Nat \ {0},
         NEW d, d = ResizeTrim(c, n), NEW out, out = TrimmedBy(c, n)
  PROVE  /\ Good(d) /\ Fits(d)
         /\ out \in Seq(Keys) /\ Distinct(out)
         /\ \A i \in 1..Len(out) : out[i] \in KeysOf(c) \ KeysOf(d)
         /\ \A x \in KeysOf(c) : x \in KeysOf(d) \/ \E i \in 1..Len(out) : out[i] = x
         /\ KeysOf(d) \subseteq KeysOf(c)
<1> DEFINE s == c.keys
<1>0. s \in Seq(Keys) /\ Len(s) \in Nat /\ c.cap \in Nat /\ Distinct(s) /\ Len(s) <= c.cap
  BY GoodFacts DEF Good, Fits
<1>1. CASE n > c.cap
  <2>1. out = <<>> /\ d = Resize(c, n)
    BY <1>1 DEF TrimmedBy, ResizeTrim
  <2>2. Good(d) /\ d.keys = c.keys /\ d.cap = n
    BY <1>0, <1>1, <2>1, ResizeFacts
  <2>3. KeysOf(d) = KeysOf(c) /\ Fits(d)
    BY <1>0, <1>1, <2>2 DEF KeysOf, Fits
  <2> QED
    BY <2>1, <2>2, <2>3 DEF Distinct
<1>2. CASE ~(n > c.cap)
  <2> DEFINE m == IF Len(s) < n THEN Len(s) ELSE n
             p == SubSeq(s, 1, m)
             q == SubSeq(s, n + 1, Len(s))
             l == IF Len(s) < n THEN 0 ELSE Len(s) - n
  <2>1. out = Reverse(q) /\ d = [keys |-> p, cap |-> n]
    BY <1>2 DEF TrimmedBy, ResizeTrim
  <2>2. m \in Nat /\ m <= n /\ m <= Len(s) /\ l \in Nat /\ m + l = Len(s) /\ (l # 0 => m = n)
    BY <1>0
  <2> HIDE DEF m
  <2>3. p \in Seq(Keys) /\ Len(p) = m /\ \A j \in 1..m : p[j] = s[j]
    BY <1>0, <2>2
  <2>4. q \in Seq(Keys) /\ Len(q) = l /\ \A j \in 1..l : q[j] = s[j + m]
    BY <1>0, <2>2
  <2> HIDE DEF p, q, l, s
  <2>5. /\ out \in Seq(Keys) /\ Len(out) = l
        /\ \A j \in 1..l : out[j] = s[m + l + 1 - j] /\ m + l + 1 - j \in (m + 1)..Len(s)
    <3>1. out = [j \in 1..l |-> q[(l - j) + 1]]
      BY <2>1, <2>4 DEF Reverse
    <3>2. \A j \in 1..l : (l - j) + 1 \in 1..l /\ out[j] = q[(l - j) + 1] /\ q[(l - j) + 1] \in Keys
      BY <2>2, <2>4, <3>1
    <3>3. out \in Seq(Keys) /\ Len(out) = l
      BY <2>2, <3>1, <3>2
    <3>4. ASSUME NEW j \in 1..l
          PROVE out[j] = s[m + l + 1 - j] /\ m + l + 1 - j \in (m + 1)..Len(s)
      <4>1. (l - j) + 1 \in 1..l /\ (l - j) + 1 + m = m + l + 1 - j
        BY <2>2
      <4> QED
        BY <2>2, <2>4, <3>2, <4>1
    <3> QED
      BY <3>3, <3>4
  <2>6. Good(d) /\ Fits(d) /\ d.keys = p
    BY <1>0, <2>1, <2>2, <2>3 DEF Good, Fits, Caches, Distinct
  <2>7. Distinct(out)
    <3> SUFFICES ASSUME NEW a \in 1..l, NEW b \in 1..l, out[a] = out[b] PROVE a = b
      BY <2>5 DEF Distinct
    <3>1. m + l + 1 - a = m + l + 1 - b
      BY <1>0, <2>2, <2>5 DEF Distinct
    <3> QED
      BY <2>2, <3>1
  <2>8. \A x : x \in KeysOf(d) <=> \E j \in 1..m : s[j] = x
    BY <2>3, <2>6 DEF KeysOf
  <2>9. \A x : x \in KeysOf(c) <=> \E j \in 1..Len(s) : s[j] = x
    BY DEF KeysOf, s
  <2>10. KeysOf(d) \subseteq KeysOf(c)
    BY <1>0, <2>2, <2>8, <2>9
  <2>11. ASSUME NEW i \in 1..Len(out) PROVE out[i] \in KeysOf(c) \ KeysOf(d)
    <3> DEFINE b == m + l + 1 - i
    <3>1. out[i] = s[b] /\ b \in (m + 1)..Len(s) /\ b \in 1..Len(s) /\ \A j \in 1..m : j # b /\ j \in 1..Len(s)
      BY <1>0, <2>2, <2>5
    <3> HIDE DEF b
    <3> QED
      BY <1>0, <2>8, <2>9, <3>1 DEF Distinct
  <2>12. ASSUME NEW x \in KeysOf(c), x \notin KeysOf(d) PROVE \E i \in 1..Len(out) : out[i] = x
    <3>1. PICK j \in 1..Len(s) : s[j] = x /\ j \notin 1..m
      BY <2>8, <2>9, <2>12
    <3>2. m + l + 1 - j \in 1..l /\ m + l + 1 - (m + l + 1 - j) = j
      BY <1>0, <2>2, <3>1
    <3> QED
      BY <2>5, <3>1, <3>2
  <2> QED
    BY <2>5, <2>6, <2>7, <2>10, <2>11, <2>12
<1> QED
  BY <1>1, <1>2

-----------------------------------------------------------------------------
(* HandleEvict, once and for a list of keys.                               *)

Evicts(f, out, st, n) ==
    f = [i \in 0..n |-> IF i = 0 THEN st ELSE HandleEvict(f[i - 1], out[i])]

LEMMA EvictsExist ==
  ASSUME NEW out, NEW st, NEW n \in Nat
  PROVE  \E f : Evicts(f, out, st, n)
<1> DEFINE Ns == {k \in Nat : \E f : Evicts(f, out, st, k)}
<1>1. 0 \in Ns
  <2> DEFINE f == [i \in 0..0 |-> st]
  <2>1. Evicts(f, out, st, 0)
    BY DEF Evicts
  <2> QED
    BY <2>1
<1>2. ASSUME NEW k \in Ns PROVE k + 1 \in Ns
  <2>1. PICK f : Evicts(f, out, st, k)
    OBVIOUS
  <2> DEFINE g == [i \in 0..(k + 1) |-> IF i = 0 THEN st ELSE HandleEvict(f[i - 1], out[i])]
  <2>2. \A i \in 0..k : g[i] = f[i]
    BY <2>1 DEF Evicts
  <2>3. g = [i \in 0..(k + 1) |-> IF i = 0 THEN st ELSE HandleEvict(g[i - 1], out[i])]
    <3>1. \A i \in 0..(k + 1) : i # 0 => g[i - 1] = f[i - 1]
      <4>1. \A i \in 0..(k + 1) : i # 0 => i - 1 \in 0..k
        OBVIOUS
      <4> HIDE DEF g
      <4> QED
        BY <2>2, <4>1
    <3> QED
      BY <3>1, Zenon
  <2> HIDE DEF g
  <2>4. Evicts(g, out, st, k + 1)
    BY <2>3 DEF Evicts
  <2> QED
    BY <2>4
<1>3. Ns = Nat
  <2>1. Ns \in SUBSET Nat
    OBVIOUS
  <2> HIDE DEF Ns
  <2> QED
    BY <1>1, <1>2, <2>1, AllNaturals
<1> QED
  BY <1>3

LEMMA HandleEvictsIs ==
  ASSUME NEW out, Len(out) \in Nat, NEW st
  PROVE  \E f : /\ f[0] = st /\ HandleEvicts(out, st) = f[Len(out)]
                /\ \A i \in 0..Len(out) : i # Len(out) => f[i + 1] = HandleEvict(f[i], out[i + 1])
<1> DEFINE f == CHOOSE g : Evicts(g, out, st, Len(out))
<1>1. Evicts(f, out, st, Len(out))
  BY EvictsExist
<1>2. HandleEvicts(out, st) = f[Len(out)]
  BY DEF HandleEvicts, Evicts
<1> HIDE DEF f
<1>3. f[0] = st /\ \A i \in 0..Len(out) : i # Len(out) => f[i + 1] = HandleEvict(f[i], out[i + 1])
  BY <1>1 DEF Evicts
<1> QED
  BY <1>2, <1>3

Guards == [Keys -> Works \cup {NoWork}]
Dom(d) == {j \in Keys : d[j] # NoWork}

EvictState(x) ==
    /\ x = [cache |-> x.cache, data |-> x.data] /\ x.data \in Guards
    /\ Good(x.cache) /\ Fits(x.cache) /\ IsFiniteSet(Dom(x.data))

\* Only guards that nobody has pinned are gone.
Spared(d, e) == \A j \in Keys : e[j] = d[j] \/ (e[j] = NoWork /\ pins[d[j]] = 0)

LEMMA EvictStateOf ==
  ASSUME NEW c, NEW d, d \in Guards, Good(c), Fits(c), IsFiniteSet(Dom(d)),
         NEW x, x = [cache |-> c, data |-> d]
  PROVE  EvictState(x) /\ x.cache = c /\ x.data = d
  BY DEF EvictState

LEMMA KeyIsNoNone == None \notin Keys
  BY ThumbnailAssumption

\* HandleEvict of a key that is not in the list: its data goes, or the key is
\* in the list again and the list has room.
LEMMA EvictOne ==
  ASSUME NEW st, EvictState(st), NEW x \in Dom(st.data), ~Cached(st.cache, x),
         NEW k, KeysOf(st.cache) \subseteq Dom(st.data) \cup {k},
         NEW r, r = HandleEvict(st, x)
  PROVE  /\ EvictState(r) /\ Spared(st.data, r.data)
         /\ \/ r.cache = st.cache /\ Dom(r.data) = Dom(st.data) \ {x}
            \/ KeysOf(r.cache) = KeysOf(st.cache) \cup {x} /\ Dom(r.data) = Dom(st.data)
<1> DEFINE c == st.cache
           d == st.data
<1>0. /\ st = [cache |-> c, data |-> d] /\ d \in Guards
      /\ Good(c) /\ Fits(c) /\ IsFiniteSet(Dom(d))
  BY DEF EvictState
<1>1. x \in Keys /\ d[x] # NoWork /\ x # None
  BY KeyIsNoNone DEF Dom
<1> DEFINE e    == [d EXCEPT ![x] = NoWork]
           size == Cardinality(Dom(d))
           b    == Resize(c, size + 5)
           a    == RecordAccess(b, x)
<1>2. r = IF pins[d[x]] = 0 THEN [st EXCEPT !.data[x] = NoWork] ELSE [st EXCEPT !.cache = a]
  BY <1>1 DEF HandleEvict, Dom
<1>3. CASE pins[d[x]] = 0
  <2>1. r = [st EXCEPT !.data[x] = NoWork]
    BY <1>2, <1>3
  <2> HIDE DEF c, d
  <2>2. r = [cache |-> c, data |-> e]
    BY <1>0, <2>1
  <2>3. e \in Guards /\ Dom(e) = Dom(d) \ {x}
    BY <1>0, <1>1 DEF Guards, Dom
  <2>4. IsFiniteSet(Dom(e))
    BY <1>0, <2>3, FS_Subset
  <2>5. Spared(d, e)
    BY <1>0, <1>1, <1>3 DEF Guards, Spared
  <2> HIDE DEF e
  <2>6. EvictState(r) /\ r.cache = c /\ r.data = e
    BY <1>0, <2>2, <2>3, <2>4, EvictStateOf
  <2> QED
    BY <2>3, <2>5, <2>6 DEF c, d
<1>4. CASE pins[d[x]] # 0
  <2>1. r = [st EXCEPT !.cache = a]
    BY <1>2, <1>4
  <2>2. ~Cached(c, x) /\ KeysOf(c) \subseteq Dom(d) \cup {k}
    OBVIOUS
  <2> HIDE DEF c, d
  <2>3. Len(c.keys) \in Nat /\ Len(c.keys) <= size + 1 /\ size \in Nat
    <3>1. /\ IsFiniteSet(Dom(d) \cup {k}) /\ Cardinality(Dom(d) \cup {k}) <= size + 1
          /\ size \in Nat
      BY <1>0, FS_AddElement, FS_CardinalityType
    <3>2. Cardinality(KeysOf(c)) = Len(c.keys) /\ Len(c.keys) \in Nat
      BY <1>0, CardKeys, GoodFacts
    <3>3. Cardinality(KeysOf(c)) <= Cardinality(Dom(d) \cup {k})
      BY <2>2, <3>1, FS_Subset
    <3>4. Cardinality(Dom(d) \cup {k}) \in Nat
      BY <3>1, FS_CardinalityType
    <3> HIDE DEF size
    <3> QED
      BY <3>1, <3>2, <3>3, <3>4
  <2> HIDE DEF size
  <2>4. Good(b) /\ b.keys = c.keys /\ b.cap = size + 5
    BY <1>0, <2>3, ResizeFacts
  <2> HIDE DEF b
  <2>5. ~Full(b) /\ ~Cached(b, x) /\ KeysOf(b) = KeysOf(c)
    BY <2>2, <2>3, <2>4 DEF Full, Cached, KeysOf
  <2>6. /\ Good(a) /\ KeysOf(a) = KeysOf(c) \cup {x} /\ a.cap = size + 5
        /\ Len(a.keys) = Len(c.keys) + 1
    BY <1>1, <2>4, <2>5, RecordNew
  <2> HIDE DEF a
  <2>7. Fits(a)
    BY <2>3, <2>6 DEF Fits
  <2>8. r = [cache |-> a, data |-> d]
    BY <1>0, <2>1
  <2>9. EvictState(r) /\ r.cache = a /\ r.data = d
    BY <1>0, <2>6, <2>7, <2>8, EvictStateOf
  <2> QED
    BY <2>6, <2>9 DEF c, d, Spared
<1> QED
  BY <1>3, <1>4

\* HandleEvict of every key that Resize_WithEvict handed back.
LEMMA EvictMany ==
  ASSUME NEW out \in Seq(Keys), Distinct(out), NEW st, EvictState(st),
         \A i \in 1..Len(out) : out[i] \in Dom(st.data) \ KeysOf(st.cache),
         \A x \in Dom(st.data) : x \in KeysOf(st.cache) \/ \E i \in 1..Len(out) : out[i] = x,
         KeysOf(st.cache) \subseteq Dom(st.data),
         NEW r, r = HandleEvicts(out, st)
  PROVE  EvictState(r) /\ Spared(st.data, r.data) /\ KeysOf(r.cache) = Dom(r.data)
<1> DEFINE n == Len(out)
<1>0. n \in Nat
  OBVIOUS
<1>1. PICK f : /\ f[0] = st /\ r = f[n]
               /\ \A i \in 0..n : i # n => f[i + 1] = HandleEvict(f[i], out[i + 1])
  BY <1>0, HandleEvictsIs
<1> DEFINE Left(y, i) == \A j \in (i + 1)..n : out[j] \in Dom(y.data) \ KeysOf(y.cache)
           All(y, i)  == \A x \in Dom(y.data) :
                            x \in KeysOf(y.cache) \/ \E j \in (i + 1)..n : out[j] = x
           Fine(y, i) == /\ EvictState(y) /\ Spared(st.data, y.data)
                         /\ KeysOf(y.cache) \subseteq Dom(y.data)
                         /\ Left(y, i) /\ All(y, i)
           Ns == {i \in Nat : i <= n => Fine(f[i], i)}
<1>2. 0 \in Ns
  <2>1. Left(st, 0) /\ All(st, 0) /\ Spared(st.data, st.data)
    BY DEF Spared
  <2>2. Fine(st, 0)
    BY <2>1
  <2> HIDE DEF Fine
  <2> QED
    BY <1>1, <2>2
<1>3. ASSUME NEW i \in Ns PROVE i + 1 \in Ns
  <2> SUFFICES ASSUME i + 1 <= n PROVE Fine(f[i + 1], i + 1)
    OBVIOUS
  <2>1. i \in Nat /\ i \in 0..n /\ i # n /\ i + 1 \in 1..n /\ Fine(f[i], i)
    BY <1>0
  <2> DEFINE y == f[i]
             z == f[i + 1]
             x == out[i + 1]
  <2>2. z = HandleEvict(y, x)
    BY <1>1, <2>1
  <2>3. Fine(y, i) /\ x \in Keys /\ x = out[i + 1]
    BY <2>1
  <2> HIDE DEF y, z, x
  <2>4. x \in Dom(y.data) /\ ~Cached(y.cache, x)
    BY <2>1, <2>3 DEF Cached
  <2>5. KeysOf(y.cache) \subseteq Dom(y.data) \cup {x} /\ EvictState(y)
    BY <2>3
  <2>6. /\ EvictState(z) /\ Spared(y.data, z.data)
        /\ \/ z.cache = y.cache /\ Dom(z.data) = Dom(y.data) \ {x}
           \/ KeysOf(z.cache) = KeysOf(y.cache) \cup {x} /\ Dom(z.data) = Dom(y.data)
    <3> HIDE DEF Fine, Left, All, Ns, n
    <3> QED
      BY <2>2, <2>4, <2>5, EvictOne, ZenonT(30)
  <2>7. Spared(st.data, z.data)
    BY <2>3, <2>6 DEF Spared
  <2>8. KeysOf(z.cache) \subseteq Dom(z.data)
    BY <2>3, <2>4, <2>6 DEF Cached
  <2>9. \A j \in ((i + 1) + 1)..n : j \in (i + 1)..n /\ out[j] # x
    BY <2>1, <2>3 DEF Distinct
  <2>10. Left(z, i + 1)
    BY <2>3, <2>6, <2>9
  <2>11. All(z, i + 1)
    <3> SUFFICES ASSUME NEW q \in Dom(z.data), q \notin KeysOf(z.cache)
                 PROVE  \E j \in ((i + 1) + 1)..n : out[j] = q
      OBVIOUS
    <3>1. q # x /\ q \in Dom(y.data) /\ q \notin KeysOf(y.cache)
      BY <2>4, <2>6
    <3>2. PICK j \in (i + 1)..n : out[j] = q
      BY <2>3, <3>1
    <3>3. j # i + 1
      BY <2>3, <3>1, <3>2
    <3>4. j \in ((i + 1) + 1)..n
      BY <2>1, <3>3
    <3> QED
      BY <3>2, <3>4
  <2>12. Fine(z, i + 1)
    BY <2>6, <2>7, <2>8, <2>10, <2>11
  <2> QED
    BY <2>12 DEF z
<1>4. Ns = Nat
  <2>1. Ns \in SUBSET Nat
    OBVIOUS
  <2> HIDE DEF Ns
  <2> QED
    BY <1>2, <1>3, <2>1, AllNaturals
<1>5. Fine(r, n)
  <2>1. n \in Ns
    BY <1>0, <1>4
  <2> HIDE DEF Fine
  <2> QED
    BY <1>0, <1>1, <2>1
<1>6. \A x \in Dom(r.data) : x \in KeysOf(r.cache)
  <2>1. (n + 1)..n = {}
    BY <1>0
  <2> QED
    BY <1>5, <2>1
<1> QED
  BY <1>5, <1>6

-----------------------------------------------------------------------------
\* The list and the data of the cache name the same keys, and the list fits.
CacheShape == Good(lru) /\ Fits(lru) /\ KeysOf(lru) = Dom(cached)

LEMMA DomFinite ==
  ASSUME CacheShape
  PROVE  IsFiniteSet(Dom(cached)) /\ Cardinality(Dom(cached)) \in Nat
  BY CardKeys, FS_CardinalityType DEF CacheShape

LEMMA UncacheShape ==
  ASSUME cached \in Guards, CacheShape, NEW K, Uncache(K)
  PROVE  /\ CacheShape' /\ cached' \in Guards /\ lru'.cap = lru.cap
         /\ \A k \in Keys : cached'[k] = IF k \in K THEN NoWork ELSE cached[k]
<1>1. lru' = RemoveRecords(lru, K)
  BY DEF Uncache
<1>2. /\ Good(lru') /\ KeysOf(lru') = KeysOf(lru) \ K /\ lru'.cap = lru.cap
      /\ Len(lru'.keys) <= Len(lru.keys)
  BY <1>1, RemoveAllFacts DEF CacheShape
<1>3. /\ cached' \in Guards
      /\ \A k \in Keys : cached'[k] = IF k \in K THEN NoWork ELSE cached[k]
  BY DEF Uncache, Guards
<1>4. Dom(cached') = Dom(cached) \ K
  BY <1>3 DEF Dom
<1>5. Fits(lru')
  <2>1. Len(lru.keys) \in Nat /\ Len(lru'.keys) \in Nat /\ lru.cap \in Nat
    BY <1>2, GoodFacts DEF CacheShape
  <2> QED
    BY <1>2, <2>1 DEF CacheShape, Fits
<1> QED
  BY <1>2, <1>3, <1>4, <1>5 DEF CacheShape

LEMMA PublishShape ==
  ASSUME cached \in Guards, CacheShape, NEW w \in Works, key[w] \in Keys, NEW n, Publish(w, n)
  PROVE  /\ CacheShape' /\ cached' \in Guards /\ cached'[key[w]] = w
         /\ \A k \in Keys : k # key[w] =>
                cached'[k] = cached[k] \/ (cached'[k] = NoWork /\ pins[cached[k]] = 0)
<1> DEFINE k == key[w]
           c == RecordAccess(lru, k)
           x == EvictedBy(lru, k)
           s == [cache |-> c, data |-> cached]
           t == HandleEvict(s, x)
<1>0. /\ lru' = t.cache /\ cached' = [t.data EXCEPT ![k] = w] /\ k \in Keys
      /\ w # NoWork /\ IsFiniteSet(Dom(cached))
  BY DomFinite, ThumbnailAssumption DEF Publish, Works
<1>1. /\ Good(lru) /\ Fits(lru) /\ KeysOf(lru) = Dom(cached) /\ Len(lru.keys) \in Nat
      /\ lru.cap \in Nat
  BY GoodFacts DEF CacheShape
<1> HIDE DEF k
<1>2. ASSUME t.data \in Guards, Spared(cached, t.data), Good(t.cache), Fits(t.cache),
             KeysOf(t.cache) = Dom(t.data) \cup {k}
      PROVE  /\ CacheShape' /\ cached' \in Guards /\ cached'[k] = w
             /\ \A j \in Keys : j # k =>
                    cached'[j] = cached[j] \/ (cached'[j] = NoWork /\ pins[cached[j]] = 0)
  <2> HIDE DEF t
  <2>1. cached' \in Guards /\ cached'[k] = w /\ \A j \in Keys : j # k => cached'[j] = t.data[j]
    BY <1>0, <1>2 DEF Guards
  <2>2. Dom(cached') = Dom(t.data) \cup {k}
    BY <1>0, <2>1 DEF Dom
  <2>3. CacheShape'
    BY <1>0, <1>2, <2>2 DEF CacheShape
  <2> QED
    BY <1>2, <2>1, <2>3 DEF Spared
<1>3. CASE x = None
  <2>1. t = s
    BY <1>3 DEF HandleEvict
  <2>2. t.cache = c /\ t.data = cached
    BY <2>1
  <2>3. Good(c) /\ Fits(c) /\ KeysOf(c) = Dom(cached) \cup {k}
    <3>1. CASE Cached(lru, k)
      <4>1. c = MoveToFront(lru, k)
        BY <3>1 DEF RecordAccess
      <4>2. Good(c) /\ KeysOf(c) = KeysOf(lru) /\ c.cap = lru.cap /\ Len(c.keys) = Len(lru.keys)
        BY <1>1, <3>1, <4>1, MoveFacts
      <4> HIDE DEF c
      <4> QED
        BY <1>1, <3>1, <4>2 DEF Cached, Fits
    <3>2. CASE ~Cached(lru, k)
      <4>1. ~Full(lru)
        <5> SUFFICES ASSUME Full(lru) PROVE FALSE
          OBVIOUS
        <5>1. lru.keys # <<>>
          BY <1>1 DEF Full, Fits
        <5>2. Oldest(lru) \in KeysOf(lru) /\ x = Oldest(lru)
          BY <1>0, <1>1, <3>2, <5>1, RecordFull DEF EvictedBy
        <5> QED
          BY <1>1, <1>3, <5>2, KeyIsNoNone DEF Dom
      <4>2. /\ Good(c) /\ KeysOf(c) = KeysOf(lru) \cup {k} /\ c.cap = lru.cap
            /\ Len(c.keys) = Len(lru.keys) + 1
        BY <1>0, <1>1, <3>2, <4>1, RecordNew
      <4> HIDE DEF c
      <4>3. Fits(c)
        BY <1>1, <4>1, <4>2 DEF Fits, Full
      <4> QED
        BY <1>1, <4>2, <4>3
    <3> QED
      BY <3>1, <3>2
  <2>4. Spared(cached, cached)
    BY DEF Spared
  <2> HIDE DEF t, c
  <2> QED
    BY <1>2, <2>2, <2>3, <2>4 DEF k
<1>4. CASE x # None
  <2>1. ~Cached(lru, k) /\ Full(lru) /\ x = Oldest(lru) /\ lru.keys # <<>>
    BY <1>4 DEF EvictedBy, Oldest
  <2>2. /\ Good(c) /\ x \in KeysOf(lru) /\ KeysOf(c) = (KeysOf(lru) \ {x}) \cup {k}
        /\ c.cap = lru.cap /\ Len(c.keys) = Len(lru.keys)
    BY <1>0, <1>1, <2>1, RecordFull
  <2> HIDE DEF c, x
  <2>3. Fits(c)
    BY <1>1, <2>2 DEF Fits
  <2>4. EvictState(s) /\ s.cache = c /\ s.data = cached
    BY <1>0, <2>2, <2>3, EvictStateOf
  <2>5. k # x /\ x \in Dom(cached) /\ ~Cached(c, x) /\ KeysOf(c) \subseteq Dom(cached) \cup {k}
    BY <1>1, <2>1, <2>2 DEF Cached
  <2> HIDE DEF s
  <2>6. /\ EvictState(t) /\ Spared(cached, t.data)
        /\ \/ t.cache = c /\ Dom(t.data) = Dom(cached) \ {x}
           \/ KeysOf(t.cache) = KeysOf(c) \cup {x} /\ Dom(t.data) = Dom(cached)
    BY <2>4, <2>5, EvictOne
  <2> HIDE DEF t
  <2>7. KeysOf(t.cache) = Dom(t.data) \cup {k}
    BY <1>1, <2>2, <2>5, <2>6
  <2> QED
    BY <1>2, <2>6, <2>7 DEF EvictState, k
<1> QED
  BY <1>3, <1>4

LEMMA ResizeShape ==
  ASSUME cached \in Guards, CacheShape, NEW n \in Sizes, ResizeCache(n)
  PROVE  CacheShape' /\ cached' \in Guards /\ Spared(cached, cached')
<1> DEFINE pinned == {k \in Keys : cached[k] # NoWork /\ pins[cached[k]] > 0}
           size   == IF n > Cardinality(pinned) THEN n ELSE Cardinality(pinned)
           c      == ResizeTrim(lru, size)
           out    == TrimmedBy(lru, size)
           st     == [cache |-> c, data |-> cached]
           end    == HandleEvicts(out, st)
<1>0. lru' = end.cache /\ cached' = end.data
  BY DEF ResizeCache
<1>1. size \in Nat \ {0}
  <2>1. IsFiniteSet(pinned)
    <3>1. pinned \subseteq Dom(cached)
      BY DEF Dom
    <3> QED
      BY <3>1, DomFinite, FS_Subset
  <2>2. Cardinality(pinned) \in Nat /\ n \in Nat \ {0}
    BY <2>1, FS_CardinalityType, ThumbnailAssumption
  <2> HIDE DEF pinned
  <2> QED
    BY <2>2
<1> HIDE DEF size
<1>2. /\ Good(c) /\ Fits(c)
      /\ out \in Seq(Keys) /\ Distinct(out)
      /\ \A i \in 1..Len(out) : out[i] \in KeysOf(lru) \ KeysOf(c)
      /\ \A x \in KeysOf(lru) : x \in KeysOf(c) \/ \E i \in 1..Len(out) : out[i] = x
      /\ KeysOf(c) \subseteq KeysOf(lru)
  BY <1>1, TrimFacts DEF CacheShape
<1> HIDE DEF c, out
<1>3. EvictState(st) /\ st.cache = c /\ st.data = cached
  BY <1>2, DomFinite, EvictStateOf
<1> HIDE DEF st
<1>4. KeysOf(lru) = Dom(cached)
  BY DEF CacheShape
<1>5. EvictState(end) /\ Spared(cached, end.data) /\ KeysOf(end.cache) = Dom(end.data)
  BY <1>2, <1>3, <1>4, EvictMany
<1> HIDE DEF end
<1> QED
  BY <1>0, <1>5 DEF EvictState, CacheShape

-----------------------------------------------------------------------------
(* The calls of the UI thread.                                             *)

\* A guard has no more pins than there are requests.
PinsInv == pins \in [Works -> Nat] /\ \A w \in Works : pins[w] <= Cardinality(Issued)

Sound == Flow /\ CacheShape /\ PinsInv

PinnedStay ==
    \A k \in Keys :
        (/\ cached[k] # NoWork /\ pins[cached[k]] > 0
         /\ \/ lru'.cap # lru.cap
            \/ \E w \in Works : key[w] # k /\ work'[w] # work[w])
        => cached'[k] = cached[k]

LEMMA IssuedFinite == IsFiniteSet(Issued) /\ Cardinality(Issued) \in Nat
<1>1. Issued \subseteq Requests /\ IsFiniteSet(Requests)
  BY ThumbnailAssumption DEF Issued
<1> QED
  BY <1>1, FS_Subset, FS_CardinalityType

LEMMA PinsQuiet ==
  ASSUME PinsInv, UNCHANGED <<key, pins>>
  PROVE  PinsInv'
  BY DEF PinsInv, Issued

LEMMA CacheQuiet ==
  ASSUME CacheShape, UNCHANGED <<lru, cached>>
  PROVE  CacheShape' /\ PinnedStay
  BY DEF CacheShape, PinnedStay

LEMMA FlowGuards == ASSUME Flow PROVE cached \in Guards
  BY DEF Flow, FlowTypes, Guards

LEMMA ContentStays ==
  ASSUME FlowTypes
  PROVE  \A d \in Elements : content[d] \in Nat /\ content[d] <= content[d]
<1> SUFFICES ASSUME NEW d \in Elements PROVE content[d] \in Nat
  OBVIOUS
<1>1. content[d] \in Vers
  BY DEF FlowTypes
<1> QED
  BY <1>1, VersAre

LEMMA EditSound ==
  ASSUME Custody, Sound, NEW e \in Elements, Edit(e) \/ Commit(e)
  PROVE  Sound' /\ PinnedStay
<1>1. /\ UNCHANGED <<fresh, disk, cacheVars, pending, requestVars, workVars>> /\ ui = Free
      /\ ui' = Free \/ ui' = <<"committed", e>>
      /\ \/ content' = [content EXCEPT ![e] = @ + 1] /\ hash' = hash /\ content[e] < MaxEdits
         \/ content' = content /\ hash' = [hash EXCEPT ![e] = content[e]]
  BY DEF Edit, Commit
<1>2. content \in [Elements -> Vers] /\ hash \in [Elements -> Vers] /\ FlowTypes /\ Flow
  BY DEF Sound, Flow, FlowTypes
<1>3. /\ content' \in [Elements -> Vers] /\ hash' \in [Elements -> Vers]
      /\ \A d \in Elements : content[d] <= content'[d]
  <2>1. CASE content' = content
    BY <1>1, <1>2, <2>1, VersAre, ThumbnailAssumption DEF Vers
  <2>2. CASE content' # content
    <3>1. content' = [content EXCEPT ![e] = @ + 1] /\ content[e] < MaxEdits /\ hash' = hash
      BY <1>1, <2>2
    <3>2. content[e] + 1 \in Vers /\ content[e] <= content[e] + 1
      BY <1>2, <3>1, ThumbnailAssumption DEF Vers
    <3>3. \A d \in Elements : content[d] \in Nat
      BY <1>2, ContentStays
    <3> QED
      BY <1>2, <3>1, <3>2, <3>3
  <2> QED
    BY <2>1, <2>2
<1>4. (\A d \in Elements : ~Purges(d) /\ ~Purges(d)') /\ \A r \in Requests : ~Begins(r)'
  BY <1>1, UiFree DEF Free, Purges, Begins
<1>5. QuietOk
  BY <1>1, <1>2, <1>3, <1>4 DEF QuietOk, FlowTypes, cacheVars, requestVars, workVars
<1>6. Flow'
  BY <1>2, <1>5, QuietFlow
<1> QED
  BY <1>1, <1>6, PinsQuiet, CacheQuiet DEF Sound, cacheVars, requestVars

LEMMA CancelSound ==
  ASSUME Custody, Sound, NEW K, CancelPending(K), UNCHANGED cacheVars,
         released' \subseteq Requests, ui = Free, ui' = Free \/ \E k \in Keys : ui' = <<"unpin", k>>
  PROVE  Sound' /\ PinnedStay
<1>1. UNCHANGED <<content, hash, fresh, disk, lru, cached, pins, key, floor, work, readHash, wver,
                  taken, pipe>>
  BY DEF CancelPending, editVars, cacheVars
<1>2. FlowTypes /\ Flow
  BY DEF Sound, Flow
<1>3. stale \subseteq stale' /\ stale' \subseteq Works
  BY <1>2 DEF CancelPending, Bump, FlowTypes
<1>4. \A r \in Requests : given'[r] = given[r] \/ given'[r] = NoWork
  BY DEF CancelPending, Dispatch
<1>5. given' \in [Requests -> Works \cup {NoWork}]
  BY <1>2 DEF CancelPending, Dispatch, FlowTypes
<1>6. (\A d \in Elements : ~Purges(d) /\ ~Purges(d)') /\ \A r \in Requests : ~Begins(r)'
  BY UiFree DEF Free, Purges, Begins
<1>7. \A d \in Elements : content[d] <= content[d]
  BY <1>2, ContentStays
<1>8. QuietOk
  BY <1>1, <1>2, <1>3, <1>4, <1>5, <1>6, <1>7 DEF QuietOk, FlowTypes
<1>9. Flow'
  BY <1>2, <1>8, QuietFlow
<1> QED
  BY <1>1, <1>9, PinsQuiet, CacheQuiet DEF Sound

LEMMA ReleaseSound ==
  ASSUME Custody, Sound, NEW r \in Requests, Release(r)
  PROVE  Sound' /\ PinnedStay
<1>1. /\ ui = Free /\ CancelPending({key[r]}) /\ UNCHANGED cacheVars
      /\ released' = released \cup {r} /\ ui' = <<"unpin", key[r]>> /\ key[r] # NoKey
  BY DEF Release, Issued
<1>2. key[r] \in Keys /\ released' \subseteq Requests
  BY <1>1, AskedFor DEF Sound, Flow, FlowTypes
<1> QED
  BY <1>1, <1>2, CancelSound

LEMMA CancelElementSound ==
  ASSUME Custody, Sound, NEW e \in Elements, CancelElement(e)
  PROVE  Sound' /\ PinnedStay
<1>1. /\ ui = Free /\ CancelPending(KeysFor(e)) /\ UNCHANGED <<cacheVars, released, ui>>
  BY DEF CancelElement
<1>2. released' \subseteq Requests
  BY <1>1 DEF Sound, Flow, FlowTypes
<1> QED
  BY <1>1, <1>2, CancelSound

\* What a call does to the guards only.
LEMMA GuardsOnly ==
  ASSUME Custody, Flow, UNCHANGED <<editVars, requestVars, workVars>>,
         cached' \in Guards, \A k \in Keys : cached'[k] = cached[k] \/ cached'[k] = NoWork,
         ui' = Free, ui = Free \/ \E k \in Keys : ui = <<"unpin", k>>
  PROVE  Flow'
<1>1. FlowTypes
  BY DEF Flow
<1>6. (\A d \in Elements : ~Purges(d) /\ ~Purges(d)') /\ \A r \in Requests : ~Begins(r)'
  BY DEF Free, Purges, Begins
<1>7. \A d \in Elements : content[d] <= content[d]
  BY <1>1, ContentStays
<1>8. QuietOk
  BY <1>1, <1>6, <1>7 DEF QuietOk, FlowTypes, editVars, requestVars, workVars, Guards
<1> QED
  BY <1>8, QuietFlow

LEMMA ResizeSound ==
  ASSUME Custody, Sound, NEW n \in Sizes, ResizeCache(n)
  PROVE  Sound' /\ PinnedStay
<1>1. UNCHANGED <<editVars, pins, pending, requestVars, workVars, ui>> /\ ui = Free
  BY DEF ResizeCache
<1>2. CacheShape' /\ cached' \in Guards /\ Spared(cached, cached')
  BY FlowGuards, ResizeShape DEF Sound
<1>3. Flow'
  BY <1>1, <1>2, GuardsOnly DEF Sound, Spared
<1>4. PinsInv'
  BY <1>1, PinsQuiet DEF Sound, requestVars
<1>5. PinnedStay
  BY <1>2 DEF PinnedStay, Spared
<1> QED
  BY <1>2, <1>3, <1>4, <1>5 DEF Sound

LEMMA UnpinSound ==
  ASSUME Custody, Sound, NEW k \in Keys, Unpin(k)
  PROVE  Sound' /\ PinnedStay
<1> DEFINE g == cached[k]
           left == IF pins[g] > 0 THEN pins[g] - 1 ELSE 0
<1>1. UNCHANGED <<editVars, pending, requestVars, workVars>> /\ ui = <<"unpin", k>> /\ ui' = Free
  BY DEF Unpin
<1>2. /\ Uncache({k}) \/ UNCHANGED <<lru, cached>>
      /\ pins' = pins \/ (g # NoWork /\ pins' = [pins EXCEPT ![g] = left])
  BY DEF Unpin
<1>3. cached \in Guards /\ CacheShape /\ PinsInv /\ Flow
  BY FlowGuards DEF Sound
<1>4. /\ CacheShape' /\ cached' \in Guards /\ lru'.cap = lru.cap
      /\ \A j \in Keys : cached'[j] = cached[j] \/ cached'[j] = NoWork
  <2>1. CASE Uncache({k})
    BY <1>3, <2>1, UncacheShape
  <2>2. CASE UNCHANGED <<lru, cached>>
    BY <1>3, <2>2, CacheQuiet
  <2> QED
    BY <1>2, <2>1, <2>2
<1>5. Flow'
  BY <1>1, <1>3, <1>4, GuardsOnly
<1>6. PinsInv'
  <2>1. CASE pins' = pins
    BY <1>1, <1>3, <2>1, PinsQuiet DEF requestVars
  <2>2. CASE g # NoWork /\ pins' = [pins EXCEPT ![g] = left]
    <3>1. g \in Works /\ pins \in [Works -> Nat] /\ \A w \in Works : pins[w] <= Cardinality(Issued)
      BY <1>3, <2>2 DEF Guards, PinsInv
    <3>2. left \in Nat /\ left <= Cardinality(Issued) /\ Cardinality(Issued) \in Nat
      <4>1. pins[g] \in Nat /\ pins[g] <= Cardinality(Issued)
        BY <3>1
      <4> QED
        BY <4>1, IssuedFinite
    <3>3. Issued' = Issued
      BY <1>1 DEF Issued, requestVars
    <3> HIDE DEF g, left
    <3>4. \A w \in Works : pins'[w] = pins[w] \/ pins'[w] = left
      BY <2>2, <3>1
    <3>5. pins' \in [Works -> Nat]
      BY <2>2, <3>1, <3>2
    <3> QED
      BY <3>1, <3>2, <3>3, <3>4, <3>5 DEF PinsInv
  <2> QED
    BY <1>2, <2>1, <2>2
<1>7. PinnedStay
  BY <1>1, <1>4 DEF PinnedStay, workVars
<1> QED
  BY <1>4, <1>5, <1>6, <1>7 DEF Sound

LEMMA CaseRegister ==
  ASSUME Custody, NEW r \in Requests, Register(r)
  PROVE  /\ ui = <<"register", r>> /\ ui' = Free
         /\ UNCHANGED <<editVars, cacheVars, requestVars, wver, taken, stale, pipe>>
         /\ \A w \in Works : w # r => work'[w] = work[w]
         /\ work'[r] = work[r] \/ work'[r] = "reading"
         /\ \/ readHash' = readHash
            \/ key[r] \in Keys /\ readHash' = [readHash EXCEPT ![r] = hash[key[r][1]]]
<1>1. work \in [Works -> WorkStates] /\ key \in [Requests -> Keys \cup {NoKey}]
  BY DEF Custody, CustodyTypes
<1>2. ui = <<"register", r>> => key[r] # NoKey
  BY DEF Custody, RegisteringHeld, Unanswered
<1> QED
  BY <1>1, <1>2 DEF Register, Step, Works

LEMMA RegisterSound ==
  ASSUME Custody, Sound, NEW r \in Requests, Register(r)
  PROVE  Sound' /\ PinnedStay
<1>1. /\ ui = <<"register", r>> /\ ui' = Free
      /\ UNCHANGED <<editVars, cacheVars, requestVars, wver, taken, stale, pipe>>
      /\ \A w \in Works : w # r => work'[w] = work[w]
      /\ work'[r] = work[r] \/ work'[r] = "reading"
      /\ \/ readHash' = readHash
         \/ key[r] \in Keys /\ readHash' = [readHash EXCEPT ![r] = hash[key[r][1]]]
  BY CaseRegister
<1>2. /\ UNCHANGED <<content, hash, fresh, disk, lru, cached, pins, key, floor, given, released,
                     wver, taken, stale, pipe>>
  BY <1>1 DEF editVars, cacheVars, requestVars
<1>3. Flow /\ CacheShape /\ PinsInv /\ FlowTypes /\ Ages
  BY DEF Sound, Flow
<1>4. work[r] = "none"
  BY <1>1, <1>3 DEF Flow, BeginsNew, Begins
<1>5. (\A d : ~Purges(d)) /\ (\A d : ~Purges(d)') /\ \A q : ~Begins(q)'
  BY <1>1 DEF Free, Purges, Begins
<1>6. \A w \in Works : work[w] # "none" => work'[w] = work[w]
  BY <1>1, <1>4
<1>7. \A w \in Works : work'[w] \in {work[w], "reading"}
  BY <1>1
<1>8. FlowTypes'
  <2>1. readHash' \in [Works -> Vers]
    <3>1. CASE readHash' = readHash
      BY <1>3, <3>1 DEF FlowTypes
    <3>2. CASE key[r] \in Keys /\ readHash' = [readHash EXCEPT ![r] = hash[key[r][1]]]
      <4>1. key[r][1] \in Elements
        BY <3>2, KeyIs
      <4>2. hash[key[r][1]] \in Vers
        BY <1>3, <4>1 DEF FlowTypes
      <4> QED
        BY <1>3, <3>2, <4>2 DEF FlowTypes
    <3> QED
      BY <1>1, <3>1, <3>2
  <2> QED
    BY <1>2, <1>3, <2>1 DEF FlowTypes
<1>9. BeginsNew'
  BY <1>5 DEF BeginsNew
<1>10. PipeHeld'
  <2> SUFFICES ASSUME NEW w \in Works, pipe[w] = "held" PROVE work'[w] \in Owning
    BY <1>2 DEF PipeHeld
  <2>1. work[w] \in Owning
    BY <1>3 DEF Flow, PipeHeld
  <2> QED
    BY <1>6, <2>1 DEF Owning
<1>11. EditOrder' /\ FloorInv'
  BY <1>2, <1>3 DEF Ages, EditOrder, FloorInv
<1>12. DiskInv'
  BY <1>2, <1>3, <1>5 DEF Ages, DiskInv
<1>13. Purging'
  BY <1>5 DEF Purging
<1>14. WorkInv'
  <2> SUFFICES ASSUME NEW w \in Works \ stale, work'[w] \in {"read", "rendered"}
               PROVE  fresh[key[w][1]] <= wver[w]
    BY <1>2 DEF WorkInv
  <2>1. work[w] \in {"read", "rendered"}
    BY <1>7
  <2> QED
    BY <1>3, <2>1 DEF Ages, WorkInv
<1>15. TakenInv'
  <2> SUFFICES ASSUME NEW w \in Works, work'[w] \in {"dispatch", "published"}, NEW q \in taken[w]
               PROVE  floor[q] <= wver[w]
    BY <1>2 DEF TakenInv
  <2>1. work[w] \in {"dispatch", "published"}
    BY <1>7
  <2> QED
    BY <1>3, <2>1 DEF Ages, TakenInv
<1>a. \A w \in Works : work[w] \in Shown => work'[w] \in Shown
  BY <1>6 DEF Shown
<1>16. GuardInv'
  <2> SUFFICES ASSUME NEW k \in Keys, cached[k] # NoWork
               PROVE  /\ key[cached[k]] = k /\ work'[cached[k]] \in Shown
                      /\ fresh[k[1]] <= wver[cached[k]]
    BY <1>2 DEF GuardInv
  <2>1. cached[k] \in Works
    BY <1>3 DEF FlowTypes
  <2> QED
    BY <1>3, <1>a, <2>1 DEF Ages, GuardInv
<1>17. GivenInv'
  <2> SUFFICES ASSUME NEW q \in Requests, given[q] # NoWork
               PROVE  key[q] # NoKey /\ work'[given[q]] \in Shown /\ floor[q] <= wver[given[q]]
    BY <1>2 DEF GivenInv
  <2>1. given[q] \in Works
    BY <1>3 DEF FlowTypes
  <2> QED
    BY <1>3, <1>a, <2>1 DEF Ages, GivenInv
<1>18. Flow'
  BY <1>8, <1>9, <1>10, <1>11, <1>12, <1>13, <1>14, <1>15, <1>16, <1>17 DEF Flow, Ages
<1> QED
  BY <1>2, <1>3, <1>18, PinsQuiet, CacheQuiet DEF Sound

\* A lookup that hits moves the key to the front and pins the guard.
LEMMA LookupCache ==
  ASSUME CacheShape, PinsInv, cached \in Guards, NEW r \in Requests, NEW k \in Keys,
         Lookup(r, k),
         key \in [Requests -> Keys \cup {NoKey}]
  PROVE  CacheShape' /\ PinsInv'
<1>1. /\ lru' = IF cached[k] # NoWork THEN AccessElement(lru, k) ELSE RemoveRecord(lru, k)
      /\ cached' = cached /\ key' = [key EXCEPT ![r] = k] /\ key[r] = NoKey
      /\ \/ pins' = pins
         \/ cached[k] # NoWork /\ pins' = [pins EXCEPT ![cached[k]] = @ + 1]
  BY DEF Lookup
<1>2. Good(lru) /\ Fits(lru) /\ KeysOf(lru) = Dom(cached)
  BY DEF CacheShape
<1>3. CacheShape'
  <2>1. CASE cached[k] # NoWork
    <3>1. Cached(lru, k)
      BY <1>2, <2>1 DEF Cached, Dom
    <3>2. lru' = MoveToFront(lru, k)
      BY <1>1, <2>1, <3>1 DEF AccessElement
    <3>3. /\ Good(lru') /\ KeysOf(lru') = KeysOf(lru) /\ lru'.cap = lru.cap
          /\ Len(lru'.keys) = Len(lru.keys)
      BY <1>2, <3>1, <3>2, MoveFacts
    <3> QED
      BY <1>1, <1>2, <3>3 DEF CacheShape, Fits
  <2>2. CASE cached[k] = NoWork
    <3>1. k \notin KeysOf(lru) /\ lru' = RemoveRecord(lru, k)
      BY <1>1, <1>2, <2>2 DEF Dom
    <3>2. /\ Good(lru') /\ KeysOf(lru') = KeysOf(lru) \ {k} /\ lru'.cap = lru.cap
          /\ Len(lru'.keys) <= Len(lru.keys)
      BY <1>2, <3>1, RemoveFacts
    <3>3. Len(lru.keys) \in Nat /\ Len(lru'.keys) \in Nat /\ lru.cap \in Nat
      BY <1>2, <3>2, GoodFacts
    <3>4. Fits(lru') /\ KeysOf(lru') = Dom(cached)
      BY <1>2, <3>1, <3>2, <3>3 DEF Fits
    <3> QED
      BY <1>1, <3>2, <3>4 DEF CacheShape
  <2> QED
    BY <2>1, <2>2
<1>4. PinsInv'
  <2>1. Issued' = Issued \cup {r} /\ r \notin Issued
    BY <1>1, KeyIs DEF Issued
  <2>2. Cardinality(Issued') = Cardinality(Issued) + 1 /\ Cardinality(Issued) \in Nat
    BY <2>1, IssuedFinite, FS_AddElement
  <2>3. pins \in [Works -> Nat] /\ \A w \in Works : pins[w] <= Cardinality(Issued)
    BY DEF PinsInv
  <2>4. ASSUME NEW w \in Works PROVE pins'[w] \in Nat /\ pins'[w] <= Cardinality(Issued) + 1
    <3>1. pins'[w] = pins[w] \/ pins'[w] = pins[w] + 1
      BY <1>1, <2>3
    <3>2. pins[w] \in Nat /\ pins[w] <= Cardinality(Issued)
      BY <2>3
    <3> QED
      BY <2>2, <3>1, <3>2
  <2>5. pins' \in [Works -> Nat]
    <3>1. DOMAIN pins' = Works /\ pins' = [w \in Works |-> pins'[w]]
      BY <1>1, <2>3
    <3> QED
      BY <2>4, <3>1
  <2> QED
    BY <2>2, <2>4, <2>5 DEF PinsInv
<1> QED
  BY <1>3, <1>4

LEMMA LookupSound ==
  ASSUME Custody, Sound, NEW r \in Requests, NEW k \in Keys, Lookup(r, k)
  PROVE  Sound' /\ PinnedStay
<1>1. /\ ui = Free /\ key[r] = NoKey
      /\ key' = [key EXCEPT ![r] = k] /\ floor' = [floor EXCEPT ![r] = fresh[k[1]]]
      /\ ui' = Free \/ ui' = <<"register", r>>
      /\ given' = given \/ (cached[k] # NoWork /\ Dispatch({r}, cached[k]))
      /\ UNCHANGED <<content, hash, fresh, disk, cached, pending, dropped, released,
                     work, readHash, wver, taken, stale, pipe>>
  BY DEF Lookup, editVars, workVars
<1>2. Flow /\ CacheShape /\ PinsInv /\ FlowTypes /\ Ages /\ cached \in Guards
  BY FlowGuards DEF Sound, Flow
<1>3. /\ key \in [Requests -> Keys \cup {NoKey}] /\ floor \in [Requests -> Vers]
      /\ given \in [Requests -> Works \cup {NoWork}] /\ k[1] \in Elements /\ k # NoKey
      /\ fresh \in [Elements -> Vers] /\ fresh[k[1]] \in Vers /\ fresh[k[1]] \in Nat
  BY <1>2, KeyIs, VersAre DEF Custody, CustodyTypes, FlowTypes
<1>4. CacheShape' /\ PinsInv'
  BY <1>2, <1>3, LookupCache
<1>5. /\ key'[r] = k /\ floor'[r] = fresh[k[1]]
      /\ \A q \in Requests : q # r => key'[q] = key[q] /\ floor'[q] = floor[q]
  BY <1>1, <1>3
<1>6. work[r] = "none" /\ (\A w \in Works : r \notin taken[w]) /\ given[r] = NoWork
  <2>1. work[r] = "none"
    BY <1>1 DEF Custody, CustodyTypes, Works
  <2>2. \A w \in Works : r \notin taken[w]
    BY <1>1 DEF Custody, TakenHeld, Unanswered
  <2>3. given[r] = NoWork
    BY <1>1, <1>2 DEF Ages, GivenInv
  <2> QED
    BY <2>1, <2>2, <2>3
<1>7. (\A d : ~Purges(d)) /\ (\A d : ~Purges(d)') /\ \A q : Begins(q)' => q = r
  BY <1>1 DEF Free, Purges, Begins
<1>8. /\ given' \in [Requests -> Works \cup {NoWork}]
      /\ \A q \in Requests : q # r => given'[q] = given[q]
      /\ given'[r] = NoWork \/ (given'[r] = cached[k] /\ cached[k] # NoWork)
  <2>1. CASE given' = given
    BY <1>3, <1>6, <2>1
  <2>2. CASE cached[k] # NoWork /\ Dispatch({r}, cached[k])
    <3>1. cached[k] \in Works
      BY <1>2, <2>2 DEF Guards
    <3> QED
      BY <1>3, <2>2, <3>1 DEF Dispatch
  <2> QED
    BY <1>1, <2>1, <2>2
<1>9. FlowTypes'
  <2>1. floor' \in [Requests -> Vers]
    BY <1>1, <1>3
  <2> QED
    BY <1>1, <1>2, <1>8, <2>1 DEF FlowTypes
<1>10. BeginsNew'
  BY <1>1, <1>6, <1>7 DEF BeginsNew
<1>11. PipeHeld' /\ EditOrder'
  BY <1>1, <1>2 DEF Flow, PipeHeld, Ages, EditOrder
<1>12. FloorInv'
  <2> SUFFICES ASSUME NEW q \in Requests, key'[q] # NoKey
               PROVE  floor'[q] <= fresh[key'[q][1]]
    BY <1>1 DEF FloorInv
  <2>1. CASE q = r
    BY <1>3, <1>5, <2>1
  <2>2. CASE q # r
    <3>1. key'[q] = key[q] /\ floor'[q] = floor[q]
      BY <1>5, <2>2
    <3> QED
      BY <1>2, <3>1 DEF Ages, FloorInv
  <2> QED
    BY <2>1, <2>2
<1>13. DiskInv' /\ Purging'
  BY <1>1, <1>2, <1>7 DEF Ages, DiskInv, Purging
<1>14. WorkInv'
  <2> SUFFICES ASSUME NEW w \in Works \ stale, work[w] \in {"read", "rendered"}
               PROVE  fresh[key'[w][1]] <= wver[w]
    BY <1>1 DEF WorkInv
  <2>1. w # r /\ key'[w] = key[w]
    BY <1>5, <1>6 DEF Works
  <2> QED
    BY <1>2, <2>1 DEF Ages, WorkInv
<1>15. TakenInv'
  <2> SUFFICES ASSUME NEW w \in Works, work[w] \in {"dispatch", "published"}, NEW q \in taken[w]
               PROVE  floor'[q] <= wver[w]
    BY <1>1 DEF TakenInv
  <2>1. q \in Requests /\ q # r
    BY <1>6 DEF Custody, CustodyTypes
  <2>2. floor'[q] = floor[q]
    BY <1>5, <2>1
  <2> QED
    BY <1>2, <2>2 DEF Ages, TakenInv
<1>16. GuardInv'
  <2> SUFFICES ASSUME NEW j \in Keys, cached[j] # NoWork
               PROVE  /\ key'[cached[j]] = j /\ work[cached[j]] \in Shown
                      /\ fresh[j[1]] <= wver[cached[j]]
    BY <1>1 DEF GuardInv
  <2>1. /\ cached[j] \in Requests /\ key[cached[j]] = j /\ work[cached[j]] \in Shown
        /\ fresh[j[1]] <= wver[cached[j]]
    BY <1>2 DEF Ages, GuardInv, Guards, Works
  <2>2. cached[j] # r
    BY <1>6, <2>1 DEF Shown
  <2> QED
    BY <1>5, <2>1, <2>2
<1>17. GivenInv'
  <2> SUFFICES ASSUME NEW q \in Requests, given'[q] # NoWork
               PROVE  key'[q] # NoKey /\ work[given'[q]] \in Shown /\ floor'[q] <= wver[given'[q]]
    BY <1>1 DEF GivenInv
  <2>1. CASE q = r
    <3>1. given'[r] = cached[k] /\ cached[k] # NoWork
      BY <1>8, <2>1
    <3>2. work[cached[k]] \in Shown /\ fresh[k[1]] <= wver[cached[k]]
      BY <1>2, <3>1 DEF Ages, GuardInv
    <3> QED
      BY <1>3, <1>5, <2>1, <3>1, <3>2
  <2>2. CASE q # r
    <3>1. key'[q] = key[q] /\ floor'[q] = floor[q] /\ given'[q] = given[q]
      BY <1>5, <1>8, <2>2
    <3> QED
      BY <1>2, <3>1 DEF Ages, GivenInv
  <2> QED
    BY <2>1, <2>2
<1>18. Flow'
  BY <1>9, <1>10, <1>11, <1>12, <1>13, <1>14, <1>15, <1>16, <1>17 DEF Flow, Ages
<1>19. PinnedStay
  BY <1>1 DEF PinnedStay
<1> QED
  BY <1>4, <1>18, <1>19 DEF Sound

LEMMA InvalidateSound ==
  ASSUME Custody, Sound, NEW e \in Elements, Invalidate(e)
  PROVE  Sound' /\ PinnedStay
<1> DEFINE K == KeysFor(e)
<1>1. /\ ui = Free \/ ui = <<"committed", e>>
      /\ ui' = <<"purge", e>> /\ Bump(K) /\ Uncache(K)
      /\ fresh' = [fresh EXCEPT ![e] = content[e]]
      /\ UNCHANGED <<content, hash, disk, pins, key, floor, answers, given, released,
                     work, readHash, wver, taken, pipe>>
  BY DEF Invalidate
<1>2. Flow /\ CacheShape /\ PinsInv /\ FlowTypes /\ Ages /\ cached \in Guards
  BY FlowGuards DEF Sound, Flow
<1>3. /\ CacheShape' /\ cached' \in Guards /\ lru'.cap = lru.cap
      /\ \A k \in Keys : cached'[k] = IF k \in K THEN NoWork ELSE cached[k]
  BY <1>1, <1>2, UncacheShape
<1>4. stale' = stale \cup {w \in Works : Running(w) /\ key[w] \in K}
  BY <1>1 DEF Bump
<1>5. \A k \in Keys : k[1] \in Elements /\ (k \in K <=> k[1] = e)
  BY KeyIs
<1> HIDE DEF K
<1>6. /\ \A d \in Elements : d # e => fresh'[d] = fresh[d]
      /\ fresh'[e] = content[e] /\ fresh[e] <= content[e] /\ content[e] \in Nat
      /\ fresh' \in [Elements -> Vers] /\ \A d \in Elements : fresh[d] \in Nat /\ fresh'[d] \in Nat
  <2>1. fresh \in [Elements -> Vers] /\ content \in [Elements -> Vers] /\ fresh[e] <= content[e]
    BY <1>2 DEF FlowTypes, Ages, EditOrder
  <2>2. fresh' \in [Elements -> Vers] /\ fresh'[e] = content[e]
        /\ \A d \in Elements : d # e => fresh'[d] = fresh[d]
    BY <1>1, <2>1
  <2>3. \A d \in Elements : fresh[d] \in Nat /\ fresh'[d] \in Nat /\ content[d] \in Nat
    BY <2>1, <2>2, VersAre
  <2> QED
    BY <2>1, <2>2, <2>3
<1>7. (\A d : ~Purges(d)) /\ (\A d : Purges(d)' <=> d = e) /\ \A q : ~Begins(q)'
  BY <1>1 DEF Free, Purges, Begins
<1>8. FlowTypes'
  <2>1. stale' \subseteq Works
    BY <1>2, <1>4 DEF FlowTypes
  <2>2. cached' \in [Keys -> Works \cup {NoWork}]
    BY <1>3 DEF Guards
  <2> QED
    BY <1>1, <1>2, <1>6, <2>1, <2>2 DEF FlowTypes
<1>9. BeginsNew' /\ PipeHeld'
  BY <1>1, <1>2, <1>7 DEF BeginsNew, Flow, PipeHeld
<1>10. EditOrder'
  <2> SUFFICES ASSUME NEW d \in Elements PROVE fresh'[d] <= content[d]
    BY <1>1 DEF EditOrder
  <2> QED
    BY <1>2, <1>6 DEF Ages, EditOrder
<1>11. FloorInv'
  <2> SUFFICES ASSUME NEW q \in Requests, key[q] # NoKey PROVE floor[q] <= fresh'[key[q][1]]
    BY <1>1 DEF FloorInv
  <2> DEFINE d == key[q][1]
  <2>1. d \in Elements /\ floor[q] <= fresh[d] /\ floor[q] \in Nat
    BY <1>2, AskedFor, VersAre DEF Ages, FloorInv, FlowTypes
  <2> HIDE DEF d
  <2>2. floor[q] <= fresh'[d]
    BY <1>6, <2>1
  <2> QED
    BY <2>2 DEF d
<1>12. DiskInv'
  <2> SUFFICES ASSUME NEW k \in Keys, NEW h \in Vers, NEW v \in disk[k][h], k[1] # e
               PROVE  fresh'[k[1]] <= v
    BY <1>1, <1>7 DEF DiskInv
  <2> QED
    BY <1>2, <1>5, <1>6, <1>7 DEF Ages, DiskInv
<1>13. Purging'
  <2> SUFFICES ASSUME NEW w \in Works, Running(w), key[w][1] = e PROVE w \in stale'
    BY <1>1, <1>7 DEF Purging, Running
  <2>1. key[w] \in Keys
    BY KeyOf DEF Running
  <2> QED
    BY <1>4, <1>5, <2>1
<1>14. WorkInv'
  <2> SUFFICES ASSUME NEW w \in Works, w \notin stale', work[w] \in {"read", "rendered"}
               PROVE  fresh'[key[w][1]] <= wver[w]
    BY <1>1 DEF WorkInv
  <2>1. key[w] \in Keys /\ Running(w)
    BY KeyOf DEF Running
  <2>2. w \notin stale /\ key[w] \notin K
    BY <1>4, <2>1
  <2>3. fresh'[key[w][1]] = fresh[key[w][1]]
    BY <1>5, <1>6, <2>1, <2>2
  <2> QED
    BY <1>2, <2>2, <2>3 DEF Ages, WorkInv
<1>15. TakenInv' /\ GivenInv'
  BY <1>1, <1>2 DEF Ages, TakenInv, GivenInv
<1>16. GuardInv'
  <2> SUFFICES ASSUME NEW k \in Keys, cached'[k] # NoWork
               PROVE  /\ key[cached'[k]] = k /\ work[cached'[k]] \in Shown
                      /\ fresh'[k[1]] <= wver[cached'[k]]
    BY <1>1 DEF GuardInv
  <2>1. k \notin K /\ cached'[k] = cached[k]
    BY <1>3
  <2>2. fresh'[k[1]] = fresh[k[1]]
    BY <1>5, <1>6, <2>1
  <2> QED
    BY <1>2, <2>1, <2>2 DEF Ages, GuardInv
<1>17. Flow'
  BY <1>8, <1>9, <1>10, <1>11, <1>12, <1>13, <1>14, <1>15, <1>16 DEF Flow, Ages
<1>18. PinnedStay
  BY <1>1, <1>3 DEF PinnedStay
<1>19. PinsInv'
  BY <1>1, <1>2, PinsQuiet
<1> QED
  BY <1>3, <1>17, <1>18, <1>19 DEF Sound

LEMMA PurgeSound ==
  ASSUME Custody, Sound, NEW e \in Elements, PurgeDisk(e)
  PROVE  Sound' /\ PinnedStay
<1>1. /\ ui = <<"purge", e>> /\ ui' = Free /\ disk' = Purged(e)
      /\ UNCHANGED <<content, hash, fresh, lru, cached, pins, floor, key, given, released,
                     work, readHash, wver, taken, stale, pipe>>
  BY DEF PurgeDisk, cacheVars, requestVars, workVars
<1>2. Flow /\ CacheShape /\ PinsInv /\ FlowTypes /\ Ages
  BY DEF Sound, Flow
<1>3. (\A d : Purges(d) <=> d = e) /\ (\A d : ~Purges(d)') /\ \A q : ~Begins(q)'
  BY <1>1 DEF Free, Purges, Begins
<1>4. /\ disk' \in [Keys -> [Vers -> SUBSET Vers]]
      /\ \A k \in Keys : k[1] = e => \A h \in Vers : disk'[k][h] = {}
      /\ \A k \in Keys : k[1] # e => disk'[k] = disk[k]
  <2>1. \A k \in Keys : disk'[k] = IF k[1] = e THEN [h \in Vers |-> {}] ELSE disk[k]
    BY <1>1, KeyIs DEF Purged
  <2>2. \A k \in Keys : disk'[k] \in [Vers -> SUBSET Vers]
    BY <1>2, <2>1 DEF FlowTypes
  <2>3. disk' = [k \in Keys |-> disk'[k]]
    BY <1>1 DEF Purged
  <2> QED
    BY <2>1, <2>2, <2>3
<1>5. FlowTypes'
  BY <1>1, <1>2, <1>4 DEF FlowTypes
<1>6. BeginsNew' /\ Purging'
  BY <1>3 DEF BeginsNew, Purging
<1>7. PipeHeld' /\ EditOrder' /\ FloorInv' /\ TakenInv'
  BY <1>1, <1>2 DEF Flow, PipeHeld, Ages, EditOrder, FloorInv, TakenInv
<1>8. WorkInv' /\ GuardInv' /\ GivenInv'
  BY <1>1, <1>2 DEF Ages, WorkInv, GuardInv, GivenInv
<1>9. DiskInv'
  <2> SUFFICES ASSUME NEW k \in Keys, NEW h \in Vers, NEW v \in disk'[k][h]
               PROVE  fresh[k[1]] <= v
    BY <1>1 DEF DiskInv
  <2>1. k[1] # e /\ v \in disk[k][h]
    BY <1>4
  <2> QED
    BY <1>2, <1>3, <2>1 DEF Ages, DiskInv
<1>10. Flow'
  BY <1>5, <1>6, <1>7, <1>8, <1>9 DEF Flow, Ages
<1> QED
  BY <1>1, <1>2, <1>10, PinsQuiet, CacheQuiet DEF Sound

-----------------------------------------------------------------------------
(* The steps of a work.                                                    *)

\* The image a work read from disk or rendered is fresh for those that wait.
LEMMA WaitingFresh ==
  ASSUME Custody, Flow, NEW w \in Works, work[w] \in {"read", "rendered"}, w \notin stale
  PROVE  /\ key[w] \in Keys /\ key[w] # NoKey /\ fresh[key[w][1]] <= wver[w] /\ wver[w] \in Vers
         /\ \A r \in pending[key[w]] : r \in Requests /\ floor[r] <= wver[w]
<1>1. key[w] \in Keys /\ key[w] # NoKey /\ key[w][1] \in Elements
  BY KeyOf
<1>2. fresh[key[w][1]] <= wver[w]
  BY DEF Flow, Ages, WorkInv
<1>3. fresh[key[w][1]] \in Nat /\ wver[w] \in Nat /\ wver[w] \in Vers
  BY <1>1, VersAre DEF Flow, FlowTypes
<1>4. ASSUME NEW r \in pending[key[w]] PROVE r \in Requests /\ floor[r] <= wver[w]
  <2>1. r \in Requests /\ key[r] = key[w]
    BY <1>1 DEF Custody, CustodyTypes, PendingHeld
  <2>2. floor[r] <= fresh[key[w][1]] /\ floor[r] \in Nat
    BY <1>1, <2>1, VersAre DEF Flow, Ages, FloorInv, FlowTypes
  <2> QED
    BY <1>2, <1>3, <2>1, <2>2
<1> QED
  BY <1>1, <1>2, <1>3, <1>4

\* A step that leaves the cache, the disk and the answers alone.
WorkPlain(w) ==
    /\ UNCHANGED <<editVars, cacheVars, requestVars, readHash, stale, ui>>
    /\ \E to \in WorkStates : Step(w, to)
    /\ \A v \in Works : v # w => wver'[v] = wver[v] /\ taken'[v] = taken[v] /\ pipe'[v] = pipe[v]
    /\ wver' \in [Works -> Vers] /\ pipe' \in [Works -> {"none", "held", "returned"}]

LEMMA PlainSound ==
  ASSUME Custody, Sound, NEW w \in Works, work[w] \notin {"none", "done"}, WorkPlain(w),
         WorkAges(w)
  PROVE  Sound' /\ PinnedStay
<1>1. UNCHANGED <<content, hash, fresh, disk, lru, cached, pins, floor, key, given, released,
                  readHash, stale, ui>>
  BY DEF WorkPlain, editVars, cacheVars, requestVars
<1>2. FlowTypes /\ Flow
  BY DEF Sound, Flow
<1>3. \A v \in Works : v # w => work'[v] = work[v]
  BY DEF WorkPlain, Step, Custody, CustodyTypes
<1>4. WorkOk(w)
  BY <1>1, <1>2, <1>3 DEF WorkOk, WorkPlain, FlowTypes
<1>5. WorkShows(w)
  BY <1>1 DEF WorkShows
<1>6. Flow'
  BY <1>2, <1>4, <1>5, WorkFlow
<1> QED
  BY <1>1, <1>6, PinsQuiet, CacheQuiet DEF Sound

LEMMA NotOwning ==
  ASSUME Flow, NEW w \in Works, work[w] \notin Owning
  PROVE  pipe[w] # "held"
  BY DEF Flow, PipeHeld

LEMMA StepIs ==
  ASSUME Custody, NEW w \in Works, NEW to, Step(w, to)
  PROVE  work'[w] = to /\ \A v \in Works : v # w => work'[v] = work[v]
  BY DEF Step, Custody, CustodyTypes

LEMMA ReadDiskSound ==
  ASSUME Custody, Sound, NEW w \in Works, ReadDisk(w)
  PROVE  Sound' /\ PinnedStay
<1>1. Flow /\ FlowTypes /\ wver \in [Works -> Vers] /\ work[w] = "reading"
  BY DEF Sound, Flow, FlowTypes, ReadDisk
<1>2. UNCHANGED <<editVars, cacheVars, pending, requestVars, readHash, taken, stale, pipe, ui>>
  BY DEF ReadDisk
<1>3. key[w] \in Keys /\ key[w][1] \in Elements
  BY <1>1, KeyOf
<1>4. \/ (Step(w, "done") \/ Step(w, "queued")) /\ wver' = wver
      \/ /\ w \notin stale /\ Step(w, "read")
         /\ \E v \in disk[key[w]][readHash[w]] : wver' = [wver EXCEPT ![w] = v]
  BY DEF ReadDisk
<1>5. CASE (Step(w, "done") \/ Step(w, "queued")) /\ wver' = wver
  <2>1. work'[w] \in {"done", "queued"}
    BY <1>5, StepIs
  <2>2. WorkPlain(w)
    BY <1>1, <1>2, <1>5 DEF WorkPlain, WorkStates, FlowTypes
  <2>3. WorkAges(w)
    BY <1>1, <1>2, <1>5, <2>1, NotOwning DEF WorkAges, Shown, Owning
  <2> QED
    BY <1>1, <2>2, <2>3, PlainSound
<1>6. CASE /\ w \notin stale /\ Step(w, "read")
           /\ \E v \in disk[key[w]][readHash[w]] : wver' = [wver EXCEPT ![w] = v]
  <2>0. PICK v \in disk[key[w]][readHash[w]] : wver' = [wver EXCEPT ![w] = v]
    BY <1>6
  <2>1. work'[w] = "read"
    BY <1>6, StepIs
  <2>2. readHash[w] \in Vers /\ v \in Vers
    <3>1. readHash[w] \in Vers /\ disk[key[w]] \in [Vers -> SUBSET Vers]
      BY <1>1, <1>3 DEF FlowTypes
    <3> QED
      BY <3>1, <2>0
  <2>3. fresh[key[w][1]] <= v
    <3>1. fresh[key[w][1]] <= v \/ Purges(key[w][1])
      BY <1>1, <1>3, <2>0, <2>2 DEF Flow, Ages, DiskInv
    <3>2. Running(w)
      BY <1>1 DEF Running
    <3> QED
      BY <1>1, <1>6, <3>1, <3>2 DEF Flow, Ages, Purging
  <2>4. wver' \in [Works -> Vers] /\ wver'[w] = v /\ \A u \in Works : u # w => wver'[u] = wver[u]
    BY <1>1, <2>0, <2>2
  <2>5. WorkPlain(w)
    BY <1>1, <1>2, <1>6, <2>4 DEF WorkPlain, WorkStates, FlowTypes
  <2>6. WorkAges(w)
    BY <1>1, <1>2, <2>1, <2>3, <2>4, NotOwning DEF WorkAges, Shown, Owning
  <2> QED
    BY <1>1, <2>5, <2>6, PlainSound
<1> QED
  BY <1>4, <1>5, <1>6

LEMMA TaskSound ==
  ASSUME Custody, Sound, NEW w \in Works, StartTask(w) \/ PrepareOk(w) \/ Render(w)
  PROVE  Sound' /\ PinnedStay
<1>1. /\ Flow /\ FlowTypes /\ wver \in [Works -> Vers]
      /\ pipe \in [Works -> {"none", "held", "returned"}]
      /\ content \in [Elements -> Vers]
  BY DEF Sound, Flow, FlowTypes
<1>2. UNCHANGED <<editVars, cacheVars, requestVars, readHash, taken, stale, ui>>
  BY DEF StartTask, PrepareOk, Render
<1>3. CASE StartTask(w)
  <2>1. work[w] = "queued" /\ UNCHANGED <<wver, pipe>>
        /\ (Step(w, "empty") \/ Step(w, "preparing"))
    BY <1>3 DEF StartTask
  <2>2. work'[w] \in {"empty", "preparing"}
    BY <2>1, StepIs
  <2>3. WorkPlain(w)
    BY <1>1, <1>2, <2>1 DEF WorkPlain, WorkStates
  <2>4. WorkAges(w)
    BY <1>1, <1>2, <2>1, <2>2, NotOwning DEF WorkAges, Shown, Owning
  <2> QED
    BY <2>1, <2>3, <2>4, PlainSound
<1>4. CASE PrepareOk(w)
  <2>1. work[w] = "preparing" /\ UNCHANGED wver /\ Step(w, "prepared")
        /\ pipe' = [pipe EXCEPT ![w] = "held"]
    BY <1>4 DEF PrepareOk
  <2>2. work'[w] = "prepared"
    BY <2>1, StepIs
  <2>3. WorkPlain(w)
    BY <1>1, <1>2, <2>1 DEF WorkPlain, WorkStates
  <2>4. WorkAges(w)
    BY <1>1, <1>2, <2>1, <2>2 DEF WorkAges, Shown, Owning
  <2> QED
    BY <2>1, <2>3, <2>4, PlainSound
<1>5. CASE Render(w)
  <2>1. work[w] = "prepared" /\ UNCHANGED pipe
    BY <1>5 DEF Render
  <2>2. key[w] \in Keys /\ key[w][1] \in Elements
    BY <2>1, KeyOf
  <2>3. CASE Step(w, "empty") /\ wver' = wver
    <3>1. work'[w] = "empty"
      BY <2>3, StepIs
    <3>2. WorkPlain(w)
      BY <1>1, <1>2, <2>1, <2>3 DEF WorkPlain, WorkStates
    <3>3. WorkAges(w)
      BY <1>1, <1>2, <2>1, <2>3, <3>1 DEF WorkAges, Shown, Owning
    <3> QED
      BY <2>1, <3>2, <3>3, PlainSound
  <2>4. CASE Step(w, "rendered") /\ wver' = [wver EXCEPT ![w] = content[key[w][1]]]
    <3>1. work'[w] = "rendered"
      BY <2>4, StepIs
    <3>2. content[key[w][1]] \in Vers /\ fresh[key[w][1]] <= content[key[w][1]]
      BY <1>1, <2>2 DEF Flow, Ages, EditOrder
    <3>3. /\ wver' \in [Works -> Vers] /\ wver'[w] = content[key[w][1]]
          /\ \A u \in Works : u # w => wver'[u] = wver[u]
      BY <1>1, <2>4, <3>2
    <3>4. WorkPlain(w)
      BY <1>1, <1>2, <2>1, <2>4, <3>3 DEF WorkPlain, WorkStates
    <3>5. WorkAges(w)
      BY <1>1, <1>2, <2>1, <3>1, <3>2, <3>3 DEF WorkAges, Shown, Owning
    <3> QED
      BY <2>1, <3>4, <3>5, PlainSound
  <2> QED
    BY <1>5, <2>3, <2>4 DEF Render
<1> QED
  BY <1>3, <1>4, <1>5

\* A guard is published with a pin for each of the callbacks that wait.
LEMMA PublishPins ==
  ASSUME Custody, PinsInv, NEW w \in Works, key[w] \in Keys, NEW S, S \subseteq pending[key[w]],
         Publish(w, Cardinality(S)), key' = key
  PROVE  PinsInv'
<1>1. S \subseteq Issued /\ w \in Issued
  <2>1. \A r \in pending[key[w]] : r \in Requests /\ key[r] = key[w]
    BY DEF Custody, CustodyTypes, PendingHeld
  <2> QED
    BY <2>1, KeyIs DEF Issued, Works
<1>2. Cardinality(S) \in Nat /\ Cardinality(S) <= Cardinality(Issued)
  <2>1. IsFiniteSet(S) /\ Cardinality(S) <= Cardinality(Issued)
    BY <1>1, IssuedFinite, FS_Subset
  <2> QED
    BY <2>1, FS_CardinalityType
<1>3. 1 <= Cardinality(Issued) /\ Cardinality(Issued) \in Nat
  BY <1>1, IssuedFinite, FS_EmptySet
<1> DEFINE n == IF Cardinality(S) > 1 THEN Cardinality(S) ELSE 1
<1>4. n \in Nat /\ n <= Cardinality(Issued)
  BY <1>2, <1>3
<1>5. pins' = [pins EXCEPT ![w] = n] /\ pins \in [Works -> Nat]
  BY DEF Publish, PinsInv
<1> HIDE DEF n
<1>6. pins' \in [Works -> Nat] /\ \A v \in Works : pins'[v] = n \/ pins'[v] = pins[v]
  BY <1>4, <1>5
<1>7. Issued' = Issued
  BY DEF Issued
<1> QED
  BY <1>4, <1>6, <1>7 DEF PinsInv

LEMMA GivenIs ==
  ASSUME FlowTypes, NEW S, NEW g \in Works \cup {NoWork}, Dispatch(S, g)
  PROVE  /\ given' \in [Requests -> Works \cup {NoWork}]
         /\ \A r \in Requests : given'[r] = IF r \in S THEN g ELSE given[r]
  BY DEF FlowTypes, Dispatch

LEMMA WorkSound ==
  ASSUME Custody, Sound, NEW w \in Works, WorkOk(w), WorkAges(w), WorkShows(w),
         CacheShape', PinsInv', PinnedStay
  PROVE  Sound' /\ PinnedStay
  BY WorkFlow DEF Sound

\* A step of w withdraws the guard of its key, or leaves the cache alone.
Withdrawn(w) ==
    /\ pins' = pins
    /\ Uncache({key[w]}) \/ UNCHANGED <<lru, cached>>

LEMMA WithdrawnIs ==
  ASSUME Sound, NEW w \in Works, key[w] \in Keys, key' = key, Withdrawn(w),
         \A v \in Works : v # w => work'[v] = work[v]
  PROVE  /\ CacheShape' /\ PinsInv' /\ PinnedStay /\ cached' \in Guards
         /\ \A k \in Keys : cached'[k] = cached[k] \/ cached'[k] = NoWork
<1>1. cached \in Guards /\ CacheShape /\ PinsInv
  BY FlowGuards DEF Sound
<1>2. PinsInv'
  BY <1>1, PinsQuiet DEF Withdrawn
<1>3. CASE Uncache({key[w]})
  <2>1. /\ CacheShape' /\ cached' \in Guards /\ lru'.cap = lru.cap
        /\ \A k \in Keys : cached'[k] = IF k \in {key[w]} THEN NoWork ELSE cached[k]
    BY <1>1, <1>3, UncacheShape
  <2>2. PinnedStay
    BY <2>1 DEF PinnedStay
  <2> QED
    BY <1>2, <2>1, <2>2
<1>4. CASE UNCHANGED <<lru, cached>>
  BY <1>1, <1>2, <1>4, CacheQuiet
<1> QED
  BY <1>3, <1>4 DEF Withdrawn

\* A key that has a guard is in the list, and moving it evicts nothing.
LEMMA PublishCap ==
  ASSUME CacheShape, NEW w \in Works, key[w] \in Keys, NEW n, Publish(w, n),
         cached[key[w]] # NoWork
  PROVE  lru'.cap = lru.cap
<1> DEFINE k == key[w]
           s == [cache |-> RecordAccess(lru, k), data |-> cached]
<1>1. Cached(lru, k) /\ Good(lru)
  BY DEF CacheShape, Cached, Dom
<1>2. EvictedBy(lru, k) = None /\ s.cache = MoveToFront(lru, k)
  BY <1>1 DEF EvictedBy, RecordAccess
<1>3. lru' = HandleEvict(s, EvictedBy(lru, k)).cache
  BY DEF Publish
<1> HIDE DEF s
<1>4. lru' = MoveToFront(lru, k)
  BY <1>2, <1>3 DEF HandleEvict
<1> QED
  BY <1>1, <1>4, MoveFacts

LEMMA PublishedIs ==
  ASSUME Custody, Sound, NEW w \in Works, key[w] \in Keys, key' = key,
         Publish(w, Cardinality(pending[key[w]])),
         \A v \in Works : v # w => work'[v] = work[v]
  PROVE  /\ CacheShape' /\ PinsInv' /\ PinnedStay /\ cached' \in Guards
         /\ \A k \in Keys : \/ cached'[k] = cached[k] \/ cached'[k] = NoWork
                            \/ (k = key[w] /\ cached'[k] = w)
<1>1. cached \in Guards /\ CacheShape /\ PinsInv
  BY FlowGuards DEF Sound
<1>2. PinsInv'
  BY <1>1, PublishPins
<1>3. /\ CacheShape' /\ cached' \in Guards /\ cached'[key[w]] = w
      /\ \A k \in Keys : k # key[w] =>
             cached'[k] = cached[k] \/ (cached'[k] = NoWork /\ pins[cached[k]] = 0)
  BY <1>1, PublishShape
<1>4. PinnedStay
  <2> SUFFICES ASSUME NEW k \in Keys, cached[k] # NoWork, pins[cached[k]] > 0,
                      \/ lru'.cap # lru.cap
                      \/ \E v \in Works : key[v] # k /\ work'[v] # work[v]
               PROVE  cached'[k] = cached[k]
    BY DEF PinnedStay
  <2>1. k # key[w]
    BY <1>1, PublishCap
  <2> QED
    BY <1>3, <2>1
<1> QED
  BY <1>2, <1>3, <1>4

LEMMA PublishReadSound ==
  ASSUME Custody, Sound, NEW w \in Works, PublishRead(w)
  PROVE  Sound' /\ PinnedStay
<1>1. work[w] = "read" /\ UNCHANGED <<editVars, requestVars, readHash, wver, stale, pipe, ui>>
  BY DEF PublishRead
<1>2. UNCHANGED <<content, hash, fresh, disk, key, floor, given, released, readHash, wver,
                  stale, pipe, ui>>
  BY <1>1 DEF editVars, requestVars
<1>3. Flow /\ FlowTypes /\ cached \in Guards /\ key[w] \in Keys
  BY <1>1, FlowGuards, KeyOf DEF Sound, Flow
<1>4. taken \in [Works -> SUBSET Requests] /\ pipe[w] # "held"
  BY <1>1, <1>3, NotOwning DEF Custody, CustodyTypes, Owning
<1>5. CASE Step(w, "done") /\ UNCHANGED <<pending, taken, cacheVars>>
  <2>1. work'[w] = "done"
    BY <1>5, StepIs
  <2>2. WorkPlain(w)
    BY <1>1, <1>3, <1>5 DEF WorkPlain, WorkStates, FlowTypes
  <2>3. WorkAges(w)
    BY <1>1, <1>2, <1>4, <2>1 DEF WorkAges, Shown, Owning
  <2> QED
    BY <1>1, <2>2, <2>3, PlainSound
<1>6. CASE /\ w \notin stale /\ Step(w, "dispatch") /\ taken' = [taken EXCEPT ![w] = pending[key[w]]]
           /\ Publish(w, Cardinality(pending[key[w]]))
  <2>1. work'[w] = "dispatch" /\ \A v \in Works : v # w => work'[v] = work[v]
    BY <1>6, StepIs
  <2>2. /\ CacheShape' /\ PinsInv' /\ PinnedStay /\ cached' \in Guards
        /\ \A k \in Keys : \/ cached'[k] = cached[k] \/ cached'[k] = NoWork
                           \/ (k = key[w] /\ cached'[k] = w)
    BY <1>2, <1>3, <1>6, <2>1, PublishedIs
  <2>3. /\ fresh[key[w][1]] <= wver[w]
        /\ \A r \in pending[key[w]] : floor[r] <= wver[w]
    BY <1>1, <1>3, <1>6, WaitingFresh
  <2>4. taken'[w] = pending[key[w]] /\ \A v \in Works : v # w => taken'[v] = taken[v]
    BY <1>4, <1>6
  <2>5. WorkOk(w)
    BY <1>1, <1>2, <1>3, <2>1, <2>2, <2>4 DEF WorkOk, FlowTypes, Guards
  <2>6. WorkAges(w)
    BY <1>1, <1>2, <1>4, <2>1, <2>3, <2>4 DEF WorkAges, Shown, Owning
  <2>7. WorkShows(w)
    BY <1>2, <2>1, <2>2, <2>3 DEF WorkShows, Shown
  <2> QED
    BY <2>2, <2>5, <2>6, <2>7, WorkSound
<1> QED
  BY <1>5, <1>6 DEF PublishRead

LEMMA DispatchSound ==
  ASSUME Custody, Sound, NEW w \in Works, DispatchRead(w) \/ DispatchFailed(w)
  PROVE  Sound' /\ PinnedStay
<1>1. /\ UNCHANGED <<editVars, cacheVars, pending, key, floor, dropped, released,
                     readHash, wver, stale, pipe, ui>>
      /\ taken' = [taken EXCEPT ![w] = {}]
      /\ \/ work[w] = "dispatch" /\ Step(w, "done") /\ Dispatch(taken[w], w)
         \/ work[w] = "failed" /\ Step(w, "empty") /\ Dispatch(taken[w], NoWork)
  BY DEF DispatchRead, DispatchFailed
<1>2. UNCHANGED <<content, hash, fresh, disk, lru, cached, pins, key, floor, released, readHash, wver,
                  stale, pipe, ui>>
  BY <1>1 DEF editVars, cacheVars
<1>3. Flow /\ FlowTypes /\ CacheShape /\ PinsInv
  BY DEF Sound, Flow
<1>4. taken \in [Works -> SUBSET Requests] /\ pipe[w] # "held"
  BY <1>1, <1>3, NotOwning DEF Custody, CustodyTypes, Owning
<1>5. taken'[w] = {} /\ \A v \in Works : v # w => taken'[v] = taken[v]
  BY <1>1, <1>4
<1>6. \A v \in Works : v # w => work'[v] = work[v]
  BY <1>1, StepIs
<1>7. \/ work[w] = "dispatch" /\ work'[w] = "done"
      \/ work[w] = "failed" /\ work'[w] = "empty"
  BY <1>1, StepIs
<1>8. PICK g \in {w, NoWork} : Dispatch(taken[w], g) /\ (g = NoWork \/ work[w] = "dispatch")
  BY <1>1
<1>9. /\ given' \in [Requests -> Works \cup {NoWork}]
      /\ \A r \in Requests : given'[r] = IF r \in taken[w] THEN g ELSE given[r]
  BY <1>3, <1>8, GivenIs
<1>10. WorkOk(w)
  BY <1>2, <1>3, <1>5, <1>6, <1>7, <1>9 DEF WorkOk, FlowTypes
<1>11. WorkAges(w)
  BY <1>2, <1>4, <1>5, <1>7 DEF WorkAges, Shown, Owning
<1>12. WorkShows(w)
  <2>1. ASSUME NEW r \in Requests
        PROVE  \/ given'[r] = given[r] \/ given'[r] = NoWork
               \/ /\ given'[r] = w /\ floor[r] <= wver'[w] /\ work'[w] \in Shown /\ key[r] # NoKey
    <3>1. CASE r \notin taken[w] \/ g = NoWork
      BY <1>9, <3>1
    <3>2. CASE r \in taken[w] /\ g # NoWork
      <4>1. given'[r] = w /\ work[w] = "dispatch" /\ work'[w] = "done"
        BY <1>7, <1>8, <1>9, <3>2
      <4>2. floor[r] <= wver[w]
        BY <1>3, <3>2, <4>1 DEF Flow, Ages, TakenInv
      <4>3. key[r] # NoKey
        BY <3>2 DEF Custody, TakenHeld, Unanswered
      <4> QED
        BY <1>2, <4>1, <4>2, <4>3 DEF Shown
    <3> QED
      BY <3>1, <3>2
  <2> QED
    BY <1>2, <2>1 DEF WorkShows
<1> QED
  BY <1>2, <1>3, <1>10, <1>11, <1>12, PinsQuiet, CacheQuiet, WorkSound

LEMMA PrepareFailSound ==
  ASSUME Custody, Sound, NEW w \in Works, PrepareFail(w)
  PROVE  Sound' /\ PinnedStay
<1>1. /\ work[w] = "preparing" /\ Step(w, "failed")
      /\ taken' = [taken EXCEPT ![w] = pending[key[w]]]
      /\ Uncache({key[w]}) /\ \E p \in {"none", "returned"} : pipe' = [pipe EXCEPT ![w] = p]
      /\ UNCHANGED <<editVars, pins, requestVars, readHash, wver, stale, ui>>
  BY DEF PrepareFail
<1>2. UNCHANGED <<content, hash, fresh, disk, key, floor, given, released, readHash, wver,
                  stale, pins, ui>>
  BY <1>1 DEF editVars, requestVars
<1>3. Flow /\ FlowTypes /\ key[w] \in Keys
  BY <1>1, KeyOf DEF Sound, Flow
<1>4. taken \in [Works -> SUBSET Requests] /\ pipe \in [Works -> {"none", "held", "returned"}]
  BY <1>3 DEF Custody, CustodyTypes, FlowTypes
<1>5. \A v \in Works : v # w => taken'[v] = taken[v]
  BY <1>1, <1>4
<1>6. /\ pipe' \in [Works -> {"none", "held", "returned"}] /\ pipe'[w] # "held"
      /\ \A v \in Works : v # w => pipe'[v] = pipe[v]
  BY <1>1, <1>4
<1>7. work'[w] = "failed" /\ \A v \in Works : v # w => work'[v] = work[v]
  BY <1>1, StepIs
<1>8. /\ CacheShape' /\ PinsInv' /\ PinnedStay /\ cached' \in Guards
      /\ \A k \in Keys : cached'[k] = cached[k] \/ cached'[k] = NoWork
  BY <1>1, <1>2, <1>3, <1>7, WithdrawnIs DEF Withdrawn
<1>9. WorkOk(w)
  BY <1>1, <1>2, <1>3, <1>5, <1>6, <1>7, <1>8 DEF WorkOk, FlowTypes, Guards
<1>10. WorkAges(w)
  BY <1>1, <1>2, <1>6, <1>7 DEF WorkAges, Shown
<1>11. WorkShows(w)
  BY <1>2, <1>8 DEF WorkShows
<1> QED
  BY <1>8, <1>9, <1>10, <1>11, WorkSound

LEMMA ReturnedIs ==
  ASSUME FlowTypes, NEW w \in Works, pipe' = Returned(w)
  PROVE  /\ pipe' \in [Works -> {"none", "held", "returned"}] /\ pipe'[w] # "held"
         /\ \A v \in Works : v # w => pipe'[v] = pipe[v]
  BY DEF FlowTypes, Returned

LEMMA CallbackSound ==
  ASSUME Custody, Sound, NEW w \in Works, TaskCallback(w)
  PROVE  Sound' /\ PinnedStay
<1> DEFINE mine == pending[key[w]]
           made == mine # {} /\ work[w] = "rendered"
<1>1. /\ work[w] \in {"rendered", "empty"}
      /\ UNCHANGED <<content, hash, fresh, key, floor, given, released, readHash, wver, stale, ui>>
  BY DEF TaskCallback, requestVars
<1>2. /\ Flow /\ FlowTypes /\ key[w] \in Keys /\ key[w][1] \in Elements
      /\ disk \in [Keys -> [Vers -> SUBSET Vers]]
  BY <1>1, KeyOf DEF Sound, Flow, FlowTypes
<1>3. taken \in [Works -> SUBSET Requests]
  BY DEF Custody, CustodyTypes
<1>4. CASE w \in stale
  <2>1. /\ Step(w, "done") /\ pipe' = Returned(w)
        /\ UNCHANGED <<cacheVars, pending, taken, disk>>
    BY <1>4 DEF TaskCallback, StaleReturn
  <2>2. work'[w] = "done"
    BY <2>1, StepIs
  <2>3. /\ pipe' \in [Works -> {"none", "held", "returned"}] /\ pipe'[w] # "held"
        /\ \A v \in Works : v # w => pipe'[v] = pipe[v]
    BY <1>2, <2>1, ReturnedIs
  <2>4. UNCHANGED <<editVars, cacheVars, requestVars, readHash, stale, ui, wver, taken>>
    BY <1>4 DEF TaskCallback, editVars
  <2>5. WorkPlain(w)
    BY <1>2, <2>1, <2>3, <2>4 DEF WorkPlain, WorkStates, FlowTypes
  <2>6. WorkAges(w)
    BY <1>1, <2>2, <2>3 DEF WorkAges, Shown
  <2> QED
    BY <1>1, <2>5, <2>6, PlainSound
<1>5. CASE w \notin stale /\ ~made
  <2>1. Step(w, "unmade") /\ taken' = [taken EXCEPT ![w] = mine] /\ Uncache({key[w]})
        /\ UNCHANGED <<pins, disk, pipe>>
    BY <1>5 DEF TaskCallback
  <2>2. work'[w] = "unmade" /\ \A v \in Works : v # w => work'[v] = work[v]
    BY <2>1, StepIs
  <2>3. /\ CacheShape' /\ PinsInv' /\ PinnedStay /\ cached' \in Guards
        /\ \A k \in Keys : cached'[k] = cached[k] \/ cached'[k] = NoWork
    BY <1>1, <1>2, <2>1, <2>2, WithdrawnIs DEF Withdrawn
  <2>4. \A v \in Works : v # w => taken'[v] = taken[v]
    BY <1>3, <2>1
  <2>5. WorkOk(w)
    BY <1>1, <1>2, <2>1, <2>2, <2>3, <2>4 DEF WorkOk, FlowTypes, Guards
  <2>6. WorkAges(w)
    BY <1>1, <2>2 DEF WorkAges, Shown, Owning
  <2>7. WorkShows(w)
    BY <1>1, <2>1, <2>3 DEF WorkShows
  <2> QED
    BY <2>3, <2>5, <2>6, <2>7, WorkSound
<1>6. CASE w \notin stale /\ made
  <2>1. /\ Step(w, "published") /\ taken' = [taken EXCEPT ![w] = mine]
        /\ Publish(w, Cardinality(mine))
        /\ \/ disk' = disk
           \/ disk' = [disk EXCEPT ![key[w]][hash[key[w][1]]] = {wver[w]}]
        /\ UNCHANGED pipe
    BY <1>6 DEF TaskCallback
  <2>2. work'[w] = "published" /\ \A v \in Works : v # w => work'[v] = work[v]
    BY <2>1, StepIs
  <2>3. /\ CacheShape' /\ PinsInv' /\ PinnedStay /\ cached' \in Guards
        /\ \A k \in Keys : \/ cached'[k] = cached[k] \/ cached'[k] = NoWork
                           \/ (k = key[w] /\ cached'[k] = w)
    BY <1>1, <1>2, <2>1, <2>2, PublishedIs
  <2>4. taken'[w] = mine /\ \A v \in Works : v # w => taken'[v] = taken[v]
    BY <1>3, <2>1
  <2>5. /\ fresh[key[w][1]] <= wver[w] /\ wver[w] \in Vers
        /\ \A r \in mine : floor[r] <= wver[w]
    BY <1>1, <1>2, <1>6, WaitingFresh
  <2>6. /\ disk' \in [Keys -> [Vers -> SUBSET Vers]]
        /\ \A k \in Keys, h \in Vers : \A v \in disk'[k][h] : v \in disk[k][h] \/ fresh[k[1]] <= v
    <3>1. CASE disk' = disk
      BY <1>2, <3>1
    <3>2. CASE disk' = [disk EXCEPT ![key[w]][hash[key[w][1]]] = {wver[w]}]
      <4> DEFINE q == key[w]
                 g == hash[key[w][1]]
      <4>1. q \in Keys /\ g \in Vers /\ {wver[w]} \in SUBSET Vers
        BY <1>2, <2>5 DEF FlowTypes
      <4>2. disk' = [disk EXCEPT ![q] = [disk[q] EXCEPT ![g] = {wver[w]}]]
        BY <3>2
      <4>3. fresh[q[1]] <= wver[w]
        BY <2>5
      <4> HIDE DEF q, g
      <4>4. disk[q] \in [Vers -> SUBSET Vers]
        BY <1>2, <4>1
      <4>5. [disk[q] EXCEPT ![g] = {wver[w]}] \in [Vers -> SUBSET Vers]
        BY <4>1, <4>4
      <4>6. disk' \in [Keys -> [Vers -> SUBSET Vers]]
        BY <1>2, <4>2, <4>5
      <4>7. ASSUME NEW k \in Keys, NEW h \in Vers, NEW v \in disk'[k][h]
            PROVE  v \in disk[k][h] \/ fresh[k[1]] <= v
        <5>1. CASE k = q /\ h = g
          BY <1>2, <4>1, <4>2, <4>3, <4>4, <4>7, <5>1
        <5>2. CASE ~(k = q /\ h = g)
          BY <1>2, <4>1, <4>2, <4>4, <4>7, <5>2
        <5> QED
          BY <5>1, <5>2
      <4> QED
        BY <4>6, <4>7
    <3> QED
      BY <2>1, <3>1, <3>2
  <2>7. pipe \in [Works -> {"none", "held", "returned"}] /\ wver \in [Works -> Vers]
        /\ given \in [Requests -> Works \cup {NoWork}]
    BY <1>2 DEF FlowTypes
  <2>8. WorkOk(w)
    BY <1>1, <2>1, <2>2, <2>3, <2>4, <2>6, <2>7 DEF WorkOk, Guards
  <2>9. WorkAges(w)
    BY <1>1, <1>6, <2>2, <2>4, <2>5 DEF WorkAges, Shown, Owning
  <2>10. WorkShows(w)
    BY <1>1, <2>2, <2>3, <2>5, <2>6 DEF WorkShows, Shown
  <2> QED
    BY <2>3, <2>8, <2>9, <2>10, WorkSound
<1> QED
  BY <1>4, <1>5, <1>6

LEMMA FinishSound ==
  ASSUME Custody, Sound, NEW w \in Works, Finish(w)
  PROVE  Sound' /\ PinnedStay
<1> DEFINE g == IF work[w] = "published" /\ w \notin stale THEN w ELSE NoWork
<1>1. /\ work[w] \in {"published", "unmade"} /\ Step(w, "done") /\ pipe' = Returned(w)
      /\ Dispatch(taken[w], g) /\ taken' = [taken EXCEPT ![w] = {}]
      /\ UNCHANGED <<editVars, pins, pending, key, floor, dropped, released,
                     readHash, wver, stale, ui>>
      /\ Uncache({key[w]}) \/ UNCHANGED <<lru, cached>>
  BY DEF Finish
<1>2. UNCHANGED <<content, hash, fresh, disk, key, floor, released, readHash, wver, stale, pins, ui>>
  BY <1>1 DEF editVars
<1>3. Flow /\ FlowTypes /\ key[w] \in Keys
  BY <1>1, KeyOf DEF Sound, Flow
<1>4. taken \in [Works -> SUBSET Requests]
  BY DEF Custody, CustodyTypes
<1>5. taken'[w] = {} /\ \A v \in Works : v # w => taken'[v] = taken[v]
  BY <1>1, <1>4
<1>6. /\ pipe' \in [Works -> {"none", "held", "returned"}] /\ pipe'[w] # "held"
      /\ \A v \in Works : v # w => pipe'[v] = pipe[v]
  BY <1>1, <1>3, ReturnedIs
<1>7. work'[w] = "done" /\ \A v \in Works : v # w => work'[v] = work[v]
  BY <1>1, StepIs
<1>8. /\ CacheShape' /\ PinsInv' /\ PinnedStay /\ cached' \in Guards
      /\ \A k \in Keys : cached'[k] = cached[k] \/ cached'[k] = NoWork
  BY <1>1, <1>2, <1>3, <1>7, WithdrawnIs DEF Withdrawn
<1>9. g \in Works \cup {NoWork} /\ (g = NoWork \/ (g = w /\ work[w] = "published"))
  OBVIOUS
<1> HIDE DEF g
<1>10. /\ given' \in [Requests -> Works \cup {NoWork}]
       /\ \A r \in Requests : given'[r] = IF r \in taken[w] THEN g ELSE given[r]
  BY <1>1, <1>3, <1>9, GivenIs
<1>11. WorkOk(w)
  BY <1>1, <1>2, <1>3, <1>5, <1>6, <1>7, <1>8, <1>10 DEF WorkOk, FlowTypes, Guards
<1>12. WorkAges(w)
  BY <1>2, <1>5, <1>6, <1>7 DEF WorkAges, Shown
<1>13. WorkShows(w)
  <2>1. ASSUME NEW r \in Requests
        PROVE  \/ given'[r] = given[r] \/ given'[r] = NoWork
               \/ /\ given'[r] = w /\ floor[r] <= wver'[w] /\ work'[w] \in Shown /\ key[r] # NoKey
    <3>1. CASE r \notin taken[w] \/ g = NoWork
      BY <1>10, <3>1
    <3>2. CASE r \in taken[w] /\ g # NoWork
      <4>1. given'[r] = w /\ work[w] = "published"
        BY <1>9, <1>10, <3>2
      <4>2. floor[r] <= wver[w]
        BY <1>3, <3>2, <4>1 DEF Flow, Ages, TakenInv
      <4>3. key[r] # NoKey
        BY <3>2 DEF Custody, TakenHeld, Unanswered
      <4> QED
        BY <1>2, <1>7, <4>1, <4>2, <4>3 DEF Shown
    <3> QED
      BY <3>1, <3>2
  <2> QED
    BY <1>2, <1>8, <2>1 DEF WorkShows
<1> QED
  BY <1>8, <1>11, <1>12, <1>13, WorkSound

-----------------------------------------------------------------------------
LEMMA SoundInit == Init => Sound
<1> SUFFICES ASSUME Init PROVE Sound
  OBVIOUS
<1> USE ThumbnailAssumption
<1>1. 0 \in Vers /\ Capacity \in Nat \ {0} /\ MaxEdits \in Nat
  BY DEF Vers
<1>2. FlowTypes
  BY <1>1 DEF Init, FlowTypes, Works
<1>3. BeginsNew /\ PipeHeld
  BY DEF Init, BeginsNew, PipeHeld, Works
<1>4. EditOrder /\ FloorInv
  BY DEF Init, EditOrder, FloorInv
<1>5. DiskInv /\ Purging
  BY DEF Init, DiskInv, Purging, Running, Works
<1>6. WorkInv /\ TakenInv /\ GuardInv /\ GivenInv
  BY DEF Init, WorkInv, TakenInv, GuardInv, GivenInv, Works
<1>7. CacheShape
  <2>1. lru = [keys |-> <<>>, cap |-> Capacity]
    BY DEF Init, EmptyCache
  <2>2. Good(lru) /\ Fits(lru) /\ KeysOf(lru) = {}
    BY <1>1, <2>1 DEF Good, Fits, Caches, Distinct, KeysOf
  <2>3. Dom(cached) = {}
    BY DEF Init, Dom
  <2> QED
    BY <2>2, <2>3 DEF CacheShape
<1>8. PinsInv
  <2>1. pins \in [Works -> Nat] /\ \A w \in Works : pins[w] = 0
    BY DEF Init
  <2> QED
    BY <2>1, IssuedFinite DEF PinsInv
<1> QED
  BY <1>2, <1>3, <1>4, <1>5, <1>6, <1>7, <1>8 DEF Sound, Flow, Ages

LEMMA UISound ==
  ASSUME Custody, Sound, UIStep
  PROVE  Sound' /\ PinnedStay
<1>1. ASSUME NEW r \in Requests, NEW k \in Keys, Lookup(r, k) PROVE Sound' /\ PinnedStay
  BY <1>1, LookupSound
<1>2. ASSUME NEW r \in Requests, Register(r) \/ Release(r) PROVE Sound' /\ PinnedStay
  BY <1>2, RegisterSound, ReleaseSound
<1>3. ASSUME NEW k \in Keys, Unpin(k) PROVE Sound' /\ PinnedStay
  BY <1>3, UnpinSound
<1>4. ASSUME NEW e \in Elements,
             CancelElement(e) \/ Invalidate(e) \/ PurgeDisk(e) \/ Edit(e) \/ Commit(e)
      PROVE  Sound' /\ PinnedStay
  BY <1>4, CancelElementSound, InvalidateSound, PurgeSound, EditSound
<1>5. ASSUME NEW n \in Sizes, ResizeCache(n) PROVE Sound' /\ PinnedStay
  BY <1>5, ResizeSound
<1> QED
  BY <1>1, <1>2, <1>3, <1>4, <1>5 DEF UIStep

LEMMA WorkStepSound ==
  ASSUME Custody, Sound, NEW w \in Works, WorkStep(w)
  PROVE  Sound' /\ PinnedStay
  BY ReadDiskSound, PublishReadSound, DispatchSound, TaskSound, PrepareFailSound,
     CallbackSound, FinishSound
  DEF WorkStep

LEMMA SoundStep ==
  Custody /\ Sound /\ [Next]_vars => Sound' /\ [PinnedStay]_vars
<1> SUFFICES ASSUME Custody, Sound, [Next]_vars PROVE Sound' /\ [PinnedStay]_vars
  OBVIOUS
<1>1. CASE UIStep
  BY <1>1, UISound
<1>2. ASSUME NEW w \in Works, WorkStep(w) PROVE Sound' /\ PinnedStay
  BY <1>2, WorkStepSound
<1>3. CASE UNCHANGED vars
  <2>1. UNCHANGED <<content, hash, fresh, disk, lru, cached, pins, key, floor, given, released,
                    work, readHash, wver, taken, stale, pipe, ui>>
    BY <1>3 DEF vars, editVars, cacheVars, requestVars, workVars
  <2>2. FlowTypes' /\ BeginsNew' /\ PipeHeld'
    BY <2>1 DEF Sound, Flow, FlowTypes, BeginsNew, Begins, PipeHeld
  <2>3. EditOrder' /\ FloorInv' /\ DiskInv' /\ Purging'
    BY <2>1 DEF Sound, Flow, Ages, EditOrder, FloorInv, DiskInv, Purging, Purges, Running
  <2>4. WorkInv' /\ TakenInv' /\ GuardInv' /\ GivenInv'
    BY <2>1 DEF Sound, Flow, Ages, WorkInv, TakenInv, GuardInv, GivenInv
  <2>5. CacheShape' /\ PinsInv'
    BY <2>1, PinsQuiet, CacheQuiet DEF Sound
  <2> QED
    BY <1>3, <2>2, <2>3, <2>4, <2>5 DEF Sound, Flow, Ages
<1> QED
  BY <1>1, <1>2, <1>3 DEF Next

\* The images, the guards, the pipelines and the list stay in order.
THEOREM SoundInvariant == Spec => []Sound
<1>1. Spec => []Custody
  BY CustodyInvariant
<1> QED
  BY <1>1, SoundInit, SoundStep, PTL DEF Spec

\* A caller that asked after an InvalidateThumbnail never gets an older image:
\* not from memory, not from disk, not from a render that had begun before.
THEOREM AnswersAreFresh == Spec => []FreshAnswers
<1>1. Sound => FreshAnswers
  <2> SUFFICES ASSUME Sound, NEW r \in Requests, given[r] # NoWork
               PROVE  wver[given[r]] >= floor[r]
    BY DEF FreshAnswers
  <2>1. floor[r] <= wver[given[r]] /\ given[r] \in Works
    BY DEF Sound, Flow, FlowTypes, Ages, GivenInv
  <2>2. floor[r] \in Nat /\ wver[given[r]] \in Nat
    BY <2>1, VersAre DEF Sound, Flow, FlowTypes
  <2> QED
    BY <2>1, <2>2
<1> QED
  BY <1>1, SoundInvariant, PTL

\* A task that has ended, in whatever way, has given its pipeline back.
THEOREM PipelinesComeBack == Spec => []PipelineReturned
<1>1. Sound => PipelineReturned
  BY DEF Sound, Flow, PipeHeld, PipelineReturned, Owning
<1> QED
  BY <1>1, SoundInvariant, PTL

\* The list and the data of the memory cache name the same keys, through
\* evictions that put pinned guards back and resizes that trim the list.
THEOREM CacheIsConsistent == Spec => []CacheConsistent
<1>1. Custody /\ Sound => CacheConsistent
  <2> SUFFICES ASSUME Custody, Sound PROVE CacheConsistent
    OBVIOUS
  <2>1. LruMatchesCached /\ lru.keys \in Seq(Keys) /\ lru.cap \in Nat
    BY DEF Sound, CacheShape, Good, Caches, Dom, LruMatchesCached
  <2>2. pins \in [Works -> 0..Cardinality(Requests)]
    <3>1. Issued \subseteq Requests /\ IsFiniteSet(Requests)
      BY ThumbnailAssumption DEF Issued
    <3>2. /\ Cardinality(Issued) <= Cardinality(Requests) /\ Cardinality(Issued) \in Nat
          /\ Cardinality(Requests) \in Nat
      BY <3>1, FS_Subset, FS_CardinalityType
    <3>3. pins \in [Works -> Nat] /\ \A w \in Works : pins[w] <= Cardinality(Issued)
      BY DEF Sound, PinsInv
    <3>4. \A w \in Works : pins[w] \in 0..Cardinality(Requests)
      BY <3>2, <3>3
    <3> QED
      BY <3>3, <3>4
  <2>3. answers \in [Requests -> Nat]
    BY DEF Custody, CustodyTypes
  <2> QED
    BY <2>1, <2>2, <2>3
    DEF Custody, CustodyTypes, Sound, Flow, FlowTypes, TypeOK, CacheConsistent
<1> QED
  BY <1>1, SoundInvariant, CustodyInvariant, PTL

\* A pinned guard leaves the cache only by a step on its own key: no eviction
\* and no resize takes it.
THEOREM PinnedStaysCached == Spec => PinnedSurvive
  BY SoundInvariant, CustodyInvariant, SoundStep, PTL DEF Spec, PinnedSurvive, PinnedStay

-----------------------------------------------------------------------------
(* Who is going to answer: the work that made a pending_ entry is on it,   *)
(* and takes it whole; what moves its token throws the entry away.         *)

NewIsCurrent == \A w \in Works : w \in stale => work[w] # "none"

Rest == Served /\ NewIsCurrent

\* A step that leaves the callbacks alone: w moves on, and goes on to take.
LEMMA MoveServed ==
  ASSUME Custody, Rest, NEW w \in Works, NEW to, Step(w, to), to # "none", work[w] # "none",
         UNCHANGED <<pending, taken, answers, dropped, key, stale, ui>>,
         taken[w] = {},
         w \in pending[key[w]] /\ w \notin stale /\ work[w] \in ReadyToTake => to \in ReadyToTake
  PROVE  Rest'
<1>0. work' = [work EXCEPT ![w] = to] /\ work \in [Works -> WorkStates]
  BY DEF Step, Custody, CustodyTypes
<1>1. InOnePlace'
  BY DEF Rest, Served, InOnePlace, Unanswered
<1>2. TakenServed'
  BY <1>0 DEF Rest, Served, TakenServed
<1>3. PendingServed'
  <2> SUFFICES ASSUME NEW k \in Keys, pending[k] # {}
               PROVE  \E v \in pending[k] : v \notin stale /\ work'[v] \in ReadyToTake
    BY DEF PendingServed
  <2>1. PICK v \in pending[k] : v \notin stale /\ work[v] \in ReadyToTake
    BY DEF Rest, Served, PendingServed
  <2>2. v \in Works /\ key[v] = k
    BY <2>1 DEF Custody, CustodyTypes, PendingHeld, Works
  <2> QED
    BY <2>1, <2>2, <1>0
<1>4. NewIsCurrent'
  BY <1>0 DEF Rest, NewIsCurrent
<1> QED
  BY <1>1, <1>2, <1>3, <1>4 DEF Rest, Served

\* A work takes the entry of its key whole.
LEMMA TakeServed ==
  ASSUME Custody, Rest, NEW w \in Works, NEW to \in HasTaken, Step(w, to), work[w] # "none",
         pending' = [pending EXCEPT ![key[w]] = {}],
         taken' = [taken EXCEPT ![w] = pending[key[w]]],
         UNCHANGED <<answers, dropped, key, stale, ui>>,
         taken[w] = {}
  PROVE  Rest'
<1>0. /\ work' = [work EXCEPT ![w] = to] /\ work \in [Works -> WorkStates]
      /\ key[w] \in Keys /\ pending \in [Keys -> SUBSET Requests]
      /\ taken \in [Works -> SUBSET Requests]
  BY DEF Step, Custody, CustodyTypes, Works
<1>1. InOnePlace'
  <2> SUFFICES ASSUME NEW r \in Requests, Unanswered(r)
               PROVE  \/ ui = <<"register", r>> \/ r \in pending'[key[r]]
                      \/ \E v \in Works : r \in taken'[v]
    BY DEF InOnePlace, Unanswered
  <2>1. key[r] \in Keys
    BY DEF Unanswered, Custody, CustodyTypes
  <2>2. CASE ui = <<"register", r>>
    BY <2>2
  <2>3. CASE r \in pending[key[r]]
    BY <2>1, <2>3, <1>0
  <2>4. ASSUME NEW v \in Works, r \in taken[v] PROVE r \in taken'[v]
    BY <2>4, <1>0
  <2> QED
    BY <2>2, <2>3, <2>4 DEF Rest, Served, InOnePlace
<1>2. TakenServed'
  BY <1>0 DEF Rest, Served, TakenServed
<1>3. PendingServed'
  <2> SUFFICES ASSUME NEW k \in Keys, pending'[k] # {}
               PROVE  \E v \in pending'[k] : v \notin stale /\ work'[v] \in ReadyToTake
    BY DEF PendingServed
  <2>1. k # key[w] /\ pending'[k] = pending[k]
    BY <1>0
  <2>2. PICK v \in pending[k] : v \notin stale /\ work[v] \in ReadyToTake
    BY <2>1 DEF Rest, Served, PendingServed
  <2>3. v \in Works /\ key[v] = k
    BY <2>2 DEF Custody, CustodyTypes, PendingHeld, Works
  <2> QED
    BY <2>1, <2>2, <2>3, <1>0
<1>4. NewIsCurrent'
  BY <1>0 DEF Rest, NewIsCurrent, HasTaken
<1> QED
  BY <1>1, <1>2, <1>3, <1>4 DEF Rest, Served

\* A work answers what it has taken.
LEMMA GiveServed ==
  ASSUME Custody, Rest, NEW w \in Works, NEW to, Step(w, to), to # "none",
         work[w] \in HasTaken, taken' = [taken EXCEPT ![w] = {}], NEW g, Dispatch(taken[w], g),
         UNCHANGED <<pending, dropped, key, stale, ui>>
  PROVE  Rest'
<1>0. /\ work' = [work EXCEPT ![w] = to] /\ work \in [Works -> WorkStates]
      /\ taken \in [Works -> SUBSET Requests]
      /\ \A r \in Requests : answers'[r] = IF r \in taken[w] THEN answers[r] + 1 ELSE answers[r]
      /\ answers \in [Requests -> {0, 1}]
  BY DEF Step, Custody, CustodyTypes, Dispatch
<1>1. InOnePlace'
  <2> SUFFICES ASSUME NEW r \in Requests, Unanswered(r)'
               PROVE  \/ ui = <<"register", r>> \/ r \in pending[key[r]]
                      \/ \E v \in Works : r \in taken'[v]
    BY DEF InOnePlace, Unanswered
  <2>1. answers'[r] = 0 /\ key[r] # NoKey /\ r \notin dropped
    BY DEF Unanswered
  <2>2. r \notin taken[w] /\ answers[r] = 0
    BY <2>1, <1>0
  <2>3. Unanswered(r)
    BY <2>1, <2>2 DEF Unanswered
  <2> QED
    BY <2>2, <2>3, <1>0 DEF Rest, Served, InOnePlace
<1>2. TakenServed'
  BY <1>0 DEF Rest, Served, TakenServed
<1>3. PendingServed'
  <2> SUFFICES ASSUME NEW k \in Keys, pending[k] # {}
               PROVE  \E v \in pending[k] : v \notin stale /\ work'[v] \in ReadyToTake
    BY DEF PendingServed
  <2>1. PICK v \in pending[k] : v \notin stale /\ work[v] \in ReadyToTake
    BY DEF Rest, Served, PendingServed
  <2>2. v \in Works /\ v # w
    BY <2>1 DEF Custody, CustodyTypes, Works, ReadyToTake, HasTaken
  <2> QED
    BY <2>1, <2>2, <1>0
<1>4. NewIsCurrent'
  BY <1>0 DEF Rest, NewIsCurrent
<1> QED
  BY <1>1, <1>2, <1>3, <1>4 DEF Rest, Served

\* What moves tokens answers or throws away the entries of the same keys.
LEMMA DrainServed ==
  ASSUME Custody, Rest, NEW K \in SUBSET Keys, Bump(K),
         pending' = [k \in Keys |-> IF k \in K THEN {} ELSE pending[k]],
         \A r \in Drained(K) : ~Unanswered(r)',
         \A r \in Requests \ Drained(K) : answers'[r] = answers[r],
         dropped \subseteq dropped',
         UNCHANGED <<key, work, taken>>,
         \A r \in Requests : ui # <<"register", r>>
  PROVE  Rest'
<1>1. InOnePlace'
  <2> SUFFICES ASSUME NEW r \in Requests, Unanswered(r)'
               PROVE  r \in pending'[key[r]] \/ \E v \in Works : r \in taken[v]
    BY DEF InOnePlace
  <2>1. r \notin Drained(K) /\ Unanswered(r) /\ key[r] \in Keys
    BY DEF Unanswered, Custody, CustodyTypes
  <2> QED
    BY <2>1 DEF Rest, Served, InOnePlace, Drained
<1>2. TakenServed'
  BY DEF Rest, Served, TakenServed
<1>3. PendingServed'
  <2> SUFFICES ASSUME NEW k \in Keys, pending'[k] # {}
               PROVE  \E v \in pending'[k] : v \notin stale' /\ work[v] \in ReadyToTake
    BY DEF PendingServed
  <2>1. k \notin K /\ pending'[k] = pending[k]
    OBVIOUS
  <2>2. PICK v \in pending[k] : v \notin stale /\ work[v] \in ReadyToTake
    BY <2>1 DEF Rest, Served, PendingServed
  <2>3. key[v] = k
    BY <2>2 DEF Custody, PendingHeld
  <2> QED
    BY <2>1, <2>2, <2>3 DEF Bump
<1>4. NewIsCurrent'
  BY DEF Rest, NewIsCurrent, Bump, Running
<1> QED
  BY <1>1, <1>2, <1>3, <1>4 DEF Rest, Served

\* Neither the callbacks nor the works move.
LEMMA QuietServed ==
  ASSUME Rest, UNCHANGED <<pending, taken, answers, dropped, key, work, stale>>,
         \A r \in Requests : ui = <<"register", r>> => ui' = ui
  PROVE  Rest'
  BY DEF Rest, Served, InOnePlace, TakenServed, PendingServed, NewIsCurrent, Unanswered

LEMMA CancelServed ==
  ASSUME Custody, Rest, NEW K \in SUBSET Keys, CancelPending(K), UNCHANGED taken,
         \A r \in Requests : ui # <<"register", r>>
  PROVE  Rest'
<1>1. \A r \in Drained(K) : r \in Requests /\ Unanswered(r)
  BY DrainedIsPending
<1>2. /\ \A r \in Requests :
            answers'[r] = IF r \in Drained(K) THEN answers[r] + 1 ELSE answers[r]
      /\ UNCHANGED <<key, work, dropped>> /\ Bump(K)
      /\ pending' = [k \in Keys |-> IF k \in K THEN {} ELSE pending[k]]
  BY DEF CancelPending, Dispatch
<1>3. \A r \in Drained(K) : answers'[r] # 0
  BY <1>1, <1>2 DEF Unanswered
<1> QED
  BY <1>2, <1>3, DrainServed DEF Unanswered

LEMMA RegisterServed ==
  ASSUME Custody, Rest, BeginsNew, NEW r \in Requests, Register(r)
  PROVE  Rest'
<1> DEFINE k == key[r]
<1>0. /\ ui = <<"register", r>> /\ r \in Works
      /\ pending' = [pending EXCEPT ![k] = @ \cup {r}]
      /\ UNCHANGED <<key, answers, dropped, taken, stale>>
      /\ IF pending[k] = {} THEN work' = [work EXCEPT ![r] = "reading"] ELSE work' = work
  BY DEF Register, Step, requestVars, Works
<1>1. /\ Unanswered(r) /\ k \in Keys /\ work[r] = "none"
      /\ pending \in [Keys -> SUBSET Requests] /\ work \in [Works -> WorkStates]
  BY <1>0 DEF Custody, CustodyTypes, RegisteringHeld, Unanswered, BeginsNew, Begins
<1>2. r \notin stale /\ taken[r] = {}
  BY <1>0, <1>1 DEF Rest, NewIsCurrent, Served, TakenServed, HasTaken
<1>3. InOnePlace'
  <2> SUFFICES ASSUME NEW q \in Requests, Unanswered(q)
               PROVE  q \in pending'[key[q]] \/ \E v \in Works : q \in taken[v]
    BY <1>0 DEF InOnePlace, Unanswered
  <2>1. key[q] \in Keys
    BY DEF Unanswered, Custody, CustodyTypes
  <2>2. CASE q = r
    BY <2>2, <1>0, <1>1
  <2>3. CASE q # r
    <3>1. ui # <<"register", q>>
      BY <2>3, <1>0
    <3> QED
      BY <3>1, <2>1, <1>0, <1>1 DEF Rest, Served, InOnePlace
  <2> QED
    BY <2>2, <2>3
<1>4. TakenServed'
  BY <1>0, <1>1, <1>2 DEF Rest, Served, TakenServed
<1>5. PendingServed'
  <2> SUFFICES ASSUME NEW j \in Keys, pending'[j] # {}
               PROVE  \E v \in pending'[j] : v \notin stale /\ work'[v] \in ReadyToTake
    BY <1>0 DEF PendingServed
  <2>1. CASE pending[j] = {}
    <3>1. j = k /\ r \in pending'[j]
      BY <2>1, <1>0, <1>1
    <3>2. work'[r] = "reading"
      BY <3>1, <2>1, <1>0, <1>1
    <3> QED
      BY <3>1, <3>2, <1>2 DEF ReadyToTake
  <2>2. CASE pending[j] # {}
    <3>1. PICK v \in pending[j] : v \notin stale /\ work[v] \in ReadyToTake
      BY <2>2 DEF Rest, Served, PendingServed
    <3>2. v \in Works /\ v # r /\ v \in pending'[j]
      BY <3>1, <1>0, <1>1 DEF ReadyToTake, Works
    <3> QED
      BY <3>1, <3>2, <1>0, <1>1
  <2> QED
    BY <2>1, <2>2
<1>6. NewIsCurrent'
  BY <1>0, <1>1 DEF Rest, NewIsCurrent
<1> QED
  BY <1>3, <1>4, <1>5, <1>6 DEF Rest, Served

LEMMA UIServed ==
  ASSUME Custody, Rest, BeginsNew, UIStep
  PROVE  Rest'
<1>1. ASSUME NEW r \in Requests, NEW k \in Keys, Lookup(r, k) PROVE Rest'
  <2>1. /\ ui = Free /\ UNCHANGED <<pending, dropped, taken, work, stale>>
        /\ key' = [key EXCEPT ![r] = k]
        /\ \/ answers'[r] = answers[r] + 1
           \/ ui' = <<"register", r>>
        /\ \A q \in Requests \ {r} : answers'[q] = answers[q] /\ key'[q] = key[q]
    BY <1>1 DEF Lookup, workVars, Dispatch, Custody, CustodyTypes
  <2>2. answers[r] = 0
    BY <1>1 DEF Lookup, Custody, Settled
  <2>3. InOnePlace'
    <3> SUFFICES ASSUME NEW q \in Requests, Unanswered(q)'
                 PROVE  \/ ui' = <<"register", q>> \/ q \in pending[key'[q]]
                        \/ \E v \in Works : q \in taken[v]
      BY <2>1 DEF InOnePlace
    <3>1. CASE q = r
      BY <3>1, <2>1, <2>2 DEF Unanswered
    <3>2. CASE q # r
      BY <3>2, <2>1 DEF Unanswered, Rest, Served, InOnePlace, Free
    <3> QED
      BY <3>1, <3>2
  <2> QED
    BY <2>1, <2>3 DEF Rest, Served, TakenServed, PendingServed, NewIsCurrent
<1>2. ASSUME NEW r \in Requests, Register(r) PROVE Rest'
  BY <1>2, RegisterServed
<1>3. ASSUME NEW r \in Requests, Release(r) PROVE Rest'
  <2>1. key[r] \in Keys
    BY <1>3 DEF Release, Issued, Custody, CustodyTypes
  <2>2. ui = Free /\ CancelPending({key[r]}) /\ UNCHANGED taken
    BY <1>3 DEF Release, CancelPending
  <2> QED
    BY <2>1, <2>2, CancelServed DEF Free
<1>4. ASSUME NEW e \in Elements, CancelElement(e) PROVE Rest'
  <2>1. KeysFor(e) \in SUBSET Keys
    BY DEF KeysFor, Keys
  <2>2. ui = Free /\ CancelPending(KeysFor(e)) /\ UNCHANGED taken
    BY <1>4 DEF CancelElement, CancelPending
  <2> QED
    BY <2>1, <2>2, CancelServed DEF Free
<1>5. ASSUME NEW e \in Elements, Invalidate(e) PROVE Rest'
  <2>1. KeysFor(e) \in SUBSET Keys
    BY DEF KeysFor, Keys
  <2>2. /\ Bump(KeysFor(e)) /\ dropped' = dropped \cup Drained(KeysFor(e))
        /\ pending' = [k \in Keys |-> IF k \in KeysFor(e) THEN {} ELSE pending[k]]
        /\ UNCHANGED <<key, work, taken, answers>>
        /\ ui = Free \/ ui = <<"committed", e>>
    BY <1>5 DEF Invalidate
  <2>3. \A r \in Requests : ui # <<"register", r>>
    BY <2>2 DEF Free
  <2> QED
    BY <2>1, <2>2, <2>3, DrainServed DEF Unanswered
<1>6. ASSUME NEW k \in Keys, Unpin(k) PROVE Rest'
  <2>1. /\ ui = <<"unpin", k>>
        /\ UNCHANGED <<pending, taken, answers, dropped, key, work, stale>>
    BY <1>6 DEF Unpin, requestVars, workVars
  <2> QED
    BY <2>1, QuietServed
<1>7. ASSUME NEW e \in Elements, PurgeDisk(e) \/ Edit(e) \/ Commit(e) PROVE Rest'
  <2>1. /\ ui = Free \/ ui = <<"purge", e>>
        /\ UNCHANGED <<pending, taken, answers, dropped, key, work, stale>>
    BY <1>7 DEF PurgeDisk, Edit, Commit, requestVars, workVars
  <2>2. \A r \in Requests : ui # <<"register", r>>
    BY <2>1 DEF Free
  <2> QED
    BY <2>1, <2>2, QuietServed
<1>8. ASSUME NEW n \in Sizes, ResizeCache(n) PROVE Rest'
  <2>1. UNCHANGED <<pending, requestVars, workVars, ui>>
    BY <1>8 DEF ResizeCache
  <2> QED
    BY <2>1, QuietServed DEF requestVars, workVars
<1> QED
  BY <1>1, <1>2, <1>3, <1>4, <1>5, <1>6, <1>7, <1>8 DEF UIStep

LEMMA WorkServed ==
  ASSUME Custody, Rest, NEW w \in Works, WorkStep(w)
  PROVE  Rest'
<1>0. work[w] \notin HasTaken => taken[w] = {}
  BY DEF Rest, Served, TakenServed
<1>k. work[w] # "none" => key[w] \in Keys
  BY KeyOf
<1>1. CASE ReadDisk(w) \/ StartTask(w) \/ PrepareOk(w) \/ Render(w)
  <2>1. UNCHANGED <<pending, taken, answers, dropped, key, stale, ui>>
    BY <1>1 DEF ReadDisk, StartTask, PrepareOk, Render, requestVars
  <2>2. PICK to \in ReadyToTake \cup {"done"} :
            Step(w, to) /\ (to = "done" => w \in stale)
    BY <1>1 DEF ReadDisk, StartTask, PrepareOk, Render, ReadyToTake
  <2>3. work[w] # "none" /\ work[w] \notin HasTaken
    BY <1>1 DEF ReadDisk, StartTask, PrepareOk, Render, HasTaken
  <2> QED
    BY <2>1, <2>2, <2>3, <1>0, MoveServed DEF ReadyToTake
<1>2. CASE PublishRead(w)
  <2>1. /\ work[w] = "read" /\ taken[w] = {}
        /\ UNCHANGED <<answers, dropped, key, stale, ui>>
    BY <1>0, <1>2 DEF PublishRead, requestVars, HasTaken
  <2>2. CASE w \in stale \/ pending[key[w]] = {}
    <3>1. Step(w, "done") /\ UNCHANGED <<pending, taken>>
      BY <1>2, <2>2 DEF PublishRead
    <3> QED
      BY <3>1, <2>1, <2>2, MoveServed
  <2>3. CASE ~(w \in stale \/ pending[key[w]] = {})
    <3>1. /\ Step(w, "dispatch") /\ pending' = [pending EXCEPT ![key[w]] = {}]
          /\ taken' = [taken EXCEPT ![w] = pending[key[w]]]
      BY <1>2, <2>3 DEF PublishRead
    <3> QED
      BY <3>1, <2>1, TakeServed DEF HasTaken
  <2> QED
    BY <2>2, <2>3
<1>3. CASE PrepareFail(w)
  <2>1. /\ work[w] = "preparing" /\ taken[w] = {} /\ Step(w, "failed")
        /\ UNCHANGED <<answers, dropped, key, stale, ui>>
        /\ pending' = [pending EXCEPT ![key[w]] = {}]
        /\ taken' = [taken EXCEPT ![w] = pending[key[w]]]
    BY <1>0, <1>3 DEF PrepareFail, requestVars, HasTaken
  <2> QED
    BY <2>1, TakeServed DEF HasTaken
<1>4. CASE TaskCallback(w)
  <2>1. /\ work[w] \in {"rendered", "empty"} /\ taken[w] = {}
        /\ UNCHANGED <<answers, dropped, key, stale, ui>>
    BY <1>0, <1>4 DEF TaskCallback, requestVars, HasTaken
  <2>2. CASE w \in stale
    <3>1. Step(w, "done") /\ UNCHANGED <<pending, taken>>
      BY <1>4, <2>2 DEF TaskCallback
    <3> QED
      BY <3>1, <2>1, <2>2, MoveServed
  <2>3. CASE w \notin stale
    <3>1. /\ Step(w, "published") \/ Step(w, "unmade")
          /\ pending' = [pending EXCEPT ![key[w]] = {}]
          /\ taken' = [taken EXCEPT ![w] = pending[key[w]]]
      BY <1>4, <2>3 DEF TaskCallback
    <3> QED
      BY <3>1, <2>1, TakeServed DEF HasTaken
  <2> QED
    BY <2>2, <2>3
<1>5. CASE DispatchRead(w) \/ DispatchFailed(w) \/ Finish(w)
  <2>1. /\ work[w] \in HasTaken /\ taken' = [taken EXCEPT ![w] = {}]
        /\ UNCHANGED <<pending, dropped, key, stale, ui>>
        /\ Step(w, "done") \/ Step(w, "empty")
        /\ \E g : Dispatch(taken[w], g)
    BY <1>5 DEF DispatchRead, DispatchFailed, Finish, HasTaken
  <2> QED
    BY <2>1, GiveServed
<1> QED
  BY <1>1, <1>2, <1>3, <1>4, <1>5 DEF WorkStep

\* A request that is neither answered nor thrown away is in the hands of somebody
\* who is going to answer it, whatever was canceled, released, invalidated, failed
\* or joined meanwhile.
THEOREM EverybodyIsServed == Spec => []Served
<1>1. Init => Rest
  BY DEF Init, Rest, Served, InOnePlace, TakenServed, PendingServed, NewIsCurrent, Unanswered
<1>2. Custody /\ BeginsNew /\ Rest /\ [Next]_vars => Rest'
  <2> SUFFICES ASSUME Custody, BeginsNew, Rest, [Next]_vars PROVE Rest'
    OBVIOUS
  <2>1. CASE UIStep
    BY <2>1, UIServed
  <2>2. ASSUME NEW w \in Works, WorkStep(w) PROVE Rest'
    BY <2>2, WorkServed
  <2>3. CASE UNCHANGED vars
    BY <2>3, QuietServed DEF vars, requestVars, workVars
  <2> QED
    BY <2>1, <2>2, <2>3 DEF Next
<1>3. Sound => BeginsNew
  BY DEF Sound, Flow
<1>4. Rest => Served
  BY DEF Rest
<1> QED
  BY <1>1, <1>2, <1>3, <1>4, CustodyInvariant, SoundInvariant, PTL DEF Spec
================================================================================
