------------------------ MODULE PipelineScheduler_proofs -------------------------
(* What TLAPS proves of PipelineScheduler, for any number of tasks, executors and *)
(* threads, whatever the memory readings are.                                     *)
EXTENDS PipelineScheduler, FiniteSetTheorems, TLAPS

--------------------------------------------------------------------------------
(* Types, all but those of the lists.                                             *)

ControlTypes ==
    /\ memory \in Readings /\ reading \in Readings
    /\ nextId \in [Schedulers -> Nat] /\ number \in [Tasks -> Nat]
    /\ stage \in [Tasks -> Stages] /\ outcome \in [Tasks -> Outcomes]
    /\ lock \in [Execs -> Tasks \cup {Free}]
    /\ params \in [Execs -> Tasks \cup {Baseline}]

SinkTypes ==
    /\ sink \in [Execs -> 0..MaxSinks] /\ routed \in [Execs -> 0..MaxSinks]
    /\ saved \in [Tasks -> 0..MaxSinks]
    /\ lost \subseteq 0..MaxSinks /\ orphaned \subseteq 0..MaxSinks
    /\ tap \in 0..MaxSinks /\ sinks \in 0..MaxSinks

LEMMA InitControl == Init => ControlTypes
  BY DEF Init, ControlTypes, Stages, Running, Outcomes, Free, Baseline

LEMMA StepControl == ControlTypes /\ [Next]_vars => ControlTypes'
<1> SUFFICES ASSUME ControlTypes, [Next]_vars PROVE ControlTypes'
  OBVIOUS
<1> USE SchedulerAssumption DEF ControlTypes, Stages, Running, Outcomes
<1>1. ASSUME NEW t \in Tasks, ScheduleTask(t) PROVE ControlTypes'
  <2>1. /\ \E to \in {"queued", "refused"} : stage' = [stage EXCEPT ![t] = to]
        /\ stage[t] \in {"idle", "parked"}
    BY <1>1 DEF ScheduleTask, Goes
  <2>2. /\ nextId' = [nextId EXCEPT ![Home[t]] = @ + 1]
        /\ number' = [number EXCEPT ![t] = nextId[Home[t]]] /\ reading' = memory
        /\ UNCHANGED <<memory, budgets, parked, outcome, answers, lock, params, sinkVars>>
    BY <1>1 DEF ScheduleTask
  <2> QED
    BY <2>1, <2>2 DEF sinkVars
<1>2. ASSUME NEW t \in Tasks, Park(t) PROVE ControlTypes'
  BY <1>2 DEF Park, Goes, Returns, memoryVars, queueVars, taskVars, sinkVars
<1>3. ASSUME NEW t \in Tasks, Start(t) PROVE ControlTypes'
  BY <1>3 DEF Start, Goes, memoryVars, queueVars, taskVars, sinkVars
<1>4. ASSUME NEW t \in Tasks, GiveUp(t) PROVE ControlTypes'
  BY <1>4 DEF GiveUp, Goes, Answer, memoryVars, queueVars, taskVars, sinkVars
<1>5. ASSUME NEW t \in Tasks, LoadFails(t) PROVE ControlTypes'
  BY <1>5 DEF LoadFails, Goes, Leaves, memoryVars, queueVars, taskVars, sinkVars
<1>6. ASSUME NEW t \in Tasks, AcquireLock(t) PROVE ControlTypes'
  BY <1>6 DEF AcquireLock, Goes, Diverts, Diverted, memoryVars, queueVars, taskVars, sinkVars
<1>7. ASSUME NEW t \in Tasks, LockTimesOut(t) PROVE ControlTypes'
  BY <1>7 DEF LockTimesOut, Goes, Answer, ResetParams, memoryVars, queueVars,
     taskVars, sinkVars
<1>8. ASSUME NEW t \in Tasks, RenderAnswers(t) PROVE ControlTypes'
  BY <1>8 DEF RenderAnswers, Goes, Answer, Leaves, ResetParams, memoryVars, queueVars,
     taskVars, sinkVars
<1>9. ASSUME NEW t \in Tasks, RenderCopies(t) PROVE ControlTypes'
  BY <1>9 DEF RenderCopies, Goes, Leaves, ResetParams, memoryVars, queueVars,
     taskVars, sinkVars
<1>10. ASSUME NEW t \in Tasks, RenderThrows(t) PROVE ControlTypes'
  BY <1>10 DEF RenderThrows, Goes, Leaves, memoryVars, queueVars, taskVars, sinkVars
<1>11. ASSUME NEW t \in Tasks, Release(t) PROVE ControlTypes'
  BY <1>11 DEF Release, Goes, memoryVars, queueVars, taskVars, sinkVars
<1>12. ASSUME NEW t \in Tasks, TryFlush(t) PROVE ControlTypes'
  BY <1>12 DEF TryFlush, Goes, memoryVars, queueVars, taskVars, sinkVars
<1>13. ASSUME NEW t \in Tasks, Unlock(t) PROVE ControlTypes'
  BY <1>13 DEF Unlock, Goes, Restored, memoryVars, queueVars, taskVars, sinkVars
<1>14. ASSUME NEW t \in Tasks, End(t) PROVE ControlTypes'
  BY <1>14 DEF End, Goes, memoryVars, queueVars, taskVars, sinkVars
<1>15. ASSUME NEW t \in Tasks, Deliver(t) PROVE ControlTypes'
  BY <1>15 DEF Deliver, Goes, Answer, Leaves, memoryVars, queueVars, taskVars,
     sinkVars
<1>16. ASSUME NEW t \in Tasks, Catch(t) PROVE ControlTypes'
  BY <1>16 DEF Catch, Goes, Answer, ResetParams, memoryVars, queueVars, taskVars,
     sinkVars
<1>17. ASSUME NEW e \in Execs, AttachSink(e) PROVE ControlTypes'
  BY <1>17 DEF AttachSink, memoryVars, queueVars, taskVars, sinkVars
<1>18. ASSUME NEW e \in Execs, DestroySink(e) PROVE ControlTypes'
  BY <1>18 DEF DestroySink, Detachable, memoryVars, queueVars, taskVars, sinkVars
<1>19. ASSUME MemoryChanges PROVE ControlTypes'
  BY <1>19 DEF MemoryChanges, memoryVars, queueVars, taskVars, sinkVars
<1>21. ASSUME NEW t \in Tasks, InjectThrows(t) PROVE ControlTypes'
  BY <1>21 DEF InjectThrows, Goes, Leaves, Diverts, Diverted, memoryVars, queueVars,
     taskVars, sinkVars
<1>20. CASE UNCHANGED vars
  BY <1>20 DEF vars, memoryVars, queueVars, taskVars, sinkVars
<1> QED
  BY <1>1, <1>2, <1>3, <1>4, <1>5, <1>6, <1>7, <1>8, <1>9, <1>10, <1>11, <1>12, <1>13,
     <1>14, <1>15, <1>16, <1>17, <1>18, <1>19, <1>20, <1>21 DEF Next, WorkerStep

--------------------------------------------------------------------------------
(* A task that waits is in one list, once.                                        *)

Absent(list, t) == \A i \in 1..Len(list) : list[i] # t
Once(list, t) ==
    \E i \in 1..Len(list) : list[i] = t /\ \A k \in 1..Len(list) : list[k] = t => k = i

LEMMA AppendOther ==
  ASSUME NEW S, NEW list \in Seq(S), NEW x \in S, NEW t, t # x
  PROVE  /\ Absent(list, t) => Absent(Append(list, x), t)
         /\ Once(list, t) => Once(Append(list, x), t)
<1>1. /\ Len(list) \in Nat /\ Len(Append(list, x)) = Len(list) + 1
      /\ Append(list, x)[Len(list) + 1] = x
      /\ \A i \in 1..Len(list) : Append(list, x)[i] = list[i]
  OBVIOUS
<1>2. \A i \in 1..Len(Append(list, x)) : i \in 1..Len(list) \/ i = Len(list) + 1
  BY <1>1
<1>3. \A i \in 1..Len(list) : i \in 1..Len(Append(list, x))
  BY <1>1
<1> QED
  BY <1>1, <1>2, <1>3 DEF Absent, Once

LEMMA AppendSelf ==
  ASSUME NEW S, NEW list \in Seq(S), NEW t \in S, Absent(list, t)
  PROVE  Once(Append(list, t), t)
<1>1. /\ Len(list) \in Nat /\ Len(Append(list, t)) = Len(list) + 1
      /\ Append(list, t)[Len(list) + 1] = t
      /\ \A i \in 1..Len(list) : Append(list, t)[i] = list[i]
  OBVIOUS
<1>2. \A i \in 1..Len(Append(list, t)) : i \in 1..Len(list) \/ i = Len(list) + 1
  BY <1>1
<1>3. Len(list) + 1 \in 1..Len(Append(list, t))
  BY <1>1
<1> QED
  BY <1>1, <1>2, <1>3 DEF Absent, Once

LEMMA TailOther ==
  ASSUME NEW S, NEW list \in Seq(S), list # <<>>, NEW t, Head(list) # t
  PROVE  /\ Absent(list, t) => Absent(Tail(list), t)
         /\ Once(list, t) => Once(Tail(list), t)
<1>1. /\ Len(list) \in Nat \ {0} /\ Len(Tail(list)) = Len(list) - 1
      /\ \A i \in 1..Len(Tail(list)) : i + 1 \in 1..Len(list) /\ Tail(list)[i] = list[i + 1]
  OBVIOUS
<1>2. Absent(list, t) => Absent(Tail(list), t)
  BY <1>1 DEF Absent
<1>3. ASSUME Once(list, t) PROVE Once(Tail(list), t)
  <2>1. PICK i \in 1..Len(list) : list[i] = t /\ \A k \in 1..Len(list) : list[k] = t => k = i
    BY <1>3 DEF Once
  <2>2. i # 1
    BY <2>1
  <2>3. i - 1 \in 1..Len(Tail(list)) /\ (i - 1) + 1 = i
    BY <1>1, <2>2
  <2>4. Tail(list)[i - 1] = t
    BY <1>1, <2>1, <2>3
  <2>5. \A k \in 1..Len(Tail(list)) : Tail(list)[k] = t => k = i - 1
    BY <1>1, <2>1
  <2> QED
    BY <2>3, <2>4, <2>5 DEF Once
<1> QED
  BY <1>2, <1>3

LEMMA TailSelf ==
  ASSUME NEW S, NEW list \in Seq(S), list # <<>>, Once(list, Head(list))
  PROVE  Absent(Tail(list), Head(list))
<1>1. /\ Len(list) \in Nat \ {0} /\ Len(Tail(list)) = Len(list) - 1 /\ 1 \in 1..Len(list)
      /\ \A i \in 1..Len(Tail(list)) : i + 1 \in 1..Len(list) /\ Tail(list)[i] = list[i + 1]
      /\ Head(list) = list[1]
  OBVIOUS
<1> QED
  BY <1>1 DEF Absent, Once

LEMMA EmptyAbsent == \A t : Absent(<<>>, t)
  BY DEF Absent

ListTypes ==
    /\ parked \in [Schedulers -> Seq(Tasks)] /\ queue \in [Schedulers -> Seq(Tasks)]
    /\ again \in [Tasks -> Seq(Tasks)]

InAgain(t) ==
    \E u \in Tasks : Once(again[u], t) /\ \A v \in Tasks \ {u} : Absent(again[v], t)
NotInAgain(t) == \A u \in Tasks : Absent(again[u], t)

PlaceOf(t) ==
    /\ stage[t] # "flushing" => again[t] = <<>>
    /\ stage[t] = "queued" => Once(queue[Home[t]], t)
    /\ stage[t] # "queued" => Absent(queue[Home[t]], t)
    /\ stage[t] # "parked" => Absent(parked[Home[t]], t)
    /\ stage[t] \notin {"refused", "parked"} => NotInAgain(t)
    /\ stage[t] = "parked" =>
          \/ Once(parked[Home[t]], t) /\ NotInAgain(t)
          \/ Absent(parked[Home[t]], t) /\ InAgain(t)
    /\ stage[t] = "refused" =>
          \/ NotInAgain(t)
          \/ InAgain(t) /\ \A u \in Tasks : Absent(again[u], t) \/ Head(again[u]) = t

PlaceInv ==
    /\ ListTypes
    /\ \A s \in Schedulers : \A i \in 1..Len(parked[s]) : Home[parked[s][i]] = s
    /\ \A t \in Tasks : PlaceOf(t)

LEMMA InitPlace == Init => PlaceInv
<1> SUFFICES ASSUME Init PROVE PlaceInv
  OBVIOUS
<1>1. ListTypes
  BY DEF Init, ListTypes
<1>2. /\ \A s \in Schedulers : parked[s] = <<>> /\ queue[s] = <<>>
      /\ \A t \in Tasks : again[t] = <<>> /\ stage[t] = "idle" /\ Home[t] \in Schedulers
  BY SchedulerAssumption DEF Init
<1>3. \A t \in Tasks : NotInAgain(t) /\ Absent(queue[Home[t]], t) /\ Absent(parked[Home[t]], t)
  BY <1>2, EmptyAbsent DEF NotInAgain
<1> QED
  BY <1>1, <1>2, <1>3 DEF PlaceInv, PlaceOf

\* What the return of ScheduleTask to whoever called it does to the lists of the
\* tasks to submit again.
LEMMA ReturnsEffect ==
  ASSUME ListTypes, NEW t \in Tasks, Returns(t)
  PROVE  /\ again' \in [Tasks -> Seq(Tasks)]
         /\ \A u \in Tasks : again[u] = <<>> => again'[u] = <<>>
         /\ \A u \in Tasks : \A x \in Tasks \ {t} :
               /\ Absent(again[u], x) => Absent(again'[u], x)
               /\ Once(again[u], x) => Once(again'[u], x)
         /\ \A u \in Tasks :
               \/ Absent(again[u], t)
               \/ Once(again[u], t) /\ again[u] # <<>> /\ Head(again[u]) = t
               => Absent(again'[u], t)
         /\ \A u \in Tasks : again'[u] = again[u] \/ (again[u] # <<>> /\ Head(again[u]) = t)
<1>1. \A u \in Tasks : again[u] \in Seq(Tasks)
  BY DEF ListTypes
<1>2. \A u \in Tasks :
         again'[u] = IF again[u] # <<>> /\ Head(again[u]) = t THEN Tail(again[u]) ELSE again[u]
  BY DEF Returns, Resubmitter
<1>3. again' \in [Tasks -> Seq(Tasks)]
  <2>1. ASSUME NEW u \in Tasks PROVE again'[u] \in Seq(Tasks)
    <3>1. again[u] # <<>> => Tail(again[u]) \in Seq(Tasks)
      BY <1>1
    <3> QED
      BY <3>1, <1>1, <1>2
  <2> QED
    BY <2>1 DEF Returns
<1>4. ASSUME NEW u \in Tasks, NEW x \in Tasks \ {t}
      PROVE  /\ Absent(again[u], x) => Absent(again'[u], x)
             /\ Once(again[u], x) => Once(again'[u], x)
  <2>1. CASE again[u] # <<>> /\ Head(again[u]) = t
    BY <2>1, <1>1, <1>2, TailOther
  <2> QED
    BY <2>1, <1>2
<1>5. ASSUME NEW u \in Tasks,
             Absent(again[u], t) \/ (Once(again[u], t) /\ again[u] # <<>> /\ Head(again[u]) = t)
      PROVE  Absent(again'[u], t)
  <2>1. CASE again[u] # <<>> /\ Head(again[u]) = t
    <3>1. ~Absent(again[u], t)
      <4>1. 1 \in 1..Len(again[u]) /\ again[u][1] = t
        BY <1>1, <2>1
      <4> QED
        BY <4>1 DEF Absent
    <3> QED
      BY <2>1, <3>1, <1>1, <1>2, <1>5, TailSelf
  <2> QED
    BY <2>1, <1>2, <1>5
<1> QED
  BY <1>2, <1>3, <1>4, <1>5

\* What the steps do that touch none of the lists.
Waiting == {"queued", "parked", "refused"}
ListsKept ==
    /\ UNCHANGED <<queue, parked, again>>
    /\ \A t \in Tasks : stage'[t] # stage[t] =>
          /\ stage[t] \notin Waiting /\ stage'[t] \notin Waiting
          /\ stage[t] = "flushing" => again[t] = <<>>

Listing(t) == ScheduleTask(t) \/ Park(t) \/ Start(t) \/ TryFlush(t)

LEMMA ListFrame == ControlTypes /\ [Next]_vars => ListsKept \/ \E t \in Tasks : Listing(t)
<1> SUFFICES ASSUME ControlTypes, [Next]_vars, ~ \E t \in Tasks : Listing(t)
             PROVE  ListsKept
  OBVIOUS
<1> USE DEF ControlTypes, ListsKept, Waiting
<1>1. ASSUME NEW t \in Tasks, ScheduleTask(t) PROVE ListsKept
  BY <1>1 DEF Listing
<1>2. ASSUME NEW t \in Tasks, Park(t) PROVE ListsKept
  BY <1>2 DEF Listing
<1>3. ASSUME NEW t \in Tasks, Start(t) PROVE ListsKept
  BY <1>3 DEF Listing
<1>4. ASSUME NEW t \in Tasks, GiveUp(t) PROVE ListsKept
  BY <1>4 DEF GiveUp, Goes, Answer, memoryVars, queueVars, taskVars, sinkVars
<1>5. ASSUME NEW t \in Tasks, LoadFails(t) PROVE ListsKept
  BY <1>5 DEF LoadFails, Goes, Leaves, memoryVars, queueVars, taskVars, sinkVars
<1>6. ASSUME NEW t \in Tasks, AcquireLock(t) PROVE ListsKept
  BY <1>6 DEF AcquireLock, Goes, Diverts, Diverted, memoryVars, queueVars, taskVars, sinkVars
<1>7. ASSUME NEW t \in Tasks, LockTimesOut(t) PROVE ListsKept
  BY <1>7 DEF LockTimesOut, Goes, Answer, ResetParams, memoryVars, queueVars,
     taskVars, sinkVars
<1>8. ASSUME NEW t \in Tasks, RenderAnswers(t) PROVE ListsKept
  BY <1>8 DEF RenderAnswers, Goes, Answer, Leaves, ResetParams, memoryVars, queueVars,
     taskVars, sinkVars
<1>9. ASSUME NEW t \in Tasks, RenderCopies(t) PROVE ListsKept
  BY <1>9 DEF RenderCopies, Goes, Leaves, ResetParams, memoryVars, queueVars,
     taskVars, sinkVars
<1>10. ASSUME NEW t \in Tasks, RenderThrows(t) PROVE ListsKept
  BY <1>10 DEF RenderThrows, Goes, Leaves, memoryVars, queueVars, taskVars, sinkVars
<1>11. ASSUME NEW t \in Tasks, Release(t) PROVE ListsKept
  BY <1>11 DEF Release, Goes, memoryVars, queueVars, taskVars, sinkVars
<1>12. ASSUME NEW t \in Tasks, TryFlush(t) PROVE ListsKept
  BY <1>12 DEF Listing
<1>13. ASSUME NEW t \in Tasks, Unlock(t) PROVE ListsKept
  BY <1>13 DEF Unlock, Goes, Restored, memoryVars, queueVars, taskVars, sinkVars
<1>14. ASSUME NEW t \in Tasks, End(t) PROVE ListsKept
  BY <1>14 DEF End, Goes, memoryVars, queueVars, taskVars, sinkVars
<1>15. ASSUME NEW t \in Tasks, Deliver(t) PROVE ListsKept
  BY <1>15 DEF Deliver, Goes, Answer, Leaves, memoryVars, queueVars, taskVars,
     sinkVars
<1>16. ASSUME NEW t \in Tasks, Catch(t) PROVE ListsKept
  BY <1>16 DEF Catch, Goes, Answer, ResetParams, memoryVars, queueVars, taskVars,
     sinkVars
<1>17. ASSUME NEW e \in Execs, AttachSink(e) PROVE ListsKept
  BY <1>17 DEF AttachSink, memoryVars, queueVars, taskVars, sinkVars
<1>18. ASSUME NEW e \in Execs, DestroySink(e) PROVE ListsKept
  BY <1>18 DEF DestroySink, Detachable, memoryVars, queueVars, taskVars, sinkVars
<1>19. ASSUME MemoryChanges PROVE ListsKept
  BY <1>19 DEF MemoryChanges, memoryVars, queueVars, taskVars, sinkVars
<1>21. ASSUME NEW t \in Tasks, InjectThrows(t) PROVE ListsKept
  BY <1>21 DEF InjectThrows, Goes, Leaves, Diverts, Diverted, memoryVars, queueVars,
     taskVars, sinkVars
<1>20. CASE UNCHANGED vars
  BY <1>20 DEF vars, memoryVars, queueVars, taskVars, sinkVars
<1> QED
  BY <1>1, <1>2, <1>3, <1>4, <1>5, <1>6, <1>7, <1>8, <1>9, <1>10, <1>11, <1>12, <1>13,
     <1>14, <1>15, <1>16, <1>17, <1>18, <1>19, <1>20, <1>21 DEF Next, WorkerStep

LEMMA StepPlace == ControlTypes /\ PlaceInv /\ [Next]_vars => PlaceInv'
<1> SUFFICES ASSUME ControlTypes, PlaceInv, [Next]_vars PROVE PlaceInv'
  OBVIOUS
<1>1. CASE ListsKept
  BY <1>1 DEF ListsKept, PlaceInv, PlaceOf, ListTypes, Waiting, InAgain, NotInAgain
<1>2. \A x \in Tasks : Home[x] \in Schedulers
  BY SchedulerAssumption
<1>3. /\ \A s \in Schedulers : parked[s] \in Seq(Tasks) /\ queue[s] \in Seq(Tasks)
      /\ \A u \in Tasks : again[u] \in Seq(Tasks)
  BY DEF PlaceInv, ListTypes
\* One that is at the head of a list is in it.
<1>4. ASSUME NEW list \in Seq(Tasks), list # <<>> PROVE ~Absent(list, Head(list))
  <2>1. 1 \in 1..Len(list) /\ list[1] = Head(list)
    BY <1>4
  <2> QED
    BY <2>1 DEF Absent
\* A task whose lists change only for others keeps its place.
<1>5. ASSUME NEW x \in Tasks, stage'[x] = stage[x],
             stage[x] = "flushing" \/ again'[x] = again[x],
             Absent(queue[Home[x]], x) => Absent(queue'[Home[x]], x),
             Once(queue[Home[x]], x) => Once(queue'[Home[x]], x),
             Absent(parked[Home[x]], x) => Absent(parked'[Home[x]], x),
             Once(parked[Home[x]], x) => Once(parked'[Home[x]], x),
             \A u \in Tasks : Absent(again[u], x) => Absent(again'[u], x),
             \A u \in Tasks : Once(again[u], x) => Once(again'[u], x),
             \A u \in Tasks : Head(again[u]) = x => Absent(again[u], x) \/ again'[u] = again[u]
      PROVE  PlaceOf(x)'
  <2>1. PlaceOf(x)
    BY DEF PlaceInv
  <2>2. (NotInAgain(x) => NotInAgain(x)') /\ (InAgain(x) => InAgain(x)')
    BY <1>5 DEF NotInAgain, InAgain
  <2> QED
    BY <2>1, <2>2, <1>5 DEF PlaceOf
<1>6. ASSUME NEW t \in Tasks, ScheduleTask(t) PROVE PlaceInv'
  <2>1. /\ stage[t] = "idle" \/ (stage[t] = "parked" /\ Resubmitter(t) # {})
        /\ UNCHANGED parked /\ PlaceOf(t)
    BY <1>6 DEF ScheduleTask, PlaceInv
  <2>2. Absent(parked[Home[t]], t) /\ Absent(queue[Home[t]], t) /\ again[t] = <<>>
    <3>1. ASSUME Resubmitter(t) # {} PROVE ~NotInAgain(t)
      BY <3>1, <1>3, <1>4 DEF Resubmitter, NotInAgain
    <3> QED
      BY <2>1, <3>1 DEF PlaceOf
  <2>3. /\ NotInAgain(t) \/ InAgain(t)
        /\ \A u \in Tasks : \/ Absent(again[u], t)
                            \/ Once(again[u], t) /\ again[u] # <<>> /\ Head(again[u]) = t
    <3>1. CASE NotInAgain(t)
      BY <3>1 DEF NotInAgain
    <3>2. CASE ~NotInAgain(t)
      <4>1. Resubmitter(t) # {} /\ InAgain(t)
        BY <2>1, <3>2 DEF PlaceOf
      <4>2. PICK u \in Tasks : again[u] # <<>> /\ Head(again[u]) = t
        BY <4>1 DEF Resubmitter
      <4>3. ~Absent(again[u], t)
        BY <4>2, <1>3, <1>4
      <4>4. Once(again[u], t) /\ \A v \in Tasks \ {u} : Absent(again[v], t)
        BY <4>1, <4>3 DEF InAgain
      <4> QED
        BY <4>1, <4>2, <4>4
    <3> QED
      BY <3>1, <3>2
  <2>4. CASE stage' = [stage EXCEPT ![t] = "refused"] /\ UNCHANGED <<queue, again>>
    <3>1. PlaceOf(t)'
      BY <2>1, <2>2, <2>3, <2>4 DEF PlaceOf, ControlTypes, NotInAgain, InAgain
    <3>2. ASSUME NEW x \in Tasks \ {t} PROVE PlaceOf(x)'
      BY <1>5, <2>1, <2>4 DEF ControlTypes
    <3> QED
      BY <2>1, <2>4, <3>1, <3>2 DEF PlaceInv, ListTypes
  <2>5. CASE /\ stage' = [stage EXCEPT ![t] = "queued"] /\ Returns(t)
             /\ queue' = [queue EXCEPT ![Home[t]] = Append(@, t)]
    <3>1. /\ queue'[Home[t]] = Append(queue[Home[t]], t)
          /\ \A s \in Schedulers \ {Home[t]} : queue'[s] = queue[s]
          /\ queue' \in [Schedulers -> Seq(Tasks)]
      <4>1. Append(queue[Home[t]], t) \in Seq(Tasks)
        BY <1>2, <1>3
      <4> QED
        BY <2>5, <4>1, <1>2 DEF PlaceInv, ListTypes
    <3>2. ListTypes'
      BY <2>1, <2>5, <3>1, ReturnsEffect DEF PlaceInv, ListTypes
    <3>3. PlaceOf(t)'
      <4>1. Once(queue'[Home[t]], t)
        BY <2>2, <3>1, <1>2, <1>3, AppendSelf
      <4>2. NotInAgain(t)' /\ again'[t] = <<>>
        BY <2>2, <2>3, <2>5, ReturnsEffect DEF NotInAgain, PlaceInv
      <4>3. stage'[t] = "queued" /\ Absent(parked'[Home[t]], t)
        BY <2>1, <2>2, <2>5 DEF ControlTypes
      <4> QED
        BY <4>1, <4>2, <4>3 DEF PlaceOf
    <3>4. ASSUME NEW x \in Tasks \ {t} PROVE PlaceOf(x)'
      <4>1. /\ Absent(queue[Home[x]], x) => Absent(queue'[Home[x]], x)
            /\ Once(queue[Home[x]], x) => Once(queue'[Home[x]], x)
        <5>1. CASE Home[x] = Home[t]
          BY <5>1, <3>1, <1>2, <1>3, AppendOther
        <5>2. CASE Home[x] # Home[t]
          BY <5>2, <3>1, <1>2
        <5> QED
          BY <5>1, <5>2
      <4>2. /\ stage'[x] = stage[x]
            /\ stage[x] = "flushing" \/ again'[x] = again[x]
        <5>1. stage[x] # "flushing" => again[x] = <<>> /\ again'[x] = <<>>
          BY <2>5, ReturnsEffect DEF PlaceInv, PlaceOf
        <5> QED
          BY <5>1, <2>5 DEF ControlTypes
      <4>3. /\ \A u \in Tasks : Absent(again[u], x) => Absent(again'[u], x)
            /\ \A u \in Tasks : Once(again[u], x) => Once(again'[u], x)
            /\ \A u \in Tasks : Head(again[u]) = x => again'[u] = again[u]
        BY <2>5, ReturnsEffect DEF PlaceInv
      <4> QED
        BY <1>5, <2>1, <4>1, <4>2, <4>3
    <3> QED
      BY <2>1, <3>2, <3>3, <3>4 DEF PlaceInv
  <2> QED
    BY <1>6, <2>4, <2>5 DEF ScheduleTask, Goes
<1>7. ASSUME NEW t \in Tasks, Park(t) PROVE PlaceInv'
  <2>1. /\ stage[t] = "refused" /\ stage' = [stage EXCEPT ![t] = "parked"]
        /\ parked' = [parked EXCEPT ![Home[t]] = Append(@, t)]
        /\ Returns(t) /\ UNCHANGED queue /\ PlaceOf(t)
    BY <1>7 DEF Park, Goes, PlaceInv
  <2>2. /\ parked'[Home[t]] = Append(parked[Home[t]], t)
        /\ \A s \in Schedulers \ {Home[t]} : parked'[s] = parked[s]
        /\ parked' \in [Schedulers -> Seq(Tasks)]
    <3>1. Append(parked[Home[t]], t) \in Seq(Tasks)
      BY <1>2, <1>3
    <3> QED
      BY <2>1, <3>1, <1>2 DEF PlaceInv, ListTypes
  <2>3. ListTypes'
    BY <2>1, <2>2, ReturnsEffect DEF PlaceInv, ListTypes
  <2>4. ASSUME NEW s \in Schedulers, NEW i \in 1..Len(parked'[s]) PROVE Home[parked'[s][i]] = s
    <3>1. CASE s = Home[t]
      <4>1. /\ Len(parked'[s]) = Len(parked[s]) + 1 /\ Len(parked[s]) \in Nat
            /\ parked'[s][Len(parked[s]) + 1] = t
            /\ \A k \in 1..Len(parked[s]) : parked'[s][k] = parked[s][k]
        BY <2>2, <3>1, <1>3
      <4>2. i \in 1..Len(parked[s]) \/ i = Len(parked[s]) + 1
        BY <4>1
      <4> QED
        BY <3>1, <4>1, <4>2 DEF PlaceInv
    <3>2. CASE s # Home[t]
      BY <3>2, <2>2 DEF PlaceInv
    <3> QED
      BY <3>1, <3>2
  <2>5. PlaceOf(t)'
    <3>1. Once(parked'[Home[t]], t)
      BY <2>1, <2>2, <1>2, <1>3, AppendSelf DEF PlaceOf
    <3>2. \A u \in Tasks : \/ Absent(again[u], t)
                           \/ Once(again[u], t) /\ again[u] # <<>> /\ Head(again[u]) = t
      <4>1. NotInAgain(t) \/ (InAgain(t) /\ \A u \in Tasks : Absent(again[u], t) \/ Head(again[u]) = t)
        BY <2>1 DEF PlaceOf
      <4> QED
        BY <4>1, EmptyAbsent DEF NotInAgain, InAgain
    <3>3. NotInAgain(t)' /\ again'[t] = <<>>
      BY <2>1, <3>2, ReturnsEffect DEF NotInAgain, PlaceInv, PlaceOf
    <3> QED
      BY <2>1, <3>1, <3>3 DEF PlaceOf, ControlTypes
  <2>6. ASSUME NEW x \in Tasks \ {t} PROVE PlaceOf(x)'
    <3>1. /\ Absent(parked[Home[x]], x) => Absent(parked'[Home[x]], x)
          /\ Once(parked[Home[x]], x) => Once(parked'[Home[x]], x)
      <4>1. CASE Home[x] = Home[t]
        BY <4>1, <2>2, <1>2, <1>3, AppendOther
      <4>2. CASE Home[x] # Home[t]
        BY <4>2, <2>2, <1>2
      <4> QED
        BY <4>1, <4>2
    <3>2. /\ stage'[x] = stage[x]
          /\ stage[x] = "flushing" \/ again'[x] = again[x]
      <4>1. stage[x] # "flushing" => again[x] = <<>> /\ again'[x] = <<>>
        BY <2>1, ReturnsEffect DEF PlaceInv, PlaceOf
      <4> QED
        BY <4>1, <2>1 DEF ControlTypes
    <3>3. /\ \A u \in Tasks : Absent(again[u], x) => Absent(again'[u], x)
          /\ \A u \in Tasks : Once(again[u], x) => Once(again'[u], x)
          /\ \A u \in Tasks : Head(again[u]) = x => again'[u] = again[u]
      BY <2>1, ReturnsEffect DEF PlaceInv
    <3> QED
      BY <1>5, <2>1, <3>1, <3>2, <3>3
  <2> QED
    BY <2>3, <2>4, <2>5, <2>6 DEF PlaceInv
<1>8. ASSUME NEW t \in Tasks, Start(t) PROVE PlaceInv'
  <2>1. /\ queue[Home[t]] # <<>> /\ Head(queue[Home[t]]) = t
        /\ queue' = [queue EXCEPT ![Home[t]] = Tail(@)]
        /\ stage' = [stage EXCEPT ![t] = "started"] /\ UNCHANGED <<parked, again>> /\ PlaceOf(t)
    BY <1>8 DEF Start, Goes, PlaceInv
  <2>2. /\ queue'[Home[t]] = Tail(queue[Home[t]])
        /\ \A s \in Schedulers \ {Home[t]} : queue'[s] = queue[s]
        /\ queue' \in [Schedulers -> Seq(Tasks)]
    <3>1. Tail(queue[Home[t]]) \in Seq(Tasks)
      BY <2>1, <1>2, <1>3
    <3> QED
      BY <2>1, <3>1, <1>2 DEF PlaceInv, ListTypes
  <2>3. stage[t] = "queued" /\ Once(queue[Home[t]], t)
    BY <2>1, <1>2, <1>3, <1>4 DEF PlaceOf
  <2>4. PlaceOf(t)'
    <3>1. Absent(queue'[Home[t]], t)
      <4>1. Once(queue[Home[t]], Head(queue[Home[t]])) /\ queue[Home[t]] \in Seq(Tasks)
        BY <2>1, <2>3, <1>2, <1>3
      <4>2. Absent(Tail(queue[Home[t]]), Head(queue[Home[t]]))
        BY <2>1, <4>1, TailSelf
      <4> QED
        BY <2>1, <2>2, <4>2
    <3> QED
      BY <2>1, <2>3, <3>1 DEF PlaceOf, ControlTypes, NotInAgain
  <2>5. ASSUME NEW x \in Tasks \ {t} PROVE PlaceOf(x)'
    <3>1. /\ Absent(queue[Home[x]], x) => Absent(queue'[Home[x]], x)
          /\ Once(queue[Home[x]], x) => Once(queue'[Home[x]], x)
      <4>1. CASE Home[x] = Home[t]
        BY <4>1, <2>1, <2>2, <1>2, <1>3, TailOther
      <4>2. CASE Home[x] # Home[t]
        BY <4>2, <2>2, <1>2
      <4> QED
        BY <4>1, <4>2
    <3> QED
      BY <1>5, <2>1, <3>1 DEF ControlTypes
  <2> QED
    BY <2>1, <2>2, <2>4, <2>5 DEF PlaceInv, ListTypes
<1>9. ASSUME NEW t \in Tasks, TryFlush(t) PROVE PlaceInv'
  <2>1. /\ stage[t] = "released" /\ stage' = [stage EXCEPT ![t] = "flushing"]
        /\ again' = [again EXCEPT ![t] = parked[Home[t]]]
        /\ parked' = [parked EXCEPT ![Home[t]] = <<>>] /\ UNCHANGED queue /\ PlaceOf(t)
    BY <1>9 DEF TryFlush, Goes, PlaceInv
  <2>2. again[t] = <<>>
    BY <2>1 DEF PlaceOf
  <2>3. /\ again'[t] = parked[Home[t]] /\ \A u \in Tasks \ {t} : again'[u] = again[u]
        /\ parked'[Home[t]] = <<>> /\ \A s \in Schedulers \ {Home[t]} : parked'[s] = parked[s]
        /\ ListTypes'
    BY <2>1, <1>2, <1>3 DEF PlaceInv, ListTypes
  <2>4. \A s \in Schedulers : \A i \in 1..Len(parked'[s]) : Home[parked'[s][i]] = s
    BY <2>3 DEF PlaceInv
  <2>5. ASSUME NEW x \in Tasks PROVE PlaceOf(x)'
    <3>1. PlaceOf(x) /\ Absent(again[t], x)
      BY <2>2, EmptyAbsent DEF PlaceInv
    <3>2. CASE Absent(parked[Home[t]], x)
      <4>1. /\ Absent(again'[t], x)
            /\ (NotInAgain(x) => NotInAgain(x)') /\ (InAgain(x) => InAgain(x)')
        <5>1. Absent(again'[t], x)
          BY <2>3, <3>2
        <5>2. \A u \in Tasks : (Absent(again[u], x) => Absent(again'[u], x)) /\ (Once(again[u], x) => Once(again'[u], x))
          <6>1. ~Once(again[t], x)
            BY <3>1 DEF Absent, Once
          <6> QED
            BY <2>3, <5>1, <6>1
        <5> QED
          BY <5>1, <5>2 DEF NotInAgain, InAgain
      <4>2. /\ Absent(parked[Home[x]], x) => Absent(parked'[Home[x]], x)
            /\ Once(parked[Home[x]], x) => Once(parked'[Home[x]], x)
        <5>1. CASE Home[x] = Home[t]
          <6>1. ~Once(parked[Home[x]], x)
            BY <5>1, <3>2 DEF Absent, Once
          <6> QED
            BY <5>1, <2>3, <6>1, EmptyAbsent
        <5>2. CASE Home[x] # Home[t]
          BY <5>2, <2>3, <1>2
        <5> QED
          BY <5>1, <5>2
      <4>3. \A u \in Tasks : Head(again[u]) = x => Absent(again'[u], x) \/ again'[u] = again[u]
        BY <2>3, <4>1
      <4>4. UNCHANGED queue /\ IF x = t THEN stage[x] = "released" /\ stage'[x] = "flushing"
                               ELSE stage'[x] = stage[x] /\ again'[x] = again[x]
        BY <2>1, <2>3 DEF ControlTypes
      <4>5. \A u \in Tasks : Absent(again[u], x) => Absent(again'[u], x)
        BY <2>3, <4>1
      <4> QED
        BY <3>1, <4>1, <4>2, <4>3, <4>4, <4>5 DEF PlaceOf
    <3>3. CASE ~Absent(parked[Home[t]], x)
      <4>1. Home[x] = Home[t]
        BY <3>3, <1>2 DEF Absent, PlaceInv
      <4>2. stage[x] = "parked" /\ Once(parked[Home[x]], x) /\ NotInAgain(x)
        BY <3>1, <3>3, <4>1 DEF PlaceOf
      <4>3. InAgain(x)' /\ Absent(parked'[Home[x]], x)
        BY <2>3, <4>1, <4>2, EmptyAbsent DEF InAgain, NotInAgain
      <4>4. x # t /\ stage'[x] = "parked" /\ again'[x] = <<>>
        BY <2>1, <2>3, <3>1, <4>2 DEF ControlTypes, PlaceOf
      <4> QED
        BY <2>1, <3>1, <4>2, <4>3, <4>4 DEF PlaceOf
    <3> QED
      BY <3>2, <3>3
  <2> QED
    BY <2>3, <2>4, <2>5 DEF PlaceInv
<1> QED
  BY <1>1, <1>6, <1>7, <1>8, <1>9, ListFrame DEF Listing


LEMMA StartedWasQueued ==
  ASSUME PlaceInv, NEW t \in Tasks, Start(t) PROVE stage[t] = "queued"
<1>1. queue[Home[t]] \in Seq(Tasks) /\ queue[Home[t]] # <<>> /\ Head(queue[Home[t]]) = t
  BY SchedulerAssumption DEF Start, PlaceInv, ListTypes
<1>2. 1 \in 1..Len(queue[Home[t]]) /\ queue[Home[t]][1] = t
  BY <1>1
<1> QED
  BY <1>2 DEF PlaceInv, PlaceOf, Absent

LEMMA OccursCount ==
  ASSUME NEW S, NEW list \in Seq(S), NEW t
  PROVE  /\ Absent(list, t) => Occurs(list, t) = {}
         /\ Once(list, t) => \E i : Occurs(list, t) = {i}
<1>1. DOMAIN list = 1..Len(list)
  OBVIOUS
<1> QED
  BY <1>1 DEF Occurs, Absent, Once

LEMMA PlacesCounted == PlaceInv => EachTaskOnce
<1> SUFFICES ASSUME PlaceInv, NEW t \in Tasks
             PROVE  /\ stage[t] \in {"queued", "parked"} => Places(t) = 1
                    /\ stage[t] = "refused" => Places(t) <= 1
                    /\ stage[t] \in Running \cup {"idle", "done"} => Places(t) = 0
  BY DEF EachTaskOnce
<1> DEFINE Q == Occurs(queue[Home[t]], t)
           P == Occurs(parked[Home[t]], t)
           A == UNION {{u} \X Occurs(again[u], t) : u \in Tasks}
<1>1. /\ queue[Home[t]] \in Seq(Tasks) /\ parked[Home[t]] \in Seq(Tasks)
      /\ \A u \in Tasks : again[u] \in Seq(Tasks)
  BY SchedulerAssumption DEF PlaceInv, ListTypes
<1>2. Absent(queue[Home[t]], t) => Cardinality(Q) = 0
  BY <1>1, OccursCount, FS_EmptySet
<1>3. Once(queue[Home[t]], t) => Cardinality(Q) = 1
  BY <1>1, OccursCount, FS_Singleton
<1>4. Absent(parked[Home[t]], t) => Cardinality(P) = 0
  BY <1>1, OccursCount, FS_EmptySet
<1>5. Once(parked[Home[t]], t) => Cardinality(P) = 1
  BY <1>1, OccursCount, FS_Singleton
<1>6. NotInAgain(t) => Cardinality(A) = 0
  <2>1. NotInAgain(t) => A = {}
    BY <1>1, OccursCount DEF NotInAgain
  <2> QED
    BY <2>1, FS_EmptySet
<1>7. ASSUME InAgain(t) PROVE Cardinality(A) = 1
  <2>1. PICK u \in Tasks : Once(again[u], t) /\ \A v \in Tasks \ {u} : Absent(again[v], t)
    BY <1>7 DEF InAgain
  <2>2. PICK i : Occurs(again[u], t) = {i}
    BY <2>1, <1>1, OccursCount
  <2>3. \A v \in Tasks \ {u} : Occurs(again[v], t) = {}
    BY <2>1, <1>1, OccursCount
  <2>4. A = {<<u, i>>}
    BY <2>2, <2>3
  <2> QED
    BY <2>4, FS_Singleton
<1>8. Places(t) = Cardinality(Q) + Cardinality(P) + Cardinality(A)
  BY DEF Places
<1> HIDE DEF Q, P, A
<1>9. PlaceOf(t)
  BY DEF PlaceInv
<1> QED
  BY <1>2, <1>3, <1>4, <1>5, <1>6, <1>7, <1>8, <1>9 DEF PlaceOf, Running


LEMMA InitSink == Init => SinkTypes
  BY SchedulerAssumption DEF Init, SinkTypes, NoSink

LEMMA StepSink == SinkTypes /\ [Next]_vars => SinkTypes'
<1> SUFFICES ASSUME SinkTypes, [Next]_vars PROVE SinkTypes'
  OBVIOUS
<1> USE SchedulerAssumption DEF SinkTypes, NoSink
<1>1. ASSUME NEW t \in Tasks, ScheduleTask(t) PROVE SinkTypes'
  BY <1>1 DEF ScheduleTask, Goes, Returns, memoryVars, queueVars, taskVars, sinkVars
<1>2. ASSUME NEW t \in Tasks, Park(t) PROVE SinkTypes'
  BY <1>2 DEF Park, Goes, Returns, memoryVars, queueVars, taskVars, sinkVars
<1>3. ASSUME NEW t \in Tasks, Start(t) PROVE SinkTypes'
  BY <1>3 DEF Start, Goes, memoryVars, queueVars, taskVars, sinkVars
<1>4. ASSUME NEW t \in Tasks, GiveUp(t) PROVE SinkTypes'
  BY <1>4 DEF GiveUp, Goes, Answer, memoryVars, queueVars, taskVars, sinkVars
<1>5. ASSUME NEW t \in Tasks, LoadFails(t) PROVE SinkTypes'
  BY <1>5 DEF LoadFails, Goes, Leaves, memoryVars, queueVars, taskVars, sinkVars
<1>6. ASSUME NEW t \in Tasks, AcquireLock(t) PROVE SinkTypes'
  BY <1>6 DEF AcquireLock, Goes, Diverts, Diverted, memoryVars, queueVars, taskVars, sinkVars
<1>7. ASSUME NEW t \in Tasks, LockTimesOut(t) PROVE SinkTypes'
  BY <1>7 DEF LockTimesOut, Goes, Answer, ResetParams, memoryVars, queueVars,
     taskVars, sinkVars
<1>8. ASSUME NEW t \in Tasks, RenderAnswers(t) PROVE SinkTypes'
  BY <1>8 DEF RenderAnswers, Goes, Answer, Leaves, ResetParams, memoryVars, queueVars,
     taskVars, sinkVars
<1>9. ASSUME NEW t \in Tasks, RenderCopies(t) PROVE SinkTypes'
  BY <1>9 DEF RenderCopies, Goes, Leaves, ResetParams, memoryVars, queueVars,
     taskVars, sinkVars
<1>10. ASSUME NEW t \in Tasks, RenderThrows(t) PROVE SinkTypes'
  BY <1>10 DEF RenderThrows, Goes, Leaves, memoryVars, queueVars, taskVars, sinkVars
<1>11. ASSUME NEW t \in Tasks, Release(t) PROVE SinkTypes'
  BY <1>11 DEF Release, Goes, memoryVars, queueVars, taskVars, sinkVars
<1>12. ASSUME NEW t \in Tasks, TryFlush(t) PROVE SinkTypes'
  BY <1>12 DEF TryFlush, Goes, memoryVars, queueVars, taskVars, sinkVars
<1>13. ASSUME NEW t \in Tasks, Unlock(t) PROVE SinkTypes'
  BY <1>13 DEF Unlock, Goes, Restored, memoryVars, queueVars, taskVars, sinkVars
<1>14. ASSUME NEW t \in Tasks, End(t) PROVE SinkTypes'
  BY <1>14 DEF End, Goes, memoryVars, queueVars, taskVars, sinkVars
<1>15. ASSUME NEW t \in Tasks, Deliver(t) PROVE SinkTypes'
  BY <1>15 DEF Deliver, Goes, Answer, Leaves, memoryVars, queueVars, taskVars,
     sinkVars
<1>16. ASSUME NEW t \in Tasks, Catch(t) PROVE SinkTypes'
  BY <1>16 DEF Catch, Goes, Answer, ResetParams, memoryVars, queueVars, taskVars,
     sinkVars
<1>17. ASSUME NEW e \in Execs, AttachSink(e) PROVE SinkTypes'
  BY <1>17 DEF AttachSink, memoryVars, queueVars, taskVars, sinkVars
<1>18. ASSUME NEW e \in Execs, DestroySink(e) PROVE SinkTypes'
  <2>1. /\ \E x \in {NoSink, sink[e]} : sink' = [sink EXCEPT ![e] = x]
        /\ orphaned' \in {orphaned, orphaned \cup {routed[e]}}
        /\ tap' = NoSink /\ routed' = [routed EXCEPT ![e] = NoSink]
        /\ UNCHANGED <<saved, lost, sinks>>
    BY <1>18 DEF DestroySink
  <2>2. sink[e] \in 0..MaxSinks /\ routed[e] \in 0..MaxSinks /\ 0 \in 0..MaxSinks
    OBVIOUS
  <2> QED
    BY <2>1, <2>2
<1>19. ASSUME MemoryChanges PROVE SinkTypes'
  BY <1>19 DEF MemoryChanges, memoryVars, queueVars, taskVars, sinkVars
<1>21. ASSUME NEW t \in Tasks, InjectThrows(t) PROVE SinkTypes'
  <2>1. /\ \E x \in {NoSink, sink[Exec[t]]} : sink' = [sink EXCEPT ![Exec[t]] = x]
        /\ lost' \in {lost, lost \cup {sink[Exec[t]]}}
        /\ UNCHANGED <<saved, routed, orphaned, tap, sinks>>
    BY <1>21 DEF InjectThrows, Diverted
  <2>2. Exec[t] \in Execs /\ sink[Exec[t]] \in 0..MaxSinks /\ 0 \in 0..MaxSinks
    OBVIOUS
  <2> QED
    BY <2>1, <2>2
<1>20. CASE UNCHANGED vars
  BY <1>20 DEF vars, memoryVars, queueVars, taskVars, sinkVars
<1> QED
  BY <1>1, <1>2, <1>3, <1>4, <1>5, <1>6, <1>7, <1>8, <1>9, <1>10, <1>11, <1>12, <1>13,
     <1>14, <1>15, <1>16, <1>17, <1>18, <1>19, <1>20, <1>21 DEF Next, WorkerStep

--------------------------------------------------------------------------------
(* Answers: how often a task's caller has heard of it, by where the task is.       *)
AnswerInv ==
    /\ answers \in [Tasks -> 0..2]
    /\ \A t \in Tasks :
          /\ stage[t] \in Stages \ {"returning", "released", "flushing", "unlocked", "done"} =>
                answers[t] = 0 /\ outcome[t] = "none"
          /\ stage[t] # "done" /\ outcome[t] \in {"none", "copy"} => answers[t] = 0
          /\ stage[t] # "done" => answers[t] <= 1
          /\ outcome[t] = "answered" => answers[t] > 0
          /\ stage[t] = "done" => answers[t] > 0

LEMMA InitAnswer == Init => AnswerInv
  BY DEF Init, AnswerInv, Stages, Running

LEMMA StepAnswer == ControlTypes /\ PlaceInv /\ AnswerInv /\ [Next]_vars => AnswerInv'
<1> SUFFICES ASSUME ControlTypes, PlaceInv, AnswerInv, [Next]_vars PROVE AnswerInv'
  OBVIOUS
<1> USE DEF ControlTypes, AnswerInv, Stages, Running, Outcomes
<1>1. ASSUME NEW t \in Tasks, ScheduleTask(t) PROVE AnswerInv'
  <2>1. /\ \E to \in {"queued", "refused"} : stage' = [stage EXCEPT ![t] = to]
        /\ stage[t] \in {"idle", "parked"}
    BY <1>1 DEF ScheduleTask, Goes
  <2>2. UNCHANGED <<outcome, answers, lock, params, sinkVars>>
    BY <1>1 DEF ScheduleTask
  <2> QED
    BY <2>1, <2>2 DEF sinkVars
<1>2. ASSUME NEW t \in Tasks, Park(t) PROVE AnswerInv'
  BY <1>2 DEF Park, Goes, Returns, memoryVars, queueVars, taskVars, sinkVars
<1>3. ASSUME NEW t \in Tasks, Start(t) PROVE AnswerInv'
  <2>1. stage[t] = "queued"
    BY <1>3, StartedWasQueued
  <2> QED
    BY <1>3, <2>1 DEF Start, Goes, sinkVars
<1>4. ASSUME NEW t \in Tasks, GiveUp(t) PROVE AnswerInv'
  BY <1>4 DEF GiveUp, Goes, Answer, memoryVars, queueVars, taskVars, sinkVars
<1>5. ASSUME NEW t \in Tasks, LoadFails(t) PROVE AnswerInv'
  BY <1>5 DEF LoadFails, Goes, Leaves, memoryVars, queueVars, taskVars, sinkVars
<1>6. ASSUME NEW t \in Tasks, AcquireLock(t) PROVE AnswerInv'
  BY <1>6 DEF AcquireLock, Goes, Diverts, Diverted, memoryVars, queueVars, taskVars, sinkVars
<1>7. ASSUME NEW t \in Tasks, LockTimesOut(t) PROVE AnswerInv'
  BY <1>7 DEF LockTimesOut, Goes, Answer, ResetParams, memoryVars, queueVars,
     taskVars, sinkVars
<1>8. ASSUME NEW t \in Tasks, RenderAnswers(t) PROVE AnswerInv'
  BY <1>8 DEF RenderAnswers, Goes, Answer, Leaves, ResetParams, memoryVars, queueVars,
     taskVars, sinkVars
<1>9. ASSUME NEW t \in Tasks, RenderCopies(t) PROVE AnswerInv'
  BY <1>9 DEF RenderCopies, Goes, Leaves, ResetParams, memoryVars, queueVars,
     taskVars, sinkVars
<1>10. ASSUME NEW t \in Tasks, RenderThrows(t) PROVE AnswerInv'
  BY <1>10 DEF RenderThrows, Goes, Leaves, memoryVars, queueVars, taskVars, sinkVars
<1>11. ASSUME NEW t \in Tasks, Release(t) PROVE AnswerInv'
  BY <1>11 DEF Release, Goes, memoryVars, queueVars, taskVars, sinkVars
<1>12. ASSUME NEW t \in Tasks, TryFlush(t) PROVE AnswerInv'
  BY <1>12 DEF TryFlush, Goes, memoryVars, queueVars, taskVars, sinkVars
<1>13. ASSUME NEW t \in Tasks, Unlock(t) PROVE AnswerInv'
  BY <1>13 DEF Unlock, Goes, Restored, memoryVars, queueVars, taskVars, sinkVars
<1>14. ASSUME NEW t \in Tasks, End(t) PROVE AnswerInv'
  BY <1>14 DEF End, Goes, memoryVars, queueVars, taskVars, sinkVars
<1>15. ASSUME NEW t \in Tasks, Deliver(t) PROVE AnswerInv'
  BY <1>15 DEF Deliver, Goes, Answer, Leaves, memoryVars, queueVars, taskVars,
     sinkVars
<1>16. ASSUME NEW t \in Tasks, Catch(t) PROVE AnswerInv'
  BY <1>16 DEF Catch, Goes, Answer, ResetParams, memoryVars, queueVars, taskVars,
     sinkVars
<1>17. ASSUME NEW e \in Execs, AttachSink(e) PROVE AnswerInv'
  BY <1>17 DEF AttachSink, memoryVars, queueVars, taskVars, sinkVars
<1>18. ASSUME NEW e \in Execs, DestroySink(e) PROVE AnswerInv'
  BY <1>18 DEF DestroySink, Detachable, memoryVars, queueVars, taskVars, sinkVars
<1>19. ASSUME MemoryChanges PROVE AnswerInv'
  BY <1>19 DEF MemoryChanges, memoryVars, queueVars, taskVars, sinkVars
<1>21. ASSUME NEW t \in Tasks, InjectThrows(t) PROVE AnswerInv'
  BY <1>21 DEF InjectThrows, Goes, Leaves, Diverts, Diverted, memoryVars, queueVars,
     taskVars, sinkVars
<1>20. CASE UNCHANGED vars
  BY <1>20 DEF vars, memoryVars, queueVars, taskVars, sinkVars
<1> QED
  BY <1>1, <1>2, <1>3, <1>4, <1>5, <1>6, <1>7, <1>8, <1>9, <1>10, <1>11, <1>12, <1>13,
     <1>14, <1>15, <1>16, <1>17, <1>18, <1>19, <1>20, <1>21 DEF Next, WorkerStep

--------------------------------------------------------------------------------
(* Who holds a render lock.                                                        *)
LockInv ==
    /\ \A t \in Tasks : stage[t] \in LockHeld => lock[Exec[t]] = t
    /\ \A e \in Execs : lock[e] # Free => Exec[lock[e]] = e /\ stage[lock[e]] \in LockHeld

LEMMA InitLock == Init => LockInv
  BY DEF Init, LockInv, LockHeld, Free

LEMMA StepLock == ControlTypes /\ PlaceInv /\ LockInv /\ [Next]_vars => LockInv'
<1> SUFFICES ASSUME ControlTypes, PlaceInv, LockInv, [Next]_vars PROVE LockInv'
  OBVIOUS
<1> USE SchedulerAssumption DEF ControlTypes, LockInv, LockHeld
<1>1. ASSUME NEW t \in Tasks, ScheduleTask(t) PROVE LockInv'
  <2>1. /\ \E to \in {"queued", "refused"} : stage' = [stage EXCEPT ![t] = to]
        /\ stage[t] \in {"idle", "parked"}
    BY <1>1 DEF ScheduleTask, Goes
  <2>2. UNCHANGED <<outcome, answers, lock, params, sinkVars>>
    BY <1>1 DEF ScheduleTask
  <2> QED
    BY <2>1, <2>2 DEF sinkVars
<1>2. ASSUME NEW t \in Tasks, Park(t) PROVE LockInv'
  BY <1>2 DEF Park, Goes, Returns, memoryVars, queueVars, taskVars, sinkVars
<1>3. ASSUME NEW t \in Tasks, Start(t) PROVE LockInv'
  <2>1. stage[t] = "queued"
    BY <1>3, StartedWasQueued
  <2> QED
    BY <1>3, <2>1 DEF Start, Goes, sinkVars
<1>4. ASSUME NEW t \in Tasks, GiveUp(t) PROVE LockInv'
  BY <1>4 DEF GiveUp, Goes, Answer, memoryVars, queueVars, taskVars, sinkVars
<1>5. ASSUME NEW t \in Tasks, LoadFails(t) PROVE LockInv'
  BY <1>5 DEF LoadFails, Goes, Leaves, memoryVars, queueVars, taskVars, sinkVars
<1>6. ASSUME NEW t \in Tasks, AcquireLock(t) PROVE LockInv'
  BY <1>6 DEF AcquireLock, Goes, Diverts, Diverted, memoryVars, queueVars, taskVars, sinkVars
<1>7. ASSUME NEW t \in Tasks, LockTimesOut(t) PROVE LockInv'
  BY <1>7 DEF LockTimesOut, Goes, Answer, ResetParams, memoryVars, queueVars,
     taskVars, sinkVars
<1>8. ASSUME NEW t \in Tasks, RenderAnswers(t) PROVE LockInv'
  BY <1>8 DEF RenderAnswers, Goes, Answer, Leaves, ResetParams, memoryVars, queueVars,
     taskVars, sinkVars
<1>9. ASSUME NEW t \in Tasks, RenderCopies(t) PROVE LockInv'
  BY <1>9 DEF RenderCopies, Goes, Leaves, ResetParams, memoryVars, queueVars,
     taskVars, sinkVars
<1>10. ASSUME NEW t \in Tasks, RenderThrows(t) PROVE LockInv'
  BY <1>10 DEF RenderThrows, Goes, Leaves, memoryVars, queueVars, taskVars, sinkVars
<1>11. ASSUME NEW t \in Tasks, Release(t) PROVE LockInv'
  BY <1>11 DEF Release, Goes, memoryVars, queueVars, taskVars, sinkVars
<1>12. ASSUME NEW t \in Tasks, TryFlush(t) PROVE LockInv'
  BY <1>12 DEF TryFlush, Goes, memoryVars, queueVars, taskVars, sinkVars
<1>13. ASSUME NEW t \in Tasks, Unlock(t) PROVE LockInv'
  BY <1>13 DEF Unlock, Goes, Restored, memoryVars, queueVars, taskVars, sinkVars
<1>14. ASSUME NEW t \in Tasks, End(t) PROVE LockInv'
  BY <1>14 DEF End, Goes, memoryVars, queueVars, taskVars, sinkVars
<1>15. ASSUME NEW t \in Tasks, Deliver(t) PROVE LockInv'
  BY <1>15 DEF Deliver, Goes, Answer, Leaves, memoryVars, queueVars, taskVars,
     sinkVars
<1>16. ASSUME NEW t \in Tasks, Catch(t) PROVE LockInv'
  BY <1>16 DEF Catch, Goes, Answer, ResetParams, memoryVars, queueVars, taskVars,
     sinkVars
<1>17. ASSUME NEW e \in Execs, AttachSink(e) PROVE LockInv'
  BY <1>17 DEF AttachSink, memoryVars, queueVars, taskVars, sinkVars
<1>18. ASSUME NEW e \in Execs, DestroySink(e) PROVE LockInv'
  BY <1>18 DEF DestroySink, Detachable, memoryVars, queueVars, taskVars, sinkVars
<1>19. ASSUME MemoryChanges PROVE LockInv'
  BY <1>19 DEF MemoryChanges, memoryVars, queueVars, taskVars, sinkVars
<1>21. ASSUME NEW t \in Tasks, InjectThrows(t) PROVE LockInv'
  BY <1>21 DEF InjectThrows, Goes, Leaves, Diverts, Diverted, memoryVars, queueVars,
     taskVars, sinkVars
<1>20. CASE UNCHANGED vars
  BY <1>20 DEF vars, memoryVars, queueVars, taskVars, sinkVars
<1> QED
  BY <1>1, <1>2, <1>3, <1>4, <1>5, <1>6, <1>7, <1>8, <1>9, <1>10, <1>11, <1>12, <1>13,
     <1>14, <1>15, <1>16, <1>17, <1>18, <1>19, <1>20, <1>21 DEF Next, WorkerStep

(* The editor's sinks. While a task that diverts holds the lock, it has the sink   *)
(* the executor had; in every other state the executor has it. That is the one the *)
(* editor attached, unless it was lost, or its editor went without it.             *)
Kept(x, e) ==
    \/ x = routed[e]
    \/ x = NoSink /\ routed[e] \in lost
    \/ x \in orphaned /\ routed[e] = NoSink

SinkInv ==
    /\ \A e \in Execs :
          /\ routed[e] \in {NoSink, tap}
          /\ lock[e] = Free => Kept(sink[e], e)
          /\ \A f \in Execs : routed[e] # NoSink /\ routed[f] # NoSink => e = f
    /\ \A t \in Tasks :
          IF stage[t] \in LockHeld
          THEN IF Diverts(t) THEN Kept(saved[t], Exec[t]) /\ sink[Exec[t]] = NoSink
               ELSE saved[t] = NoSink /\ Kept(sink[Exec[t]], Exec[t])
          ELSE saved[t] = NoSink

LEMMA InitSinkInv == Init => SinkInv
  BY DEF Init, SinkInv, Kept, LockHeld

LEMMA StepSinkInv ==
  ControlTypes /\ PlaceInv /\ SinkTypes /\ LockInv /\ SinkInv /\ [Next]_vars => SinkInv'
<1> SUFFICES ASSUME ControlTypes, PlaceInv, SinkTypes, LockInv, SinkInv, [Next]_vars PROVE SinkInv'
  OBVIOUS
\* A step that keeps the sinks and the holders of the locks.
<1>0. ASSUME UNCHANGED <<lock, sinkVars>>,
             \A u \in Tasks : stage'[u] \in LockHeld <=> stage[u] \in LockHeld
      PROVE  SinkInv'
  BY <1>0 DEF SinkInv, Kept, sinkVars
<1> USE SchedulerAssumption DEF ControlTypes, SinkTypes, LockInv, SinkInv, Kept, LockHeld, Diverts
<1>1. ASSUME NEW t \in Tasks, ScheduleTask(t) PROVE SinkInv'
  <2>1. /\ \E to \in {"queued", "refused"} : stage' = [stage EXCEPT ![t] = to]
        /\ stage[t] \in {"idle", "parked"}
    BY <1>1 DEF ScheduleTask, Goes
  <2>2. UNCHANGED <<outcome, answers, lock, params, sinkVars>>
    BY <1>1 DEF ScheduleTask
  <2> QED
    BY <1>0, <2>1, <2>2
<1>2. ASSUME NEW t \in Tasks, Park(t) PROVE SinkInv'
  BY <1>0, <1>2 DEF Park, Goes
<1>3. ASSUME NEW t \in Tasks, Start(t) PROVE SinkInv'
  <2>1. stage[t] = "queued"
    BY <1>3, StartedWasQueued
  <2> QED
    BY <1>0, <1>3, <2>1 DEF Start, Goes
<1>4. ASSUME NEW t \in Tasks, GiveUp(t) PROVE SinkInv'
  BY <1>4 DEF GiveUp, Goes, Answer, memoryVars, queueVars, taskVars, sinkVars
<1>5. ASSUME NEW t \in Tasks, LoadFails(t) PROVE SinkInv'
  BY <1>5 DEF LoadFails, Goes, Leaves, memoryVars, queueVars, taskVars, sinkVars
<1>6. ASSUME NEW t \in Tasks, AcquireLock(t) PROVE SinkInv'
  BY <1>6 DEF AcquireLock, Goes, Diverts, Diverted, memoryVars, queueVars, taskVars, sinkVars
<1>7. ASSUME NEW t \in Tasks, LockTimesOut(t) PROVE SinkInv'
  BY <1>7 DEF LockTimesOut, Goes, Answer, ResetParams, memoryVars, queueVars,
     taskVars, sinkVars
<1>8. ASSUME NEW t \in Tasks, RenderAnswers(t) PROVE SinkInv'
  BY <1>8 DEF RenderAnswers, Goes, Answer, Leaves, ResetParams, memoryVars, queueVars,
     taskVars, sinkVars
<1>9. ASSUME NEW t \in Tasks, RenderCopies(t) PROVE SinkInv'
  BY <1>9 DEF RenderCopies, Goes, Leaves, ResetParams, memoryVars, queueVars,
     taskVars, sinkVars
<1>10. ASSUME NEW t \in Tasks, RenderThrows(t) PROVE SinkInv'
  BY <1>10 DEF RenderThrows, Goes, Leaves, memoryVars, queueVars, taskVars, sinkVars
<1>11. ASSUME NEW t \in Tasks, Release(t) PROVE SinkInv'
  BY <1>11 DEF Release, Goes, memoryVars, queueVars, taskVars, sinkVars
<1>12. ASSUME NEW t \in Tasks, TryFlush(t) PROVE SinkInv'
  BY <1>12 DEF TryFlush, Goes, memoryVars, queueVars, taskVars, sinkVars
<1>13. ASSUME NEW t \in Tasks, Unlock(t) PROVE SinkInv'
  <2> DEFINE e == Exec[t]
  <2>1. /\ stage[t] = "flushing" /\ stage' = [stage EXCEPT ![t] = "unlocked"]
        /\ sink' = [sink EXCEPT ![e] = Restored(t)] /\ saved' = [saved EXCEPT ![t] = NoSink]
        /\ lock' = [lock EXCEPT ![e] = Free] /\ UNCHANGED <<routed, lost, orphaned, tap, sinks>>
    BY <1>13 DEF Unlock, Goes
  <2>2. e \in Execs /\ lock[e] = t
    BY <2>1
  <2>3. Kept(Restored(t), e)
    BY <2>1 DEF Restored
  <2>4. \A u \in Tasks \ {t} : stage[u] \in LockHeld => Exec[u] # e
    BY <2>2
  <2>5. \A f \in Execs :
           /\ routed'[f] \in {NoSink, tap'}
           /\ lock'[f] = Free => Kept(sink[f], f)'
           /\ \A g \in Execs : routed'[f] # NoSink /\ routed'[g] # NoSink => f = g
    BY <2>1, <2>2, <2>3
  <2>6. stage'[t] \notin LockHeld /\ saved'[t] = NoSink
    BY <2>1
  <2>7. ASSUME NEW u \in Tasks \ {t}
        PROVE  IF stage'[u] \in LockHeld
               THEN IF Diverts(u) THEN Kept(saved[u], Exec[u])' /\ sink'[Exec[u]] = NoSink
                    ELSE saved'[u] = NoSink /\ Kept(sink[Exec[u]], Exec[u])'
               ELSE saved'[u] = NoSink
    <3>1. /\ stage'[u] = stage[u] /\ saved'[u] = saved[u]
          /\ stage[u] \in LockHeld => sink'[Exec[u]] = sink[Exec[u]]
      BY <2>1, <2>4
    <3> QED
      BY <2>1, <3>1
  <2> HIDE DEF e
  <2> QED
    BY <2>5, <2>6, <2>7
<1>14. ASSUME NEW t \in Tasks, End(t) PROVE SinkInv'
  BY <1>14 DEF End, Goes, memoryVars, queueVars, taskVars, sinkVars
<1>15. ASSUME NEW t \in Tasks, Deliver(t) PROVE SinkInv'
  BY <1>15 DEF Deliver, Goes, Answer, Leaves, memoryVars, queueVars, taskVars,
     sinkVars
<1>16. ASSUME NEW t \in Tasks, Catch(t) PROVE SinkInv'
  BY <1>16 DEF Catch, Goes, Answer, ResetParams, memoryVars, queueVars, taskVars,
     sinkVars
<1>17. ASSUME NEW e \in Execs, AttachSink(e) PROVE SinkInv'
  BY <1>17 DEF AttachSink, memoryVars, queueVars, taskVars, sinkVars
<1>18. ASSUME NEW e \in Execs, DestroySink(e) PROVE SinkInv'
  BY <1>18 DEF DestroySink, Detachable, memoryVars, queueVars, taskVars, sinkVars
<1>19. ASSUME MemoryChanges PROVE SinkInv'
  BY <1>19 DEF MemoryChanges, memoryVars, queueVars, taskVars, sinkVars
<1>21. ASSUME NEW t \in Tasks, InjectThrows(t) PROVE SinkInv'
  BY <1>21 DEF InjectThrows, Goes, Leaves, Diverts, Diverted, memoryVars, queueVars,
     taskVars, sinkVars
<1>20. CASE UNCHANGED vars
  BY <1>20 DEF vars, memoryVars, queueVars, taskVars, sinkVars
<1> QED
  BY <1>1, <1>2, <1>3, <1>4, <1>5, <1>6, <1>7, <1>8, <1>9, <1>10, <1>11, <1>12, <1>13,
     <1>14, <1>15, <1>16, <1>17, <1>18, <1>19, <1>20, <1>21 DEF Next, WorkerStep

(* The render parameters. What a task that did not throw has set, it has reset     *)
(* before it lets the lock go.                                                      *)
ParamInv ==
    /\ ParamsOfHolder
    /\ \A e \in Execs : params[e] # Baseline => Exec[params[e]] = e
    /\ \A t \in Tasks :
          stage[t] \in {"returning", "released", "flushing"} /\ outcome[t] # "thrown"
            /\ Kind[t] # "fast" => params[Exec[t]] # t

LEMMA InitParam == Init => ParamInv
  BY SchedulerAssumption DEF Init, ParamInv, ParamsOfHolder

LEMMA StepParam == ControlTypes /\ PlaceInv /\ LockInv /\ ParamInv /\ [Next]_vars => ParamInv'
<1> SUFFICES ASSUME ControlTypes, PlaceInv, LockInv, ParamInv, [Next]_vars PROVE ParamInv'
  OBVIOUS
<1> USE SchedulerAssumption DEF ControlTypes, LockInv, ParamInv, ParamsOfHolder, LockHeld
<1>1. ASSUME NEW t \in Tasks, ScheduleTask(t) PROVE ParamInv'
  <2>1. /\ \E to \in {"queued", "refused"} : stage' = [stage EXCEPT ![t] = to]
        /\ stage[t] \in {"idle", "parked"}
    BY <1>1 DEF ScheduleTask, Goes
  <2>2. UNCHANGED <<outcome, answers, lock, params, sinkVars>>
    BY <1>1 DEF ScheduleTask
  <2> QED
    BY <2>1, <2>2 DEF sinkVars
<1>2. ASSUME NEW t \in Tasks, Park(t) PROVE ParamInv'
  BY <1>2 DEF Park, Goes, Returns, memoryVars, queueVars, taskVars, sinkVars
<1>3. ASSUME NEW t \in Tasks, Start(t) PROVE ParamInv'
  <2>1. stage[t] = "queued"
    BY <1>3, StartedWasQueued
  <2> QED
    BY <1>3, <2>1 DEF Start, Goes, sinkVars
<1>4. ASSUME NEW t \in Tasks, GiveUp(t) PROVE ParamInv'
  BY <1>4 DEF GiveUp, Goes, Answer, memoryVars, queueVars, taskVars, sinkVars
<1>5. ASSUME NEW t \in Tasks, LoadFails(t) PROVE ParamInv'
  BY <1>5 DEF LoadFails, Goes, Leaves, memoryVars, queueVars, taskVars, sinkVars
<1>6. ASSUME NEW t \in Tasks, AcquireLock(t) PROVE ParamInv'
  BY <1>6 DEF AcquireLock, Goes, Diverts, Diverted, memoryVars, queueVars, taskVars, sinkVars
<1>7. ASSUME NEW t \in Tasks, LockTimesOut(t) PROVE ParamInv'
  BY <1>7 DEF LockTimesOut, Goes, Answer, ResetParams, memoryVars, queueVars,
     taskVars, sinkVars
<1>8. ASSUME NEW t \in Tasks, RenderAnswers(t) PROVE ParamInv'
  BY <1>8 DEF RenderAnswers, Goes, Answer, Leaves, ResetParams, memoryVars, queueVars,
     taskVars, sinkVars
<1>9. ASSUME NEW t \in Tasks, RenderCopies(t) PROVE ParamInv'
  BY <1>9 DEF RenderCopies, Goes, Leaves, ResetParams, memoryVars, queueVars,
     taskVars, sinkVars
<1>10. ASSUME NEW t \in Tasks, RenderThrows(t) PROVE ParamInv'
  BY <1>10 DEF RenderThrows, Goes, Leaves, memoryVars, queueVars, taskVars, sinkVars
<1>11. ASSUME NEW t \in Tasks, Release(t) PROVE ParamInv'
  BY <1>11 DEF Release, Goes, memoryVars, queueVars, taskVars, sinkVars
<1>12. ASSUME NEW t \in Tasks, TryFlush(t) PROVE ParamInv'
  BY <1>12 DEF TryFlush, Goes, memoryVars, queueVars, taskVars, sinkVars
<1>13. ASSUME NEW t \in Tasks, Unlock(t) PROVE ParamInv'
  BY <1>13 DEF Unlock, Goes, Restored, memoryVars, queueVars, taskVars, sinkVars
<1>14. ASSUME NEW t \in Tasks, End(t) PROVE ParamInv'
  BY <1>14 DEF End, Goes, memoryVars, queueVars, taskVars, sinkVars
<1>15. ASSUME NEW t \in Tasks, Deliver(t) PROVE ParamInv'
  BY <1>15 DEF Deliver, Goes, Answer, Leaves, memoryVars, queueVars, taskVars,
     sinkVars
<1>16. ASSUME NEW t \in Tasks, Catch(t) PROVE ParamInv'
  BY <1>16 DEF Catch, Goes, Answer, ResetParams, memoryVars, queueVars, taskVars,
     sinkVars
<1>17. ASSUME NEW e \in Execs, AttachSink(e) PROVE ParamInv'
  BY <1>17 DEF AttachSink, memoryVars, queueVars, taskVars, sinkVars
<1>18. ASSUME NEW e \in Execs, DestroySink(e) PROVE ParamInv'
  BY <1>18 DEF DestroySink, Detachable, memoryVars, queueVars, taskVars, sinkVars
<1>19. ASSUME MemoryChanges PROVE ParamInv'
  BY <1>19 DEF MemoryChanges, memoryVars, queueVars, taskVars, sinkVars
<1>21. ASSUME NEW t \in Tasks, InjectThrows(t) PROVE ParamInv'
  BY <1>21 DEF InjectThrows, Goes, Leaves, Diverts, Diverted, memoryVars, queueVars,
     taskVars, sinkVars
<1>20. CASE UNCHANGED vars
  BY <1>20 DEF vars, memoryVars, queueVars, taskVars, sinkVars
<1> QED
  BY <1>1, <1>2, <1>3, <1>4, <1>5, <1>6, <1>7, <1>8, <1>9, <1>10, <1>11, <1>12, <1>13,
     <1>14, <1>15, <1>16, <1>17, <1>18, <1>19, <1>20, <1>21 DEF Next, WorkerStep

LEMMA SinksAndParamsKept ==
  ControlTypes /\ SinkTypes /\ LockInv /\ SinkInv /\ ParamInv => SinksAndParams
<1> SUFFICES ASSUME ControlTypes, SinkTypes, LockInv, SinkInv, ParamInv PROVE SinksAndParams
  OBVIOUS
<1>1. SinkKept
  BY DEF SinkKept, SinkInv, Kept, LockInv, ControlTypes
<1>2. NoDanglingSink
  <2>1. \A t \in Tasks : saved[t] \in {NoSink, tap} \cup orphaned
    BY SchedulerAssumption DEF SinkInv, Kept
  <2>2. ASSUME NEW e \in Execs PROVE sink[e] \in {NoSink, tap} \cup orphaned
    <3>1. CASE lock[e] = Free
      BY <3>1 DEF SinkInv, Kept
    <3>2. CASE lock[e] # Free
      <4>1. Exec[lock[e]] = e /\ stage[lock[e]] \in LockHeld /\ lock[e] \in Tasks
        BY <3>2 DEF LockInv, ControlTypes
      <4> QED
        BY <4>1 DEF SinkInv, Kept
    <3> QED
      BY <3>1, <3>2
  <2> QED
    BY <2>1, <2>2 DEF NoDanglingSink
<1> QED
  BY <1>1, <1>2 DEF SinksAndParams, ParamInv


--------------------------------------------------------------------------------
(* The budgets of the operations.                                                   *)
LEMMA InitBudgetNumbers == Init => DOMAIN budgets \subseteq Nat
  BY DEF Init

LEMMA StepBudgetNumbers ==
  ControlTypes /\ DOMAIN budgets \subseteq Nat /\ [Next]_vars => (DOMAIN budgets \subseteq Nat)'
<1> SUFFICES ASSUME ControlTypes, DOMAIN budgets \subseteq Nat, [Next]_vars
             PROVE  (DOMAIN budgets \subseteq Nat)'
  OBVIOUS
<1>1. CASE UNCHANGED budgets
  BY <1>1
<1>2. ASSUME NEW t \in Tasks, AcquireLock(t) PROVE (DOMAIN budgets \subseteq Nat)'
  BY <1>2 DEF AcquireLock, RequestBudget, ControlTypes
<1>3. ASSUME NEW t \in Tasks, Release(t) PROVE (DOMAIN budgets \subseteq Nat)'
  BY <1>3 DEF Release, ReleaseBudget, Restrict
<1> QED
  BY <1>1, <1>2, <1>3
  DEF Next, WorkerStep, ScheduleTask, Park, Start, GiveUp, LoadFails, InjectThrows, LockTimesOut,
      RenderAnswers,
      RenderCopies, RenderThrows, TryFlush, Unlock, End, Deliver, Catch, AttachSink,
      DestroySink,
      MemoryChanges, vars, memoryVars

\* task_id_: a task has the number its last ScheduleTask gave it, and no other of
\* its scheduler has that.
NumberInv ==
    \A t \in Tasks : stage[t] # "idle" =>
        /\ number[t] < nextId[Home[t]]
        /\ \A u \in Tasks : u # t /\ Home[u] = Home[t] /\ stage[u] # "idle" => number[u] # number[t]

LEMMA InitNumber == Init => NumberInv
  BY DEF Init, NumberInv

LEMMA StepNumber == ControlTypes /\ PlaceInv /\ NumberInv /\ [Next]_vars => NumberInv'
<1> SUFFICES ASSUME ControlTypes, PlaceInv, NumberInv, [Next]_vars PROVE NumberInv'
  OBVIOUS
\* A step that numbers no task, and starts none from nowhere.
<1>0. ASSUME UNCHANGED <<number, nextId>>,
             \A u \in Tasks : stage'[u] # "idle" => stage[u] # "idle"
      PROVE  NumberInv'
  BY <1>0 DEF NumberInv
<1> USE DEF ControlTypes
<1>1. ASSUME NEW t \in Tasks, ScheduleTask(t) PROVE NumberInv'
  <2>1. /\ number' = [number EXCEPT ![t] = nextId[Home[t]]]
        /\ nextId' = [nextId EXCEPT ![Home[t]] = @ + 1] /\ Home[t] \in Schedulers
        /\ \A u \in Tasks \ {t} : stage'[u] = stage[u]
    BY <1>1, SchedulerAssumption DEF ScheduleTask, Goes
  <2>2. \A x \in Schedulers : nextId'[x] \in Nat /\ nextId[x] \in Nat /\ nextId'[x] >= nextId[x]
    BY <2>1
  <2>3. number'[t] = nextId[Home[t]] /\ nextId'[Home[t]] = nextId[Home[t]] + 1
    BY <2>1
  <2>4. ASSUME NEW u \in Tasks \ {t}, stage'[u] # "idle"
        PROVE  /\ number'[u] = number[u] /\ number[u] \in Nat /\ number[u] < nextId'[Home[u]]
               /\ Home[u] = Home[t] => number[u] < nextId[Home[t]] /\ number[u] # number'[t]
    <3>1. number'[u] = number[u] /\ number[u] \in Nat /\ number[u] < nextId[Home[u]]
      BY <2>1, <2>4 DEF NumberInv
    <3> QED
      BY <2>2, <2>3, <3>1, SchedulerAssumption
  <2> QED
    BY <2>1, <2>2, <2>3, <2>4 DEF NumberInv
<1>2. ASSUME NEW t \in Tasks, Park(t) PROVE NumberInv'
  BY <1>2, <1>0 DEF Park, Goes, Returns, memoryVars, queueVars, taskVars, sinkVars
<1>3. ASSUME NEW t \in Tasks, Start(t) PROVE NumberInv'
  <2>1. stage[t] = "queued"
    BY <1>3, StartedWasQueued
  <2> QED
    BY <1>0, <1>3, <2>1 DEF Start, Goes
<1>4. ASSUME NEW t \in Tasks, GiveUp(t) PROVE NumberInv'
  BY <1>4, <1>0 DEF GiveUp, Goes, Answer, memoryVars, queueVars, taskVars, sinkVars
<1>5. ASSUME NEW t \in Tasks, LoadFails(t) PROVE NumberInv'
  BY <1>5, <1>0 DEF LoadFails, Goes, Leaves, memoryVars, queueVars, taskVars, sinkVars
<1>6. ASSUME NEW t \in Tasks, AcquireLock(t) PROVE NumberInv'
  BY <1>6, <1>0 DEF AcquireLock, Goes, Diverts, Diverted, memoryVars, queueVars, taskVars,
     sinkVars
<1>7. ASSUME NEW t \in Tasks, LockTimesOut(t) PROVE NumberInv'
  BY <1>7, <1>0 DEF LockTimesOut, Goes, Answer, ResetParams, memoryVars, queueVars,
     taskVars, sinkVars
<1>8. ASSUME NEW t \in Tasks, RenderAnswers(t) PROVE NumberInv'
  BY <1>8, <1>0 DEF RenderAnswers, Goes, Answer, Leaves, ResetParams, memoryVars,
     queueVars, taskVars, sinkVars
<1>9. ASSUME NEW t \in Tasks, RenderCopies(t) PROVE NumberInv'
  BY <1>9, <1>0 DEF RenderCopies, Goes, Leaves, ResetParams, memoryVars, queueVars,
     taskVars, sinkVars
<1>10. ASSUME NEW t \in Tasks, RenderThrows(t) PROVE NumberInv'
  BY <1>10, <1>0 DEF RenderThrows, Goes, Leaves, memoryVars, queueVars, taskVars,
     sinkVars
<1>11. ASSUME NEW t \in Tasks, Release(t) PROVE NumberInv'
  BY <1>11, <1>0 DEF Release, Goes, memoryVars, queueVars, taskVars, sinkVars
<1>12. ASSUME NEW t \in Tasks, TryFlush(t) PROVE NumberInv'
  BY <1>12, <1>0 DEF TryFlush, Goes, memoryVars, queueVars, taskVars, sinkVars
<1>13. ASSUME NEW t \in Tasks, Unlock(t) PROVE NumberInv'
  BY <1>13, <1>0 DEF Unlock, Goes, Restored, memoryVars, queueVars, taskVars, sinkVars
<1>14. ASSUME NEW t \in Tasks, End(t) PROVE NumberInv'
  BY <1>14, <1>0 DEF End, Goes, memoryVars, queueVars, taskVars, sinkVars
<1>15. ASSUME NEW t \in Tasks, Deliver(t) PROVE NumberInv'
  BY <1>15, <1>0 DEF Deliver, Goes, Answer, Leaves, memoryVars, queueVars, taskVars,
     sinkVars
<1>16. ASSUME NEW t \in Tasks, Catch(t) PROVE NumberInv'
  BY <1>16, <1>0 DEF Catch, Goes, Answer, ResetParams, memoryVars, queueVars,
     taskVars, sinkVars
<1>17. ASSUME NEW e \in Execs, AttachSink(e) PROVE NumberInv'
  BY <1>17, <1>0 DEF AttachSink, memoryVars, queueVars, taskVars, sinkVars
<1>18. ASSUME NEW e \in Execs, DestroySink(e) PROVE NumberInv'
  BY <1>18, <1>0 DEF DestroySink, Detachable, memoryVars, queueVars, taskVars,
     sinkVars
<1>19. ASSUME MemoryChanges PROVE NumberInv'
  BY <1>19, <1>0 DEF MemoryChanges, memoryVars, queueVars, taskVars, sinkVars
<1>21. ASSUME NEW t \in Tasks, InjectThrows(t) PROVE NumberInv'
  BY <1>0, <1>21 DEF InjectThrows, Goes, Leaves, Diverts, Diverted, memoryVars, queueVars,
     taskVars, sinkVars
<1>20. CASE UNCHANGED vars
  BY <1>20, <1>0 DEF vars, memoryVars, queueVars, taskVars, sinkVars
<1> QED
  BY <1>1, <1>2, <1>3, <1>4, <1>5, <1>6, <1>7, <1>8, <1>9, <1>10, <1>11, <1>12, <1>13,
     <1>14, <1>15, <1>16, <1>17, <1>18, <1>19, <1>20, <1>21 DEF Next, WorkerStep

\* Each budget is that of a render under way.
BudgetInv == \A n \in DOMAIN budgets : \E t \in RendersUnderWay : number[t] = n

LEMMA InitBudget == Init => BudgetInv
  BY DEF Init, BudgetInv

LEMMA StepBudget == ControlTypes /\ PlaceInv /\ BudgetInv /\ [Next]_vars => BudgetInv'
<1> SUFFICES ASSUME ControlTypes, PlaceInv, BudgetInv, [Next]_vars PROVE BudgetInv'
  OBVIOUS
<1>0. ASSUME UNCHANGED budgets,
             \A u \in Tasks : stage'[u] \in {"rendering", "returning"} <=>
                              stage[u] \in {"rendering", "returning"},
             \A u \in RendersUnderWay : number'[u] = number[u]
      PROVE  BudgetInv'
  BY <1>0 DEF BudgetInv, RendersUnderWay
<1> USE DEF ControlTypes
<1>1. ASSUME NEW t \in Tasks, ScheduleTask(t) PROVE BudgetInv'
  <2>1. /\ \E to \in {"queued", "refused"} : stage' = [stage EXCEPT ![t] = to]
        /\ stage[t] \in {"idle", "parked"} /\ UNCHANGED budgets
        /\ number' = [number EXCEPT ![t] = nextId[Home[t]]]
    BY <1>1 DEF ScheduleTask, Goes
  <2> QED
    BY <1>0, <2>1 DEF RendersUnderWay
<1>2. ASSUME NEW t \in Tasks, Park(t) PROVE BudgetInv'
  BY <1>2, <1>0 DEF Park, Goes, Returns, memoryVars, queueVars, taskVars, sinkVars,
     RendersUnderWay
<1>3. ASSUME NEW t \in Tasks, Start(t) PROVE BudgetInv'
  <2>1. stage[t] = "queued"
    BY <1>3, StartedWasQueued
  <2> QED
    BY <1>0, <1>3, <2>1 DEF Start, Goes, RendersUnderWay, memoryVars
<1>4. ASSUME NEW t \in Tasks, GiveUp(t) PROVE BudgetInv'
  BY <1>4, <1>0 DEF GiveUp, Goes, Answer, memoryVars, queueVars, taskVars, sinkVars,
     RendersUnderWay
<1>5. ASSUME NEW t \in Tasks, LoadFails(t) PROVE BudgetInv'
  BY <1>5, <1>0 DEF LoadFails, Goes, Leaves, memoryVars, queueVars, taskVars,
     sinkVars, RendersUnderWay
<1>6. ASSUME NEW t \in Tasks, AcquireLock(t) PROVE BudgetInv'
  <2>1. /\ stage[t] = "started" /\ stage' = [stage EXCEPT ![t] = "rendering"]
        /\ budgets' = RequestBudget(number[t], Cost[t]) /\ UNCHANGED number
    BY <1>6 DEF AcquireLock, Goes, queueVars
  <2>2. DOMAIN budgets' = DOMAIN budgets \cup {number[t]}
    BY <2>1 DEF RequestBudget
  <2>3. RendersUnderWay' = RendersUnderWay \cup {t}
    BY <2>1 DEF RendersUnderWay
  <2> QED
    BY <2>1, <2>2, <2>3 DEF BudgetInv
<1>7. ASSUME NEW t \in Tasks, LockTimesOut(t) PROVE BudgetInv'
  BY <1>7, <1>0 DEF LockTimesOut, Goes, Answer, ResetParams, memoryVars, queueVars,
     taskVars, sinkVars, RendersUnderWay
<1>8. ASSUME NEW t \in Tasks, RenderAnswers(t) PROVE BudgetInv'
  BY <1>8, <1>0 DEF RenderAnswers, Goes, Answer, Leaves, ResetParams, memoryVars,
     queueVars, taskVars, sinkVars, RendersUnderWay
<1>9. ASSUME NEW t \in Tasks, RenderCopies(t) PROVE BudgetInv'
  BY <1>9, <1>0 DEF RenderCopies, Goes, Leaves, ResetParams, memoryVars, queueVars,
     taskVars, sinkVars, RendersUnderWay
<1>10. ASSUME NEW t \in Tasks, RenderThrows(t) PROVE BudgetInv'
  BY <1>10, <1>0 DEF RenderThrows, Goes, Leaves, memoryVars, queueVars, taskVars,
     sinkVars, RendersUnderWay
<1>11. ASSUME NEW t \in Tasks, Release(t) PROVE BudgetInv'
  <2>1. /\ stage[t] = "returning" /\ stage' = [stage EXCEPT ![t] = "released"]
        /\ budgets' = ReleaseBudget(number[t]) /\ UNCHANGED number
    BY <1>11 DEF Release, Goes, queueVars
  <2>2. DOMAIN budgets' = DOMAIN budgets \ {number[t]}
    BY <2>1 DEF ReleaseBudget, Restrict
  <2>3. RendersUnderWay' = RendersUnderWay \ {t}
    BY <2>1 DEF RendersUnderWay
  <2> QED
    BY <2>1, <2>2, <2>3 DEF BudgetInv
<1>12. ASSUME NEW t \in Tasks, TryFlush(t) PROVE BudgetInv'
  BY <1>12, <1>0 DEF TryFlush, Goes, memoryVars, queueVars, taskVars, sinkVars,
     RendersUnderWay
<1>13. ASSUME NEW t \in Tasks, Unlock(t) PROVE BudgetInv'
  BY <1>13, <1>0 DEF Unlock, Goes, Restored, memoryVars, queueVars, taskVars,
     sinkVars, RendersUnderWay
<1>14. ASSUME NEW t \in Tasks, End(t) PROVE BudgetInv'
  BY <1>14, <1>0 DEF End, Goes, memoryVars, queueVars, taskVars, sinkVars, RendersUnderWay
<1>15. ASSUME NEW t \in Tasks, Deliver(t) PROVE BudgetInv'
  BY <1>15, <1>0 DEF Deliver, Goes, Answer, Leaves, memoryVars, queueVars, taskVars,
     sinkVars, RendersUnderWay
<1>16. ASSUME NEW t \in Tasks, Catch(t) PROVE BudgetInv'
  BY <1>16, <1>0 DEF Catch, Goes, Answer, ResetParams, memoryVars, queueVars,
     taskVars, sinkVars, RendersUnderWay
<1>17. ASSUME NEW e \in Execs, AttachSink(e) PROVE BudgetInv'
  BY <1>17, <1>0 DEF AttachSink, memoryVars, queueVars, taskVars, sinkVars, RendersUnderWay
<1>18. ASSUME NEW e \in Execs, DestroySink(e) PROVE BudgetInv'
  BY <1>18, <1>0 DEF DestroySink, Detachable, memoryVars, queueVars, taskVars,
     sinkVars, RendersUnderWay
<1>19. ASSUME MemoryChanges PROVE BudgetInv'
  BY <1>19, <1>0 DEF MemoryChanges, memoryVars, queueVars, taskVars, sinkVars,
     RendersUnderWay
<1>21. ASSUME NEW t \in Tasks, InjectThrows(t) PROVE BudgetInv'
  BY <1>0, <1>21 DEF InjectThrows, Goes, Leaves, Diverts, Diverted, memoryVars, queueVars,
     taskVars, sinkVars, RendersUnderWay
<1>20. CASE UNCHANGED vars
  BY <1>20, <1>0 DEF vars, memoryVars, queueVars, taskVars, sinkVars, RendersUnderWay
<1> QED
  BY <1>1, <1>2, <1>3, <1>4, <1>5, <1>6, <1>7, <1>8, <1>9, <1>10, <1>11, <1>12, <1>13,
     <1>14, <1>15, <1>16, <1>17, <1>18, <1>19, <1>20, <1>21 DEF Next, WorkerStep

--------------------------------------------------------------------------------
(* Sums over finite sets, and the memory granted.                                 *)

\* Induction for a set of numbers: n -> n + 1 would map the part of S up to a
\* number it lacks into that part without 0, which has one element less.
LEMMA AllNaturals ==
  ASSUME NEW S \in SUBSET Nat, 0 \in S, \A n \in S : n + 1 \in S
  PROVE  S = Nat
<1> SUFFICES ASSUME NEW n \in Nat, n \notin S PROVE FALSE
  OBVIOUS
<1> DEFINE U == S \cap 0..n
           f == [x \in U |-> x + 1]
<1>1. IsFiniteSet(U)
  <2>1. IsFiniteSet(0..n)
    BY FS_Interval
  <2> QED
    BY <2>1, FS_Subset
<1>2. 0 \in U
  OBVIOUS
<1>3. /\ IsFiniteSet(U \ {0}) /\ Cardinality(U \ {0}) = Cardinality(U) - 1
      /\ Cardinality(U) \in Nat
  BY <1>1, <1>2, FS_RemoveElement, FS_CardinalityType
<1>4. f \in Injection(U, U \ {0})
  BY DEF Injection, IsInjective
<1> HIDE DEF U, f
<1>5. Cardinality(U) <= Cardinality(U \ {0})
  BY <1>3, <1>4, FS_Injection
<1> QED
  BY <1>3, <1>5

\* The sums over the parts of S that SumFunction is made of.
One(s) == CHOOSE y \in s : TRUE
Adds(g, f, D) == g = [s \in D |-> IF s = {} THEN 0 ELSE f[One(s)] + g[s \ {One(s)}]]
Sums(f, S) == CHOOSE g : Adds(g, f, SUBSET S)
UpTo(S, n) == {s \in SUBSET S : Cardinality(s) <= n}

LEMMA SumIs ==
  ASSUME NEW f, NEW S
  PROVE  SumFunctionOnSet(f, S) = Sums(f, S)[S]
BY DEF SumFunctionOnSet, FoldFunctionOnSet, MapThenFoldSet, Sums, Adds, One

LEMMA OneIn == \A s : s # {} => One(s) \in s
  BY DEF One

LEMMA SumsExist ==
  ASSUME NEW f, NEW S, IsFiniteSet(S)
  PROVE  Adds(Sums(f, S), f, SUBSET S)
<1> DEFINE Ns == {n \in Nat : \E g : Adds(g, f, UpTo(S, n))}
<1>0. \A s \in SUBSET S : IsFiniteSet(s) /\ Cardinality(s) \in Nat /\ Cardinality(s) <= Cardinality(S)
  BY FS_Subset, FS_CardinalityType
<1>1. 0 \in Ns
  <2> DEFINE g == [s \in UpTo(S, 0) |-> 0]
  <2>1. \A s \in UpTo(S, 0) : s = {}
    BY <1>0, FS_EmptySet DEF UpTo
  <2>2. Adds(g, f, UpTo(S, 0))
    BY <2>1 DEF Adds
  <2> QED
    BY <2>2
<1>2. ASSUME NEW n \in Ns PROVE n + 1 \in Ns
  <2>1. PICK g : Adds(g, f, UpTo(S, n))
    OBVIOUS
  <2> DEFINE h == [s \in UpTo(S, n + 1) |->
                     IF s = {} THEN 0 ELSE f[One(s)] + g[s \ {One(s)}]]
  <2>2. \A s \in UpTo(S, n + 1) : s # {} => s \ {One(s)} \in UpTo(S, n)
    <3> SUFFICES ASSUME NEW s \in UpTo(S, n + 1), s # {} PROVE s \ {One(s)} \in UpTo(S, n)
      OBVIOUS
    <3>1. One(s) \in s /\ s \in SUBSET S /\ Cardinality(s) <= n + 1 /\ n \in Nat
      BY OneIn DEF UpTo
    <3>2. Cardinality(s \ {One(s)}) = Cardinality(s) - 1
      BY <1>0, <3>1, FS_RemoveElement
    <3> QED
      BY <1>0, <3>1, <3>2 DEF UpTo
  <2>3. \A s \in UpTo(S, n) : s \in UpTo(S, n + 1)
    BY <1>0 DEF UpTo
  <2>4. \A s \in UpTo(S, n) : h[s] = g[s]
    BY <2>1, <2>3 DEF Adds
  <2>5. h = [s \in UpTo(S, n + 1) |-> IF s = {} THEN 0 ELSE f[One(s)] + h[s \ {One(s)}]]
    BY <2>2, <2>4
  <2>6. Adds(h, f, UpTo(S, n + 1))
    BY <2>5 DEF Adds
  <2> QED
    BY <2>6
<1>3. Ns = Nat
  <2> HIDE DEF Ns
  <2>1. Ns \in SUBSET Nat
    BY DEF Ns
  <2> QED
    BY <1>1, <1>2, <2>1, AllNaturals
<1>4. Cardinality(S) \in Ns /\ UpTo(S, Cardinality(S)) = SUBSET S
  BY <1>0, <1>3, FS_CardinalityType DEF UpTo
<1>5. \E g : Adds(g, f, SUBSET S)
  BY <1>4
<1> QED
  BY <1>5 DEF Sums

LEMMA SumsOf ==
  ASSUME NEW f, NEW S, IsFiniteSet(S)
  PROVE  /\ Sums(f, S)[{}] = 0
         /\ \A s \in SUBSET S : s # {} =>
              One(s) \in s /\ Sums(f, S)[s] = f[One(s)] + Sums(f, S)[s \ {One(s)}]
<1> DEFINE g == Sums(f, S)
<1>0. Adds(g, f, SUBSET S)
  BY SumsExist
<1> HIDE DEF g
<1>1. g = [s \in SUBSET S |-> IF s = {} THEN 0 ELSE f[One(s)] + g[s \ {One(s)}]]
  BY <1>0 DEF Adds
<1>2. g[{}] = 0
  BY <1>1
<1>3. ASSUME NEW s \in SUBSET S, s # {} PROVE g[s] = f[One(s)] + g[s \ {One(s)}]
  BY <1>1, <1>3
<1> QED
  BY <1>2, <1>3, OneIn DEF g

\* A sum can be taken apart at any of its terms.
LEMMA SumsSplit ==
  ASSUME NEW S, IsFiniteSet(S), NEW f \in [S -> Nat]
  PROVE  \A s \in SUBSET S : /\ Sums(f, S)[s] \in Nat
                             /\ \A x \in s : Sums(f, S)[s] = f[x] + Sums(f, S)[s \ {x}]
<1> DEFINE g == Sums(f, S)
           Good(s) == g[s] \in Nat /\ \A x \in s : g[s] = f[x] + g[s \ {x}]
           Ns == {n \in Nat : \A s \in UpTo(S, n) : Good(s)}
<1>0. \A s \in SUBSET S : IsFiniteSet(s) /\ Cardinality(s) \in Nat /\ Cardinality(s) <= Cardinality(S)
  BY FS_Subset, FS_CardinalityType
<1>a. \A s \in SUBSET S : s # {} => One(s) \in s /\ g[s] = f[One(s)] + g[s \ {One(s)}]
  BY SumsOf
<1>b. g[{}] = 0
  BY SumsOf
<1>c. ASSUME NEW n \in Nat, NEW s \in UpTo(S, n + 1), NEW x \in s
      PROVE  s \ {x} \in UpTo(S, n)
  <2>1. Cardinality(s \ {x}) = Cardinality(s) - 1
    BY <1>0, FS_RemoveElement DEF UpTo
  <2> QED
    BY <1>0, <2>1 DEF UpTo
<1> HIDE DEF g
<1>1. 0 \in Ns
  <2>1. \A s \in UpTo(S, 0) : s = {}
    BY <1>0, FS_EmptySet DEF UpTo
  <2> QED
    BY <1>b, <2>1
<1>2. ASSUME NEW n \in Ns PROVE n + 1 \in Ns
  <2> SUFFICES ASSUME NEW s \in UpTo(S, n + 1) PROVE Good(s)
    OBVIOUS
  <2>a. CASE s = {}
    BY <1>b, <2>a
  <2>b. SUFFICES ASSUME s # {} PROVE Good(s)
    BY <2>a
  <2> DEFINE c == One(s)
  <2>0. n \in Nat /\ \A t \in UpTo(S, n) : Good(t)
    OBVIOUS
  <2>1. s \in SUBSET S /\ c \in s /\ g[s] = f[c] + g[s \ {c}]
    BY <1>a, <2>b DEF UpTo
  <2> HIDE DEF c, Ns
  <2>2. Good(s \ {c})
    BY <1>c, <2>0, <2>1
  <2>3. g[s] \in Nat
    BY <2>1, <2>2
  <2>4. ASSUME NEW x \in s, x # c PROVE g[s] = f[x] + g[s \ {x}]
    <3>1. Good(s \ {x})
      BY <1>c, <2>0
    <3>2. x \in s \ {c} /\ c \in s \ {x} /\ (s \ {c}) \ {x} = (s \ {x}) \ {c}
      BY <2>1, <2>4
    <3>3. g[s \ {c}] = f[x] + g[(s \ {c}) \ {x}]
      BY <2>2, <3>2
    <3>4. g[s \ {x}] = f[c] + g[(s \ {c}) \ {x}]
      BY <3>1, <3>2
    <3>5. f[x] \in Nat /\ f[c] \in Nat /\ g[s \ {c}] \in Nat /\ g[s \ {x}] \in Nat
      BY <2>1, <2>2, <3>1
    <3>6. g[(s \ {c}) \ {x}] \in Nat
      <4>1. s \ {c} \in UpTo(S, n)
        BY <1>c, <2>0, <2>1
      <4>2. (s \ {c}) \ {x} \in UpTo(S, n)
        <5>1. /\ s \ {c} \in SUBSET S /\ IsFiniteSet(s \ {c}) /\ Cardinality(s \ {c}) <= n
              /\ Cardinality(s \ {c}) \in Nat
          BY <1>0, <4>1 DEF UpTo
        <5>2. /\ (s \ {c}) \ {x} \in SUBSET (s \ {c})
              /\ Cardinality((s \ {c}) \ {x}) <= Cardinality(s \ {c})
              /\ Cardinality((s \ {c}) \ {x}) \in Nat
          BY <1>0, <5>1, FS_Subset
        <5> QED
          BY <2>0, <5>1, <5>2 DEF UpTo
      <4> QED
        BY <2>0, <4>2
    <3> QED
      BY <2>1, <3>3, <3>4, <3>5, <3>6
  <2> QED
    BY <2>1, <2>3, <2>4
<1>3. Ns = Nat
  <2>1. Ns \in SUBSET Nat
    OBVIOUS
  <2> HIDE DEF Ns
  <2> QED
    BY <1>1, <1>2, <2>1, AllNaturals
<1>4. S \in SUBSET S
  OBVIOUS
<1>5. UpTo(S, Cardinality(S)) = SUBSET S
  BY <1>0 DEF UpTo
<1>6. Cardinality(S) \in Nat
  BY <1>0, <1>4
<1>7. Cardinality(S) \in Ns
  BY <1>3, <1>6
<1> QED
  BY <1>5, <1>7 DEF g

\* A sum looks only at its terms.
LEMMA SumsAgree ==
  ASSUME NEW S, IsFiniteSet(S), NEW T, IsFiniteSet(T), NEW e, NEW f,
         \A x \in S \cap T : e[x] = f[x]
  PROVE  \A s \in SUBSET (S \cap T) : Sums(e, S)[s] = Sums(f, T)[s]
<1> DEFINE g == Sums(e, S)
           h == Sums(f, T)
           R == S \cap T
           Ns == {n \in Nat : \A s \in UpTo(R, n) : g[s] = h[s]}
<1>0. \A s \in SUBSET R : IsFiniteSet(s) /\ Cardinality(s) \in Nat /\ Cardinality(s) <= Cardinality(R)
  <2>1. IsFiniteSet(R)
    BY FS_Subset
  <2> QED
    BY <2>1, FS_Subset, FS_CardinalityType
<1>a. g[{}] = 0 /\ h[{}] = 0
  BY SumsOf
<1>b. ASSUME NEW s \in SUBSET R, s # {}
      PROVE  One(s) \in s /\ g[s] = e[One(s)] + g[s \ {One(s)}] /\ h[s] = f[One(s)] + h[s \ {One(s)}]
  BY <1>b, SumsOf
<1> HIDE DEF g, h
<1>1. 0 \in Ns
  <2>1. \A s \in UpTo(R, 0) : s = {}
    BY <1>0, FS_EmptySet DEF UpTo
  <2> QED
    BY <1>a, <2>1
<1>2. ASSUME NEW n \in Ns PROVE n + 1 \in Ns
  <2> SUFFICES ASSUME NEW s \in UpTo(R, n + 1) PROVE g[s] = h[s]
    OBVIOUS
  <2>a. CASE s = {}
    BY <1>a, <2>a
  <2>b. SUFFICES ASSUME s # {} PROVE g[s] = h[s]
    BY <2>a
  <2>1. s \in SUBSET R /\ One(s) \in s /\ Cardinality(s) <= n + 1 /\ n \in Nat
    BY <2>b, OneIn DEF UpTo
  <2>2. Cardinality(s \ {One(s)}) = Cardinality(s) - 1
    BY <1>0, <2>1, FS_RemoveElement
  <2>3. s \ {One(s)} \in UpTo(R, n)
    BY <1>0, <2>1, <2>2 DEF UpTo
  <2>4. e[One(s)] = f[One(s)]
    BY <2>1
  <2> QED
    BY <1>b, <2>b, <2>1, <2>3, <2>4
<1>3. Ns = Nat
  <2>1. Ns \in SUBSET Nat
    OBVIOUS
  <2> HIDE DEF Ns
  <2> QED
    BY <1>1, <1>2, <2>1, AllNaturals
<1>4. R \in SUBSET R
  OBVIOUS
<1>5. UpTo(R, Cardinality(R)) = SUBSET R
  BY <1>0 DEF UpTo
<1>6. Cardinality(R) \in Nat
  BY <1>0, <1>4
<1>7. Cardinality(R) \in Ns
  BY <1>3, <1>6
<1> QED
  BY <1>5, <1>7 DEF g, h

\* Granting v to n adds at most v to the sum of the budgets.
LEMMA SumGrows ==
  ASSUME NEW D, IsFiniteSet(D), NEW b \in [D -> Nat], NEW n, NEW v \in Nat,
         NEW c \in [D \cup {n} -> Nat], c[n] = v, \A i \in D \ {n} : c[i] = b[i]
  PROVE  /\ IsFiniteSet(D \cup {n}) /\ SumFunction(c) \in Nat
         /\ SumFunction(b) \in Nat /\ SumFunction(c) <= SumFunction(b) + v
<1> DEFINE E == D \cup {n}
           R == D \ {n}
<1>1. IsFiniteSet(E) /\ IsFiniteSet(R)
  BY FS_AddElement, FS_RemoveElement
<1>2. DOMAIN c = E /\ DOMAIN b = D /\ c \in [E -> Nat]
  OBVIOUS
<1>3. SumFunction(c) = Sums(c, E)[E] /\ SumFunction(b) = Sums(b, D)[D]
  BY <1>2, SumIs DEF SumFunction
<1>4. R \in SUBSET (E \cap R) /\ R \in SUBSET (D \cap R) /\ E \ {n} = R /\ R \in SUBSET D
  OBVIOUS
<1>5. \A x \in E \cap R : c[x] = b[x]
  OBVIOUS
<1> HIDE DEF E, R
<1>6. Sums(c, E)[R] = Sums(b, R)[R]
  BY <1>1, <1>4, <1>5, SumsAgree
<1>7. Sums(b, D)[R] = Sums(b, R)[R]
  BY <1>1, <1>4, SumsAgree
<1>8. /\ Sums(c, E)[E] \in Nat /\ Sums(c, E)[E] = v + Sums(c, E)[R]
      /\ Sums(b, D)[D] \in Nat /\ Sums(b, D)[R] \in Nat
  <2>1. E \in SUBSET E /\ n \in E /\ D \in SUBSET D
    BY DEF E
  <2>2. Sums(c, E)[E] \in Nat /\ Sums(c, E)[E] = c[n] + Sums(c, E)[E \ {n}]
    <3>1. c \in [E -> Nat] /\ IsFiniteSet(E)
      BY <1>1, <1>2
    <3>2. \A s \in SUBSET E : /\ Sums(c, E)[s] \in Nat
                              /\ \A x \in s : Sums(c, E)[s] = c[x] + Sums(c, E)[s \ {x}]
      BY <3>1, SumsSplit
    <3> QED
      BY <2>1, <3>2
  <2>3. Sums(b, D)[D] \in Nat /\ Sums(b, D)[R] \in Nat
    BY <1>4, <2>1, SumsSplit
  <2> QED
    BY <1>2, <1>4, <2>2, <2>3
<1>9. Sums(b, D)[R] <= Sums(b, D)[D]
  <2>1. CASE n \in D
    <3>1. D \in SUBSET D /\ D \ {n} = R
      BY DEF R
    <3>2. Sums(b, D)[D] = b[n] + Sums(b, D)[D \ {n}]
      BY <2>1, <3>1, SumsSplit
    <3> QED
      BY <1>8, <2>1, <3>1, <3>2
  <2>2. CASE n \notin D
    BY <1>8, <2>2 DEF R
  <2> QED
    BY <2>1, <2>2
<1>10. IsFiniteSet(D \cup {n})
  BY <1>1 DEF E
<1> QED
  BY <1>3, <1>6, <1>7, <1>8, <1>9, <1>10

\* Taking n out of the budgets takes nothing else from their sum.
LEMMA SumShrinks ==
  ASSUME NEW D, IsFiniteSet(D), NEW b \in [D -> Nat], NEW n,
         NEW c, c = [i \in D \ {n} |-> b[i]]
  PROVE  /\ IsFiniteSet(D \ {n}) /\ SumFunction(c) \in Nat
         /\ SumFunction(b) \in Nat /\ SumFunction(c) <= SumFunction(b)
<1> DEFINE R == D \ {n}
<1>1. IsFiniteSet(R)
  BY FS_RemoveElement
<1>2. DOMAIN c = R /\ DOMAIN b = D /\ \A x \in D \cap R : b[x] = c[x]
  OBVIOUS
<1>3. SumFunction(c) = Sums(c, R)[R] /\ SumFunction(b) = Sums(b, D)[D]
  BY <1>2, SumIs DEF SumFunction
<1>4. R \in SUBSET (D \cap R) /\ R \in SUBSET D /\ D \in SUBSET D
  OBVIOUS
<1>5. Sums(b, D)[R] = Sums(c, R)[R]
  <2> HIDE DEF R
  <2> QED
    BY <1>1, <1>2, <1>4, SumsAgree
<1>6. Sums(b, D)[D] \in Nat /\ Sums(b, D)[R] \in Nat
  BY <1>4, SumsSplit
<1>7. Sums(b, D)[R] <= Sums(b, D)[D]
  <2>1. CASE n \in D
    <3>1. Sums(b, D)[D] = b[n] + Sums(b, D)[R]
      BY <2>1, SumsSplit
    <3> QED
      BY <1>6, <2>1, <3>1
  <2>2. CASE n \notin D
    BY <1>6, <2>2
  <2> QED
    BY <2>1, <2>2
<1> QED
  BY <1>1, <1>3, <1>5, <1>6, <1>7

\* budgets_: the grants are numbers, and their sum is within what some reading of
\* the memory allowed.
GrantInv ==
    /\ IsFiniteSet(DOMAIN budgets) /\ budgets \in [DOMAIN budgets -> Nat]
    /\ GrantsWithinMemory

LEMMA InitGrant == Init => GrantInv
<1> SUFFICES ASSUME Init PROVE GrantInv
  OBVIOUS
<1> DEFINE none == [n \in {} |-> 0]
<1>1. budgets = none /\ reading \in Readings
  BY DEF Init
<1>2. DOMAIN none = {} /\ none \in [{} -> Nat] /\ IsFiniteSet({})
  BY FS_EmptySet
<1>3. SumFunction(none) = 0
  <2>1. SumFunction(none) = Sums(none, {})[{}]
    BY <1>2, SumIs DEF SumFunction
  <2> QED
    BY <1>2, <2>1, SumsOf
<1> HIDE DEF none
<1>4. Budgeted = 0
  BY <1>1, <1>3 DEF Budgeted
<1>5. reading.grant \in Nat
  BY <1>1, SchedulerAssumption
<1> QED
  BY <1>1, <1>2, <1>4, <1>5 DEF GrantInv, GrantsWithinMemory

LEMMA StepGrant == ControlTypes /\ GrantInv /\ [Next]_vars => GrantInv'
<1> SUFFICES ASSUME ControlTypes, GrantInv, [Next]_vars PROVE GrantInv'
  OBVIOUS
<1>a. IsFiniteSet(DOMAIN budgets) /\ budgets \in [DOMAIN budgets -> Nat]
  BY DEF GrantInv
<1>b. PICK r \in Readings : Budgeted <= r.grant
  BY DEF GrantInv, GrantsWithinMemory
<1>c. r.grant \in Nat /\ reading \in Readings /\ reading.grant \in Nat
  BY SchedulerAssumption DEF ControlTypes
<1>1. CASE UNCHANGED budgets
  BY <1>1 DEF GrantInv, GrantsWithinMemory, Budgeted
<1>2. ASSUME NEW t \in Tasks, AcquireLock(t) PROVE GrantInv'
  <2> DEFINE n == number[t]
             v == Granted(Cost[t])
             D == DOMAIN budgets
  <2>1. budgets' = [i \in D \cup {n} |-> IF i = n THEN v ELSE budgets[i]]
    BY <1>2 DEF AcquireLock, RequestBudget
  <2>2. Budgeted \in Nat
    <3>1. SumFunction(budgets) = Sums(budgets, D)[D]
      BY SumIs DEF SumFunction
    <3>2. D \in SUBSET D
      OBVIOUS
    <3> QED
      BY <1>a, <3>1, <3>2, SumsSplit DEF Budgeted
  <2>3. v \in Nat /\ (v = 0 \/ Budgeted + v <= reading.grant)
    BY <1>c, <2>2, SchedulerAssumption DEF Granted
  <2>a. IsFiniteSet(D) /\ budgets \in [D -> Nat]
    BY <1>a
  <2> HIDE DEF n, v, D
  <2>4. /\ IsFiniteSet(D \cup {n}) /\ SumFunction(budgets') \in Nat
        /\ SumFunction(budgets') <= SumFunction(budgets) + v
    <3>1. /\ budgets' \in [D \cup {n} -> Nat] /\ budgets'[n] = v
          /\ \A i \in D \ {n} : budgets'[i] = budgets[i]
      BY <2>a, <2>1, <2>3
    <3> QED
      BY <2>a, <2>3, <3>1, SumGrows
  <2>5. DOMAIN budgets' = D \cup {n} /\ budgets' \in [D \cup {n} -> Nat]
    BY <2>a, <2>1, <2>3
  <2>6. Budgeted' = SumFunction(budgets') /\ Budgeted = SumFunction(budgets)
    BY DEF Budgeted
  <2>7. Budgeted' <= r.grant \/ Budgeted' <= reading.grant
    BY <1>b, <1>c, <2>2, <2>3, <2>4, <2>6
  <2>8. GrantsWithinMemory'
    BY <1>b, <1>c, <2>7 DEF GrantsWithinMemory
  <2> QED
    BY <2>4, <2>5, <2>8 DEF GrantInv
<1>3. ASSUME NEW t \in Tasks, Release(t) PROVE GrantInv'
  <2> DEFINE n == number[t]
             D == DOMAIN budgets
  <2>1. budgets' = [i \in D \ {n} |-> budgets[i]]
    BY <1>3 DEF Release, ReleaseBudget, Restrict
  <2> HIDE DEF n
  <2>2. /\ IsFiniteSet(D \ {n}) /\ SumFunction(budgets') \in Nat
        /\ SumFunction(budgets) \in Nat /\ SumFunction(budgets') <= SumFunction(budgets)
    BY <1>a, <2>1, SumShrinks
  <2>3. DOMAIN budgets' = D \ {n} /\ budgets' \in [D \ {n} -> Nat]
    BY <1>a, <2>1
  <2>4. Budgeted' = SumFunction(budgets') /\ Budgeted = SumFunction(budgets)
    BY DEF Budgeted
  <2>5. Budgeted' <= r.grant
    BY <1>b, <1>c, <2>2, <2>4
  <2>6. GrantsWithinMemory'
    BY <2>5 DEF GrantsWithinMemory
  <2> QED
    BY <2>2, <2>3, <2>6 DEF GrantInv
<1> QED
  BY <1>1, <1>2, <1>3
  DEF Next, WorkerStep, ScheduleTask, Park, Start, GiveUp, LoadFails, InjectThrows, LockTimesOut,
      RenderAnswers,
      RenderCopies, RenderThrows, TryFlush, Unlock, End, Deliver, Catch, AttachSink,
      DestroySink,
      MemoryChanges, vars, memoryVars


--------------------------------------------------------------------------------
Inv == ControlTypes /\ PlaceInv /\ SinkTypes /\ AnswerInv /\ LockInv /\ SinkInv /\ ParamInv
       /\ NumberInv /\ BudgetInv /\ DOMAIN budgets \subseteq Nat /\ GrantInv

\* What holds whatever the schedulers and the timeouts are, and the rest uses.
THEOREM Invariance == Spec => []Inv
<1>1. Init => Inv
  BY InitControl, InitPlace, InitSink, InitAnswer, InitLock, InitSinkInv, InitParam, InitNumber,
     InitBudget, InitBudgetNumbers, InitGrant DEF Inv
<1>2. Inv /\ [Next]_vars => Inv'
  BY StepControl, StepPlace, StepSink, StepAnswer, StepLock, StepSinkInv, StepParam, StepNumber,
     StepBudget, StepBudgetNumbers, StepGrant DEF Inv
<1> QED
  BY <1>1, <1>2, PTL DEF Spec

\* From Submit to its answer a task is somewhere, once, and it is answered before it is done.
THEOREM TasksAreAccounted == Spec => []TasksAccounted
<1>1. Inv => TasksAccounted
  <2> SUFFICES ASSUME Inv PROVE TasksAccounted
    OBVIOUS
  <2>1. TypeOK
    BY DEF Inv, ControlTypes, SinkTypes, AnswerInv, PlaceInv, ListTypes, GrantInv, TypeOK
  <2>2. EachTaskOnce /\ EndsAnswered
    BY PlacesCounted DEF Inv, AnswerInv, EndsAnswered
  <2> QED
    BY <2>1, <2>2 DEF TasksAccounted
<1> QED
  BY <1>1, Invariance, PTL

\* Whatever asked for memory together, and whatever the readings were in between,
\* the grants under way add up to no more than some reading of the memory.
THEOREM GrantsAreCovered == Spec => []GrantsWithinMemory
<1>1. Inv => GrantsWithinMemory
  BY DEF Inv, GrantInv
<1> QED
  BY <1>1, Invariance, PTL

\* No thumbnail and no export shows in the editor that shares its executor, none
\* of their parameters stay behind, and no sink is missing or dangling but those
\* of a throw under the lock and of an editor that gave up its wait for it.
THEOREM SinksAndParamsHold == Spec => []SinksAndParams
<1>1. Inv => SinksAndParams
  BY SinksAndParamsKept DEF Inv
<1> QED
  BY <1>1, Invariance, PTL

\* However many schedulers share the manager, a budget is that of a render under
\* way, and two renders have the same one only in two schedulers.
THEOREM BudgetsAreOfRenders == Spec => []BudgetsOfRenders
<1>1. Inv => BudgetsOfRenders
  BY DEF Inv, BudgetInv, NumberInv, BudgetsOfRenders, RendersUnderWay
<1> QED
  BY <1>1, Invariance, PTL

================================================================================
