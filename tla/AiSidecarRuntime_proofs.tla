------------------------- MODULE AiSidecarRuntime_proofs ------------------------
(* What TLAPS proves of AiSidecarRuntime, for any users, runs and crashes.        *)
EXTENDS AiSidecarRuntime, FiniteSetTheorems, TLAPS

--------------------------------------------------------------------------------
(* The service's steps on its record.                                             *)

Fewer(n) == IF n > 0 THEN n - 1 ELSE 0

LEMMA RefreshFacts ==
  ASSUME NEW r \in Runtimes
  PROVE  /\ Refresh(r) \in Runtimes
         /\ Refresh(r).process = r.process /\ Refresh(r).leases = r.leases
         /\ Refresh(r).info = r.info /\ Refresh(r).require = r.require
         /\ Refresh(r).cancel = r.cancel
         /\ r.process # "none" \/ r.state \in {"stopped", "failed"} => Refresh(r) = r
         /\ Refresh(r).state \in {"ready", "starting", "stopping"} => r.process # "none"
         /\ Refresh(r).state \in {r.state, "failed"}
  BY DEF Refresh, Runtimes, States

LEMMA TerminatedFacts ==
  ASSUME NEW r \in Runtimes, NEW s \in States
  PROVE  /\ Terminated(r, s) \in Runtimes
         /\ Terminated(r, s).process = "none" /\ Terminated(r, s).leases = r.leases
         /\ Terminated(r, s).state = s /\ Terminated(r, s).cancel = r.cancel
  BY DEF Terminated, Runtimes, Processes

LEMMA StoppedFacts ==
  ASSUME NEW r \in Runtimes
  PROVE  /\ Stopped(r) \in Runtimes /\ Stopped(r).process = "none"
         /\ Stopped(r).leases = r.leases /\ Stopped(r).state = "stopped"
         /\ Stopped(r).cancel = r.cancel
  BY RefreshFacts, TerminatedFacts DEF Stopped, States

LEMMA ReleasedFacts ==
  ASSUME NEW r \in Runtimes
  PROVE  /\ Released(r) \in Runtimes /\ Released(r).leases = Fewer(r.leases)
         /\ Released(r).cancel = r.cancel
         /\ Fewer(r.leases) = 0 => Released(r).process = "none"
         /\ Fewer(r.leases) = 0 /\ (r.process # "none" \/ r.state = "stopped") =>
               Released(r).state = "stopped"
         /\ Fewer(r.leases) # 0 =>
               /\ Released(r).process = r.process /\ Released(r).state = r.state
               /\ Released(r).info = r.info /\ Released(r).require = r.require
<1> DEFINE left == [r EXCEPT !.leases = IF @ > 0 THEN @ - 1 ELSE 0]
<1>1. /\ left \in Runtimes /\ left.leases = Fewer(r.leases) /\ left.process = r.process
      /\ left.state = r.state /\ left.info = r.info /\ left.require = r.require
      /\ left.cancel = r.cancel
  BY DEF Runtimes, Fewer
<1>2. Released(r) = IF left.leases > 0 THEN left
                    ELSE IF left.process # "none" THEN Stopped(left) ELSE Refresh(left)
  BY DEF Released
<1>3. left.leases \in Nat
  BY <1>1 DEF Runtimes
<1> HIDE DEF left
<1> QED
  BY <1>1, <1>2, <1>3, RefreshFacts, StoppedFacts

LEMMA AcquiredFacts ==
  ASSUME NEW r \in Runtimes
  PROVE  /\ Acquired(r) \in Runtimes /\ Acquired(r).leases = r.leases + 1
         /\ Acquired(r).process = r.process /\ Acquired(r).state = r.state
         /\ Acquired(r).info = r.info /\ Acquired(r).require = r.require
         /\ Acquired(r).cancel = r.cancel
  BY DEF Acquired, Runtimes

\* What a new process is started with.
Fresh(u, r) == [r EXCEPT !.info = FALSE, !.client = FALSE, !.require = u \in NeedsModel]
Booting(u, r) == [Fresh(u, r) EXCEPT !.process = "booting", !.state = "starting", !.client = TRUE]
Stricter(u, r) == [r EXCEPT !.require = @ \/ (u \in NeedsModel /\ ~r.info)]
Cleared(u, r) == Refresh([r EXCEPT !.cancel = IF u \in Quiet THEN @ ELSE FALSE])

LEMMA FreshFacts ==
  ASSUME NEW r \in Runtimes, NEW u
  PROVE  /\ Fresh(u, r) \in Runtimes /\ Fresh(u, r).leases = r.leases
         /\ Fresh(u, r).process = r.process /\ Fresh(u, r).state = r.state
         /\ Booting(u, r) \in Runtimes /\ Booting(u, r).leases = r.leases
         /\ Booting(u, r).process = "booting" /\ Booting(u, r).state = "starting"
         /\ Booting(u, r).cancel = r.cancel /\ (u \in NeedsModel => Booting(u, r).require)
         /\ Stricter(u, r) \in Runtimes /\ Stricter(u, r).leases = r.leases
         /\ Stricter(u, r).process = r.process /\ Stricter(u, r).state = r.state
         /\ Stricter(u, r).info = r.info /\ Stricter(u, r).cancel = r.cancel
         /\ (r.require => Stricter(u, r).require)
         /\ (u \in NeedsModel => Stricter(u, r).require \/ r.info)
         /\ Cleared(u, r) \in Runtimes /\ Cleared(u, r).leases = r.leases
         /\ Cleared(u, r).process = r.process /\ Cleared(u, r).info = r.info
         /\ Cleared(u, r).require = r.require /\ (~r.cancel => ~Cleared(u, r).cancel)
         /\ Cleared(u, r).state \in {"ready", "starting", "stopping"} => r.process # "none"
         /\ Cleared(u, r).state \in {r.state, "failed"}
         /\ r.process # "none" \/ r.state \in {"stopped", "failed"} => Cleared(u, r).state = r.state
<1>1. /\ Fresh(u, r) \in Runtimes /\ Fresh(u, r).leases = r.leases
      /\ Fresh(u, r).process = r.process /\ Fresh(u, r).state = r.state
      /\ Fresh(u, r).cancel = r.cancel /\ (u \in NeedsModel => Fresh(u, r).require)
  <2> DEFINE b == u \in NeedsModel
  <2>1. b \in BOOLEAN /\ (u \in NeedsModel => b)
    OBVIOUS
  <2>2. Fresh(u, r) = [r EXCEPT !.info = FALSE, !.client = FALSE, !.require = b]
    BY DEF Fresh
  <2> HIDE DEF b
  <2> QED
    BY <2>1, <2>2 DEF Runtimes
<1>2. /\ Booting(u, r) \in Runtimes /\ Booting(u, r).leases = r.leases
      /\ Booting(u, r).process = "booting" /\ Booting(u, r).state = "starting"
      /\ Booting(u, r).cancel = r.cancel /\ (u \in NeedsModel => Booting(u, r).require)
  <2> DEFINE f == Fresh(u, r)
  <2>1. Booting(u, r) = [f EXCEPT !.process = "booting", !.state = "starting", !.client = TRUE]
    BY DEF Booting
  <2> HIDE DEF f
  <2> QED
    BY <2>1, <1>1 DEF Runtimes, Processes, States, f
<1>3. /\ Stricter(u, r) \in Runtimes /\ Stricter(u, r).leases = r.leases
      /\ Stricter(u, r).process = r.process /\ Stricter(u, r).state = r.state
      /\ Stricter(u, r).info = r.info /\ Stricter(u, r).cancel = r.cancel
      /\ (r.require => Stricter(u, r).require)
      /\ (u \in NeedsModel => Stricter(u, r).require \/ r.info)
  BY DEF Stricter, Runtimes
<1>4. /\ Cleared(u, r) \in Runtimes /\ Cleared(u, r).leases = r.leases
      /\ Cleared(u, r).process = r.process /\ Cleared(u, r).info = r.info
      /\ Cleared(u, r).require = r.require /\ (~r.cancel => ~Cleared(u, r).cancel)
      /\ Cleared(u, r).state \in {"ready", "starting", "stopping"} => r.process # "none"
      /\ Cleared(u, r).state \in {r.state, "failed"}
      /\ r.process # "none" \/ r.state \in {"stopped", "failed"} => Cleared(u, r).state = r.state
  <2> DEFINE c == [r EXCEPT !.cancel = IF u \in Quiet THEN @ ELSE FALSE]
  <2>1. /\ c \in Runtimes /\ c.leases = r.leases /\ c.process = r.process /\ c.info = r.info
        /\ c.require = r.require /\ (~r.cancel => ~c.cancel) /\ c.state = r.state
    BY DEF Runtimes
  <2>2. Cleared(u, r) = Refresh(c)
    BY DEF Cleared
  <2> HIDE DEF c
  <2> QED
    BY <2>1, <2>2, RefreshFacts
<1> QED
  BY <1>1, <1>2, <1>3, <1>4


--------------------------------------------------------------------------------
(* What the service's calls come to.                                              *)

\* A start made for u when the service's record is r.
Started(u, r) ==
    LET c == Cleared(u, r) IN
    /\ canceled' = canceled \ {u}
    /\ \/ /\ c.process # "none" /\ Ready(c, u) /\ UNCHANGED <<boots, disturbed>>
          /\ Go(u, IF u \in Workers THEN "verifying" ELSE "working", c)
       \/ /\ c.process # "none" /\ UNCHANGED disturbed
          /\ Wait(u, Stricter(u, c), FALSE)
       \/ /\ c.process = "none" /\ UNCHANGED disturbed
          /\ Wait(u, Booting(u, c), TRUE)
       \/ /\ c.process = "none" /\ UNCHANGED boots /\ disturbed' = TRUE
          /\ IF u \in Workers THEN Go(u, "quitting", Terminated(Fresh(u, c), "failed"))
             ELSE Go(u, "failed", Released(Terminated(Fresh(u, c), "failed")))

LEMMA StartEffect ==
  ASSUME NEW u \in Users, NEW r \in Runtimes, Start(u, r)
  PROVE  Started(u, r)
<1> DEFINE c == Cleared(u, r)
<1>1. c \in Runtimes
  BY FreshFacts
<1>2. /\ canceled' = canceled \ {u}
      /\ IF c.process # "none" THEN Join(u, c) ELSE Launch(u, c)
  BY DEF Start, Cleared
<1>3. c.process # "none" => Refresh(c) = c
  BY <1>1, RefreshFacts
<1> HIDE DEF c
<1>4. CASE c.process # "none"
  <2>1. Ready(c, u) => Go(u, IF u \in Workers THEN "verifying" ELSE "working", c) /\ UNCHANGED <<boots, disturbed>>
    BY <1>2, <1>3, <1>4 DEF Join, Succeed
  <2>2. ~Ready(c, u) => Wait(u, Stricter(u, c), FALSE) /\ UNCHANGED disturbed
    BY <1>2, <1>4 DEF Join, Stricter
  <2> QED
    BY <1>2, <1>4, <2>1, <2>2 DEF Started, c
<1>5. CASE c.process = "none"
  <2>1. \/ Wait(u, Booting(u, c), TRUE) /\ UNCHANGED disturbed
        \/ /\ Go(u, IF u \in Workers THEN "quitting" ELSE "failed",
                 IF u \in Workers THEN Terminated(Fresh(u, c), "failed")
                 ELSE Released(Terminated(Fresh(u, c), "failed")))
           /\ disturbed' = TRUE /\ UNCHANGED boots
    BY <1>2, <1>5 DEF Launch, Booting, Fresh
  <2> QED
    BY <1>2, <1>5, <2>1 DEF Started, c
<1> QED
  BY <1>4, <1>5

\* A lease for u, and a start unless the sidecar is ready.
Leased(u) ==
    LET held == Refresh(Acquired(runtime)) IN
    \/ Ready(held, u) /\ Go(u, "working", held) /\ UNCHANGED <<boots, canceled, disturbed>>
    \/ Started(u, held)

LEMMA LeaseEffect ==
  ASSUME NEW u \in Users, runtime \in Runtimes, LeaseAndStart(u)
  PROVE  Leased(u)
<1>1. Refresh(Acquired(runtime)) \in Runtimes
  BY AcquiredFacts, RefreshFacts
<1> QED
  BY <1>1, StartEffect DEF LeaseAndStart, Leased

--------------------------------------------------------------------------------
(* Types.                                                                         *)

LEMMA InitType == Init => TypeOK
<1> SUFFICES ASSUME Init PROVE TypeOK
  OBVIOUS
<1>1. runtime \in Runtimes
  BY DEF Init, Runtimes, Processes, States
<1>2. boots \in Seq(Boots) /\ late \in 0..Len(boots)
  BY DEF Init
<1>3. phase \in [Users -> Phases] /\ runs \in [Users -> 0..MaxRuns] /\ crashes \in 0..MaxCrashes
  BY BoundsAssumption DEF Init, Phases
<1> QED
  BY <1>1, <1>2, <1>3 DEF Init, TypeOK

\* A start that begins to wait is the innermost.
LEMMA WaitTypes ==
  ASSUME TypeOK, NEW u \in Users, NEW r \in Runtimes, NEW o \in BOOLEAN, Wait(u, r, o)
  PROVE  /\ boots' \in Seq(Boots) /\ Len(boots') = Len(boots) + 1
         /\ boots'[1] = [user |-> u, owner |-> o]
         /\ \A i \in 1..Len(boots) : boots'[i + 1] = boots[i]
         /\ runtime' = r /\ phase' = [phase EXCEPT ![u] = "booting"]
<1> DEFINE b == [user |-> u, owner |-> o]
<1>1. b \in Boots
  BY DEF Boots
<1>2. boots \in Seq(Boots)
  BY DEF TypeOK
<1>3. boots' = <<b>> \o boots
  BY DEF Wait
<1> HIDE DEF b
<1>4. /\ <<b>> \o boots \in Seq(Boots) /\ Len(<<b>> \o boots) = Len(boots) + 1
      /\ (<<b>> \o boots)[1] = b
      /\ \A i \in 1..Len(boots) : (<<b>> \o boots)[i + 1] = boots[i]
  BY <1>1, <1>2
<1> QED
  BY <1>3, <1>4 DEF Wait, Go, b

\* A start that ends was the innermost.
LEMMA ReturnTypes ==
  ASSUME TypeOK, boots # <<>>, Return
  PROVE  /\ boots' \in Seq(Boots) /\ Len(boots') = Len(boots) - 1 /\ Len(boots) \in Nat \ {0}
         /\ \A i \in 1..Len(boots') : i + 1 \in 1..Len(boots) /\ boots'[i] = boots[i + 1]
         /\ late' \in 0..Len(boots') /\ late' \in {late, late - 1}
         /\ Head(boots) = boots[1] /\ 1 \in 1..Len(boots)
         /\ Head(boots).user \in Users /\ Head(boots).owner \in BOOLEAN
<1>1. boots \in Seq(Boots) /\ late \in 0..Len(boots) /\ boots' = Tail(boots)
      /\ late' = IF late < Len(boots) THEN late ELSE late - 1
  BY DEF TypeOK, Return
<1>2. /\ Tail(boots) \in Seq(Boots) /\ Len(Tail(boots)) = Len(boots) - 1
      /\ Len(boots) \in Nat \ {0}
      /\ \A i \in 1..Len(Tail(boots)) : i + 1 \in 1..Len(boots) /\ Tail(boots)[i] = boots[i + 1]
      /\ Head(boots) = boots[1] /\ 1 \in 1..Len(boots) /\ Head(boots) \in Boots
  BY <1>1
<1>3. late' \in 0..Len(boots') /\ late' \in {late, late - 1}
  BY <1>1, <1>2
<1> QED
  BY <1>1, <1>2, <1>3 DEF Boots

\* What a start does to the types.
LEMMA StartedTypes ==
  ASSUME TypeOK, NEW u \in Users, NEW r \in Runtimes, Started(u, r), UNCHANGED late
  PROVE  /\ runtime' \in Runtimes /\ boots' \in Seq(Boots) /\ late' \in 0..Len(boots')
         /\ phase' \in [Users -> Phases] /\ canceled' \subseteq Cancelable
         /\ disturbed' \in BOOLEAN
<1> DEFINE c == Cleared(u, r)
<1>1. /\ c \in Runtimes /\ Fresh(u, c) \in Runtimes /\ Booting(u, c) \in Runtimes
      /\ Stricter(u, c) \in Runtimes
  BY FreshFacts
<1>2. /\ Terminated(Fresh(u, c), "failed") \in Runtimes
      /\ Released(Terminated(Fresh(u, c), "failed")) \in Runtimes
  BY <1>1, TerminatedFacts, ReleasedFacts DEF States
<1>3. canceled' \subseteq Cancelable /\ disturbed' \in BOOLEAN
  BY DEF Started, TypeOK
<1>4. \A to \in Phases : [phase EXCEPT ![u] = to] \in [Users -> Phases]
  BY DEF TypeOK
<1>5. {"verifying", "working", "booting", "quitting", "failed"} \subseteq Phases
  BY DEF Phases, Ended
<1>6. boots \in Seq(Boots) /\ late \in 0..Len(boots) /\ Len(boots) \in Nat
  BY DEF TypeOK
<1>7. ASSUME NEW q \in Runtimes, NEW o \in BOOLEAN, Wait(u, q, o)
      PROVE  /\ runtime' \in Runtimes /\ boots' \in Seq(Boots) /\ late' \in 0..Len(boots')
             /\ phase' \in [Users -> Phases]
  <2>1. /\ boots' \in Seq(Boots) /\ Len(boots') = Len(boots) + 1
        /\ runtime' = q /\ phase' = [phase EXCEPT ![u] = "booting"]
    BY <1>7, WaitTypes
  <2>2. late' \in 0..Len(boots')
    BY <2>1, <1>6
  <2> QED
    BY <2>1, <2>2, <1>4, <1>5
<1>8. ASSUME NEW q \in Runtimes, NEW to \in Phases, Go(u, to, q), UNCHANGED boots
      PROVE  /\ runtime' \in Runtimes /\ boots' \in Seq(Boots) /\ late' \in 0..Len(boots')
             /\ phase' \in [Users -> Phases]
  BY <1>4, <1>6, <1>8 DEF Go
<1> HIDE DEF c
<1>9. \/ \E q \in Runtimes, o \in BOOLEAN : Wait(u, q, o)
      \/ \E q \in Runtimes, to \in Phases : Go(u, to, q) /\ UNCHANGED boots
  BY <1>1, <1>2, <1>5 DEF Started, c
<1> QED
  BY <1>3, <1>7, <1>8, <1>9

LEMMA GoneTypes ==
  ASSUME TypeOK, NEW u \in Users, NEW r \in Runtimes, GiveUp(u, r) \/ Succeed(u, r)
  PROVE  runtime' \in Runtimes /\ phase' \in [Users -> Phases]
<1>1. Refresh(r) \in Runtimes /\ Released(r) \in Runtimes /\ Released(Refresh(r)) \in Runtimes
  BY RefreshFacts, ReleasedFacts
<1>2. {"verifying", "working", "quitting", "canceled", "failed"} \subseteq Phases
  BY DEF Phases, Ended
<1>3. \E q \in Runtimes, to \in Phases : Go(u, to, q)
  BY <1>1, <1>2 DEF GiveUp, Succeed
<1> QED
  BY <1>3 DEF Go, TypeOK

LEMMA StepType == TypeOK /\ [Next]_vars => TypeOK'
<1> SUFFICES ASSUME TypeOK, [Next]_vars PROVE TypeOK'
  OBVIOUS
<1>a. runtime \in Runtimes /\ Refresh(runtime) \in Runtimes /\ Acquired(runtime) \in Runtimes
      /\ Refresh(Acquired(runtime)) \in Runtimes /\ Released(runtime) \in Runtimes
  BY RefreshFacts, AcquiredFacts, ReleasedFacts DEF TypeOK
\* A user's step that only moves it and changes the service.
<1>b. ASSUME NEW u \in Users, NEW to \in Phases, NEW r \in Runtimes, Go(u, to, r),
             UNCHANGED <<boots, late, canceled, crashes, closed, disturbed>>,
             runs' \in [Users -> 0..MaxRuns], harmed' \subseteq Users
      PROVE  TypeOK'
  BY <1>b DEF Go, TypeOK
\* Another start of one's own.
<1>c. ASSUME NEW u \in Users, Leased(u) \/ Started(u, runtime),
             UNCHANGED <<late, crashes, closed, harmed>>,
             runs' \in [Users -> 0..MaxRuns]
      PROVE  TypeOK'
  <2>1. CASE \E r \in Runtimes : Started(u, r)
    BY <2>1, <1>c, StartedTypes DEF TypeOK
  <2>2. CASE /\ Go(u, "working", Refresh(Acquired(runtime)))
             /\ UNCHANGED <<boots, canceled, disturbed>>
    BY <2>2, <1>a, <1>b, <1>c DEF Phases, TypeOK
  <2> QED
    BY <1>a, <1>c, <2>1, <2>2 DEF Leased
<1>d. ASSUME NEW u \in Users, MayBegin(u)
      PROVE  [runs EXCEPT ![u] = @ + 1] \in [Users -> 0..MaxRuns]
  BY <1>d, BoundsAssumption DEF MayBegin, TypeOK
\* A start that ends.
<1>e. ASSUME boots # <<>>, NEW r \in Runtimes,
             GiveUp(Head(boots).user, r) \/ Succeed(Head(boots).user, r), Return,
             UNCHANGED <<canceled, runs, crashes, closed, disturbed>>, harmed' \subseteq Users
      PROVE  TypeOK'
  BY <1>e, GoneTypes, ReturnTypes DEF TypeOK
<1>f. Working \subseteq Users /\ Holders \subseteq Users /\ harmed \subseteq Users
      /\ runs \in [Users -> 0..MaxRuns]
  BY DEF Working, Holders, TypeOK
<1>g. {"idle", "delayed", "checking", "starting", "booting", "verifying",
       "quitting", "working", "succeeded", "canceled", "failed"} = Phases
  BY DEF Phases, Ended
<1>1. ASSUME NEW u \in Users, BeginHere(u) PROVE TypeOK'
  BY <1>1, <1>c, <1>d, <1>f, LeaseEffect DEF BeginHere, TypeOK
<1>2. ASSUME NEW u \in Users, BeginLater(u) PROVE TypeOK'
  BY <1>2, <1>a, <1>b, <1>d, <1>f, <1>g DEF BeginLater
<1>3. ASSUME NEW u \in Users, BeginOnWorker(u) PROVE TypeOK'
  BY <1>3, <1>a, <1>b, <1>d, <1>f, <1>g DEF BeginOnWorker
<1>4. ASSUME NEW u \in Users, Continue(u) PROVE TypeOK'
  <2>1. CASE closed
    BY <2>1, <1>4, <1>a, <1>b, <1>f, <1>g DEF Continue
  <2>2. CASE ~closed
    BY <2>2, <1>4, <1>c, <1>f, LeaseEffect DEF Continue, TypeOK
  <2> QED
    BY <2>1, <2>2
<1>5. ASSUME NEW u \in Users, Check(u) PROVE TypeOK'
  BY <1>5, <1>a, <1>b, <1>f, <1>g DEF Check
<1>6. ASSUME NEW u \in Users, StartForWorker(u) PROVE TypeOK'
  BY <1>6, <1>a, <1>c, <1>f, StartEffect DEF StartForWorker
<1>7. ASSUME NEW u \in Users, Verify(u) PROVE TypeOK'
  BY <1>7, <1>a, <1>b, <1>f, <1>g DEF Verify
<1>8. ASSUME NEW u \in Users, Quit(u) PROVE TypeOK'
  BY <1>8, <1>a, <1>b, <1>f, <1>g DEF Quit
<1>9. ASSUME NEW u \in Users, Finish(u) PROVE TypeOK'
  BY <1>9, <1>a, <1>b, <1>f, <1>g DEF Finish
<1>10. ASSUME NEW u \in Users, Cancel(u) PROVE TypeOK'
  <2>1. [runtime EXCEPT !.cancel = TRUE] \in Runtimes
    BY <1>a DEF Runtimes
  <2> QED
    BY <1>10, <2>1 DEF Cancel, TypeOK
<1>11. ASSUME Close PROVE TypeOK'
  <2>1. [runtime EXCEPT !.leases = 0] \in Runtimes
    BY <1>a DEF Runtimes
  <2>2. runtime' \in Runtimes
    BY <1>11, <2>1, StoppedFacts DEF Close
  <2> QED
    BY <1>11, <1>f, <2>2 DEF Close, TypeOK
<1>12. ASSUME TimedOut PROVE TypeOK'
  <2>1. Terminated(runtime, "failed") \in Runtimes
    BY <1>a, TerminatedFacts DEF States
  <2>2. harmed' \subseteq Users /\ boots # <<>>
    BY <1>12, <1>f DEF TimedOut, Overdue
  <2>3. \E r \in Runtimes : GiveUp(Head(boots).user, r)
    BY <1>12, <1>a, <2>1 DEF TimedOut
  <2> QED
    BY <1>12, <1>e, <2>2, <2>3 DEF TimedOut
<1>13. ASSUME PollFailed PROVE TypeOK'
  <2>1. boots # <<>>
    BY <1>13 DEF PollFailed, InTime
  <2> QED
    BY <1>13, <1>a, <1>e, <1>f, <2>1 DEF PollFailed
<1>14. ASSUME PollReady PROVE TypeOK'
  <2>1. boots # <<>>
    BY <1>14 DEF PollReady, InTime
  <2> DEFINE r == Refresh(runtime)
             q == [r EXCEPT !.state = "ready", !.info = @ \/ r.process = "modelled"]
  <2>2. q \in Runtimes
    <3>1. r \in Runtimes
      BY <1>a
    <3> HIDE DEF r
    <3> QED
      BY <3>1 DEF Runtimes, States
  <2>3. /\ Succeed(Head(boots).user, q) /\ Return
        /\ UNCHANGED <<canceled, runs, crashes, closed, harmed, disturbed>>
    BY <1>14 DEF PollReady
  <2> HIDE DEF q
  <2> QED
    BY <1>e, <1>f, <2>1, <2>2, <2>3
<1>15. ASSUME PollCanceled PROVE TypeOK'
  <2>1. boots # <<>>
    BY <1>15 DEF PollCanceled, InTime
  <2>2. Terminated(Refresh(runtime), "stopped") \in Runtimes
    BY <1>a, TerminatedFacts DEF States
  <2>3. harmed' \subseteq Users
    BY <1>15, <1>f DEF PollCanceled
  <2> QED
    BY <1>15, <1>e, <2>1, <2>2, <2>3 DEF PollCanceled
<1>16. ASSUME Expire PROVE TypeOK'
  <2>1. Len(boots) \in Nat /\ late \in 0..Len(boots)
    BY DEF TypeOK
  <2> QED
    BY <1>16, <2>1 DEF Expire, TypeOK
<1>17. ASSUME Serve PROVE TypeOK'
  <2>1. [runtime EXCEPT !.process = "serving"] \in Runtimes
    BY <1>a DEF Runtimes, Processes
  <2> QED
    BY <1>17, <2>1 DEF Serve, TypeOK
<1>18. ASSUME LoadModel PROVE TypeOK'
  <2>1. [runtime EXCEPT !.process = "modelled"] \in Runtimes
    BY <1>a DEF Runtimes, Processes
  <2> QED
    BY <1>18, <2>1 DEF LoadModel, TypeOK
<1>19. ASSUME Crash PROVE TypeOK'
  <2>1. [runtime EXCEPT !.process = "none"] \in Runtimes
    BY <1>a DEF Runtimes, Processes
  <2> QED
    BY <1>19, <1>f, <2>1, BoundsAssumption DEF Crash, TypeOK
<1>20. CASE UNCHANGED vars
  BY <1>20 DEF vars, TypeOK
<1> QED
  BY <1>1, <1>2, <1>3, <1>4, <1>5, <1>6, <1>7, <1>8, <1>9, <1>10, <1>11, <1>12, <1>13,
     <1>14, <1>15, <1>16, <1>17, <1>18, <1>19, <1>20 DEF Next, Event, Poll

--------------------------------------------------------------------------------
(* An action property: what a run begins to work on.                              *)

WorkStep ==
    \A u \in Users :
       phase[u] # "working" /\ phase'[u] = "working" =>
          /\ runtime'.state = "ready" /\ runtime'.process # "none"
          /\ u \in NeedsModel => runtime'.info

LEMMA NextWork == TypeOK /\ [Next]_vars => WorkStep
<1> SUFFICES ASSUME TypeOK, [Next]_vars PROVE WorkStep
  OBVIOUS
<1>a. /\ runtime \in Runtimes /\ Acquired(runtime) \in Runtimes
      /\ Refresh(Acquired(runtime)) \in Runtimes
  BY RefreshFacts, AcquiredFacts DEF TypeOK
<1>b. ASSUME NEW u \in Users, NEW to, NEW r, Go(u, to, r),
             to = "working" => r.process # "none" /\ Ready(r, u)
      PROVE  WorkStep
  BY <1>b DEF Go, WorkStep, TypeOK, Ready
\* What was refreshed and is ready has a process.
<1>c. ASSUME NEW r \in Runtimes, NEW u, Ready(Refresh(r), u) PROVE Refresh(r).process # "none"
  BY <1>c, RefreshFacts DEF Ready
<1>d. ASSUME NEW u \in Users, NEW r \in Runtimes, Started(u, r) PROVE WorkStep
  BY <1>b, <1>d DEF Started, Wait
<1>e. ASSUME NEW u \in Users, Leased(u) PROVE WorkStep
  BY <1>a, <1>b, <1>c, <1>d, <1>e DEF Leased
<1>f. ASSUME NEW u \in Users, NEW r, GiveUp(u, r) PROVE WorkStep
  BY <1>b, <1>f DEF GiveUp
<1>g. ASSUME boots # <<>> PROVE Head(boots).user \in Users
  <2>1. Head(boots) \in Boots
    BY <1>g DEF TypeOK
  <2> QED
    BY <2>1 DEF Boots
<1>1. ASSUME NEW u \in Users, BeginHere(u) PROVE WorkStep
  BY <1>1, <1>a, <1>e, LeaseEffect DEF BeginHere
<1>2. ASSUME NEW u \in Users, BeginLater(u) PROVE WorkStep
  BY <1>2, <1>b DEF BeginLater
<1>3. ASSUME NEW u \in Users, BeginOnWorker(u) PROVE WorkStep
  BY <1>3, <1>b DEF BeginOnWorker
<1>4. ASSUME NEW u \in Users, Continue(u) PROVE WorkStep
  <2>1. CASE closed
    BY <2>1, <1>4, <1>b DEF Continue
  <2>2. CASE ~closed
    BY <2>2, <1>4, <1>a, <1>e, LeaseEffect DEF Continue
  <2> QED
    BY <2>1, <2>2
<1>5. ASSUME NEW u \in Users, Check(u) PROVE WorkStep
  BY <1>5, <1>a, <1>b, <1>c DEF Check
<1>6. ASSUME NEW u \in Users, StartForWorker(u) PROVE WorkStep
  BY <1>6, <1>a, <1>d, StartEffect DEF StartForWorker
<1>7. ASSUME NEW u \in Users, Verify(u) PROVE WorkStep
  BY <1>7, <1>a, <1>b, <1>c DEF Verify
<1>8. ASSUME NEW u \in Users, Quit(u) PROVE WorkStep
  BY <1>8, <1>b DEF Quit
<1>9. ASSUME NEW u \in Users, Finish(u) PROVE WorkStep
  BY <1>9, <1>b DEF Finish
<1>10. ASSUME NEW u \in Users, Cancel(u) PROVE WorkStep
  BY <1>10 DEF WorkStep, Cancel
<1>11. ASSUME Close PROVE WorkStep
  BY <1>11 DEF WorkStep, Close
<1>12. ASSUME TimedOut PROVE WorkStep
  BY <1>12, <1>f, <1>g DEF InTime, Overdue, TimedOut
<1>13. ASSUME PollFailed PROVE WorkStep
  BY <1>13, <1>f, <1>g DEF InTime, Overdue, PollFailed
<1>14. ASSUME PollReady PROVE WorkStep
  <2> DEFINE r == Refresh(runtime)
             q == [r EXCEPT !.state = "ready", !.info = @ \/ r.process = "modelled"]
             u == Head(boots).user
  <2>1. r \in Runtimes
    BY <1>a, RefreshFacts
  <2>2. q \in Runtimes
    <3> HIDE DEF r
    <3> QED
      BY <2>1 DEF Runtimes, States
  <2>3. Succeed(u, q) /\ u \in Users
    BY <1>14, <1>g DEF PollReady, InTime
  <2> HIDE DEF q, u
  <2> QED
    BY <1>b, <1>c, <2>2, <2>3 DEF Succeed
<1>15. ASSUME PollCanceled PROVE WorkStep
  BY <1>15, <1>f, <1>g DEF InTime, Overdue, PollCanceled
<1>16. ASSUME Expire PROVE WorkStep
  BY <1>16 DEF WorkStep, Expire
<1>17. ASSUME Serve PROVE WorkStep
  BY <1>17 DEF WorkStep, Serve
<1>18. ASSUME LoadModel PROVE WorkStep
  BY <1>18 DEF WorkStep, LoadModel
<1>19. ASSUME Crash PROVE WorkStep
  BY <1>19 DEF WorkStep, Crash
<1>20. CASE UNCHANGED vars
  BY <1>20 DEF vars, WorkStep
<1> QED
  BY <1>1, <1>2, <1>3, <1>4, <1>5, <1>6, <1>7, <1>8, <1>9, <1>10, <1>11, <1>12, <1>13,
     <1>14, <1>15, <1>16, <1>17, <1>18, <1>19, <1>20 DEF Next, Event, Poll

--------------------------------------------------------------------------------
(* The stack of the starts.                                                       *)

BootInv ==
    \A i \in 1..Len(boots) :
        /\ phase[boots[i].user] = "booting"
        /\ \A k \in 1..Len(boots) : boots[k].user = boots[i].user => k = i

LEMMA InitBoot == Init => BootInv
  BY DEF Init, BootInv

LEMMA StepBoot == TypeOK /\ BootInv /\ [Next]_vars => BootInv'
<1> SUFFICES ASSUME TypeOK, BootInv, [Next]_vars PROVE BootInv'
  OBVIOUS
<1>a. /\ runtime \in Runtimes /\ Acquired(runtime) \in Runtimes
      /\ Refresh(Acquired(runtime)) \in Runtimes
  BY RefreshFacts, AcquiredFacts DEF TypeOK
<1>b. ASSUME NEW u \in Users, NEW to, NEW r, Go(u, to, r), phase[u] # "booting", UNCHANGED boots
      PROVE  BootInv'
  BY <1>b DEF Go, BootInv, TypeOK
<1>c. ASSUME NEW u \in Users, NEW r \in Runtimes, NEW o \in BOOLEAN, Wait(u, r, o),
             phase[u] # "booting"
      PROVE  BootInv'
  <2>1. /\ boots' \in Seq(Boots) /\ Len(boots') = Len(boots) + 1 /\ Len(boots) \in Nat
        /\ boots'[1].user = u
        /\ \A i \in 1..Len(boots) : boots'[i + 1] = boots[i]
        /\ phase' = [phase EXCEPT ![u] = "booting"]
    <3>1. /\ boots' \in Seq(Boots) /\ Len(boots') = Len(boots) + 1
          /\ boots'[1] = [user |-> u, owner |-> o]
          /\ \A i \in 1..Len(boots) : boots'[i + 1] = boots[i]
          /\ phase' = [phase EXCEPT ![u] = "booting"]
      BY <1>c, WaitTypes
    <3>2. [user |-> u, owner |-> o].user = u
      OBVIOUS
    <3>3. boots \in Seq(Boots)
      BY DEF TypeOK
    <3>4. Len(boots) \in Nat
      BY <3>3
    <3> QED
      BY <3>1, <3>2, <3>4
  <2>2. \A i \in 1..Len(boots') : i = 1 \/ (i - 1 \in 1..Len(boots) /\ boots'[i] = boots[i - 1])
    BY <2>1
  <2>3. \A i \in 1..Len(boots) : boots[i].user # u /\ phase[boots[i].user] = "booting"
    BY <1>c DEF BootInv
  <2>4. \A v \in Users : phase'[v] = IF v = u THEN "booting" ELSE phase[v]
    BY <2>1 DEF TypeOK
  <2>5. \A i \in 1..Len(boots) : boots[i].user \in Users
    <3>1. \A i \in 1..Len(boots) : boots[i] \in Boots
      BY DEF TypeOK
    <3> QED
      BY <3>1 DEF Boots
  <2>6. ASSUME NEW i \in 1..Len(boots') PROVE phase'[boots'[i].user] = "booting"
    <3>1. CASE i = 1
      BY <2>1, <2>4, <3>1
    <3>2. CASE i # 1
      BY <2>2, <2>3, <2>4, <2>5, <3>2
    <3> QED
      BY <3>1, <3>2
  <2>7. ASSUME NEW i \in 1..Len(boots'), NEW k \in 1..Len(boots'),
               boots'[k].user = boots'[i].user
        PROVE  k = i
    <3>1. CASE i = 1 \/ k = 1
      BY <2>1, <2>2, <2>3, <2>7, <3>1
    <3>2. CASE i # 1 /\ k # 1
      <4>1. /\ i - 1 \in 1..Len(boots) /\ k - 1 \in 1..Len(boots)
            /\ boots[i - 1].user = boots[k - 1].user
        BY <2>2, <2>7, <3>2
      <4>2. i - 1 = k - 1
        BY <4>1 DEF BootInv
      <4> QED
        BY <4>2
    <3> QED
      BY <3>1, <3>2
  <2> QED
    BY <2>6, <2>7 DEF BootInv
<1>d. ASSUME NEW u \in Users, NEW r \in Runtimes, Started(u, r), phase[u] # "booting"
      PROVE  BootInv'
  <2>1. /\ Cleared(u, r) \in Runtimes /\ Stricter(u, Cleared(u, r)) \in Runtimes
        /\ Booting(u, Cleared(u, r)) \in Runtimes
    BY FreshFacts
  <2> QED
    BY <1>b, <1>c, <1>d, <2>1 DEF Started
<1>e. ASSUME NEW u \in Users, Leased(u), phase[u] # "booting" PROVE BootInv'
  BY <1>a, <1>b, <1>d, <1>e DEF Leased
<1>f. ASSUME boots # <<>>, NEW r, GiveUp(Head(boots).user, r) \/ Succeed(Head(boots).user, r),
             Return
      PROVE  BootInv'
  <2> DEFINE u == Head(boots).user
  <2>1. /\ Len(boots) \in Nat \ {0} /\ Len(boots') = Len(boots) - 1 /\ 1 \in 1..Len(boots)
        /\ \A i \in 1..Len(boots') : i + 1 \in 1..Len(boots) /\ boots'[i] = boots[i + 1]
        /\ u = boots[1].user /\ u \in Users
    BY <1>f, ReturnTypes
  <2>2. \A v \in Users \ {u} : phase'[v] = phase[v]
    BY <1>f, <2>1 DEF GiveUp, Succeed, Go, TypeOK
  <2>3. \A i \in 1..Len(boots') : boots'[i].user \in Users \ {u}
    <3>1. \A i \in 1..Len(boots) : boots[i] \in Boots
      BY DEF TypeOK
    <3> QED
      BY <2>1, <3>1 DEF BootInv, Boots
  <2> HIDE DEF u
  <2>4. ASSUME NEW i \in 1..Len(boots') PROVE phase'[boots'[i].user] = "booting"
    BY <2>1, <2>2, <2>3 DEF BootInv
  <2>5. ASSUME NEW i \in 1..Len(boots'), NEW k \in 1..Len(boots'),
               boots'[k].user = boots'[i].user
        PROVE  k = i
    <3>1. /\ i + 1 \in 1..Len(boots) /\ k + 1 \in 1..Len(boots)
          /\ boots[i + 1].user = boots[k + 1].user
      BY <2>1, <2>5
    <3>2. i + 1 = k + 1
      BY <3>1 DEF BootInv
    <3> QED
      BY <3>2
  <2> QED
    BY <2>4, <2>5 DEF BootInv
<1>1. ASSUME NEW u \in Users, BeginHere(u) PROVE BootInv'
  BY <1>1, <1>a, <1>e, LeaseEffect DEF BeginHere, MayBegin, Ended
<1>2. ASSUME NEW u \in Users, BeginLater(u) PROVE BootInv'
  BY <1>2, <1>b DEF MayBegin, Ended, BeginLater
<1>3. ASSUME NEW u \in Users, BeginOnWorker(u) PROVE BootInv'
  BY <1>3, <1>b DEF MayBegin, Ended, BeginOnWorker
<1>4. ASSUME NEW u \in Users, Continue(u) PROVE BootInv'
  <2>1. CASE closed
    BY <2>1, <1>4, <1>b DEF Continue
  <2>2. CASE ~closed
    BY <2>2, <1>4, <1>a, <1>e, LeaseEffect DEF Continue
  <2> QED
    BY <2>1, <2>2
<1>5. ASSUME NEW u \in Users, Check(u) PROVE BootInv'
  BY <1>5, <1>b DEF Check
<1>6. ASSUME NEW u \in Users, StartForWorker(u) PROVE BootInv'
  BY <1>6, <1>a, <1>d, StartEffect DEF StartForWorker
<1>7. ASSUME NEW u \in Users, Verify(u) PROVE BootInv'
  BY <1>7, <1>b DEF Verify
<1>8. ASSUME NEW u \in Users, Quit(u) PROVE BootInv'
  BY <1>8, <1>b DEF Quit
<1>9. ASSUME NEW u \in Users, Finish(u) PROVE BootInv'
  BY <1>9, <1>b DEF Finish
<1>10. ASSUME NEW u \in Users, Cancel(u) PROVE BootInv'
  BY <1>10 DEF BootInv, Cancel
<1>11. ASSUME Close PROVE BootInv'
  BY <1>11 DEF BootInv, Close
<1>12. ASSUME TimedOut PROVE BootInv'
  BY <1>12, <1>f DEF InTime, Overdue, TimedOut
<1>13. ASSUME PollFailed PROVE BootInv'
  BY <1>13, <1>f DEF InTime, Overdue, PollFailed
<1>14. ASSUME PollReady PROVE BootInv'
  BY <1>14, <1>f DEF InTime, Overdue, PollReady
<1>15. ASSUME PollCanceled PROVE BootInv'
  BY <1>15, <1>f DEF InTime, Overdue, PollCanceled
<1>16. ASSUME Expire PROVE BootInv'
  BY <1>16 DEF BootInv, Expire
<1>17. ASSUME Serve PROVE BootInv'
  BY <1>17 DEF BootInv, Serve
<1>18. ASSUME LoadModel PROVE BootInv'
  BY <1>18 DEF BootInv, LoadModel
<1>19. ASSUME Crash PROVE BootInv'
  BY <1>19 DEF BootInv, Crash
<1>20. CASE UNCHANGED vars
  BY <1>20 DEF vars, BootInv
<1> QED
  BY <1>1, <1>2, <1>3, <1>4, <1>5, <1>6, <1>7, <1>8, <1>9, <1>10, <1>11, <1>12, <1>13,
     <1>14, <1>15, <1>16, <1>17, <1>18, <1>19, <1>20 DEF Next, Event, Poll

--------------------------------------------------------------------------------
(* The leases and the process.                                                    *)

Holding(p) == p \notin {"idle", "delayed"} \cup Ended

\* What the count of the leases says of their holders, and what a close leaves.
Counted ==
    /\ IsFiniteSet(Holders)
    /\ ~closed => runtime.leases = Cardinality(Holders)
    /\ closed => runtime.leases = 0 /\ Holders \subseteq harmed

LeaseInv == Counted /\ LeaseKeepsProcess /\ NoOrphan

\* The process goes only with its last lease or by what is counted as harm.
Kept == runtime'.process = "none" =>
            runtime.process = "none" \/ Working \subseteq harmed' \/ runtime.leases = 0

HolderStays ==
    /\ Holders' = Holders /\ runtime'.leases = runtime.leases /\ closed' = closed /\ Kept
    /\ runtime'.process # "none" => runtime.process # "none" \/ Holders' # {} \/ runtime'.leases # 0

HolderLeaves(u) ==
    /\ u \in Holders /\ Holders' = Holders \ {u} /\ closed' = closed
    /\ runtime'.leases = Fewer(runtime.leases)
    /\ Fewer(runtime.leases) = 0 => runtime'.process = "none"
    /\ Fewer(runtime.leases) # 0 => Kept

HolderEnters(u) ==
    /\ u \notin Holders /\ Holders' = Holders \cup {u} /\ ~closed /\ closed' = closed
    /\ runtime'.leases = runtime.leases + 1 /\ Kept

AllLose ==
    /\ Holders' = Holders /\ runtime'.leases = 0 /\ closed' /\ Holders \subseteq harmed'
    /\ runtime'.process = "none"

LeaseStep ==
    /\ \A v \in harmed : v \in Holders' => v \in harmed'
    /\ \/ HolderStays \/ AllLose
       \/ \E u \in Users : HolderLeaves(u) \/ HolderEnters(u)

LEMMA StepLease == TypeOK /\ LeaseInv /\ LeaseStep /\ WorkStep => LeaseInv'
<1> SUFFICES ASSUME TypeOK, LeaseInv, LeaseStep, WorkStep PROVE LeaseInv'
  OBVIOUS
<1>1. /\ IsFiniteSet(Holders) /\ Cardinality(Holders) \in Nat
      /\ (Cardinality(Holders) = 0 <=> Holders = {})
  BY FS_CardinalityType, FS_EmptySet DEF LeaseInv, Counted
<1>2. /\ \A u \in Holders : /\ IsFiniteSet(Holders \ {u})
                            /\ Cardinality(Holders \ {u}) = Cardinality(Holders) - 1
      /\ \A u : u \notin Holders => /\ IsFiniteSet(Holders \cup {u})
                                    /\ Cardinality(Holders \cup {u}) = Cardinality(Holders) + 1
  BY <1>1, FS_RemoveElement, FS_AddElement
<1>3. closed \in BOOLEAN /\ runtime.leases \in Nat
  BY DEF TypeOK, Runtimes
<1>4. Working \subseteq Holders
  BY DEF Working, Holders, Ended
\* A step that keeps the process, or harms those who work, keeps the promise.
<1>5. ASSUME Kept, closed' = closed PROVE LeaseKeepsProcess'
  <2> SUFFICES ASSUME NEW u \in Working', u \notin harmed' PROVE runtime'.process # "none"
    BY DEF LeaseKeepsProcess
  <2>1. u \in Users /\ phase'[u] = "working" /\ u \in Holders'
    BY DEF Working, Holders, Ended
  <2>2. CASE u \notin Working
    BY <2>1, <2>2 DEF WorkStep, Working
  <2>3. CASE u \in Working
    <3>1. u \notin harmed
      BY <2>1 DEF LeaseStep
    <3>2. runtime.process # "none"
      BY <2>3, <3>1 DEF LeaseInv, LeaseKeepsProcess
    <3>3. runtime.leases # 0
      BY <1>1, <1>4, <2>3, <3>1 DEF LeaseInv, Counted
    <3> QED
      BY <1>5, <2>3, <3>2, <3>3 DEF Kept
  <2> QED
    BY <2>2, <2>3
<1>6. CASE HolderStays
  <2>1. Counted'
    BY <1>6 DEF HolderStays, LeaseInv, Counted, LeaseStep
  <2>2. NoOrphan'
    <3>1. Holders' = {} => runtime'.leases = 0
      BY <1>1, <1>3, <1>6 DEF HolderStays, LeaseInv, Counted
    <3> QED
      BY <1>6, <3>1 DEF HolderStays, LeaseInv, NoOrphan
  <2> QED
    BY <1>5, <1>6, <2>1, <2>2 DEF LeaseInv, HolderStays
<1>7. CASE AllLose
  BY <1>1, <1>4, <1>7 DEF AllLose, LeaseInv, Counted, LeaseKeepsProcess, NoOrphan, Working,
    Holders, Ended
<1>8. ASSUME NEW u \in Users, HolderLeaves(u) PROVE LeaseInv'
  <2>1. Counted'
    BY <1>1, <1>2, <1>3, <1>8 DEF HolderLeaves, LeaseInv, Counted, LeaseStep, Fewer
  <2>a. /\ u \in Holders /\ Holders' = Holders \ {u} /\ IsFiniteSet(Holders')
        /\ Cardinality(Holders') = Cardinality(Holders) - 1
    BY <1>2, <1>8 DEF HolderLeaves
  <2>b. Cardinality(Holders') = 0 <=> Holders' = {}
    BY <2>a, FS_EmptySet
  <2>c. IF closed THEN runtime.leases = 0 ELSE runtime.leases = Cardinality(Holders)
    BY DEF LeaseInv, Counted
  <2>2. Holders' = {} => Fewer(runtime.leases) = 0
    BY <1>1, <2>a, <2>b, <2>c DEF Fewer
  <2>3. NoOrphan'
    BY <1>8, <2>2 DEF HolderLeaves, NoOrphan
  <2>4. CASE Fewer(runtime.leases) # 0
    BY <1>5, <1>8, <2>1, <2>3, <2>4 DEF HolderLeaves, LeaseInv
  <2>5. CASE Fewer(runtime.leases) = 0
    <3>0. Cardinality(Holders) # 0
      BY <1>1, <2>a
    <3>1. ~closed => Holders' = {}
      BY <1>1, <2>a, <2>b, <2>c, <2>5, <3>0 DEF Fewer
    <3>2. Holders' \subseteq harmed'
      BY <3>1, <1>8, <2>1, <1>3 DEF HolderLeaves, Counted
    <3>3. Working' \subseteq Holders'
      BY DEF Working, Holders, Ended
    <3> QED
      BY <2>1, <2>3, <3>2, <3>3 DEF LeaseInv, LeaseKeepsProcess
  <2> QED
    BY <2>4, <2>5
<1>9. ASSUME NEW u \in Users, HolderEnters(u) PROVE LeaseInv'
  <2>1. Counted'
    BY <1>1, <1>2, <1>3, <1>9 DEF HolderEnters, LeaseInv, Counted
  <2> QED
    BY <1>5, <1>9, <2>1 DEF HolderEnters, LeaseInv, NoOrphan
<1> QED
  BY <1>6, <1>7, <1>8, <1>9 DEF LeaseStep

\* A user moves: it holds its lease on, or gives it back on the way out.
Moved(u, r) ==
    \E to \in Phases, q \in Runtimes :
        /\ q.leases = r.leases /\ (q.process = "none" => r.process = "none")
        /\ IF Holding(to) THEN Go(u, to, q) ELSE Go(u, to, Released(q))

LEMMA Movements ==
  /\ Holding("checking") /\ Holding("starting") /\ Holding("booting") /\ Holding("verifying")
  /\ Holding("quitting") /\ Holding("working")
  /\ ~Holding("idle") /\ ~Holding("delayed") /\ ~Holding("succeeded") /\ ~Holding("canceled")
  /\ ~Holding("failed")
  /\ {"idle", "delayed", "checking", "starting", "booting", "verifying", "quitting", "working",
      "succeeded", "canceled", "failed"} = Phases
  BY DEF Holding, Phases, Ended

LEMMA GoHolders ==
  ASSUME TypeOK, NEW u \in Users, NEW to, NEW r, Go(u, to, r)
  PROVE  /\ Holders' = IF Holding(to) THEN Holders \cup {u} ELSE Holders \ {u}
         /\ runtime' = r
  BY DEF Go, Holders, Holding, TypeOK

LEMMA StartedMoves ==
  ASSUME NEW u \in Users, NEW r \in Runtimes, Started(u, r)
  PROVE  Moved(u, r)
<1> DEFINE c == Cleared(u, r)
<1>1. c \in Runtimes /\ c.leases = r.leases /\ c.process = r.process
  BY FreshFacts
<1> DEFINE f == Fresh(u, c)
<1>2. f \in Runtimes /\ f.leases = c.leases
  BY <1>1, FreshFacts
<1>3. /\ Stricter(u, c) \in Runtimes /\ Stricter(u, c).leases = c.leases
      /\ Stricter(u, c).process = c.process
      /\ Booting(u, c) \in Runtimes /\ Booting(u, c).leases = c.leases
      /\ Booting(u, c).process = "booting"
  BY <1>1, FreshFacts
<1>4. Terminated(f, "failed") \in Runtimes /\ Terminated(f, "failed").leases = f.leases
  BY <1>2, TerminatedFacts DEF States
<1>5. \/ Go(u, IF u \in Workers THEN "verifying" ELSE "working", c)
      \/ Go(u, "booting", Stricter(u, c))
      \/ Go(u, "booting", Booting(u, c))
      \/ c.process = "none" /\ Go(u, "quitting", Terminated(f, "failed"))
      \/ c.process = "none" /\ Go(u, "failed", Released(Terminated(f, "failed")))
  BY DEF Started, Wait
<1> HIDE DEF c, f
<1>6. CASE Go(u, IF u \in Workers THEN "verifying" ELSE "working", c)
  BY <1>1, <1>6, Movements DEF Moved
<1>7. CASE Go(u, "booting", Stricter(u, c))
  BY <1>1, <1>3, <1>7, Movements DEF Moved
<1>8. CASE Go(u, "booting", Booting(u, c))
  BY <1>1, <1>3, <1>8, Movements DEF Moved
<1>9. CASE c.process = "none" /\ Go(u, "quitting", Terminated(f, "failed"))
  BY <1>1, <1>2, <1>4, <1>9, Movements DEF Moved
<1>10. CASE c.process = "none" /\ Go(u, "failed", Released(Terminated(f, "failed")))
  BY <1>1, <1>2, <1>4, <1>10, Movements DEF Moved
<1> QED
  BY <1>5, <1>6, <1>7, <1>8, <1>9, <1>10

LEMMA GoneMoves ==
  ASSUME NEW u \in Users, NEW r \in Runtimes, GiveUp(u, r) \/ Succeed(u, r)
  PROVE  Moved(u, r)
<1>1. Refresh(r) \in Runtimes /\ Refresh(r).leases = r.leases /\ Refresh(r).process = r.process
  BY RefreshFacts
<1>2. \/ \E to \in {"quitting", "verifying"} : Go(u, to, r)
      \/ \E to \in {"canceled", "failed"} : Go(u, to, Released(r))
      \/ Go(u, "working", Refresh(r))
      \/ Go(u, "failed", Released(Refresh(r)))
  BY DEF GiveUp, Succeed
<1>3. CASE \E to \in {"quitting", "verifying"} : Go(u, to, r)
  BY <1>3, Movements DEF Moved
<1>4. CASE \E to \in {"canceled", "failed"} : Go(u, to, Released(r))
  BY <1>4, Movements DEF Moved
<1>5. CASE Go(u, "working", Refresh(r))
  BY <1>1, <1>5, Movements DEF Moved
<1>6. CASE Go(u, "failed", Released(Refresh(r)))
  BY <1>1, <1>6, Movements DEF Moved
<1> QED
  BY <1>2, <1>3, <1>4, <1>5, <1>6

\* A holder that moves.
LEMMA HolderMoves ==
  ASSUME TypeOK, NEW u \in Holders, NEW r \in Runtimes, Moved(u, r), closed' = closed,
         r.leases = runtime.leases,
         r.process = "none" => runtime.process = "none" \/ Working \subseteq harmed'
  PROVE  HolderStays \/ HolderLeaves(u)
<1>1. u \in Users
  BY DEF Holders
<1>2. PICK to \in Phases, q \in Runtimes :
        /\ q.leases = r.leases /\ (q.process = "none" => r.process = "none")
        /\ IF Holding(to) THEN Go(u, to, q) ELSE Go(u, to, Released(q))
  BY DEF Moved
<1>3. CASE Holding(to)
  BY <1>1, <1>2, <1>3, GoHolders DEF HolderStays, Kept
<1>4. CASE ~Holding(to)
  BY <1>1, <1>2, <1>4, GoHolders, ReleasedFacts DEF HolderLeaves, Kept
<1> QED
  BY <1>3, <1>4

\* A user that takes a lease and moves.
LEMMA NewcomerMoves ==
  ASSUME TypeOK, NEW u \in Users, u \notin Holders, NEW r \in Runtimes, Moved(u, r),
         ~closed, closed' = closed, r.leases = runtime.leases + 1, r.process = runtime.process
  PROVE  HolderStays \/ HolderEnters(u)
<1>2. PICK to \in Phases, q \in Runtimes :
        /\ q.leases = r.leases /\ (q.process = "none" => r.process = "none")
        /\ IF Holding(to) THEN Go(u, to, q) ELSE Go(u, to, Released(q))
  BY DEF Moved
<1>3. CASE Holding(to)
  BY <1>2, <1>3, GoHolders DEF HolderEnters, Kept
<1>4. CASE ~Holding(to)
  <2>1. runtime.leases \in Nat
    BY DEF TypeOK, Runtimes
  <2>2. Fewer(q.leases) = runtime.leases
    BY <1>2, <2>1 DEF Fewer
  <2>3. Holders' = Holders /\ runtime' = Released(q)
    BY <1>2, <1>4, GoHolders
  <2>4. Kept /\ runtime'.leases = runtime.leases
    BY <1>2, <2>2, <2>3, ReleasedFacts DEF Kept
  <2>5. runtime'.process # "none" => runtime'.leases # 0
    BY <1>2, <2>2, <2>3, <2>4, ReleasedFacts
  <2> QED
    BY <2>3, <2>4, <2>5 DEF HolderStays
<1> QED
  BY <1>3, <1>4

LEMMA NextLease == TypeOK /\ BootInv /\ [Next]_vars => LeaseStep
<1> SUFFICES ASSUME TypeOK, BootInv, [Next]_vars PROVE LeaseStep
  OBVIOUS
<1> DEFINE held == Refresh(Acquired(runtime))
           seen == Refresh(runtime)
<1>a. /\ runtime \in Runtimes /\ runtime.leases \in Nat
      /\ seen \in Runtimes /\ seen.leases = runtime.leases /\ seen.process = runtime.process
  BY RefreshFacts DEF TypeOK, Runtimes
<1>b. /\ Acquired(runtime) \in Runtimes /\ Acquired(runtime).leases = runtime.leases + 1
      /\ Acquired(runtime).process = runtime.process
      /\ held \in Runtimes /\ held.leases = runtime.leases + 1 /\ held.process = runtime.process
  BY <1>a, RefreshFacts, AcquiredFacts
<1> HIDE DEF held, seen
<1>c. ASSUME NEW u \in Users, NEW to \in Phases, NEW r \in Runtimes,
             IF Holding(to) THEN Go(u, to, r) ELSE Go(u, to, Released(r))
      PROVE  Moved(u, r)
  BY <1>c DEF Moved
\* A holder moves.
<1>d. ASSUME NEW u \in Holders, NEW r \in Runtimes, Moved(u, r), closed' = closed,
             r.leases = runtime.leases, harmed \subseteq harmed',
             r.process = "none" => runtime.process = "none" \/ Working \subseteq harmed'
      PROVE  LeaseStep
  <2>1. u \in Users
    BY DEF Holders
  <2> QED
    BY <1>d, <2>1, HolderMoves DEF LeaseStep
\* A user takes a lease and moves.
<1>e. ASSUME NEW u \in Users, u \notin Holders, NEW r \in Runtimes, Moved(u, r), ~closed,
             UNCHANGED <<closed, harmed>>, r.leases = runtime.leases + 1,
             r.process = runtime.process
      PROVE  LeaseStep
  BY <1>e, NewcomerMoves DEF LeaseStep
<1>f. ASSUME NEW u \in Users, u \notin Holders, Leased(u), ~closed, UNCHANGED <<closed, harmed>>
      PROVE  LeaseStep
  <2>1. \/ Go(u, "working", held)
        \/ Started(u, held)
    BY <1>f DEF Leased, held
  <2>2. Moved(u, held)
    BY <1>b, <1>c, <2>1, StartedMoves, Movements
  <2> QED
    BY <1>b, <1>e, <1>f, <2>2
\* Nobody's lease changes.
<1>g. ASSUME Holders' = Holders, runtime'.leases = runtime.leases,
             runtime'.process = runtime.process \/
                (runtime.process # "none" /\ (runtime'.process # "none" \/ Working \subseteq harmed')),
             closed' = closed, harmed \subseteq harmed'
      PROVE  LeaseStep
  BY <1>g DEF LeaseStep, HolderStays, Kept
<1>h. ASSUME phase' = phase PROVE Holders' = Holders
  BY <1>h DEF Holders
<1>i. \A u \in Users : u \in Holders <=> Holding(phase[u])
  BY DEF Holders, Holding
<1>j. Ended = {"succeeded", "canceled", "failed"}
  BY DEF Ended
\* The innermost start ends.
<1>k. ASSUME boots # <<>>, NEW r \in Runtimes,
             GiveUp(Head(boots).user, r) \/ Succeed(Head(boots).user, r),
             Return, closed' = closed, r.leases = runtime.leases, harmed \subseteq harmed',
             r.process = "none" => runtime.process = "none" \/ Working \subseteq harmed'
      PROVE  LeaseStep
  <2>1. /\ Head(boots).user \in Users /\ Head(boots) = boots[1] /\ 1 \in 1..Len(boots)
    BY <1>k, ReturnTypes
  <2>2. Head(boots).user \in Holders
    BY <1>i, <2>1, Movements DEF BootInv
  <2>3. Moved(Head(boots).user, r)
    BY <1>k, <2>1, GoneMoves
  <2> QED
    BY <1>d, <1>k, <2>2, <2>3
<1>1. ASSUME NEW u \in Users, BeginHere(u) PROVE LeaseStep
  <2>1. u \notin Holders
    BY <1>1, <1>i, <1>j, Movements DEF BeginHere, MayBegin
  <2> QED
    BY <1>1, <1>a, <1>f, <2>1, LeaseEffect DEF BeginHere, MayBegin
<1>2. ASSUME NEW u \in Users, BeginLater(u) PROVE LeaseStep
  <2>1. u \notin Holders /\ Go(u, "delayed", runtime)
    BY <1>2, <1>i, <1>j, Movements DEF BeginLater, MayBegin
  <2>2. Holders' = Holders /\ runtime' = runtime
    BY <2>1, GoHolders, Movements
  <2> QED
    BY <1>2, <1>g, <2>2 DEF BeginLater
<1>3. ASSUME NEW u \in Users, BeginOnWorker(u) PROVE LeaseStep
  <2>1. u \notin Holders /\ Go(u, "checking", Acquired(runtime)) /\ ~closed
    BY <1>3, <1>i, <1>j, Movements DEF BeginOnWorker, MayBegin
  <2>2. Moved(u, Acquired(runtime))
    BY <1>b, <1>c, <2>1, Movements
  <2> QED
    BY <1>3, <1>b, <1>e, <2>1, <2>2 DEF BeginOnWorker
<1>4. ASSUME NEW u \in Users, Continue(u) PROVE LeaseStep
  <2>1. u \notin Holders
    BY <1>4, <1>i, Movements DEF Continue
  <2>2. CASE closed
    <3>1. Go(u, "failed", runtime)
      BY <1>4, <2>2 DEF Continue
    <3>2. Holders' = Holders /\ runtime' = runtime
      BY <2>1, <3>1, GoHolders, Movements
    <3> QED
      BY <1>4, <1>g, <3>2 DEF Continue
  <2>3. CASE ~closed
    BY <1>4, <1>a, <1>f, <2>1, <2>3, LeaseEffect DEF Continue
  <2> QED
    BY <2>2, <2>3
<1>5. ASSUME NEW u \in Users, Check(u) PROVE LeaseStep
  <2>1. u \in Holders
    BY <1>5, <1>i, Movements DEF Check
  <2>2. Moved(u, seen)
    BY <1>5, <1>a, <1>c, Movements DEF Check, seen
  <2> QED
    BY <1>5, <1>a, <1>d, <2>1, <2>2 DEF Check
<1>6. ASSUME NEW u \in Users, StartForWorker(u) PROVE LeaseStep
  <2>1. u \in Holders
    BY <1>6, <1>i, Movements DEF StartForWorker
  <2>2. Moved(u, runtime)
    BY <1>6, <1>a, StartEffect, StartedMoves DEF StartForWorker
  <2> QED
    BY <1>6, <1>a, <1>d, <2>1, <2>2 DEF StartForWorker
<1>7. ASSUME NEW u \in Users, Verify(u) PROVE LeaseStep
  <2>1. u \in Holders
    BY <1>7, <1>i, Movements DEF Verify
  <2>2. Moved(u, seen)
    BY <1>7, <1>a, <1>c, Movements DEF Verify, seen
  <2> QED
    BY <1>7, <1>a, <1>d, <2>1, <2>2 DEF Verify
<1>8. ASSUME NEW u \in Users, Quit(u) PROVE LeaseStep
  <2>1. u \in Holders
    BY <1>8, <1>i, Movements DEF Quit
  <2>2. Moved(u, runtime)
    BY <1>8, <1>a, <1>c, Movements DEF Quit
  <2> QED
    BY <1>8, <1>a, <1>d, <2>1, <2>2 DEF Quit
<1>9. ASSUME NEW u \in Users, Finish(u) PROVE LeaseStep
  <2>1. u \in Holders
    BY <1>9, <1>i, Movements DEF Finish
  <2>2. Moved(u, runtime) /\ Go(u, "succeeded", Released(runtime))
    BY <1>9, <1>a, <1>c, Movements DEF Finish
  <2>3. Holders' = Holders \ {u}
    BY <2>2, GoHolders, Movements
  <2>4. HolderStays \/ HolderLeaves(u)
    BY <1>9, <1>a, <2>1, <2>2, HolderMoves DEF Finish
  <2>5. \A v \in harmed : v \in Holders' => v \in harmed'
    BY <1>9, <2>3 DEF Finish
  <2> QED
    BY <2>4, <2>5 DEF LeaseStep
<1>10. ASSUME NEW u \in Users, Cancel(u) PROVE LeaseStep
  <2>1. /\ runtime'.leases = runtime.leases /\ runtime'.process = runtime.process
    BY <1>10, <1>a DEF Cancel, Runtimes
  <2> QED
    BY <1>10, <1>g, <1>h, <2>1 DEF Cancel
<1>11. ASSUME Close PROVE LeaseStep
  <2> DEFINE z == [runtime EXCEPT !.leases = 0]
  <2>1. z \in Runtimes /\ z.leases = 0
    BY <1>a DEF Runtimes
  <2>2. runtime' = Stopped(z) /\ Holders' = Holders
    BY <1>11, <1>h DEF Close
  <2> HIDE DEF z
  <2>3. runtime'.leases = 0 /\ runtime'.process = "none"
    BY <2>1, <2>2, StoppedFacts
  <2> QED
    BY <1>11, <2>2, <2>3 DEF Close, LeaseStep, AllLose
<1>12. ASSUME TimedOut PROVE LeaseStep
  <2>1. /\ Terminated(runtime, "failed") \in Runtimes
        /\ Terminated(runtime, "failed").leases = runtime.leases
    BY <1>a, TerminatedFacts DEF States
  <2> DEFINE spared == ~Head(boots).owner /\ runtime.process # "none"
  <2>2. /\ boots # <<>> /\ Return /\ closed' = closed /\ harmed \subseteq harmed'
        /\ GiveUp(Head(boots).user, IF spared THEN seen ELSE Terminated(runtime, "failed"))
        /\ ~spared => Working \subseteq harmed'
    BY <1>12 DEF TimedOut, Overdue, seen
  <2> HIDE DEF spared
  <2>3. CASE spared
    BY <1>a, <1>k, <2>2, <2>3
  <2>4. CASE ~spared
    BY <1>k, <2>1, <2>2, <2>4
  <2> QED
    BY <2>3, <2>4
<1>13. ASSUME PollFailed PROVE LeaseStep
  <2>1. boots # <<>> /\ GiveUp(Head(boots).user, seen)
    BY <1>13 DEF PollFailed, InTime, seen
  <2> QED
    BY <1>13, <1>a, <1>k, <2>1 DEF PollFailed
<1>14. ASSUME PollReady PROVE LeaseStep
  <2> DEFINE q == [seen EXCEPT !.state = "ready", !.info = @ \/ seen.process = "modelled"]
  <2>1. q \in Runtimes /\ q.leases = runtime.leases /\ q.process = runtime.process
    BY <1>a DEF Runtimes, States
  <2>2. boots # <<>> /\ Succeed(Head(boots).user, q)
    BY <1>14 DEF PollReady, InTime, seen
  <2> HIDE DEF q
  <2> QED
    BY <1>14, <1>k, <2>1, <2>2 DEF PollReady
<1>15. ASSUME PollCanceled PROVE LeaseStep
  <2>1. /\ Terminated(seen, "stopped") \in Runtimes
        /\ Terminated(seen, "stopped").leases = runtime.leases
    BY <1>a, TerminatedFacts DEF States
  <2>2. boots # <<>> /\ GiveUp(Head(boots).user, Terminated(seen, "stopped"))
    BY <1>15 DEF PollCanceled, InTime, seen
  <2> QED
    BY <1>15, <1>k, <2>1, <2>2 DEF PollCanceled
<1>16. ASSUME Expire PROVE LeaseStep
  BY <1>16, <1>g, <1>h DEF Expire
<1>17. ASSUME Serve PROVE LeaseStep
  <2>1. /\ runtime'.leases = runtime.leases /\ runtime.process # "none"
        /\ runtime'.process # "none" \/ Working \subseteq harmed'
    BY <1>17, <1>a DEF Serve, Runtimes
  <2> QED
    BY <1>17, <1>g, <1>h, <2>1 DEF Serve
<1>18. ASSUME LoadModel PROVE LeaseStep
  <2>1. /\ runtime'.leases = runtime.leases /\ runtime.process # "none"
        /\ runtime'.process # "none" \/ Working \subseteq harmed'
    BY <1>18, <1>a DEF LoadModel, Runtimes
  <2> QED
    BY <1>18, <1>g, <1>h, <2>1 DEF LoadModel
<1>19. ASSUME Crash PROVE LeaseStep
  <2>1. /\ runtime'.leases = runtime.leases /\ runtime.process # "none"
        /\ runtime'.process # "none" \/ Working \subseteq harmed'
    BY <1>19, <1>a DEF Crash, Runtimes
  <2> QED
    BY <1>19, <1>g, <1>h, <2>1 DEF Crash
<1>20. CASE UNCHANGED vars
  BY <1>20, <1>g, <1>h DEF vars
<1> QED
  BY <1>1, <1>2, <1>3, <1>4, <1>5, <1>6, <1>7, <1>8, <1>9, <1>10, <1>11, <1>12, <1>13,
     <1>14, <1>15, <1>16, <1>17, <1>18, <1>19, <1>20 DEF Next, Event, Poll

LEMMA InitLease == Init => LeaseInv
<1> SUFFICES ASSUME Init PROVE LeaseInv
  OBVIOUS
<1>1. Holders = {} /\ Working = {}
  BY DEF Init, Holders, Working
<1> QED
  BY <1>1, FS_EmptySet DEF Init, LeaseInv, Counted, LeaseKeepsProcess, NoOrphan

--------------------------------------------------------------------------------
(* While nothing has gone wrong.                                                  *)

\* The service's record: no cancel is pending, and there is a process unless the
\* state says that it is stopped.
CalmRuntime(r) ==
    /\ ~r.cancel /\ r.state \in {"stopped", "starting", "ready"}
    /\ r.process = "none" <=> r.state = "stopped"

\* A user in phase p under that record: it never gives up, a start that waits
\* has its wish among the options, one that is over has been answered.
CalmUser(p, u, r) ==
    /\ p \notin {"failed", "canceled", "quitting"}
    /\ p \in {"booting", "verifying", "working"} => r.process # "none"
    /\ p = "booting" /\ u \in NeedsModel => r.require \/ r.info
    /\ p = "verifying" => Ready(r, u)

Calm ==
    /\ ~closed /\ late = 0 /\ canceled = {} /\ CalmRuntime(runtime)
    /\ \A u \in Users : CalmUser(phase[u], u, runtime)

CalmInv == ~disturbed => Calm

\* What a step may not take back.
Onward(r, q) ==
    \/ r.process = "none"
    \/ /\ q.process # "none" /\ (r.require => q.require) /\ (r.info => q.info)
       /\ r.state = "ready" => q.state = "ready"

LEMMA OnwardKeeps ==
  ASSUME NEW p, NEW u, NEW r, NEW q, CalmUser(p, u, r), Onward(r, q)
  PROVE  CalmUser(p, u, q)
  BY DEF CalmUser, Onward, Ready

LEMMA CalmGo ==
  ASSUME TypeOK, Calm, NEW u \in Users, NEW to, NEW q, Go(u, to, q),
         CalmRuntime(q), CalmUser(to, u, q),
         Onward(runtime, q) \/ \A v \in Users \ {u} : CalmUser(phase[v], v, q),
         ~closed', late' = 0, canceled' = {}
  PROVE  Calm'
<1>1. runtime' = q /\ \A v \in Users : phase'[v] = IF v = u THEN to ELSE phase[v]
  BY DEF Go, TypeOK
<1>2. \A v \in Users : CalmUser(phase'[v], v, q)
  BY <1>1, OnwardKeeps DEF Calm
<1>3. \A v \in Users : CalmUser(phase[v], v, runtime)'
  BY <1>1, <1>2 DEF CalmUser, Ready
<1>4. CalmRuntime(runtime)'
  BY <1>1 DEF CalmRuntime
<1> QED
  BY <1>3, <1>4 DEF Calm

LEMMA InitCalm == Init => CalmInv
  BY DEF Init, CalmInv, Calm, CalmRuntime, CalmUser, Ready

\* Nothing to refresh, nothing to clear.
LEMMA CalmSeen ==
  ASSUME NEW r \in Runtimes, CalmRuntime(r)
  PROVE  Refresh(r) = r /\ \A u : CalmRuntime(Cleared(u, r))
<1>1. Refresh(r) = r
  BY RefreshFacts DEF CalmRuntime
<1>2. ASSUME NEW u PROVE CalmRuntime(Cleared(u, r))
  BY FreshFacts DEF CalmRuntime
<1> QED
  BY <1>1, <1>2

\* A start in which nothing goes wrong.
LEMMA CalmStart ==
  ASSUME TypeOK, Calm, NEW u \in Users, NEW r \in Runtimes, Started(u, r), ~disturbed',
         CalmRuntime(r), r.process = runtime.process, r.state = runtime.state,
         r.info = runtime.info,
         r.require = runtime.require, UNCHANGED <<late, closed>>
  PROVE  Calm'
<1> DEFINE c == Cleared(u, r)
<1>1. /\ c \in Runtimes /\ CalmRuntime(c) /\ c.process = r.process /\ c.info = r.info
      /\ c.require = r.require
  BY CalmSeen, FreshFacts
<1>2. c.state = r.state
  BY FreshFacts DEF CalmRuntime
<1>3. ~closed' /\ late' = 0 /\ canceled' = {}
  BY DEF Calm, Started
<1> HIDE DEF c
<1>4. /\ Stricter(u, c) \in Runtimes /\ Stricter(u, c).process = c.process
      /\ Stricter(u, c).state = c.state /\ Stricter(u, c).info = c.info
      /\ Stricter(u, c).cancel = c.cancel /\ (c.require => Stricter(u, c).require)
      /\ (u \in NeedsModel => Stricter(u, c).require \/ c.info)
  <2>1. Stricter(u, c) \in Runtimes /\ Stricter(u, c).process = c.process
    BY <1>1, FreshFacts
  <2>2. Stricter(u, c).state = c.state
    BY <1>1, FreshFacts
  <2>3. Stricter(u, c).info = c.info
    BY <1>1, FreshFacts
  <2>4. Stricter(u, c).cancel = c.cancel
    BY <1>1, FreshFacts
  <2>5. (c.require => Stricter(u, c).require)
    BY <1>1, FreshFacts
  <2>6. (u \in NeedsModel => Stricter(u, c).require \/ c.info)
    BY <1>1, FreshFacts
  <2> QED
    BY <2>1, <2>2, <2>3, <2>4, <2>5, <2>6
<1>4b. /\ Booting(u, c) \in Runtimes /\ Booting(u, c).process = "booting"
       /\ Booting(u, c).state = "starting" /\ Booting(u, c).cancel = c.cancel
       /\ (u \in NeedsModel => Booting(u, c).require)
  BY <1>1, FreshFacts
<1>5. \/ c.process # "none" /\ Ready(c, u) /\ Go(u, IF u \in Workers THEN "verifying" ELSE "working", c)
      \/ c.process # "none" /\ Go(u, "booting", Stricter(u, c))
      \/ c.process = "none" /\ Go(u, "booting", Booting(u, c))
  BY DEF Started, Wait, c
<1>6. ASSUME c.process # "none", Ready(c, u),
             Go(u, IF u \in Workers THEN "verifying" ELSE "working", c)
      PROVE  Calm'
  <2>1. Onward(runtime, c)
    BY <1>1, <1>2, <1>6 DEF Onward
  <2>2. CalmUser(IF u \in Workers THEN "verifying" ELSE "working", u, c)
    BY <1>6 DEF CalmUser
  <2> QED
    BY <1>1, <1>3, <1>6, <2>1, <2>2, CalmGo
<1>7. ASSUME c.process # "none", Go(u, "booting", Stricter(u, c)) PROVE Calm'
  <2>1. Onward(runtime, Stricter(u, c))
    BY <1>1, <1>2, <1>4, <1>7 DEF Onward
  <2>2. CalmUser("booting", u, Stricter(u, c)) /\ CalmRuntime(Stricter(u, c))
    BY <1>1, <1>4, <1>7 DEF CalmUser, CalmRuntime
  <2> QED
    BY <1>1, <1>3, <1>7, <2>1, <2>2, CalmGo
<1>8. ASSUME c.process = "none", Go(u, "booting", Booting(u, c)) PROVE Calm'
  <2>1. Onward(runtime, Booting(u, c))
    BY <1>1, <1>8 DEF Onward
  <2>2. CalmUser("booting", u, Booting(u, c)) /\ CalmRuntime(Booting(u, c))
    BY <1>1, <1>4b, <1>8 DEF CalmUser, CalmRuntime
  <2> QED
    BY <1>1, <1>3, <1>8, <2>1, <2>2, CalmGo
<1> QED
  BY <1>5, <1>6, <1>7, <1>8

LEMMA CalmLease ==
  ASSUME TypeOK, Calm, NEW u \in Users, Leased(u), ~disturbed', UNCHANGED <<late, closed>>
  PROVE  Calm'
<1> DEFINE a == Acquired(runtime)
<1>1. /\ a \in Runtimes /\ a.process = runtime.process /\ a.state = runtime.state
      /\ a.info = runtime.info /\ a.require = runtime.require /\ a.cancel = runtime.cancel
  BY AcquiredFacts DEF TypeOK
<1>2. CalmRuntime(a)
  BY <1>1 DEF Calm, CalmRuntime
<1>3. Refresh(a) = a
  BY <1>1, <1>2, CalmSeen
<1>4. \/ Ready(a, u) /\ Go(u, "working", a) /\ UNCHANGED canceled
      \/ Started(u, a)
  BY <1>3 DEF Leased
<1> HIDE DEF a
<1>5. CASE Started(u, a)
  BY <1>1, <1>2, <1>5, CalmStart
<1>6. CASE Ready(a, u) /\ Go(u, "working", a) /\ UNCHANGED canceled
  <2>1. Onward(runtime, a)
    BY <1>1 DEF Onward
  <2>2. CalmUser("working", u, a)
    BY <1>2, <1>6 DEF CalmUser, CalmRuntime, Ready
  <2> QED
    BY <1>2, <1>6, <2>1, <2>2, CalmGo DEF Calm
<1> QED
  BY <1>4, <1>5, <1>6

LEMMA StepCalm == TypeOK /\ BootInv /\ LeaseInv /\ CalmInv /\ [Next]_vars => CalmInv'
<1> SUFFICES ASSUME TypeOK, BootInv, LeaseInv, [Next]_vars, Calm, ~disturbed, ~disturbed'
             PROVE  Calm'
  <2>1. TypeOK /\ [Next]_vars /\ disturbed => disturbed'
    BY  DEF Next, Event, Poll, BeginHere, BeginLater, BeginOnWorker, Continue, Check,
      StartForWorker,
           Verify, Quit, Finish, Cancel, Close, TimedOut, PollFailed, PollReady, PollCanceled,
           Expire, Serve, LoadModel, Crash, vars, LeaseAndStart, Start, Join, Launch
  <2> QED
    BY <2>1 DEF CalmInv
<1>a. /\ runtime \in Runtimes /\ CalmRuntime(runtime) /\ Refresh(runtime) = runtime
  BY CalmSeen DEF Calm, TypeOK
<1>b. ~closed /\ late = 0 /\ canceled = {}
  BY DEF Calm
<1>c. \A u \in Users : CalmUser(phase[u], u, runtime)
  BY DEF Calm
<1>d. Onward(runtime, runtime)
  BY DEF Onward
<1>e. ASSUME boots # <<>>, Return
      PROVE  /\ Head(boots).user \in Users /\ phase[Head(boots).user] = "booting"
             /\ late' = 0
  <2>1. /\ Head(boots).user \in Users /\ Head(boots) = boots[1] /\ 1 \in 1..Len(boots)
        /\ Len(boots') = Len(boots) - 1 /\ late' \in 0..Len(boots')
        /\ late' \in {late, late - 1}
    BY <1>e, ReturnTypes
  <2> QED
    BY <1>b, <2>1 DEF BootInv
<1>1. ASSUME NEW u \in Users, BeginHere(u) PROVE Calm'
  BY <1>1, <1>a, CalmLease, LeaseEffect DEF BeginHere
<1>2. ASSUME NEW u \in Users, BeginLater(u) PROVE Calm'
  <2>1. CalmUser("delayed", u, runtime)
    BY DEF CalmUser
  <2> QED
    BY <1>2, <1>a, <1>b, <1>d, <2>1, CalmGo DEF BeginLater
<1>3. ASSUME NEW u \in Users, BeginOnWorker(u) PROVE Calm'
  <2> DEFINE a == Acquired(runtime)
  <2>1. /\ a.process = runtime.process /\ a.state = runtime.state
        /\ a.info = runtime.info /\ a.require = runtime.require /\ a.cancel = runtime.cancel
    BY <1>a, AcquiredFacts
  <2>2. Go(u, "checking", a) /\ UNCHANGED <<late, canceled, closed>>
    BY <1>3 DEF BeginOnWorker
  <2> HIDE DEF a
  <2>3. CalmRuntime(a) /\ Onward(runtime, a) /\ CalmUser("checking", u, a)
    BY <1>a, <2>1 DEF CalmRuntime, Onward, CalmUser
  <2> QED
    BY <1>b, <2>2, <2>3, CalmGo
<1>4. ASSUME NEW u \in Users, Continue(u) PROVE Calm'
  BY <1>4, <1>a, <1>b, CalmLease, LeaseEffect DEF Continue
<1>5. ASSUME NEW u \in Users, Check(u) PROVE Calm'
  <2>1. PICK to \in {"working", "starting"} :
            Go(u, to, runtime) /\ (to = "working" => Ready(runtime, u))
    BY <1>5, <1>a DEF Check
  <2>2. CalmUser(to, u, runtime)
    BY <1>a, <2>1 DEF CalmUser, CalmRuntime, Ready
  <2> QED
    BY <1>5, <1>a, <1>b, <1>d, <2>1, <2>2, CalmGo DEF Check
<1>6. ASSUME NEW u \in Users, StartForWorker(u) PROVE Calm'
  BY <1>6, <1>a, <1>b, StartEffect, CalmStart DEF StartForWorker
<1>7. ASSUME NEW u \in Users, Verify(u) PROVE Calm'
  <2>1. Go(u, "working", runtime)
    BY <1>7, <1>a, <1>c DEF Verify, CalmUser
  <2>2. CalmUser("working", u, runtime)
    BY <1>7, <1>c DEF Verify, CalmUser
  <2> QED
    BY <1>7, <1>a, <1>b, <1>d, <2>1, <2>2, CalmGo DEF Verify
<1>8. ASSUME NEW u \in Users, Quit(u) PROVE Calm'
  BY <1>8, <1>c DEF Quit, CalmUser
<1>9. ASSUME NEW u \in Users, Finish(u) PROVE Calm'
  <2> DEFINE q == Released(runtime)
  <2>0. Go(u, "succeeded", q) /\ UNCHANGED <<late, canceled, closed>> /\ u \in Holders
    BY <1>9 DEF Finish, Holders, Ended
  <2>1. CalmUser("succeeded", u, q)
    BY DEF CalmUser
  <2>2. CASE Fewer(runtime.leases) # 0
    <3>1. /\ q.process = runtime.process /\ q.state = runtime.state /\ q.cancel = runtime.cancel
          /\ q.info = runtime.info /\ q.require = runtime.require
      BY <1>a, <2>2, ReleasedFacts
    <3> HIDE DEF q
    <3>2. CalmRuntime(q) /\ Onward(runtime, q)
      BY <1>a, <3>1 DEF CalmRuntime, Onward
    <3> QED
      BY <1>b, <2>0, <2>1, <3>2, CalmGo
  \* The last lease: nobody else has one, so nobody waits or works.
  <2>3. CASE Fewer(runtime.leases) = 0
    <3>1. q.process = "none" /\ q.state = "stopped" /\ q.cancel = runtime.cancel
      BY <1>a, <2>3, ReleasedFacts DEF CalmRuntime
    <3>2. IsFiniteSet(Holders) /\ runtime.leases = Cardinality(Holders)
      BY <1>b DEF LeaseInv, Counted
    <3>3. /\ Cardinality(Holders) \in Nat /\ IsFiniteSet(Holders \ {u})
          /\ Cardinality(Holders \ {u}) = Cardinality(Holders) - 1
          /\ Cardinality(Holders) # 0
      BY <2>0, <3>2, FS_CardinalityType, FS_RemoveElement, FS_EmptySet
    <3>4. Cardinality(Holders \ {u}) = 0
      BY <2>3, <3>2, <3>3 DEF Fewer
    <3>5. Holders \ {u} = {}
      BY <3>3, <3>4, FS_EmptySet
    <3>6. \A v \in Users \ {u} : phase[v] \in {"idle", "delayed", "succeeded", "canceled", "failed"}
      BY <3>5 DEF Holders, Ended
    <3> HIDE DEF q
    <3>7. CalmRuntime(q) /\ \A v \in Users \ {u} : CalmUser(phase[v], v, q)
      BY <1>a, <1>c, <3>1, <3>6 DEF CalmRuntime, CalmUser
    <3> QED
      BY <1>b, <2>0, <2>1, <3>7, CalmGo
  <2> QED
    BY <2>2, <2>3
<1>10. ASSUME NEW u \in Users, Cancel(u) PROVE Calm'
  BY <1>10 DEF Cancel
<1>11. ASSUME Close PROVE Calm'
  BY <1>11 DEF Close
<1>12. ASSUME TimedOut PROVE Calm'
  <2>1. Len(boots) \in Nat /\ (Len(boots) = 0 => boots = <<>>)
    BY DEF TypeOK
  <2> QED
    BY <1>12, <1>b, <2>1 DEF TimedOut, Overdue
<1>13. ASSUME PollFailed PROVE Calm'
  BY <1>13, <1>a DEF PollFailed, CalmRuntime
<1>14. ASSUME PollReady PROVE Calm'
  <2> DEFINE u == Head(boots).user
             q == [runtime EXCEPT !.state = "ready", !.info = @ \/ runtime.process = "modelled"]
  <2>1. Succeed(u, q) /\ Answers(runtime) /\ Enough(runtime) /\ UNCHANGED <<canceled, closed>>
        /\ boots # <<>> /\ Return
    BY <1>14, <1>a DEF PollReady, InTime
  <2>2. u \in Users /\ phase[u] = "booting" /\ late' = 0
    BY <1>e, <2>1
  <2>3. runtime.process # "none"
    BY <2>1 DEF Answers
  <2>4. /\ q \in Runtimes /\ q.process = runtime.process /\ q.state = "ready"
        /\ (runtime.info \/ runtime.process = "modelled" => q.info)
        /\ q.require = runtime.require /\ q.cancel = runtime.cancel
    BY <1>a DEF Runtimes, States
  <2> HIDE DEF q, u
  <2>5. Ready(q, u)
    BY <1>c, <2>1, <2>2, <2>4 DEF Ready, CalmUser, Enough
  <2>6. CalmRuntime(q) /\ Onward(runtime, q)
    BY <1>a, <2>3, <2>4 DEF CalmRuntime, Onward
  <2>7. Refresh(q) = q
    BY <2>4, <2>6, CalmSeen
  <2>8. PICK to \in {"verifying", "working"} : Go(u, to, q)
    BY <2>1, <2>5, <2>7 DEF Succeed
  <2>9. CalmUser(to, u, q)
    BY <2>3, <2>4, <2>5 DEF CalmUser
  <2> QED
    BY <1>b, <2>1, <2>2, <2>6, <2>8, <2>9, CalmGo
<1>15. ASSUME PollCanceled PROVE Calm'
  BY <1>15, <1>a DEF PollCanceled, CalmRuntime
<1>16. ASSUME Expire PROVE Calm'
  BY <1>16 DEF Expire
<1>17. ASSUME Serve PROVE Calm'
  <2>1. /\ runtime.process # "none" /\ runtime'.process # "none"
        /\ runtime'.state = runtime.state /\ runtime'.cancel = runtime.cancel
        /\ runtime'.require = runtime.require /\ runtime'.info = runtime.info
    BY <1>17, <1>a DEF Serve, Runtimes
  <2>2. CalmRuntime(runtime')
    BY <1>a, <2>1 DEF CalmRuntime
  <2>3. \A u \in Users : CalmUser(phase[u], u, runtime')
    BY <1>c, <2>1 DEF CalmUser, Ready
  <2> QED
    BY <1>17, <1>b, <2>2, <2>3 DEF Serve, Calm, CalmRuntime, CalmUser, Ready
<1>18. ASSUME LoadModel PROVE Calm'
  <2>1. /\ runtime.process # "none" /\ runtime'.process # "none"
        /\ runtime'.state = runtime.state /\ runtime'.cancel = runtime.cancel
        /\ runtime'.require = runtime.require /\ runtime'.info = runtime.info
    BY <1>18, <1>a DEF LoadModel, Runtimes
  <2>2. CalmRuntime(runtime')
    BY <1>a, <2>1 DEF CalmRuntime
  <2>3. \A u \in Users : CalmUser(phase[u], u, runtime')
    BY <1>c, <2>1 DEF CalmUser, Ready
  <2> QED
    BY <1>18, <1>b, <2>2, <2>3 DEF LoadModel, Calm, CalmRuntime, CalmUser, Ready
<1>19. ASSUME Crash PROVE Calm'
  BY <1>19 DEF Crash
<1>20. CASE UNCHANGED vars
  BY <1>20, <1>a, <1>b, <1>c DEF vars, Calm, CalmRuntime, CalmUser, Ready
<1> QED
  BY <1>1, <1>2, <1>3, <1>4, <1>5, <1>6, <1>7, <1>8, <1>9, <1>10, <1>11, <1>12, <1>13,
     <1>14, <1>15, <1>16, <1>17, <1>18, <1>19, <1>20 DEF Next, Event, Poll

--------------------------------------------------------------------------------
(* The theorems.                                                                  *)

IInv == TypeOK /\ BootInv /\ LeaseInv

\* The variables keep their types, a start that waits is in the stack once, the
\* count of the leases is the number of their holders until the project is
\* closed, and the process is there exactly while it has users.
THEOREM Invariance == Spec => []IInv
<1>1. Init => IInv
  BY InitType, InitBoot, InitLease DEF IInv
<1>2. IInv /\ [Next]_vars => IInv'
  BY StepType, StepBoot, NextLease, NextWork, StepLease DEF IInv
<1> QED
  BY <1>1, <1>2, PTL DEF Spec

\* A run that works keeps its process whoever else starts, joins, gives up or
\* finishes, and a process that nobody uses does not stay.
THEOREM ProcessIsOwned == Spec => []ProcessOwned
<1>1. IInv => ProcessOwned
  BY DEF IInv, LeaseInv, ProcessOwned
<1> QED
  BY <1>1, Invariance, PTL

\* A run begins to work only on a sidecar that is ready and, where it asks for
\* the model, has reported it, whoever replaced the options it waited under.
THEOREM WorksOnReady == Spec => WorksOnlyWhenReady
<1>1. IInv /\ [Next]_vars =>
        [\A u \in Users :
           phase[u] # "working" /\ phase'[u] = "working" =>
              /\ runtime'.state = "ready" /\ runtime'.process # "none"
              /\ u \in NeedsModel => runtime'.info]_vars
  BY NextWork DEF IInv, WorkStep
<1> QED
  BY <1>1, Invariance, PTL DEF Spec, WorksOnlyWhenReady

\* Starts inside other starts, joined starts and searches in between make no run
\* fail: until something is disturbed every start that waits is answered.
THEOREM FailuresHaveReason == Spec => []FailsForAReason
<1>1. IInv /\ CalmInv /\ [Next]_vars => CalmInv'
  BY StepCalm DEF IInv
<1>2. CalmInv => FailsForAReason
  BY DEF CalmInv, Calm, CalmUser, FailsForAReason
<1> QED
  BY <1>1, <1>2, InitCalm, Invariance, PTL DEF Spec
================================================================================
