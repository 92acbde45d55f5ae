-------------------------- MODULE ProjectSession_proofs --------------------------
(* What TLAPS proves of ProjectSession for every set of projects and images, and *)
(* every bound: types and counts, the write barrier, the locks of analysis tasks, *)
(* and that what the user was told of is kept. An invariant says only what the    *)
(* next one needs; rows get no types, they only have to differ.                   *)
EXTENDS ProjectSession, TLAPS

\* A store is a function of the projects.
Store(f) == f = [p \in Projects |-> f[p]]

Analyses == [at : {"none", "boot", "running", "good", "bad"}, local : BOOLEAN, of : Projects,
             bg : Nat, images : SUBSET Images]
Writes == [images : SUBSET Images, of : Projects, local : BOOLEAN]

Events == {"loaded", "import", "export", "analysis", "labels"}

TypeInv ==
    /\ open \in Projects
    /\ loading = [on |-> loading.on, to |-> loading.to, got |-> loading.got, ok |-> loading.ok]
    /\ loading.on \in BOOLEAN /\ loading.to \in Projects
    /\ writer = [t \in Threads |-> writer[t]]
    /\ events \in Seq(Events)
    /\ export \in {"none", "running", "posted"}
    /\ analysis \in Analyses
    /\ tasks \in Seq(SUBSET Images) /\ pending \in Seq(Writes) /\ completes \in Seq(Nat)
    /\ labels \in [at : {"none", "running", "posted"}, into : BOOLEAN]
    /\ Store(mem) /\ Store(db)
    /\ spent \in [Kinds -> Nat]

--------------------------------------------------------------------------------
LEMMA FinishTypes ==
  ASSUME tasks \in Seq(SUBSET Images), NEW ids, FinishTasks(ids)
  PROVE  /\ tasks' \in Seq(SUBSET Images) /\ Len(tasks') = Len(tasks)
         /\ \A t \in 1..Len(tasks) : tasks'[t] = IF t \in ids THEN {} ELSE tasks[t]
<1>1. DOMAIN tasks = 1..Len(tasks) /\ \A t \in 1..Len(tasks) : tasks[t] \in SUBSET Images
  OBVIOUS
<1>2. tasks' = [t \in 1..Len(tasks) |-> IF t \in ids THEN {} ELSE tasks[t]]
  BY <1>1 DEF FinishTasks
<1>3. tasks' \in [1..Len(tasks) -> SUBSET Images]
  BY <1>1, <1>2
<1> QED
  BY <1>2, <1>3

LEMMA CommitTypes ==
  ASSUME TypeInv, NEW writes, Commit(writes)
  PROVE  Store(db') /\ mem' = mem
  BY DEF TypeInv, Store, Commit

LEMMA PostTypes ==
  ASSUME events \in Seq(Events), NEW e \in Events, Post(e) PROVE events' \in Seq(Events)
  BY DEF Post

LEMMA TakesTypes ==
  ASSUME events \in Seq(Events), NEW e \in Events, Takes(e) PROVE events' \in Seq(Events)
  BY DEF Takes

LEMMA WriterTypes ==
  ASSUME writer = [t \in Threads |-> writer[t]], NEW rows, SavesAndReports(rows)
  PROVE  writer' = [t \in Threads |-> writer'[t]]
<1> DEFINE w == Writer("save", open, rows)
<1>1. writer' = [writer EXCEPT !["ui"] = w]
  BY DEF SavesAndReports
<1> HIDE DEF w
<1> QED
  BY <1>1

LEMMA UserTypes ==
  ASSUME TypeInv, NEW w \in Kinds, UserCan(w)
  PROVE  spent' \in [Kinds -> Nat]
  BY DEF TypeInv, UserCan

LEMMA InitType == Init => TypeInv
<1> SUFFICES ASSUME Init PROVE TypeInv
  OBVIOUS
<1>1. First \in Projects
  BY SessionAssumption
<1>2. /\ writer = [t \in Threads |-> writer[t]]
      /\ Store(mem) /\ Store(db)
  BY DEF Init, Store
<1>3. /\ loading = [on |-> loading.on, to |-> loading.to, got |-> loading.got, ok |-> loading.ok]
      /\ loading.on \in BOOLEAN /\ loading.to \in Projects
  BY <1>1 DEF Init, NotLoading
<1>4. spent \in [Kinds -> Nat]
  BY DEF Init
<1>5. analysis \in Analyses
  BY <1>1 DEF Init, Analyses
<1>6. labels \in [at : {"none", "running", "posted"}, into : BOOLEAN]
  BY DEF Init
<1>7. /\ events \in Seq(Events) /\ tasks \in Seq(SUBSET Images)
      /\ pending \in Seq(Writes) /\ completes \in Seq(Nat)
  BY DEF Init
<1> QED
  BY <1>1, <1>2, <1>3, <1>4, <1>5, <1>6, <1>7 DEF Init, TypeInv

LEMMA StepType == TypeInv /\ [Next]_vars => TypeInv'
<1> SUFFICES ASSUME TypeInv, [Next]_vars PROVE TypeInv'
  OBVIOUS
<1> USE DEF TypeInv
<1>1. CASE Edit
  BY <1>1, UserTypes, WriterTypes DEF Edit, Kinds, Store, workers, known
<1>2. CASE SaveProject
  BY <1>2, UserTypes, WriterTypes DEF SaveProject, Kinds, stores, Store, workers, known
<1>3. CASE StartImport
  BY <1>3, UserTypes DEF StartImport, Kinds, stores, Store, workers, known
<1>4. CASE StartExport
  BY <1>4, UserTypes DEF StartExport, Kinds, stores, Store, known
<1>5. CASE RefuseAnalysis
  BY <1>5, FinishTypes, UserTypes DEF RefuseAnalysis, Kinds, stores, Store, known, Analyses
<1>6. CASE StartLabels
  BY <1>6, UserTypes DEF StartLabels, Kinds, stores, Store, known
<1>7. ASSUME NEW p \in Projects, StartSwitch(p) PROVE TypeInv'
  BY <1>7, UserTypes DEF StartSwitch, Kinds, stores, Store, workers, known
<1>8. ASSUME NEW i \in Images, StartAnalysis(i) PROVE TypeInv'
  BY <1>8, UserTypes DEF StartAnalysis, Kinds, stores, Store, known, Analyses
<1>9. CASE HandleLoaded
  <2>1. events' \in Seq(Events) /\ open' \in Projects
    BY <1>9, TakesTypes DEF Events, HandleLoaded
  <2>2. Store(mem') /\ Store(db')
    BY <1>9 DEF HandleLoaded, Store
  <2>3. labels' \in [at : {"none", "running", "posted"}, into : BOOLEAN]
    BY <1>9 DEF HandleLoaded
  <2>4. /\ loading' = [on |-> FALSE, to |-> First, got |-> {}, ok |-> FALSE]
        /\ First \in Projects
    BY <1>9, SessionAssumption DEF HandleLoaded, NotLoading
  <2> QED
    BY <1>9, <2>1, <2>2, <2>3, <2>4 DEF HandleLoaded, known
<1>10. CASE FinishImport
  BY <1>10, TakesTypes, WriterTypes DEF Events, FinishImport, Store, known, workers
<1>11. CASE FinishExport
  <2>1. events' \in Seq(Events) /\ export' = "none"
    BY <1>11, TakesTypes DEF Events, FinishExport
  <2>2. Store(mem') /\ Store(db') /\ tasks' \in Seq(SUBSET Images)
    <3>1. CASE barrier' > 0
      BY <1>11, <3>1 DEF FinishExport, stores
    <3>2. CASE ~(barrier' > 0)
      <4>1. Commit(ToSet(pending)) /\ FinishTasks(ToSet(completes))
        BY <1>11, <3>2 DEF FinishExport
      <4> QED
        BY <4>1, CommitTypes, FinishTypes
    <3> QED
      BY <3>1, <3>2
  <2>3. pending' \in Seq(Writes) /\ completes' \in Seq(Nat)
    <3>1. CASE barrier' > 0
      <4>1. pending' = pending /\ completes' = completes
        BY <1>11, <3>1 DEF FinishExport
      <4> QED
        BY <4>1
    <3>2. CASE ~(barrier' > 0)
      <4>1. pending' = <<>> /\ completes' = <<>>
        BY <1>11, <3>2 DEF FinishExport
      <4> QED
        BY <4>1
    <3> QED
      BY <3>1, <3>2
  <2> QED
    BY <1>11, <2>1, <2>2, <2>3 DEF FinishExport
<1>12. CASE FinishAnalysis
  <2>1. events' \in Seq(Events)
    BY <1>12, TakesTypes DEF Events, FinishAnalysis
  <2> DEFINE w == [images |-> analysis.images, of |-> analysis.of, local |-> analysis.local]
             ws == IF analysis.at = "bad" THEN <<>> ELSE <<w>>
  <2>2. Submit(ws)
    BY <1>12 DEF FinishAnalysis
  <2>3. w \in Writes
    BY DEF Writes, Analyses
  <2> HIDE DEF w
  <2>4. ws \in Seq(Writes)
    BY <2>3
  <2> HIDE DEF ws
  <2>5. Store(mem') /\ Store(db')
    BY <2>2, CommitTypes DEF Submit, stores
  <2>6. pending' \in Seq(Writes)
    <3>1. CASE barrier > 0
      <4>1. pending' = pending \o ws
        BY <2>2, <3>1 DEF Submit
      <4> QED
        BY <4>1, <2>4
    <3>2. CASE ~(barrier > 0)
      BY <2>2, <3>2 DEF Submit
    <3> QED
      BY <3>1, <3>2
  <2>7. CASE pending' # <<>> /\ ~analysis.local
    <3>1. completes' = Append(completes, analysis.bg) /\ tasks' = tasks
      BY <1>12, <2>7 DEF FinishAnalysis, EndTask
    <3>2. analysis.bg \in Nat /\ analysis' = [analysis EXCEPT !.at = "none"]
      BY <1>12, <2>7 DEF FinishAnalysis, EndTask, Analyses
    <3>3. completes' \in Seq(Nat)
      BY <3>1, <3>2
    <3>4. analysis' \in Analyses
      BY <3>2 DEF Analyses
    <3> QED
      BY <1>12, <2>1, <2>5, <2>6, <3>1, <3>3, <3>4 DEF FinishAnalysis
  <2>8. CASE ~(pending' # <<>> /\ ~analysis.local)
    <3>1. tasks' \in Seq(SUBSET Images) /\ completes' = completes
      BY <1>12, <2>8, FinishTypes DEF FinishAnalysis, EndTask
    <3>2. analysis' = [analysis EXCEPT !.at = "none", !.bg = 0]
      BY <1>12, <2>8 DEF FinishAnalysis, EndTask
    <3>3. analysis' \in Analyses
      BY <3>2 DEF Analyses
    <3> QED
      BY <1>12, <2>1, <2>5, <2>6, <3>1, <3>3 DEF FinishAnalysis
  <2> QED
    BY <2>7, <2>8
<1>13. CASE FinishLabels
  BY <1>13, TakesTypes, WriterTypes DEF Events, FinishLabels, stores, known, Store
<1>14. CASE ImportSubmits
  BY <1>14 DEF ImportSubmits, Store, known, workers
<1>15. CASE UIPacked
  BY <1>15 DEF UIPacked, Store, stores, workers
<1>16. ASSUME NEW t \in Threads, Packs(t) PROVE TypeInv'
  BY <1>16 DEF Packs, Saved, SaveFails, WriteTmp, RemoveOld, RenameNew, Goes, Store, stores, known,
             workers
<1>17. CASE BootFails
  BY <1>17, FinishTypes DEF BootFails, Analyses, stores, Store, known
<1>18. CASE BootDone
  BY <1>18 DEF BootDone, Analyses, stores, Store, known
<1>19. CASE LoaderOpens
  BY <1>19, PostTypes DEF Events, LoaderOpens, stores, Store, known, workers
<1>20. CASE ImportRuns
  BY <1>20, PostTypes DEF Events, ImportRuns, stores, Store, known, workers
<1>21. CASE ExportEnds
  BY <1>21, PostTypes DEF Events, ExportEnds, stores, Store, known
<1>22. CASE AnalysisEnds
  BY <1>22, PostTypes DEF Events, AnalysisEnds, stores, Store, known, Analyses
<1>23. CASE WriteLabel
  BY <1>23 DEF WriteLabel, Store, known, workers
<1>24. CASE LabelsEnd
  BY <1>24, PostTypes DEF Events, LabelsEnd, stores, Store, known
<1>25. CASE UNCHANGED vars
  BY <1>25 DEF vars, stores, Store, known, workers
<1>26. Packs("ui") => TypeInv'
  BY <1>16 DEF Threads
<1>27. Packs("loader") => TypeInv'
  BY <1>16 DEF Threads
<1> QED
  BY <1>1, <1>2, <1>3, <1>4, <1>5, <1>6, <1>7, <1>8, <1>9, <1>10, <1>11, <1>12, <1>13, <1>14,
     <1>15, <1>17, <1>18, <1>19, <1>20, <1>21, <1>22, <1>23, <1>24, <1>25, <1>26, <1>27
     DEF Next, User, UI, Boot, Loader, ImportThread, ExportThread, AnalysisThread, LabelThread

\* Every state has the types above, which is the first of the invariants used below.
THEOREM TypeAlways == Spec => []TypeInv
  BY InitType, StepType, PTL DEF Spec

--------------------------------------------------------------------------------
(* The barrier counts the export; no project is opened while it is held; each    *)
(* result is posted once, and its handler runs in the state it was posted for.   *)

Awaits(s, e) == \E i \in 1..Len(s) : s[i] = e
Once(s, e) == \A i, j \in 1..Len(s) : s[i] = e /\ s[j] = e => i = j

EventInv ==
    /\ barrier = IF export = "none" THEN 0 ELSE 1
    /\ loading.on => export = "none"
    /\ writer["loader"].at # "idle" => loading.on
    /\ Awaits(events, "loaded") => loading.on /\ writer["loader"].at = "idle"
    /\ Awaits(events, "export") => export = "posted"
    /\ Awaits(events, "analysis") => analysis.at \in {"good", "bad"}
    /\ \A e \in {"loaded", "export", "analysis"} : Once(events, e)

LEMMA PostAwaits ==
  ASSUME events \in Seq(Events), NEW e \in Events, Post(e), NEW f \in Events
  PROVE  /\ Awaits(events', f) <=> Awaits(events, f) \/ f = e
         /\ Once(events, f) /\ (f = e => ~Awaits(events, f)) => Once(events', f)
<1>1. /\ events' = Append(events, e) /\ Len(events') = Len(events) + 1
      /\ Len(events) \in Nat
      /\ events'[Len(events) + 1] = e
      /\ \A i \in 1..Len(events) : events'[i] = events[i]
  BY DEF Post
<1> QED
  BY <1>1 DEF Awaits, Once

LEMMA TakesAwaits ==
  ASSUME events \in Seq(Events), NEW e \in Events, Takes(e), NEW f \in Events
  PROVE  /\ Awaits(events', f) => Awaits(events, f)
         /\ Awaits(events, e)
         /\ Once(events, f) => Once(events', f)
         /\ Once(events, e) => ~Awaits(events', e)
<1>1. /\ events # <<>> /\ events[1] = e /\ events' = Tail(events)
  BY DEF Takes
<1>2. /\ Len(events) \in Nat /\ Len(events) > 0
      /\ Len(events') = Len(events) - 1
      /\ \A i \in 1..Len(events') : events'[i] = events[i + 1]
  BY <1>1
<1> QED
  BY <1>1, <1>2 DEF Awaits, Once

LEMMA SavesKeepsLoader ==
  ASSUME writer = [t \in Threads |-> writer[t]], NEW rows, SavesAndReports(rows)
  PROVE  writer'["loader"] = writer["loader"]
<1> DEFINE w == Writer("save", open, rows)
<1>1. writer' = [writer EXCEPT !["ui"] = w]
  BY DEF SavesAndReports
<1> HIDE DEF w
<1> QED
  BY <1>1 DEF Threads

LEMMA InitEvent == Init => EventInv
  BY DEF Init, EventInv, NotLoading, Idle, Writer, Threads, Awaits, Once

LEMMA StepEvent == TypeInv /\ EventInv /\ [Next]_vars => EventInv'
<1> SUFFICES ASSUME TypeInv, EventInv, [Next]_vars PROVE EventInv'
  OBVIOUS
<1> USE DEF EventInv
<1>0. /\ writer = [t \in Threads |-> writer[t]] /\ events \in Seq(Events)
      /\ analysis \in Analyses /\ loading.on \in BOOLEAN
      /\ loading = [on |-> loading.on, to |-> loading.to, got |-> loading.got, ok |-> loading.ok]
  BY DEF TypeInv
<1>1. CASE Edit
  BY <1>0, <1>1, SavesKeepsLoader DEF Edit, workers
<1>2. CASE SaveProject
  BY <1>0, <1>2, SavesKeepsLoader DEF SaveProject, workers
<1>3. CASE StartImport
  BY <1>3 DEF StartImport, workers
<1>4. CASE StartExport
  BY <1>4 DEF StartExport, UserCan, Unblocked
<1>5. CASE RefuseAnalysis
  BY <1>0, <1>5 DEF RefuseAnalysis, Analyses
<1>6. CASE StartLabels
  BY <1>6 DEF StartLabels
<1>7. ASSUME NEW p \in Projects, StartSwitch(p) PROVE EventInv'
  BY <1>0, <1>7 DEF StartSwitch, UserCan, Unblocked, Switchable, workers
<1>8. ASSUME NEW i \in Images, StartAnalysis(i) PROVE EventInv'
  BY <1>0, <1>8 DEF StartAnalysis
<1>9. CASE HandleLoaded
  BY <1>0, <1>9, TakesAwaits DEF HandleLoaded, NotLoading, Events
<1>10. CASE FinishImport
  BY <1>0, <1>10, TakesAwaits, SavesKeepsLoader DEF FinishImport, workers, Events
<1>11. CASE FinishExport
  BY <1>0, <1>11, TakesAwaits DEF FinishExport, Events
<1>12. CASE FinishAnalysis
  BY <1>0, <1>12, TakesAwaits DEF FinishAnalysis, Events, EndTask, Analyses
<1>13. CASE FinishLabels
  BY <1>0, <1>13, TakesAwaits, SavesKeepsLoader DEF FinishLabels, Events
<1>14. CASE ImportSubmits
  BY <1>14 DEF ImportSubmits, workers
<1>15. CASE UIPacked
  BY <1>0, <1>15 DEF UIPacked, workers, Threads
<1>16. CASE Packs("ui")
  BY <1>0, <1>16 DEF Packs, Saved, SaveFails, WriteTmp, RemoveOld, RenameNew, Goes, workers, Threads
<1>17. CASE Packs("loader")
  BY <1>17 DEF Packs, Saved, SaveFails, WriteTmp, RemoveOld, RenameNew, workers
<1>18. CASE BootFails
  BY <1>0, <1>18 DEF BootFails, Analyses
<1>19. CASE BootDone
  BY <1>0, <1>19 DEF BootDone, Analyses
<1>20. CASE LoaderOpens
  BY <1>0, <1>20, PostAwaits DEF LoaderOpens, Packed, Events, workers, Threads, Idle, Writer
<1>21. CASE ImportRuns
  BY <1>0, <1>21, PostAwaits DEF ImportRuns, Events, workers
<1>22. CASE ExportEnds
  BY <1>0, <1>22, PostAwaits DEF ExportEnds, Events
<1>23. CASE AnalysisEnds
  BY <1>0, <1>23, PostAwaits DEF AnalysisEnds, Events, Analyses
<1>24. CASE WriteLabel
  BY <1>24 DEF WriteLabel, workers
<1>25. CASE LabelsEnd
  BY <1>0, <1>25, PostAwaits DEF LabelsEnd, Events
<1>26. CASE UNCHANGED vars
  BY <1>26 DEF vars, workers
<1> QED
  BY <1>1, <1>2, <1>3, <1>4, <1>5, <1>6, <1>7, <1>8, <1>9, <1>10, <1>11, <1>12, <1>13, <1>14,
     <1>15, <1>16, <1>17, <1>18, <1>19, <1>20, <1>21, <1>22, <1>23, <1>24, <1>25, <1>26
     DEF Next, User, UI, Boot, Loader, ImportThread, ExportThread, AnalysisThread, LabelThread

--------------------------------------------------------------------------------
(* Rows of two kinds differ, and two imports.                                    *)

LEMMA Kinded ==
  \A k, p, n : Nth(k, p, n)[1] = k /\ Nth(k, p, n)[3] = n /\ Row(k, p)[1] = k
  BY DEF Nth, Row

LEMMA RowsDiffer ==
  /\ \A p, q, n : /\ Nth("edit", p, n) # Row("caption", q)
                  /\ Nth("import", p, n) # Row("caption", q)
                  /\ Nth("import", p, n) # Row("label", q)
  /\ \A p, q, n, m : Nth("edit", p, n) # Nth("import", q, m)
  /\ \A p, q, n, m : Nth("import", p, n) = Nth("import", q, m) => n = m
  /\ \A p, q : Row("label", p) # Row("caption", q)
<1>1. \A p, n : Nth("edit", p, n)[1] = "edit" /\ Nth("import", p, n)[1] = "import"
  BY Kinded
<1>2. \A p : Row("caption", p)[1] = "caption" /\ Row("label", p)[1] = "label"
  BY Kinded
<1>4. \A p, n : Nth("import", p, n)[3] = n
  BY Kinded
<1>5. \A p, q, n : /\ Nth("edit", p, n) # Row("caption", q)
                    /\ Nth("import", p, n) # Row("caption", q)
                    /\ Nth("import", p, n) # Row("label", q)
  <2> TAKE p, q, n
  <2> QED
    BY <1>1, <1>2
<1>6. \A p, q, n, m : Nth("edit", p, n) # Nth("import", q, m)
  <2> TAKE p, q, n, m
  <2> QED
    BY <1>1
<1>7. \A p, q, n, m : Nth("import", p, n) = Nth("import", q, m) => n = m
  <2> TAKE p, q, n, m
  <2> QED
    BY <1>4
<1>8. \A p, q : Row("label", p) # Row("caption", q)
  <2> TAKE p, q
  <2> QED
    BY <1>2
<1> QED
  BY <1>5, <1>6, <1>7, <1>8

--------------------------------------------------------------------------------
(* A result of an analysis goes to the database at once, never through memory.   *)

MemInv == \A p, q \in Projects : Row("caption", q) \notin mem[p]

LEMMA InitMem == Init => MemInv
  BY DEF Init, MemInv

LEMMA MemKept == ASSUME MemInv, mem' = mem PROVE MemInv'
  BY DEF MemInv

LEMMA CommitKeepsMem == ASSUME NEW ws, Commit(ws) PROVE mem' = mem
  BY DEF Commit

LEMMA StepMem == TypeInv /\ MemInv /\ [Next]_vars => MemInv'
<1> SUFFICES ASSUME TypeInv, MemInv, [Next]_vars PROVE MemInv'
  OBVIOUS
<1>0. Store(mem) /\ open \in Projects
  BY DEF TypeInv
<1>1. CASE HandleLoaded
  BY <1>0, <1>1 DEF HandleLoaded, MemInv, Store
<1>2. CASE FinishImport
  BY <1>0, <1>2 DEF FinishImport, MemInv, Store
<1>3. CASE ImportSubmits
  BY <1>0, <1>3, RowsDiffer DEF ImportSubmits, MemInv, Store, Imported
<1>4. ASSUME NEW t \in Threads, Packs(t) PROVE MemInv'
  BY <1>0, <1>4 DEF Packs, Saved, SaveFails, WriteTmp, RemoveOld, RenameNew, MemInv, Store,
                    stores
<1>5. CASE FinishExport
  BY <1>5, CommitKeepsMem, MemKept DEF FinishExport, stores
<1>6. CASE FinishAnalysis
  BY <1>6, CommitKeepsMem, MemKept DEF FinishAnalysis, Submit, stores
<1>7. CASE User
  BY <1>7, MemKept DEF User, Edit, SaveProject, StartImport, StartExport, RefuseAnalysis,
     StartLabels, StartSwitch, StartAnalysis, stores
<1>8. CASE FinishLabels \/ UIPacked \/ Boot \/ LoaderOpens
  BY <1>8, MemKept DEF FinishLabels, UIPacked, Boot, BootFails, BootDone, LoaderOpens, stores
<1>9. CASE ImportThread \/ ExportThread \/ AnalysisThread \/ LabelThread
  BY <1>9, MemKept DEF ImportThread, ExportThread, AnalysisThread, LabelThread, ImportRuns,
     ExportEnds, AnalysisEnds, WriteLabel, LabelsEnd, stores
<1>10. CASE UNCHANGED vars
  BY <1>10, MemKept DEF vars, stores
<1> QED
  BY <1>1, <1>2, <1>3, <1>4, <1>5, <1>6, <1>7, <1>8, <1>9, <1>10
     DEF Next, UI, Loader, Threads

LEMMA StepBarrier ==
  ASSUME TypeInv, EventInv, MemInv, [Next]_vars, barrier > 0, barrier' > 0
  PROVE  open' = open /\ \A p \in Projects : Captions(p)' = Captions(p)
<1>0. Store(mem) /\ Store(db) /\ open \in Projects /\ events \in Seq(Events)
  BY DEF TypeInv
<1>1. CASE Edit
  BY <1>0, <1>1, RowsDiffer DEF Edit, Captions, Store
<1>2. CASE HandleLoaded
  <2>1. Awaits(events, "loaded")
    BY <1>0, <1>2, TakesAwaits DEF HandleLoaded, Events
  <2> QED
    BY <2>1 DEF EventInv
<1>3. CASE FinishImport
  BY <1>0, <1>3, RowsDiffer DEF FinishImport, Captions, Store, Imported
<1>4. CASE FinishExport
  BY <1>4 DEF FinishExport, EventInv
<1>5. CASE FinishAnalysis
  BY <1>5 DEF FinishAnalysis, Submit, stores, Captions
<1>6. ASSUME NEW t \in Threads, Packs(t)
      PROVE  open' = open /\ \A p \in Projects : Captions(p)' = Captions(p)
  <2>1. open' = open
    BY <1>6 DEF Packs
  <2>2. CASE Saved(t)
    <3> DEFINE of == writer[t].of
    <3>1. db' = [db EXCEPT ![of] = @ \cup mem[of]]
      BY <2>2 DEF Saved
    <3> HIDE DEF of
    <3> QED
      BY <1>0, <2>1, <3>1 DEF MemInv, Store, Captions
  <2>3. CASE SaveFails(t) \/ WriteTmp(t) \/ RemoveOld(t) \/ RenameNew(t)
    BY <2>1, <2>3 DEF SaveFails, WriteTmp, RemoveOld, RenameNew, Captions, stores
  <2> QED
    BY <1>6, <2>2, <2>3 DEF Packs
<1>7. CASE WriteLabel
  BY <1>0, <1>7 DEF WriteLabel, Captions, Store, Row
<1>12. CASE SaveProject
  <2>1. open' = open
    BY <1>12 DEF SaveProject
  <2>2. PICK rows : /\ db' = [db EXCEPT ![open] = @ \ rows] /\ rows \in SUBSET {Row("label", open)}
    BY <1>12 DEF SaveProject
  <2> QED
    BY <1>0, <2>1, <2>2, RowsDiffer DEF Captions, Store
<1>8. CASE StartImport \/ StartExport \/ RefuseAnalysis \/ StartLabels
           \/ (\E p \in Projects : StartSwitch(p)) \/ \E i \in Images : StartAnalysis(i)
  BY <1>8 DEF StartImport, StartExport, RefuseAnalysis, StartLabels, StartSwitch,
     StartAnalysis, stores, Captions
<1>9. CASE ImportSubmits \/ FinishLabels \/ UIPacked \/ Boot \/ LoaderOpens
  BY <1>9 DEF ImportSubmits, FinishLabels, UIPacked, Boot, BootFails, BootDone, LoaderOpens,
     stores, Captions
<1>10. CASE ImportThread \/ ExportThread \/ AnalysisThread \/ LabelsEnd
  BY <1>10 DEF ImportThread, ExportThread, AnalysisThread, ImportRuns, ExportEnds,
     AnalysisEnds, LabelsEnd, stores, Captions
<1>11. CASE UNCHANGED vars
  BY <1>11 DEF vars, stores, Captions
<1> QED
  BY <1>1, <1>2, <1>3, <1>4, <1>5, <1>6, <1>7, <1>8, <1>9, <1>10, <1>11, <1>12
     DEF Next, User, UI, Loader, LabelThread, Threads

\* While an export holds the write barrier, no result of an analysis is written and
\* no project is opened: what AnalysisResultWriteQueue and the guards of
\* InitializeServices are for.
THEOREM NothingUnderBarrier == Spec => NoWriteUnderBarrier
<1>1. TypeInv /\ EventInv /\ MemInv /\ [Next]_vars =>
        [barrier > 0 /\ barrier' > 0
           => open' = open /\ \A p \in Projects : Captions(p)' = Captions(p)]_vars
  BY StepBarrier
<1> QED
  BY <1>1, InitType, StepType, InitEvent, StepEvent, InitMem, StepMem, PTL
     DEF Spec, NoWriteUnderBarrier

--------------------------------------------------------------------------------
(* Every file of an import is left, submitted and unread, done or failed; what    *)
(* TryFinishImportJob reads is enough to know that the last two are all.         *)

Jobs == [running : {TRUE}, total : Nat, left : Nat, submitted : Nat, finished : Nat, done : Nat,
         failed : Nat, counting : Nat, asking : Nat, closed : BOOLEAN, acked : BOOLEAN]

Counted(j) ==
    /\ j.done + j.failed + j.left + (j.submitted - j.finished - j.counting) = j.total
    /\ j.finished + j.counting <= j.submitted
    /\ j.closed => j.left = 0
    /\ j.acked => j.closed /\ j.finished = j.submitted

JobInv == job = NoImport \/ (job \in Jobs /\ Counted(job))

LEMMA InitJob == Init => JobInv
  BY DEF Init, JobInv

LEMMA JobRuns == ASSUME JobInv, job.running PROVE job \in Jobs /\ Counted(job)
<1>1. NoImport.running = FALSE
  BY DEF NoImport
<1> QED
  BY <1>1 DEF JobInv

LEMMA JobCounts == JobInv => ImportCounted
<1> SUFFICES ASSUME JobInv, job.running, job.acked PROVE job.done + job.failed = job.total
  BY DEF ImportCounted, Acked
<1> QED
  BY JobRuns DEF Jobs, Counted

LEMMA TriesCounted ==
  ASSUME NEW j \in Jobs, Counted(j)
  PROVE  TryFinishImportJob(j) \in Jobs /\ Counted(TryFinishImportJob(j))
<1>1. CASE AllFinished(j)
  <2> DEFINE k == [j EXCEPT !.acked = TRUE]
  <2>1. TryFinishImportJob(j) = k
    BY <1>1 DEF TryFinishImportJob
  <2>2. k \in Jobs
    BY DEF Jobs
  <2>3. Counted(k)
    BY <1>1 DEF Counted, AllFinished, Jobs
  <2> QED
    BY <2>1, <2>2, <2>3
<1>2. CASE ~AllFinished(j)
  BY <1>2 DEF TryFinishImportJob
<1> QED
  BY <1>1, <1>2

LEMMA JobFields ==
  ASSUME NEW j \in Jobs, NEW a \in Nat, NEW b \in Nat, NEW c \in Nat
  PROVE  /\ [j EXCEPT !.left = a, !.failed = b] \in Jobs
         /\ [j EXCEPT !.left = a, !.submitted = b] \in Jobs
         /\ [j EXCEPT !.done = a, !.counting = b] \in Jobs
         /\ [j EXCEPT !.failed = a, !.counting = b] \in Jobs
         /\ [j EXCEPT !.counting = a, !.finished = b, !.asking = c] \in Jobs
         /\ [j EXCEPT !.asking = a] \in Jobs
  BY DEF Jobs

LEMMA StepJob == JobInv /\ [Next]_vars => JobInv'
<1> SUFFICES ASSUME JobInv, [Next]_vars PROVE JobInv'
  OBVIOUS
<1>0. job.running => job \in Jobs /\ Counted(job)
  BY JobRuns
<1>1. CASE StartImport
  <2>1. PICK n \in 1..MaxFiles : job' = NewJob(n)
    BY <1>1 DEF StartImport
  <2>2. n \in Nat /\ NewJob(n) \in Jobs
    BY <2>1, FilesAssumption DEF NewJob, Jobs
  <2>3. Counted(NewJob(n))
    BY <2>2 DEF NewJob, Counted
  <2> QED
    BY <2>1, <2>2, <2>3 DEF JobInv
<1>2. CASE SubmitFile
  <2>1. job \in Jobs /\ Counted(job) /\ job.left > 0
    BY <1>0, <1>2 DEF SubmitFile
  <2>2. CASE job' = [job EXCEPT !.left = @ - 1, !.failed = @ + 1]
    <3>1. job.left - 1 \in Nat /\ job.failed + 1 \in Nat
      BY <2>1 DEF Jobs
    <3>2. job' \in Jobs
      BY <2>1, <2>2, <3>1, JobFields
    <3>3. Counted(job')
      BY <2>1, <2>2 DEF Jobs, Counted
    <3> QED
      BY <3>2, <3>3 DEF JobInv
  <2>3. CASE job' = [job EXCEPT !.left = @ - 1, !.submitted = @ + 1]
    <3>1. job.left - 1 \in Nat /\ job.submitted + 1 \in Nat
      BY <2>1 DEF Jobs
    <3>2. job' \in Jobs
      BY <2>1, <2>3, <3>1, JobFields
    <3>3. Counted(job')
      BY <2>1, <2>3 DEF Jobs, Counted
    <3> QED
      BY <3>2, <3>3 DEF JobInv
  <2> QED
    BY <1>2, <2>2, <2>3 DEF SubmitFile
<1>3. CASE CloseSubmission
  <2> DEFINE j == [job EXCEPT !.closed = TRUE]
  <2>1. j \in Jobs
    BY <1>0, <1>3 DEF CloseSubmission, Jobs
  <2>2. Counted(j)
    BY <1>0, <1>3 DEF CloseSubmission, Jobs, Counted
  <2>3. job' = TryFinishImportJob(j)
    BY <1>3 DEF CloseSubmission
  <2> HIDE DEF j
  <2> QED
    BY <2>1, <2>2, <2>3, TriesCounted DEF JobInv
<1>4. CASE RunTask
  <2>1. job \in Jobs /\ Counted(job) /\ job.submitted - job.finished - job.counting > 0
    BY <1>0, <1>4 DEF RunTask, Unread
  <2>2. CASE job' = [job EXCEPT !.done = @ + 1, !.counting = @ + 1]
    <3>1. job.done + 1 \in Nat /\ job.counting + 1 \in Nat
      BY <2>1 DEF Jobs
    <3>2. job' \in Jobs
      BY <2>1, <2>2, <3>1, JobFields
    <3>3. Counted(job')
      BY <2>1, <2>2 DEF Jobs, Counted
    <3> QED
      BY <3>2, <3>3 DEF JobInv
  <2>3. CASE job' = [job EXCEPT !.failed = @ + 1, !.counting = @ + 1]
    <3>1. job.failed + 1 \in Nat /\ job.counting + 1 \in Nat
      BY <2>1 DEF Jobs
    <3>2. job' \in Jobs
      BY <2>1, <2>3, <3>1, JobFields
    <3>3. Counted(job')
      BY <2>1, <2>3 DEF Jobs, Counted
    <3> QED
      BY <3>2, <3>3 DEF JobInv
  <2> QED
    BY <1>4, <2>2, <2>3 DEF RunTask
<1>5. CASE Count
  <2>1. /\ job \in Jobs /\ Counted(job) /\ job.counting > 0
        /\ job' = [job EXCEPT !.counting = @ - 1, !.finished = @ + 1, !.asking = @ + 1]
    BY <1>0, <1>5 DEF Count
  <2>2. job.counting - 1 \in Nat /\ job.finished + 1 \in Nat /\ job.asking + 1 \in Nat
    BY <2>1 DEF Jobs
  <2>3. job' \in Jobs
    BY <2>1, <2>2, JobFields
  <2>4. Counted(job')
    BY <2>1 DEF Jobs, Counted
  <2> QED
    BY <2>3, <2>4 DEF JobInv
<1>6. CASE Ask
  <2> DEFINE j == [job EXCEPT !.asking = @ - 1]
  <2>1. j \in Jobs
    <3>1. job \in Jobs /\ job.asking > 0
      BY <1>0, <1>6 DEF Ask
    <3>2. job.asking - 1 \in Nat
      BY <3>1 DEF Jobs
    <3> QED
      BY <3>1, <3>2, JobFields
  <2>2. Counted(j)
    BY <1>0, <1>6 DEF Ask, Jobs, Counted
  <2>3. job' = TryFinishImportJob(j)
    BY <1>6 DEF Ask
  <2> HIDE DEF j
  <2> QED
    BY <2>1, <2>2, <2>3, TriesCounted DEF JobInv
<1>7. CASE FinishImport
  BY <1>7 DEF FinishImport, JobInv
<1>8. CASE job' = job
  BY <1>8 DEF JobInv
<1>9. CASE Edit \/ SaveProject \/ StartExport \/ RefuseAnalysis \/ StartLabels
           \/ (\E p \in Projects : StartSwitch(p)) \/ \E i \in Images : StartAnalysis(i)
  BY <1>8, <1>9 DEF Edit, SaveProject, StartExport, RefuseAnalysis, StartLabels, StartSwitch,
     StartAnalysis
<1>10. CASE HandleLoaded \/ FinishExport \/ FinishAnalysis \/ FinishLabels \/ UIPacked
            \/ Packs("ui") \/ Boot \/ Loader
  BY <1>8, <1>10 DEF HandleLoaded, FinishExport, FinishAnalysis, FinishLabels, UIPacked, Packs,
     Boot, BootFails, BootDone, Loader, LoaderOpens
<1>11. CASE ExportThread \/ AnalysisThread \/ LabelThread
  BY <1>8, <1>11 DEF ExportThread, AnalysisThread, LabelThread, ExportEnds, AnalysisEnds,
     WriteLabel, LabelsEnd
<1>12. CASE UNCHANGED vars
  BY <1>8, <1>12 DEF vars
<1> QED
  BY <1>1, <1>2, <1>3, <1>4, <1>5, <1>6, <1>7, <1>9, <1>10, <1>11, <1>12
     DEF Next, User, UI, ImportThread, ImportRuns, ImportSubmits

--------------------------------------------------------------------------------
(* The task of the running analysis keeps its images, and is none of those that   *)
(* wait for the queue; each pending write is covered by one that waits.          *)

\* A write is covered by a task that waits for the queue.
Covered(write) == \E c \in 1..Len(completes) : write.images \subseteq tasks[completes[c]]

TaskInv ==
    /\ \A c \in 1..Len(completes) : completes[c] \in 1..Len(tasks)
    /\ analysis.bg <= Len(tasks)
    /\ analysis.at # "none" =>
          /\ analysis.bg \in 1..Len(tasks) /\ tasks[analysis.bg] = analysis.images
          /\ \A c \in 1..Len(completes) : completes[c] # analysis.bg
    /\ spent["refusal"] = 0 =>
          \A k \in 1..Len(pending) : pending[k].local \/ Covered(pending[k])

LEMMA InitTask == Init => TaskInv
  BY DEF Init, TaskInv

LEMMA TaskKept ==
  ASSUME TaskInv, UNCHANGED <<tasks, analysis, pending, completes>>,
         spent'["refusal"] = 0 => spent["refusal"] = 0
  PROVE  TaskInv'
  BY DEF TaskInv, Covered

LEMMA AskedKept ==
  ASSUME spent \in [Kinds -> Nat], NEW w \in Kinds, UserCan(w)
  PROVE  /\ spent'["refusal"] = 0 => spent["refusal"] = 0
         /\ w = "refusal" => spent'["refusal"] # 0
  BY DEF UserCan, Kinds

LEMMA StepTask == TypeInv /\ EventInv /\ TaskInv /\ [Next]_vars => TaskInv'
<1> SUFFICES ASSUME TypeInv, EventInv, TaskInv, [Next]_vars PROVE TaskInv'
  OBVIOUS
<1>0. /\ spent \in [Kinds -> Nat] /\ analysis \in Analyses /\ tasks \in Seq(SUBSET Images)
      /\ pending \in Seq(Writes) /\ completes \in Seq(Nat) /\ events \in Seq(Events)
      /\ Len(tasks) \in Nat /\ Len(pending) \in Nat /\ Len(completes) \in Nat
  BY DEF TypeInv
<1>1. CASE RefuseAnalysis
  <2>1. spent'["refusal"] # 0
    BY <1>0, <1>1, AskedKept DEF RefuseAnalysis, Kinds
  <2>2. Len(tasks') = Len(tasks) /\ completes' = completes
    BY <1>0, <1>1, FinishTypes DEF RefuseAnalysis
  <2>3. analysis'.bg = 0 /\ analysis'.at = "none"
    BY <1>0, <1>1 DEF RefuseAnalysis, Analyses
  <2> QED
    BY <1>0, <2>1, <2>2, <2>3 DEF TaskInv
<1>2. ASSUME NEW i \in Images, StartAnalysis(i) PROVE TaskInv'
  <2>1. spent'["refusal"] = 0 => spent["refusal"] = 0
    BY <1>0, <1>2, AskedKept DEF StartAnalysis, Kinds
  <2>2. /\ tasks' = Append(tasks, {i}) /\ Len(tasks') = Len(tasks) + 1
        /\ tasks'[Len(tasks) + 1] = {i}
        /\ \A t \in 1..Len(tasks) : tasks'[t] = tasks[t]
    BY <1>0, <1>2 DEF StartAnalysis
  <2>3. /\ analysis'.bg = Len(tasks) + 1 /\ analysis'.images = {i}
        /\ completes' = completes /\ pending' = pending
    BY <1>2, <2>2 DEF StartAnalysis
  <2>4. \A k \in 1..Len(pending) : Covered(pending[k]) => Covered(pending[k])'
    BY <2>2, <2>3 DEF TaskInv, Covered
  <2> QED
    BY <1>0, <2>1, <2>2, <2>3, <2>4 DEF TaskInv
<1>3. CASE BootFails
  <2>1. /\ Len(tasks') = Len(tasks)
        /\ \A t \in 1..Len(tasks) : t # analysis.bg => tasks'[t] = tasks[t]
    BY <1>0, <1>3, FinishTypes DEF BootFails
  <2>2. /\ completes' = completes /\ pending' = pending /\ spent' = spent
        /\ analysis.at = "boot" /\ analysis'.at = "none" /\ analysis'.bg = 0
    BY <1>0, <1>3 DEF BootFails, Analyses
  <2>3. \A k \in 1..Len(pending) : Covered(pending[k]) => Covered(pending[k])'
    BY <2>1, <2>2 DEF TaskInv, Covered
  <2> QED
    BY <1>0, <2>1, <2>2, <2>3 DEF TaskInv
<1>4. CASE BootDone \/ AnalysisEnds
  <2>1. /\ UNCHANGED <<tasks, pending, completes, spent>>
        /\ analysis'.bg = analysis.bg /\ analysis'.images = analysis.images
        /\ analysis.at # "none"
    BY <1>0, <1>4 DEF BootDone, AnalysisEnds, Analyses
  <2> QED
    BY <2>1 DEF TaskInv, Covered
<1>5. CASE FinishExport
  <2>1. UNCHANGED <<analysis, spent>>
    BY <1>5 DEF FinishExport
  <2>2. ~(barrier' > 0)
    <3>1. Awaits(events, "export")
      BY <1>0, <1>5, TakesAwaits DEF FinishExport, Events
    <3> QED
      BY <1>5, <3>1 DEF FinishExport, EventInv
  <2>3. FinishTasks(ToSet(completes)) /\ pending' = <<>> /\ completes' = <<>>
    BY <1>5, <2>2 DEF FinishExport
  <2>4. /\ Len(tasks') = Len(tasks)
        /\ \A t \in 1..Len(tasks) :
              tasks'[t] = IF t \in ToSet(completes) THEN {} ELSE tasks[t]
    BY <1>0, <2>3, FinishTypes
  <2>5. analysis.at # "none" => analysis.bg \notin ToSet(completes)
    <3>1. DOMAIN completes = 1..Len(completes)
      BY <1>0
    <3> QED
      BY <3>1 DEF TaskInv, ToSet
  <2> QED
    BY <2>1, <2>3, <2>4, <2>5 DEF TaskInv
<1>6. CASE FinishAnalysis
  <2> DEFINE w == [images |-> analysis.images, of |-> analysis.of, local |-> analysis.local]
             ws == IF analysis.at = "bad" THEN <<>> ELSE <<w>>
             OfIt(v) == v.images = analysis.images /\ v.local = analysis.local
  <2>1. analysis.at # "none" /\ spent' = spent
    <3>1. Awaits(events, "analysis")
      BY <1>0, <1>6, TakesAwaits DEF FinishAnalysis, Events
    <3> QED
      BY <1>6, <3>1 DEF FinishAnalysis, EventInv
  <2>2. /\ Len(ws) \in Nat /\ ws \in Seq(Writes)
        /\ \A k \in 1..Len(ws) : OfIt(ws[k])
    <3>1. w \in Writes /\ OfIt(w)
      BY <1>0 DEF Writes, Analyses
    <3> HIDE DEF w
    <3>2. CASE analysis.at # "bad"
      <4>1. ws = <<w>>
        BY <3>2
      <4> QED
        BY <3>1, <4>1
    <3>3. CASE analysis.at = "bad"
      <4>1. ws = <<>>
        BY <3>3
      <4> QED
        BY <4>1
    <3> QED
      BY <3>2, <3>3
  <2>3. Submit(ws) /\ EndTask
    BY <1>6 DEF FinishAnalysis
  <2> HIDE DEF ws
  <2>4. pending' = pending \o ws \/ pending' = pending
    BY <2>3 DEF Submit
  <2>5. \A k \in 1..Len(pending') :
          \/ k \in 1..Len(pending) /\ pending'[k] = pending[k]
          \/ OfIt(pending'[k])
    <3>1. CASE pending' = pending
      BY <3>1
    <3>2. CASE pending' = pending \o ws
      <4>1. /\ Len(pending') = Len(pending) + Len(ws)
            /\ \A k \in 1..Len(pending) : pending'[k] = pending[k]
            /\ \A k \in (Len(pending) + 1)..Len(pending') : pending'[k] = ws[k - Len(pending)]
        BY <1>0, <2>2, <3>2
      <4>2. ASSUME NEW k \in 1..Len(pending'), k \notin 1..Len(pending)
            PROVE  OfIt(pending'[k])
        <5>1. k \in (Len(pending) + 1)..Len(pending') /\ k - Len(pending) \in 1..Len(ws)
          BY <1>0, <2>2, <4>1, <4>2
        <5> QED
          BY <2>2, <4>1, <5>1
      <4> QED
        BY <4>1, <4>2
    <3> QED
      BY <2>4, <3>1, <3>2
  <2>6. CASE pending' # <<>> /\ ~analysis.local
    <3>1. /\ completes' = Append(completes, analysis.bg) /\ tasks' = tasks
          /\ analysis'.at = "none" /\ analysis'.bg = analysis.bg
      BY <1>0, <2>3, <2>6 DEF EndTask, Analyses
    <3>2. /\ Len(completes') = Len(completes) + 1
          /\ completes'[Len(completes) + 1] = analysis.bg
          /\ \A c \in 1..Len(completes) : completes'[c] = completes[c]
      BY <1>0, <3>1
    <3>3. ASSUME NEW k \in 1..Len(pending'), spent["refusal"] = 0
          PROVE  pending'[k].local \/ Covered(pending[k])'
      <4>1. CASE k \in 1..Len(pending) /\ pending'[k] = pending[k]
        <5>2. CASE pending[k].local
          BY <4>1, <5>2
        <5>3. CASE Covered(pending[k])
          <6>0. PICK c \in 1..Len(completes) : pending[k].images \subseteq tasks[completes[c]]
            BY <5>3 DEF Covered
          <6>1. /\ c \in 1..Len(completes')
                /\ pending'[k].images \subseteq tasks'[completes'[c]]
            BY <1>0, <3>1, <3>2, <4>1, <6>0
          <6> QED
            BY <6>1 DEF Covered
        <5> QED
          BY <3>3, <4>1, <5>2, <5>3 DEF TaskInv
      <4>2. CASE OfIt(pending'[k])
        <5>1. /\ Len(completes) + 1 \in 1..Len(completes')
              /\ pending'[k].images \subseteq tasks'[completes'[Len(completes) + 1]]
          BY <1>0, <2>1, <3>1, <3>2, <4>2 DEF TaskInv
        <5> QED
          BY <5>1 DEF Covered
      <4> QED
        BY <2>5, <4>1, <4>2
    <3> QED
      BY <1>0, <2>1, <3>1, <3>2, <3>3 DEF TaskInv
  <2>7. CASE ~(pending' # <<>> /\ ~analysis.local)
    <3>1. /\ Len(tasks') = Len(tasks) /\ completes' = completes
          /\ \A t \in 1..Len(tasks) : t # analysis.bg => tasks'[t] = tasks[t]
      BY <1>0, <2>3, <2>7, FinishTypes DEF EndTask
    <3>2. analysis' = [analysis EXCEPT !.at = "none", !.bg = 0]
      BY <2>3, <2>7 DEF EndTask
    <3>3. analysis'.at = "none" /\ analysis'.bg = 0
      BY <1>0, <3>2 DEF Analyses
    <3>4. \A v : Covered(v) => Covered(v)'
      BY <2>1, <3>1 DEF Covered, TaskInv
    <3>5. ASSUME NEW k \in 1..Len(pending'), spent["refusal"] = 0
          PROVE  pending'[k].local \/ Covered(pending[k])'
      <4>1. CASE k \in 1..Len(pending) /\ pending'[k] = pending[k]
        <5>1. pending[k].local \/ Covered(pending[k])
          BY <3>5, <4>1 DEF TaskInv
        <5> QED
          BY <3>4, <4>1, <5>1 DEF Covered
      <4>2. CASE OfIt(pending'[k])
        <5>1. pending' # <<>>
          BY <3>5
        <5> QED
          BY <2>7, <4>2, <5>1
      <4> QED
        BY <2>5, <4>1, <4>2
    <3> QED
      BY <1>0, <2>1, <3>1, <3>3, <3>5 DEF TaskInv
  <2> QED
    BY <2>6, <2>7
<1>7. CASE Edit \/ SaveProject \/ StartImport \/ StartExport \/ StartLabels
           \/ \E p \in Projects : StartSwitch(p)
  BY <1>0, <1>7, AskedKept, TaskKept DEF Edit, SaveProject, StartImport, StartExport, StartLabels,
     StartSwitch, Kinds, workers
<1>8. CASE HandleLoaded \/ FinishImport \/ FinishLabels \/ ImportSubmits \/ UIPacked
           \/ Packs("ui") \/ Loader
  BY <1>8, TaskKept DEF HandleLoaded, FinishImport, FinishLabels, ImportSubmits, UIPacked, Packs,
     Loader, LoaderOpens, workers
<1>9. CASE ImportThread \/ ExportThread \/ LabelThread
  BY <1>9, TaskKept DEF ImportThread, ImportRuns, ExportThread, LabelThread, ExportEnds,
     WriteLabel, LabelsEnd, workers
<1>10. CASE UNCHANGED vars
  BY <1>10, TaskKept DEF vars, workers
<1> QED
  BY <1>1, <1>2, <1>3, <1>4, <1>5, <1>6, <1>7, <1>8, <1>9, <1>10
     DEF Next, User, UI, Boot, AnalysisThread

LEMMA TaskLocks == TypeInv /\ TaskInv => LocksHeldUnlessRefused
<1> SUFFICES ASSUME TypeInv, TaskInv, spent["refusal"] = 0,
                    NEW w \in ToSet(pending), NEW i \in w.images, ~w.local
             PROVE  Locked(i)
  BY DEF LocksHeldUnlessRefused
<1>1. /\ pending \in Seq(Writes) /\ tasks \in Seq(SUBSET Images)
      /\ DOMAIN tasks = 1..Len(tasks) /\ DOMAIN pending = 1..Len(pending)
  BY DEF TypeInv
<1>2. PICK k \in 1..Len(pending) : w = pending[k]
  BY <1>1 DEF ToSet
<1>3. PICK c \in 1..Len(completes) : w.images \subseteq tasks[completes[c]]
  BY <1>2 DEF TaskInv, Covered
<1> QED
  BY <1>1, <1>3 DEF Locked, TaskInv

LEMMA TypesAgree == TypeInv /\ EventInv /\ TaskInv => TypeOK
<1> SUFFICES ASSUME TypeInv, EventInv, TaskInv PROVE TypeOK
  OBVIOUS
<1>1. /\ pending \in Seq(Writes) /\ tasks \in Seq(SUBSET Images) /\ completes \in Seq(Nat)
      /\ DOMAIN tasks = 1..Len(tasks)
  BY DEF TypeInv
<1>2. \A w \in ToSet(pending) : w.images \subseteq Images /\ w.of \in Projects
  <2>1. DOMAIN pending = 1..Len(pending) /\ \A k \in 1..Len(pending) : pending[k] \in Writes
    BY <1>1
  <2> QED
    BY <2>1 DEF ToSet, Writes
<1>3. ToSet(completes) \subseteq DOMAIN tasks
  BY <1>1 DEF ToSet, TaskInv
<1>4. DOMAIN writer = Threads
  BY DEF TypeInv
<1>5. analysis.bg \in 0..Len(tasks) /\ analysis.at \in {"none", "boot", "running", "good", "bad"}
  BY <1>1 DEF TypeInv, Analyses, TaskInv
<1>6. barrier \in Nat
  BY DEF EventInv
<1> QED
  BY <1>2, <1>3, <1>4, <1>5, <1>6 DEF TypeOK, TypeInv

\* The images of a result of the sidecar that waits for the end of an export stay
\* locked, in a session in which no analysis was refused (Finish, SetError).
THEOREM LocksHeld == Spec => []LocksHeldUnlessRefused
  BY InitType, StepType, InitEvent, StepEvent, InitTask, StepTask, TaskLocks, PTL DEF Spec

\* The report of an import counts each of its files once, and task ids, queue and
\* callbacks agree (TryFinishImportJob, TaskRegistry).
THEOREM CountsRight == Spec => []CountsAgree
<1>1. TypeOK /\ ImportCounted => CountsAgree
  BY DEF CountsAgree
<1> QED
  BY <1>1, InitType, StepType, InitEvent, StepEvent, InitTask, StepTask, TypesAgree, InitJob, StepJob,
     JobCounts, PTL DEF Spec

-----------------------------------------------------------------------------
(* What is reported is kept: the rows of a project pass from memory to the     *)
(* database, to a snapshot, to the temporary file and to the package, and none *)
(* that the user was told of is missing in the place that counts.              *)

Stages == {"idle", "save", "write", "remove", "rename", "packed", "failed"}
IsWriter(w) == /\ w = [at |-> w.at, of |-> w.of, shot |-> w.shot, then |-> w.then]
               /\ w.at \in Stages
Nobody(w) == w.at = "idle" => w.then = {}

\* Who writes a package, and what cannot happen while a project is opened.
PackStores ==
    /\ Store(tmp) /\ Store(pack) /\ Store(told) /\ Store(saved)

PackWriters ==
    /\ \A t \in Threads : IsWriter(writer[t]) /\ Nobody(writer[t])
    /\ \A t \in Threads : writer[t].at # "idle" => writer[t].of = open
    /\ writer["loader"].then = {}

PackLoads ==
    /\ loading.on => /\ writer["ui"].then = {} /\ ~job.running
    /\ loading.ok \in BOOLEAN /\ (loading.ok => loading.on)

PackImports ==
    /\ Awaits(events, "import") => Acked(job)
    /\ Once(events, "import")
    /\ job.running \in BOOLEAN /\ (job.running => job.acked \in BOOLEAN)

PackInv == PackStores /\ PackWriters /\ PackLoads /\ PackImports

\* The rows of the import that runs are there, and not yet reported.
Unreported(n) ==
    /\ \A p \in Projects : Nth("import", p, n) \notin told[p]
    /\ Nth("import", open, n) \notin writer["ui"].then

ImportInv ==
    /\ \A n \in Nat : n > spent["import"] => Unreported(n)
    /\ job.running =>
         /\ Unreported(spent["import"])
         /\ job.done <= job.finished + job.counting
         /\ job.submitted > 0 => Imported \in mem[open] \cup db[open]

HasTmp(w) == w.at \in {"remove", "rename"}
Replacing == \E t \in Threads : writer[t].at = "rename"
InPackage(rows) == rows \subseteq pack[open] \/ Replacing \/ open \in unpacked

\* A project that is not open has its package, or lost it to a rename that failed;
\* and a project is opened with all that the user was told of it.
ClosedInv ==
    /\ \A p \in Projects : saved[p] \subseteq told[p]
    /\ \A p \in Projects \ (spoiled \cup {open}) :
          /\ told[p] \subseteq pack[p] \/ p \in unpacked
          /\ p \in unpacked => pack[p] = NoFile
    /\ loading.on /\ loading.to \notin spoiled \cup {open} =>
          told[loading.to] \subseteq loading.got

\* What the user was told of is in memory or the database, in the snapshot a thread
\* makes a package of, and in the package of a thread that is done.
Reported == told[open] \cup writer["ui"].then \subseteq mem[open] \cup db[open]

WriterKeeps(t) ==
    /\ writer[t].at \in {"write", "remove", "rename"} =>
          told[open] \cup writer[t].then \subseteq writer[t].shot
    /\ writer[t].at = "packed" => InPackage(told[open] \cup writer[t].then)
    /\ HasTmp(writer[t]) => tmp[open] = writer[t].shot

OneHasTmp == ~(HasTmp(writer["ui"]) /\ HasTmp(writer["loader"]))

KeptInv ==
    /\ Reported /\ OneHasTmp
    /\ loading.ok => InPackage(told[open])
    /\ InPackage(saved[open])
    /\ Replacing \/ open \in unpacked => pack[open] = NoFile
    /\ \A t \in Threads : WriterKeeps(t)

SafeInv == ClosedInv /\ (open \in spoiled \/ KeptInv)

--------------------------------------------------------------------------------
(* What the handlers and the stages of a package do to the writers.             *)

LEMMA WriterFields ==
  ASSUME NEW at \in Stages, NEW of, NEW then
  PROVE  /\ Writer(at, of, then).at = at /\ Writer(at, of, then).of = of
         /\ Writer(at, of, then).shot = {} /\ Writer(at, of, then).then = then
         /\ IsWriter(Writer(at, of, then))
  BY DEF Writer, IsWriter

LEMMA IdleFields ==
  /\ Idle.at = "idle" /\ Idle.then = {} /\ Idle.shot = {} /\ IsWriter(Idle) /\ Nobody(Idle)
<1>1. "idle" \in Stages
  BY DEF Stages
<1> QED
  BY <1>1, WriterFields DEF Idle, Nobody

LEMMA ThreadsAre == Threads = {"ui", "loader"} /\ "ui" \in Threads /\ "loader" \in Threads
  BY DEF Threads

LEMMA SavesAre ==
  ASSUME TypeInv, NEW rows, SavesAndReports(rows)
  PROVE  /\ writer'["ui"].at = "save" /\ writer'["ui"].of = open /\ writer'["ui"].shot = {}
         /\ writer'["ui"].then = rows /\ IsWriter(writer'["ui"]) /\ Nobody(writer'["ui"])
         /\ writer'["loader"] = writer["loader"]
<1> DEFINE w == Writer("save", open, rows)
<1>1. writer' = [writer EXCEPT !["ui"] = w]
  BY DEF SavesAndReports
<1>2. /\ w.at = "save" /\ w.of = open /\ w.shot = {} /\ w.then = rows /\ IsWriter(w)
      /\ Nobody(w)
  <2>1. "save" \in Stages
    BY DEF Stages
  <2>2. /\ w.at = "save" /\ w.of = open /\ w.shot = {} /\ w.then = rows /\ IsWriter(w)
    BY <2>1, WriterFields
  <2> QED
    BY <2>2 DEF Nobody
<1> HIDE DEF w
<1>3. writer'["ui"] = w /\ writer'["loader"] = writer["loader"]
  BY <1>1, ThreadsAre DEF TypeInv
<1> QED
  BY <1>2, <1>3

LEMMA GoesAre ==
  ASSUME TypeInv, PackInv, NEW t \in Threads, NEW at \in Stages, at # "idle", Goes(t, at)
  PROVE  /\ writer'[t].at = at /\ writer'[t].of = writer[t].of
         /\ writer'[t].shot = writer[t].shot /\ writer'[t].then = writer[t].then
         /\ IsWriter(writer'[t]) /\ Nobody(writer'[t])
         /\ \A u \in Threads : u # t => writer'[u] = writer[u]
<1>1. /\ writer = [u \in Threads |-> writer[u]] /\ IsWriter(writer[t])
      /\ writer' = [writer EXCEPT ![t].at = at]
  BY DEF TypeInv, PackInv, PackWriters, Goes
<1>2. \A u \in Threads : u # t => writer'[u] = writer[u]
  BY <1>1
<1> DEFINE w == writer[t]
           v == [at |-> at, of |-> w.of, shot |-> w.shot, then |-> w.then]
<1>3. writer'[t] = v
  <2>1. writer'[t] = [w EXCEPT !.at = at] /\ IsWriter(w)
    BY <1>1
  <2> HIDE DEF w
  <2> QED
    BY <2>1 DEF IsWriter
<1>4. /\ v.at = at /\ v.of = w.of /\ v.shot = w.shot /\ v.then = w.then
      /\ IsWriter(v) /\ Nobody(v)
  BY DEF IsWriter, Nobody
<1> HIDE DEF v
<1> QED
  BY <1>2, <1>3, <1>4

\* A stage of a package, of the project that is open.
Stage(t, from, to) ==
    /\ writer[t].at = from /\ writer'[t].at = to
    /\ writer'[t].of = open /\ writer'[t].then = writer[t].then
    /\ IsWriter(writer'[t]) /\ Nobody(writer'[t])
    /\ \A u \in Threads : u # t => writer'[u] = writer[u]
    /\ open' = open

SaveStage(t) ==
    /\ Stage(t, "save", "write")
    /\ mem'[open] = {} /\ db'[open] = db[open] \cup mem[open]
    /\ \A p \in Projects : p # open => mem'[p] = mem[p] /\ db'[p] = db[p]
    /\ writer'[t].shot = db'[open]
    /\ UNCHANGED <<tmp, pack, past>>

FailStage(t) == Stage(t, "save", "failed") /\ UNCHANGED stores

WriteStage(t) ==
    /\ \/ Stage(t, "write", "remove") /\ tmp'[open] = writer[t].shot
       \/ Stage(t, "write", "failed")
    /\ writer'[t].shot = writer[t].shot
    /\ Store(tmp')
    /\ spoiled \subseteq spoiled'
    /\ open \notin spoiled' => \A u \in Threads \ {t} : ~HasShot(u, open)
    /\ UNCHANGED <<mem, db, pack, unpacked>>

RemoveStage(t) ==
    /\ \/ Stage(t, "remove", "rename") /\ pack'[open] = NoFile /\ tmp' = tmp
       \/ Stage(t, "remove", "failed") /\ pack' = pack
    /\ writer'[t].shot = writer[t].shot
    /\ Store(tmp') /\ Store(pack')
    /\ \A p \in Projects : p # open => pack'[p] = pack[p]
    /\ UNCHANGED <<mem, db, past>>

RenameStage(t) ==
    /\ \/ /\ Stage(t, "rename", "packed")
          /\ pack'[open] = tmp[open] /\ unpacked' = unpacked \ {open}
       \/ /\ Stage(t, "rename", "failed")
          /\ pack' = pack /\ unpacked' = unpacked \cup {open}
    /\ writer'[t].shot = writer[t].shot
    /\ Store(tmp') /\ Store(pack')
    /\ \A p \in Projects : p # open => pack'[p] = pack[p]
    /\ UNCHANGED <<mem, db, spoiled>>

LEMMA PackStages ==
  ASSUME TypeInv, PackInv, NEW t \in Threads, Packs(t)
  PROVE  /\ \/ SaveStage(t) \/ FailStage(t) \/ WriteStage(t) \/ RemoveStage(t)
            \/ RenameStage(t)
         /\ UNCHANGED <<job, open, loading, events, told, saved, spent>>
<1>0. /\ Store(mem) /\ Store(db) /\ Store(tmp) /\ Store(pack) /\ open \in Projects
      /\ IsWriter(writer[t]) /\ (writer[t].at # "idle" => writer[t].of = open)
      /\ UNCHANGED <<job, open, loading, events, told, saved, spent>>
  BY DEF TypeInv, PackInv, PackStores, PackWriters, Packs, known
<1>s. {"save", "write", "remove", "rename", "packed", "failed"} \subseteq Stages
  BY DEF Stages
<1>g. ASSUME NEW from \in Stages \ {"idle"}, NEW to \in Stages \ {"idle"},
             writer[t].at = from, Goes(t, to)
      PROVE  Stage(t, from, to) /\ writer'[t].shot = writer[t].shot
  BY <1>0, <1>g, GoesAre DEF Stage
<1>1. CASE Saved(t)
  <2>1. /\ writer[t].at = "save" /\ writer[t].of = open
        /\ db' = [db EXCEPT ![open] = @ \cup mem[open]] /\ mem' = [mem EXCEPT ![open] = {}]
        /\ writer' = [writer EXCEPT ![t].at = "write", ![t].shot = db'[open]]
        /\ UNCHANGED <<tmp, pack, past>>
    BY <1>0, <1>1 DEF Saved
  <2>2. /\ db'[open] = db[open] \cup mem[open] /\ mem'[open] = {}
        /\ \A p \in Projects : p # open => mem'[p] = mem[p] /\ db'[p] = db[p]
    BY <1>0, <2>1 DEF Store
  <2> DEFINE w == writer[t]
             shot == db'[open]
             v == [at |-> "write", of |-> w.of, shot |-> shot, then |-> w.then]
  <2>3. writer'[t] = v
    <3>1. writer'[t] = [[w EXCEPT !.at = "write"] EXCEPT !.shot = shot] /\ IsWriter(w)
      BY <1>0, <2>1 DEF TypeInv
    <3> HIDE DEF w, shot
    <3> QED
      BY <3>1 DEF IsWriter
  <2>4. \A u \in Threads : u # t => writer'[u] = writer[u]
    BY <2>1 DEF TypeInv
  <2>5. /\ v.at = "write" /\ v.of = w.of /\ v.shot = shot /\ v.then = w.then
        /\ IsWriter(v) /\ Nobody(v)
    BY <1>s DEF IsWriter, Nobody
  <2> HIDE DEF v
  <2>6. SaveStage(t)
    BY <1>0, <2>1, <2>2, <2>3, <2>4, <2>5 DEF SaveStage, Stage
  <2> QED
    BY <1>0, <2>6
<1>2. CASE SaveFails(t)
  <2>1. Stage(t, "save", "failed") /\ UNCHANGED stores
    BY <1>s, <1>g, <1>2 DEF SaveFails
  <2> QED
    BY <1>0, <2>1 DEF FailStage
<1>3. CASE WriteTmp(t)
  <2>1. /\ writer[t].at = "write" /\ writer[t].of = open
        /\ spoiled' = spoiled \cup {p \in {open} : \E u \in Threads \ {t} : HasShot(u, p)}
        /\ UNCHANGED <<mem, db, pack, unpacked>>
        /\ \/ tmp' = [tmp EXCEPT ![open] = writer[t].shot] /\ Goes(t, "remove")
           \/ tmp' = [tmp EXCEPT ![open] = {}] /\ Goes(t, "failed")
           \/ tmp' = tmp /\ Goes(t, "failed")
    BY <1>0, <1>3 DEF WriteTmp
  <2>2. /\ spoiled \subseteq spoiled'
        /\ open \notin spoiled' => \A u \in Threads \ {t} : ~HasShot(u, open)
    BY <2>1
  <2>3. CASE tmp' = [tmp EXCEPT ![open] = writer[t].shot] /\ Goes(t, "remove")
    <3>1. Stage(t, "write", "remove") /\ writer'[t].shot = writer[t].shot
      BY <1>s, <1>g, <2>1, <2>3
    <3>2. tmp'[open] = writer[t].shot /\ Store(tmp')
      BY <1>0, <2>3 DEF Store
    <3>3. WriteStage(t)
      BY <2>1, <2>2, <3>1, <3>2 DEF WriteStage
    <3> QED
      BY <1>0, <3>3
  <2>4. CASE (tmp' = [tmp EXCEPT ![open] = {}] \/ tmp' = tmp) /\ Goes(t, "failed")
    <3>1. Stage(t, "write", "failed") /\ writer'[t].shot = writer[t].shot
      BY <1>s, <1>g, <2>1, <2>4
    <3>2. Store(tmp')
      BY <1>0, <2>4 DEF Store
    <3>3. WriteStage(t)
      BY <2>1, <2>2, <3>1, <3>2 DEF WriteStage
    <3> QED
      BY <1>0, <3>3
  <2> QED
    BY <2>1, <2>3, <2>4
<1>4. CASE RemoveOld(t)
  <2>1. /\ writer[t].at = "remove" /\ writer[t].of = open /\ UNCHANGED <<mem, db, past>>
        /\ \/ /\ pack' = [pack EXCEPT ![open] = NoFile] /\ tmp' = tmp
              /\ Goes(t, "rename")
           \/ /\ tmp' = [tmp EXCEPT ![open] = NoFile] /\ pack' = pack
              /\ Goes(t, "failed")
    BY <1>0, <1>4 DEF RemoveOld, past
  <2>2. CASE /\ pack' = [pack EXCEPT ![open] = NoFile] /\ tmp' = tmp
             /\ Goes(t, "rename")
    <3>1. Stage(t, "remove", "rename") /\ writer'[t].shot = writer[t].shot
      BY <1>s, <1>g, <2>1, <2>2
    <3>2. /\ pack'[open] = NoFile /\ Store(pack') /\ Store(tmp')
          /\ \A p \in Projects : p # open => pack'[p] = pack[p]
      BY <1>0, <2>2 DEF Store
    <3>3. RemoveStage(t)
      BY <2>1, <2>2, <3>1, <3>2 DEF RemoveStage
    <3> QED
      BY <1>0, <3>3
  <2>3. CASE /\ tmp' = [tmp EXCEPT ![open] = NoFile] /\ pack' = pack
             /\ Goes(t, "failed")
    <3>1. Stage(t, "remove", "failed") /\ writer'[t].shot = writer[t].shot
      BY <1>s, <1>g, <2>1, <2>3
    <3>2. Store(pack') /\ Store(tmp')
      BY <1>0, <2>3 DEF Store
    <3>3. RemoveStage(t)
      BY <2>1, <2>3, <3>1, <3>2 DEF RemoveStage
    <3> QED
      BY <1>0, <3>3
  <2> QED
    BY <2>1, <2>2, <2>3
<1>5. CASE RenameNew(t)
  <2>1. /\ writer[t].at = "rename" /\ writer[t].of = open /\ UNCHANGED <<mem, db, spoiled>>
        /\ tmp' = [tmp EXCEPT ![open] = NoFile]
        /\ \/ /\ pack' = [pack EXCEPT ![open] = tmp[open]] /\ Goes(t, "packed")
              /\ unpacked' = unpacked \ {open}
           \/ /\ pack' = pack /\ Goes(t, "failed")
              /\ unpacked' = unpacked \cup {open}
    BY <1>0, <1>5 DEF RenameNew
  <2>2. Store(tmp')
    BY <1>0, <2>1 DEF Store
  <2>3. CASE /\ pack' = [pack EXCEPT ![open] = tmp[open]] /\ Goes(t, "packed")
             /\ unpacked' = unpacked \ {open}
    <3>1. Stage(t, "rename", "packed") /\ writer'[t].shot = writer[t].shot
      BY <1>s, <1>g, <2>1, <2>3
    <3>2. /\ pack'[open] = tmp[open] /\ Store(pack')
          /\ \A p \in Projects : p # open => pack'[p] = pack[p]
      BY <1>0, <2>3 DEF Store
    <3>3. RenameStage(t)
      BY <2>1, <2>2, <2>3, <3>1, <3>2 DEF RenameStage
    <3> QED
      BY <1>0, <3>3
  <2>4. CASE /\ pack' = pack /\ Goes(t, "failed")
             /\ unpacked' = unpacked \cup {open}
    <3>1. Stage(t, "rename", "failed") /\ writer'[t].shot = writer[t].shot
      BY <1>s, <1>g, <2>1, <2>4
    <3>3. RenameStage(t)
      BY <1>0, <2>1, <2>2, <2>4, <3>1 DEF RenameStage
    <3> QED
      BY <1>0, <3>3
  <2> QED
    BY <2>1, <2>3, <2>4
<1> QED
  BY <1>1, <1>2, <1>3, <1>4, <1>5 DEF Packs

--------------------------------------------------------------------------------
LEMMA CommitAre ==
  ASSUME TypeInv, PackStores, NEW writes, Commit(writes)
  PROVE  /\ Store(told') /\ \A p \in Projects : p # open => told'[p] = told[p] /\ db'[p] = db[p]
         /\ told[open] \subseteq told'[open] /\ db[open] \subseteq db'[open]
         /\ told'[open] \subseteq told[open] \cup ({Row("caption", open)} \cap db'[open])
         /\ loading.on => told' = told
         /\ \A r \in db'[open] : r \in db[open] \/ \E q : r = Row("caption", q)
         /\ UNCHANGED <<mem, tmp, pack, past, saved>>
<1> DEFINE C == {Row("caption", w.of) : w \in writes}
           T == {Row("caption", open) : w \in {v \in writes : v.of = open /\ ~loading.on}}
<1>1. /\ db' = [db EXCEPT ![open] = @ \cup C] /\ told' = [told EXCEPT ![open] = @ \cup T]
      /\ UNCHANGED <<mem, tmp, pack, past, saved>>
  BY DEF Commit
<1>2. /\ T \subseteq C /\ T \subseteq {Row("caption", open)} /\ (loading.on => T = {})
      /\ \A r \in C : \E q : r = Row("caption", q)
  OBVIOUS
<1> HIDE DEF C, T
<1>3. Store(db) /\ Store(told) /\ open \in Projects
  BY DEF TypeInv, PackStores
<1>4. db'[open] = db[open] \cup C /\ told'[open] = told[open] \cup T
  BY <1>1, <1>3 DEF Store
<1>5. Store(told') /\ \A p \in Projects : p # open => told'[p] = told[p] /\ db'[p] = db[p]
  BY <1>1, <1>3 DEF Store
<1>6. loading.on => told' = told
  BY <1>1, <1>2, <1>3 DEF Store
<1> QED
  BY <1>1, <1>2, <1>4, <1>5, <1>6

\* No result of an import is posted, or taken twice.
EventsKeep ==
    /\ Awaits(events', "import") => Awaits(events, "import")
    /\ Once(events, "import") => Once(events', "import")

LEMMA EventsKept ==
  ASSUME TypeInv, \/ events' = events
                  \/ \E e \in {"loaded", "export", "analysis", "labels"} : Post(e) \/ Takes(e)
  PROVE  EventsKeep
<1>0. events \in Seq(Events) /\ "import" \in Events
      /\ {"loaded", "export", "analysis", "labels"} \subseteq Events
  BY DEF TypeInv, Events
<1>1. CASE events' = events
  BY <1>1 DEF EventsKeep
<1>2. ASSUME NEW e \in {"loaded", "export", "analysis", "labels"}, Post(e) PROVE EventsKeep
  BY <1>0, <1>2, PostAwaits DEF EventsKeep
<1>3. ASSUME NEW e \in {"loaded", "export", "analysis", "labels"}, Takes(e) PROVE EventsKeep
  BY <1>0, <1>3, TakesAwaits DEF EventsKeep
<1> QED
  BY <1>1, <1>2, <1>3

LEMMA PackKept ==
  ASSUME PackInv, EventsKeep, Store(told'),
         UNCHANGED <<tmp, pack, saved, writer, open, loading, job>>
  PROVE  PackInv'
  BY DEF PackInv, PackStores, PackWriters, PackLoads, PackImports, EventsKeep, Acked

\* A handler that saves the project and reports these rows.
LEMMA PackSaves ==
  ASSUME TypeInv, PackInv, NEW rows, SavesAndReports(rows), loading.on => rows = {},
         Store(told'), Store(saved'), UNCHANGED <<tmp, pack, open, loading>>,
         PackImports', job'.running => ~loading.on
  PROVE  PackInv'
<1>1. PackStores'
  BY DEF PackInv, PackStores
<1>2. PackWriters'
  BY SavesAre, ThreadsAre DEF PackInv, PackWriters
<1>3. PackLoads'
  BY SavesAre DEF PackInv, PackLoads
<1> QED
  BY <1>1, <1>2, <1>3 DEF PackInv

LEMMA ReadyIdle ==
  ASSUME UIReady PROVE writer["ui"].at = "idle" /\ writer["ui"].then = {}
  BY IdleFields DEF UIReady

LEMMA InitPack == Init => PackInv
<1> SUFFICES ASSUME Init PROVE PackInv
  OBVIOUS
<1>1. PackStores
  BY DEF Init, PackStores, Store
<1>2. PackWriters
  BY IdleFields, ThreadsAre DEF Init, PackWriters
<1>3. PackLoads /\ PackImports
  BY DEF Init, PackLoads, PackImports, NotLoading, Awaits, Once, NoImport
<1> QED
  BY <1>1, <1>2, <1>3 DEF PackInv

LEMMA PackByImport ==
  ASSUME TypeInv, EventInv, PackInv, JobInv,
         StartImport \/ ImportSubmits \/ ImportRuns \/ FinishImport
  PROVE  PackInv'
<1>0. PackStores /\ PackWriters /\ PackLoads /\ PackImports /\ events \in Seq(Events)
      /\ "import" \in Events
  BY DEF PackInv, TypeInv, Events
<1>1. CASE StartImport
  <2>1. ~loading.on /\ ~job.running
    BY <1>1 DEF StartImport, UserCan, Unblocked
  <2>2. PICK n : job' = NewJob(n)
    BY <1>1 DEF StartImport
  <2>3. job'.running = TRUE /\ job'.acked = FALSE
    BY <2>2 DEF NewJob
  <2>4. UNCHANGED <<events, loading, writer, open, tmp, pack, told, saved>>
    BY <1>1 DEF StartImport, stores, known
  <2>5. PackImports'
    BY <1>0, <2>1, <2>3, <2>4 DEF PackImports, Acked
  <2>6. PackStores' /\ PackWriters' /\ PackLoads'
    BY <1>0, <2>1, <2>4 DEF PackStores, PackWriters, PackLoads
  <2> QED
    BY <2>5, <2>6 DEF PackInv
<1>2. ASSUME job.running, job' \in Jobs, job.acked => job'.acked, ~loading.on,
             UNCHANGED <<loading, writer, open, tmp, pack, told, saved>>,
             \/ events' = events
             \/ Post("import") /\ Acked(job') /\ ~Acked(job)
      PROVE  PackInv'
  <2>1. job'.running = TRUE /\ job'.acked \in BOOLEAN
    BY <1>2 DEF Jobs
  <2>2. PackImports'
    <3>1. CASE events' = events
      BY <1>0, <1>2, <2>1, <3>1 DEF PackImports, Acked
    <3>2. CASE Post("import") /\ Acked(job') /\ ~Acked(job)
      <4>1. ~Awaits(events, "import")
        BY <1>0, <3>2 DEF PackImports
      <4>2. Once(events', "import")
        BY <1>0, <3>2, <4>1, PostAwaits DEF PackImports
      <4> QED
        BY <2>1, <3>2, <4>2 DEF PackImports, Acked
    <3> QED
      BY <1>2, <3>1, <3>2
  <2>3. PackStores' /\ PackWriters' /\ PackLoads'
    BY <1>0, <1>2 DEF PackStores, PackWriters, PackLoads
  <2> QED
    BY <2>2, <2>3 DEF PackInv
<1>3. CASE ImportSubmits
  <2>1. job.running /\ job \in Jobs
    BY <1>3, JobRuns DEF ImportSubmits, SubmitFile
  <2>2. JobInv' /\ job'.running /\ job'.acked = job.acked
    <3>1. job'.running = job.running /\ job'.acked = job.acked
      BY <1>3, <2>1 DEF ImportSubmits, SubmitFile, Jobs
    <3> QED
      BY <1>3, <2>1, <3>1, StepJob DEF Next, UI
  <2>3. job' \in Jobs
    BY <2>2 DEF JobInv, NoImport
  <2>4. UNCHANGED <<loading, writer, open, tmp, pack, told, saved, events>>
    BY <1>3 DEF ImportSubmits, known
  <2>5. ~loading.on
    BY <1>0, <2>1 DEF PackLoads
  <2> QED
    BY <1>2, <2>1, <2>2, <2>3, <2>4, <2>5
<1>4. CASE ImportRuns
  <2>1. job.running /\ job \in Jobs
    BY <1>4, JobRuns DEF ImportRuns, CloseSubmission, RunTask, Count, Ask
  <2>2. JobInv'
    BY <1>4, StepJob DEF Next, ImportThread
  <2>3. job'.running /\ (job.acked => job'.acked)
    BY <1>4, <2>1 DEF ImportRuns, CloseSubmission, RunTask, Count, Ask, TryFinishImportJob, Jobs
  <2>4. job' \in Jobs
    BY <2>2, <2>3 DEF JobInv, NoImport
  <2>5. /\ UNCHANGED <<loading, writer, open, tmp, pack, told, saved>>
        /\ \/ events' = events
           \/ Post("import") /\ Acked(job') /\ ~Acked(job)
    BY <1>4 DEF ImportRuns, stores, known
  <2>6. ~loading.on
    BY <1>0, <2>1 DEF PackLoads
  <2> QED
    BY <1>2, <2>1, <2>3, <2>4, <2>5, <2>6
<1>5. CASE FinishImport
  <2>1. Takes("import") /\ job' = NoImport /\ UNCHANGED <<tmp, pack, told, saved, open, loading>>
    BY <1>5 DEF FinishImport, known
  <2>2. PICK rows : SavesAndReports(rows)
    BY <1>5 DEF FinishImport
  <2>3. Awaits(events, "import") /\ ~Awaits(events', "import") /\ Once(events', "import")
    BY <1>0, <2>1, TakesAwaits DEF PackImports
  <2>4. ~loading.on
    BY <1>0, <2>3 DEF PackImports, PackLoads, Acked
  <2>5. job'.running = FALSE
    BY <2>1 DEF NoImport
  <2>6. PackImports'
    BY <2>3, <2>5 DEF PackImports
  <2> QED
    BY <1>0, <2>1, <2>2, <2>4, <2>5, <2>6, PackSaves DEF PackStores
<1> QED
  BY <1>1, <1>3, <1>4, <1>5

\* The end of a package on the UI thread: the rows are reported.
UIReports ==
    /\ Packed("ui") /\ writer'["ui"] = Idle /\ writer'["loader"] = writer["loader"]
    /\ Store(told') /\ Store(saved')
    /\ writer["ui"].of = open
    /\ told'[open] = told[open] \cup writer["ui"].then
    /\ \A p \in Projects : p # open => told'[p] = told[p] /\ saved'[p] = saved[p]
    /\ \/ saved'[open] = saved[open]
       \/ writer["ui"].at = "packed" /\ saved'[open] = saved[open] \cup writer["ui"].then
    /\ UNCHANGED <<job, open, loading, events, stores, spent>>

LEMMA ReportsAre == ASSUME TypeInv, PackInv, UIPacked PROVE UIReports
<1>0. /\ Store(told) /\ Store(saved) /\ open \in Projects /\ Packed("ui")
      /\ writer = [t \in Threads |-> writer[t]]
      /\ UNCHANGED <<job, open, loading, events, stores, spent>>
  BY DEF TypeInv, PackInv, PackStores, UIPacked
<1>1. writer["ui"].of = open
  BY <1>0, ThreadsAre DEF PackInv, PackWriters, Packed
<1>2. writer' = [writer EXCEPT !["ui"] = Idle]
  BY DEF UIPacked
<1>3. writer'["ui"] = Idle /\ writer'["loader"] = writer["loader"]
  BY <1>0, <1>2, ThreadsAre
<1> DEFINE then == writer["ui"].then
<1>4. /\ told' = [told EXCEPT ![open] = @ \cup then]
      /\ \/ saved' = saved
         \/ writer["ui"].at = "packed" /\ saved' = [saved EXCEPT ![open] = @ \cup then]
  BY <1>1 DEF UIPacked
<1> HIDE DEF then
<1>5. /\ Store(told') /\ told'[open] = told[open] \cup then
      /\ \A p \in Projects : p # open => told'[p] = told[p]
  BY <1>0, <1>4 DEF Store
<1>6. /\ Store(saved') /\ \A p \in Projects : p # open => saved'[p] = saved[p]
      /\ \/ saved'[open] = saved[open]
         \/ writer["ui"].at = "packed" /\ saved'[open] = saved[open] \cup then
  BY <1>0, <1>4 DEF Store
<1> QED
  BY <1>0, <1>1, <1>3, <1>5, <1>6 DEF UIReports, then

\* The switch to another project, and its loader.
Switches(p) ==
    /\ UIReady /\ ~loading.on /\ ~job.running /\ p \in Projects
    /\ loading'.on /\ ~loading'.ok /\ loading'.ok \in BOOLEAN
    /\ loading'.to = p /\ loading'.got = pack[p] /\ pack[p] # NoFile
    /\ writer'["ui"] = writer["ui"]
    /\ writer'["loader"].at = "save" /\ writer'["loader"].of = open
    /\ writer'["loader"].then = {} /\ writer'["loader"].shot = {}
    /\ IsWriter(writer'["loader"]) /\ Nobody(writer'["loader"])
    /\ UNCHANGED <<job, open, events, stores, known>>

LEMMA SwitchesAre ==
  ASSUME TypeInv, NEW p \in Projects, StartSwitch(p) PROVE Switches(p)
<1>1. /\ UIReady /\ ~loading.on /\ ~job.running /\ pack[p] # NoFile
      /\ UNCHANGED <<job, open, events, stores, known>>
  BY DEF StartSwitch, UserCan, Unblocked
<1>2. loading'.on /\ ~loading'.ok /\ loading'.ok \in BOOLEAN /\ loading'.to = p
      /\ loading'.got = pack[p]
  BY DEF StartSwitch
<1> DEFINE w == Writer("save", open, {})
<1>3. writer' = [writer EXCEPT !["loader"] = w]
  BY DEF StartSwitch
<1>4. w.at = "save" /\ w.of = open /\ w.shot = {} /\ w.then = {} /\ IsWriter(w) /\ Nobody(w)
  <2>1. "save" \in Stages
    BY DEF Stages
  <2>2. w.at = "save" /\ w.of = open /\ w.shot = {} /\ w.then = {} /\ IsWriter(w)
    BY <2>1, WriterFields
  <2> QED
    BY <2>2 DEF Nobody
<1> HIDE DEF w
<1>5. writer'["ui"] = writer["ui"] /\ writer'["loader"] = w
  BY <1>3, ThreadsAre DEF TypeInv
<1> QED
  BY <1>1, <1>2, <1>4, <1>5 DEF Switches

\* The loader is done with the package of the old project.
Opens ==
    /\ Packed("loader") /\ writer'["loader"] = Idle /\ writer'["ui"] = writer["ui"]
    /\ loading'.on = loading.on /\ loading'.to = loading.to /\ loading'.got = loading.got
    /\ loading'.ok \in BOOLEAN /\ (loading'.ok => writer["loader"].at = "packed")
    /\ Post("loaded")
    /\ UNCHANGED <<job, open, stores, known, spent>>

LEMMA OpensAre == ASSUME TypeInv, LoaderOpens PROVE Opens
<1>1. /\ Packed("loader") /\ Post("loaded") /\ UNCHANGED <<job, open, stores, known, spent>>
      /\ writer' = [writer EXCEPT !["loader"] = Idle]
  BY DEF LoaderOpens
<1>2. writer'["loader"] = Idle /\ writer'["ui"] = writer["ui"]
  BY <1>1, ThreadsAre DEF TypeInv
<1>3. PICK ok \in BOOLEAN : /\ ok => writer["loader"].at = "packed"
                            /\ loading' = [loading EXCEPT !.ok = ok]
  BY DEF LoaderOpens
<1>4. /\ loading'.on = loading.on /\ loading'.to = loading.to /\ loading'.got = loading.got
      /\ loading'.ok = ok
  BY <1>3 DEF TypeInv
<1> QED
  BY <1>1, <1>2, <1>3, <1>4 DEF Opens

LEMMA StepPack == TypeInv /\ EventInv /\ JobInv /\ PackInv /\ [Next]_vars => PackInv'
<1> SUFFICES ASSUME TypeInv, EventInv, JobInv, PackInv, [Next]_vars PROVE PackInv'
  OBVIOUS
<1>0. PackStores /\ PackWriters /\ PackLoads /\ PackImports /\ events \in Seq(Events)
  BY DEF PackInv, TypeInv
<1>1. CASE StartImport \/ ImportSubmits \/ ImportRuns \/ FinishImport
  BY <1>1, PackByImport
<1>2. CASE Edit \/ SaveProject
  <2>1. UNCHANGED <<tmp, pack, open, loading, job, events>> /\ ~loading.on
    BY <1>2 DEF Edit, SaveProject, UserCan, Unblocked, stores, known
  <2>4. Store(told') /\ Store(saved')
    BY <1>0, <1>2 DEF Edit, SaveProject, known, PackStores, Store
  <2>2. PICK rows : SavesAndReports(rows)
    BY <1>2 DEF Edit, SaveProject
  <2>3. PackImports'
    BY <1>0, <2>1 DEF PackImports, Acked
  <2> QED
    BY <2>1, <2>2, <2>3, <2>4, PackSaves
<1>3. CASE FinishLabels
  <2>1. /\ UNCHANGED <<tmp, pack, told, saved, open, loading, job>> /\ Takes("labels")
    BY <1>3 DEF FinishLabels, stores, known
  <2>2. PICK rows : SavesAndReports(rows) /\ (loading.on => rows = {})
    BY <1>3 DEF FinishLabels
  <2>3. EventsKeep
    BY <2>1, EventsKept
  <2>4. PackImports'
    BY <1>0, <2>1, <2>3 DEF PackImports, Acked, EventsKeep
  <2>5. job'.running => ~loading.on
    BY <1>0, <2>1 DEF PackLoads
  <2> QED
    BY <1>0, <2>1, <2>2, <2>4, <2>5, PackSaves DEF PackStores
<1>4. ASSUME NEW p \in Projects, StartSwitch(p) PROVE PackInv'
  <2>1. Switches(p)
    BY <1>4, SwitchesAre
  <2>2. writer'["ui"].then = {}
    BY <2>1, ReadyIdle DEF Switches
  <2>3. PackStores' /\ PackImports'
    BY <1>0, <2>1 DEF Switches, PackStores, PackImports, Acked, stores, known
  <2>4. PackLoads'
    BY <2>1, <2>2 DEF Switches, PackLoads
  <2>5. PackWriters'
    BY <1>0, <2>1, ThreadsAre DEF Switches, PackWriters
  <2> QED
    BY <2>3, <2>4, <2>5 DEF PackInv
<1>5. CASE HandleLoaded
  <2>1. /\ Takes("loaded") /\ loading' = NotLoading
        /\ UNCHANGED <<job, writer, tmp, pack, told, saved>>
    BY <1>5 DEF HandleLoaded, known
  <2>2. ~loading'.on /\ loading'.ok = FALSE
    BY <2>1 DEF NotLoading
  <2>3. writer["loader"].at = "idle" /\ writer["ui"].at = "idle"
    <3>1. Awaits(events, "loaded") /\ UIReady
      BY <1>0, <2>1, TakesAwaits DEF Takes, Events
    <3> QED
      BY <3>1, ReadyIdle DEF EventInv
  <2>4. PackWriters'
    BY <1>0, <2>1, <2>3, ThreadsAre DEF PackWriters
  <2>5. EventsKeep
    BY <2>1, EventsKept
  <2>6. PackStores' /\ PackLoads' /\ PackImports'
    BY <1>0, <2>1, <2>2, <2>5 DEF PackStores, PackLoads, PackImports, Acked, EventsKeep
  <2> QED
    BY <2>4, <2>6 DEF PackInv
<1>6. CASE LoaderOpens
  <2>1. Opens
    BY <1>6, OpensAre
  <2>2. EventsKeep
    BY <2>1, EventsKept DEF Opens
  <2>3. PackStores' /\ PackImports'
    BY <1>0, <2>1, <2>2 DEF Opens, PackStores, PackImports, Acked, EventsKeep, stores, known
  <2>4. PackWriters'
    BY <1>0, <2>1, ThreadsAre, IdleFields DEF Opens, PackWriters
  <2>5. loading.on
    BY <2>1 DEF Opens, Packed, EventInv
  <2>6. PackLoads'
    BY <1>0, <2>1, <2>5 DEF Opens, PackLoads
  <2> QED
    BY <2>3, <2>4, <2>6 DEF PackInv
<1>7. CASE UIPacked
  <2>1. UIReports
    BY <1>7, ReportsAre
  <2>2. PackStores' /\ PackImports'
    BY <1>0, <2>1 DEF UIReports, PackStores, PackImports, Acked, stores
  <2>3. PackWriters'
    BY <1>0, <2>1, ThreadsAre, IdleFields DEF UIReports, PackWriters
  <2>4. PackLoads'
    BY <1>0, <2>1, IdleFields DEF UIReports, PackLoads
  <2> QED
    BY <2>2, <2>3, <2>4 DEF PackInv
<1>8. ASSUME NEW t \in Threads, Packs(t) PROVE PackInv'
  <2>1. /\ SaveStage(t) \/ FailStage(t) \/ WriteStage(t) \/ RemoveStage(t) \/ RenameStage(t)
        /\ UNCHANGED <<job, open, loading, events, told, saved, spent>>
    BY <1>8, PackStages
  <2>2. /\ writer'[t].of = open /\ writer'[t].then = writer[t].then
        /\ IsWriter(writer'[t]) /\ Nobody(writer'[t])
        /\ \A u \in Threads : u # t => writer'[u] = writer[u]
    BY <2>1 DEF SaveStage, FailStage, WriteStage, RemoveStage, RenameStage, Stage
  <2>3. PackStores'
    <3>1. Store(tmp') /\ Store(pack')
      BY <1>0, <2>1 DEF PackStores, SaveStage, FailStage, WriteStage, RemoveStage, RenameStage,
                        stores
    <3> QED
      BY <1>0, <2>1, <3>1 DEF PackStores
  <2>4. PackWriters'
    BY <1>0, <2>1, <2>2, ThreadsAre DEF PackWriters
  <2>5. PackLoads' /\ PackImports'
    BY <1>0, <2>1, <2>2, ThreadsAre DEF PackLoads, PackImports, Acked
  <2> QED
    BY <2>3, <2>4, <2>5 DEF PackInv
<1>9. CASE FinishExport \/ FinishAnalysis
  <2>1. /\ UNCHANGED <<job, open, loading, writer>>
        /\ \E e \in {"loaded", "export", "analysis", "labels"} : Takes(e)
        /\ (\E ws : Commit(ws)) \/ UNCHANGED <<stores, known>>
    BY <1>9 DEF FinishExport, FinishAnalysis, Submit
  <2>2. EventsKeep
    BY <2>1, EventsKept
  <2>3. Store(told') /\ UNCHANGED <<tmp, pack, saved>>
    <3>1. CASE \E ws : Commit(ws)
      BY <1>0, <3>1, CommitAre
    <3>2. CASE UNCHANGED <<stores, known>>
      BY <1>0, <3>2 DEF stores, known, PackStores
    <3> QED
      BY <2>1, <3>1, <3>2
  <2> QED
    BY <2>1, <2>2, <2>3, PackKept
<1>10. CASE \/ StartExport \/ RefuseAnalysis \/ StartLabels \/ (\E i \in Images : StartAnalysis(i))
            \/ Boot \/ ExportThread \/ AnalysisThread \/ LabelThread \/ UNCHANGED vars
  <2>1. /\ UNCHANGED <<tmp, pack, told, saved, writer, open, loading, job>>
        /\ \/ events' = events
           \/ \E e \in {"loaded", "export", "analysis", "labels"} : Post(e) \/ Takes(e)
    BY <1>10 DEF StartExport, RefuseAnalysis, StartLabels, StartAnalysis, Boot, BootFails, BootDone,
       ExportThread, ExportEnds, AnalysisThread, AnalysisEnds, LabelThread, WriteLabel, LabelsEnd,
       vars, stores, known
  <2>2. EventsKeep
    BY <2>1, EventsKept
  <2>3. Store(told')
    BY <1>0, <2>1 DEF PackStores
  <2> QED
    BY <2>1, <2>2, <2>3, PackKept
<1> QED
  BY <1>1, <1>2, <1>3, <1>4, <1>5, <1>6, <1>7, <1>8, <1>9, <1>10, ThreadsAre
     DEF Next, User, UI, Loader, ImportThread

--------------------------------------------------------------------------------
\* No import is reported in this step.
NoReport == \A n \in Nat : Unreported(n) => Unreported(n)'

LEMMA InitImport == Init => ImportInv
<1> SUFFICES ASSUME Init PROVE ImportInv
  OBVIOUS
<1>1. /\ \A p \in Projects : told[p] = {}
      /\ writer["ui"].then = {}
  BY IdleFields, ThreadsAre DEF Init
<1>2. job.running = FALSE
  BY DEF Init, NoImport
<1>3. \A n : Unreported(n)
  BY <1>1 DEF Unreported
<1> QED
  BY <1>2, <1>3 DEF ImportInv

LEMMA ImportKept ==
  ASSUME TypeInv, ImportInv, NoReport, UNCHANGED <<open, job>>, spent'["import"] = spent["import"],
         Imported \in mem[open] \cup db[open] => Imported \in mem'[open] \cup db'[open]
  PROVE  ImportInv'
<1>1. spent["import"] \in Nat
  BY DEF TypeInv, Kinds
<1>2. Imported' = Imported
  BY DEF Imported
<1> QED
  BY <1>1, <1>2 DEF ImportInv, NoReport

LEMMA OtherAsked ==
  ASSUME TypeInv, NEW w \in Kinds \ {"import"}, UserCan(w) PROVE spent'["import"] = spent["import"]
  BY DEF TypeInv, UserCan, Kinds

LEMMA NoReportKept ==
  ASSUME open' = open, \A p \in Projects : told'[p] \subseteq told[p],
         \A n : Nth("import", open, n) \in writer'["ui"].then =>
                   Nth("import", open, n) \in told[open] \cup writer["ui"].then,
         open \in Projects
  PROVE  NoReport
<1> SUFFICES ASSUME NEW n \in Nat, Unreported(n) PROVE Unreported(n)'
  BY DEF NoReport
<1> QED
  BY DEF Unreported

\* A handler that saves the project and reports rows that are no import of their own.
LEMMA SavesNoReport ==
  ASSUME TypeInv, NEW rows, SavesAndReports(rows), open' = open,
         \A p \in Projects : told'[p] \subseteq told[p],
         \A n : Nth("import", open, n) \in rows => Nth("import", open, n) \in told[open]
  PROVE  NoReport
<1>1. writer'["ui"].then = rows /\ open \in Projects
  BY SavesAre DEF TypeInv
<1> QED
  BY <1>1, NoReportKept

LEMMA StepImport ==
  TypeInv /\ EventInv /\ PackInv /\ JobInv /\ ImportInv /\ [Next]_vars => ImportInv'
<1> SUFFICES ASSUME TypeInv, EventInv, PackInv, JobInv, ImportInv, [Next]_vars PROVE ImportInv'
  OBVIOUS
<1>0. /\ PackStores /\ PackWriters /\ PackLoads /\ PackImports /\ events \in Seq(Events)
      /\ open \in Projects /\ Store(mem) /\ Store(db) /\ spent \in [Kinds -> Nat]
  BY DEF PackInv, TypeInv
<1>1. CASE Edit
  <2>1. PICK n : /\ db' = [db EXCEPT ![open] = @ \cup {Nth("edit", open, n)}]
                 /\ SavesAndReports({Nth("edit", open, n)})
    BY <1>1 DEF Edit
  <2>2. UNCHANGED <<open, told, job, mem>> /\ spent'["import"] = spent["import"]
    BY <1>1, OtherAsked DEF Edit, Kinds, known
  <2>3. NoReport
    BY <2>1, <2>2, SavesNoReport, RowsDiffer
  <2>4. db[open] \subseteq db'[open]
    BY <1>0, <2>1 DEF Store
  <2> QED
    BY <2>2, <2>3, <2>4, ImportKept
<1>2. CASE SaveProject
  <2>1. UNCHANGED <<open, job, mem>> /\ spent'["import"] = spent["import"]
    BY <1>2, OtherAsked DEF SaveProject, Kinds
  <2>2. PICK purged \in SUBSET {Row("label", open)} :
           /\ db' = [db EXCEPT ![open] = @ \ purged]
           /\ told' = [told EXCEPT ![open] = @ \ purged]
    BY <1>2 DEF SaveProject
  <2>3. \A p \in Projects : told'[p] \subseteq told[p]
    BY <1>0, <2>2 DEF PackStores, Store
  <2>4. NoReport
    BY <1>0, <1>2, <2>1, <2>3, SavesNoReport DEF SaveProject
  <2>5. db'[open] = db[open] \ purged
    BY <1>0, <2>2 DEF Store
  <2>6. Imported \notin purged
    BY <2>2, RowsDiffer DEF Imported
  <2> QED
    BY <2>1, <2>4, <2>5, <2>6, ImportKept
<1>3. CASE FinishLabels
  <2>1. UNCHANGED <<open, told, job, mem, db, spent>>
    BY <1>3 DEF FinishLabels, stores, known
  <2>2. PICK rows : SavesAndReports(rows) /\ rows \subseteq {Row("label", open)}
    BY <1>3 DEF FinishLabels
  <2>3. NoReport
    BY <2>1, <2>2, SavesNoReport, RowsDiffer
  <2> QED
    BY <2>1, <2>3, ImportKept
<1>4. ASSUME NEW p \in Projects, StartSwitch(p) PROVE ImportInv'
  <2>1. Switches(p) /\ spent'["import"] = spent["import"]
    BY <1>4, SwitchesAre, OtherAsked DEF StartSwitch, Kinds
  <2>2. UNCHANGED <<open, told, job, mem, db>> /\ writer'["ui"] = writer["ui"]
    BY <2>1 DEF Switches, stores, known
  <2>3. NoReport
    BY <1>0, <2>2, NoReportKept
  <2> QED
    BY <2>1, <2>2, <2>3, ImportKept
<1>5. CASE HandleLoaded
  <2>1. /\ Takes("loaded")
        /\ UNCHANGED <<job, writer, told, spent>>
    BY <1>5 DEF HandleLoaded, known
  <2>2. loading.on /\ UIReady
    BY <1>0, <2>1, TakesAwaits DEF Takes, Events, EventInv
  <2>3. ~job.running /\ writer["ui"].then = {}
    BY <1>0, <2>2 DEF PackLoads
  <2>4. \A n : Unreported(n) => Unreported(n)'
    BY <2>1, <2>3 DEF Unreported
  <2> QED
    BY <2>1, <2>3, <2>4 DEF ImportInv
<1>6. CASE LoaderOpens
  <2>1. Opens
    BY <1>6, OpensAre
  <2>2. UNCHANGED <<open, told, job, mem, db, spent>> /\ writer'["ui"] = writer["ui"]
    BY <2>1 DEF Opens, stores, known
  <2>3. NoReport
    BY <1>0, <2>2, NoReportKept
  <2> QED
    BY <2>2, <2>3, ImportKept
<1>7. CASE UIPacked
  <2>1. UIReports
    BY <1>7, ReportsAre
  <2>2. UNCHANGED <<open, job, mem, db, spent>> /\ writer'["ui"].then = {}
    BY <2>1, IdleFields DEF UIReports, stores
  <2>3. ASSUME NEW n \in Nat, Unreported(n) PROVE Unreported(n)'
    BY <1>0, <2>1, <2>2, <2>3 DEF UIReports, Unreported
  <2> QED
    BY <2>2, <2>3, ImportKept DEF NoReport
<1>8. ASSUME NEW t \in Threads, Packs(t) PROVE ImportInv'
  <2>1. /\ SaveStage(t) \/ FailStage(t) \/ WriteStage(t) \/ RemoveStage(t) \/ RenameStage(t)
        /\ UNCHANGED <<job, open, loading, events, told, saved, spent>>
    BY <1>8, PackStages
  <2>2. /\ writer'[t].then = writer[t].then
        /\ \A u \in Threads : u # t => writer'[u] = writer[u]
    BY <2>1 DEF SaveStage, FailStage, WriteStage, RemoveStage, RenameStage, Stage
  <2>3. writer'["ui"].then = writer["ui"].then
    BY <2>2, ThreadsAre
  <2>4. NoReport
    BY <1>0, <2>1, <2>3, NoReportKept
  <2>5. mem[open] \cup db[open] \subseteq mem'[open] \cup db'[open]
    BY <2>1 DEF SaveStage, FailStage, WriteStage, RemoveStage, RenameStage, stores
  <2> QED
    BY <2>1, <2>4, <2>5, ImportKept
<1>9. CASE FinishExport \/ FinishAnalysis
  <2>1. UNCHANGED <<job, open, writer, spent>>
    BY <1>9 DEF FinishExport, FinishAnalysis
  <2>2. (\E ws : Commit(ws)) \/ UNCHANGED <<stores, known>>
    BY <1>9 DEF FinishExport, FinishAnalysis, Submit
  <2>3. ASSUME NEW ws, Commit(ws) PROVE NoReport /\ mem' = mem /\ db[open] \subseteq db'[open]
    <3>1. /\ \A p \in Projects : p # open => told'[p] = told[p]
          /\ told'[open] \subseteq told[open] \cup {Row("caption", open)}
          /\ mem' = mem /\ db[open] \subseteq db'[open]
      BY <1>0, <2>3, CommitAre
    <3>2. ASSUME NEW n \in Nat, Unreported(n) PROVE Unreported(n)'
      <4>1. ASSUME NEW p \in Projects PROVE Nth("import", p, n) \notin told'[p]
        <5>1. Nth("import", p, n) # Row("caption", open)
          BY RowsDiffer
        <5> QED
          BY <3>1, <3>2, <5>1 DEF Unreported
      <4> QED
        BY <2>1, <3>2, <4>1 DEF Unreported
    <3> QED
      BY <3>1, <3>2 DEF NoReport
  <2>4. CASE UNCHANGED <<stores, known>>
    <3>1. NoReport
      BY <1>0, <2>1, <2>4, NoReportKept DEF known
    <3> QED
      BY <2>1, <2>4, <3>1, ImportKept DEF stores
  <2> QED
    BY <2>1, <2>2, <2>3, <2>4, ImportKept
<1>10. CASE StartImport
  <2>1. PICK n : job' = NewJob(n)
    BY <1>10 DEF StartImport
  <2>2. job'.submitted = 0 /\ job'.done = 0 /\ job'.finished = 0 /\ job'.counting = 0
    BY <2>1 DEF NewJob
  <2>3. spent'["import"] = spent["import"] + 1 /\ spent["import"] \in Nat
    BY <1>0, <1>10 DEF StartImport, UserCan, Kinds
  <2>4. UNCHANGED <<open, told, writer>>
    BY <1>10 DEF StartImport, known
  <2>5. \A m : Unreported(m) => Unreported(m)'
    BY <2>4 DEF Unreported
  <2> QED
    BY <2>2, <2>3, <2>5 DEF ImportInv
<1>11. CASE ImportSubmits
  <2>1. job.running /\ job \in Jobs
    BY <1>11, JobRuns DEF ImportSubmits, SubmitFile
  <2>2. /\ job'.done = job.done /\ job'.finished = job.finished /\ job'.counting = job.counting
    BY <1>11, <2>1 DEF ImportSubmits, SubmitFile, Jobs
  <2>3. UNCHANGED <<open, told, writer, spent, db>>
    BY <1>11 DEF ImportSubmits, known
  <2>4. Imported' = Imported /\ \A n : Unreported(n) => Unreported(n)'
    BY <2>3 DEF Imported, Unreported
  <2>5. job'.submitted > 0 => Imported \in mem'[open] \cup db[open]
    <3>1. CASE job'.submitted = job.submitted
      BY <1>11, <2>1, <3>1 DEF ImportSubmits, ImportInv
    <3>2. CASE job'.submitted # job.submitted
      <4>1. mem' = [mem EXCEPT ![open] = @ \cup {Imported}]
        BY <1>11, <3>2 DEF ImportSubmits
      <4> QED
        BY <1>0, <4>1 DEF Store
    <3> QED
      BY <3>1, <3>2
  <2> QED
    BY <1>0, <2>1, <2>2, <2>3, <2>4, <2>5 DEF ImportInv
<1>12. CASE ImportRuns
  <2>1. job.running /\ job \in Jobs
    BY <1>12, JobRuns DEF ImportRuns, CloseSubmission, RunTask, Count, Ask
  <2>2. job.done <= job.finished + job.counting
    BY <2>1 DEF ImportInv
  <2>3. job'.submitted = job.submitted /\ job'.done <= job'.finished + job'.counting
    <3>1. CASE CloseSubmission
      BY <2>1, <2>2, <3>1 DEF CloseSubmission, TryFinishImportJob, Jobs
    <3>2. CASE RunTask
      <4>1. /\ job.done \in Nat /\ job.failed \in Nat /\ job.counting \in Nat
            /\ job.finished \in Nat
        BY <2>1 DEF Jobs
      <4>2. /\ job'.submitted = job.submitted /\ job'.finished = job.finished
            /\ job'.counting = job.counting + 1
            /\ job'.done = job.done \/ job'.done = job.done + 1
        BY <2>1, <3>2 DEF RunTask, Jobs
      <4> QED
        BY <2>2, <4>1, <4>2
    <3>3. CASE Count
      BY <2>1, <2>2, <3>3 DEF Count, Jobs
    <3>4. CASE Ask
      BY <2>1, <2>2, <3>4 DEF Ask, TryFinishImportJob, Jobs
    <3> QED
      BY <1>12, <3>1, <3>2, <3>3, <3>4 DEF ImportRuns
  <2>4. UNCHANGED <<open, told, writer, spent, mem, db>>
    BY <1>12 DEF ImportRuns, known, stores
  <2>5. Imported' = Imported /\ \A n : Unreported(n) => Unreported(n)'
    BY <2>4 DEF Imported, Unreported
  <2> QED
    BY <1>0, <2>1, <2>3, <2>4, <2>5 DEF ImportInv
<1>13. CASE FinishImport
  <2>1. UNCHANGED <<open, told, spent>> /\ job' = NoImport
    BY <1>13 DEF FinishImport, known
  <2>2. PICK rows : SavesAndReports(rows) /\ rows \subseteq {Imported}
    BY <1>13 DEF FinishImport
  <2>3. job'.running = FALSE /\ writer'["ui"].then = rows
    BY <2>1, <2>2, SavesAre DEF NoImport
  <2>4. ASSUME NEW n \in Nat, n > spent["import"] PROVE Unreported(n)'
    <3>1. Unreported(n)
      BY <2>4 DEF ImportInv
    <3>2. n # spent["import"]
      BY <1>0, <2>4 DEF Kinds
    <3>3. Nth("import", open, n) \notin rows
      BY <2>2, <3>2, RowsDiffer DEF Imported
    <3> QED
      BY <2>1, <2>3, <3>1, <3>3 DEF Unreported
  <2> QED
    BY <2>1, <2>3, <2>4 DEF ImportInv
<1>14. CASE \/ StartExport \/ RefuseAnalysis \/ StartLabels \/ (\E i \in Images : StartAnalysis(i))
            \/ Boot \/ ExportThread \/ AnalysisThread \/ LabelThread \/ UNCHANGED vars
  <2>1. UNCHANGED <<open, told, writer, job, mem>>
    BY <1>14 DEF StartExport, RefuseAnalysis, StartLabels, StartAnalysis, Boot, BootFails, BootDone,
       ExportThread, ExportEnds, AnalysisThread, AnalysisEnds, LabelThread, WriteLabel, LabelsEnd,
       vars, stores, known
  <2>2. db[open] \subseteq db'[open]
    <3>1. CASE WriteLabel
      BY <1>0, <3>1 DEF WriteLabel, Store
    <3>2. CASE ~WriteLabel
      BY <1>14, <3>2 DEF StartExport, RefuseAnalysis, StartLabels, StartAnalysis, Boot, BootFails,
         BootDone, ExportThread, ExportEnds, AnalysisThread, AnalysisEnds, LabelThread, LabelsEnd,
         vars, stores
    <3> QED
      BY <3>1, <3>2
  <2>3. spent'["import"] = spent["import"]
    <3>1. CASE \/ StartExport \/ RefuseAnalysis \/ StartLabels \/ (\E i \in Images : StartAnalysis(i))
      BY <3>1, OtherAsked DEF StartExport, RefuseAnalysis, StartLabels, StartAnalysis, Kinds
    <3>2. CASE Boot \/ ExportThread \/ AnalysisThread \/ LabelThread \/ UNCHANGED vars
      BY <3>2 DEF Boot, BootFails, BootDone, ExportThread, ExportEnds, AnalysisThread, AnalysisEnds,
         LabelThread, WriteLabel, LabelsEnd, vars
    <3> QED
      BY <1>14, <3>1, <3>2
  <2>4. NoReport
    BY <1>0, <2>1, NoReportKept
  <2> QED
    BY <2>1, <2>2, <2>3, <2>4, ImportKept
<1> QED
  BY <1>1, <1>2, <1>3, <1>4, <1>5, <1>6, <1>7, <1>8, <1>9, <1>10, <1>11, <1>12, <1>13, <1>14,
     ThreadsAre
     DEF Next, User, UI, Loader, ImportThread

--------------------------------------------------------------------------------
LEMMA InitSafe == Init => SafeInv
<1> SUFFICES ASSUME Init PROVE ClosedInv /\ KeptInv
  BY DEF SafeInv
<1>0. open \in Projects
  BY InitType DEF TypeInv
<1>1. /\ \A p \in Projects : mem[p] = {} /\ db[p] = {} /\ pack[p] = {} /\ told[p] = {}
                             /\ saved[p] = {}
      /\ \A t \in Threads : writer[t].at = "idle" /\ writer[t].then = {}
      /\ unpacked = {}
  BY IdleFields DEF Init
<1>2. loading.on = FALSE /\ loading.ok = FALSE
  BY DEF Init, NotLoading
<1>3. Reported /\ ClosedInv
  BY <1>0, <1>1, <1>2, ThreadsAre DEF Reported, ClosedInv
<1>4. OneHasTmp /\ InPackage(saved[open]) /\ ~Replacing
  BY <1>0, <1>1, ThreadsAre DEF OneHasTmp, HasTmp, InPackage, Replacing
<1>5. \A t \in Threads : WriterKeeps(t)
  BY <1>1 DEF WriterKeeps, HasTmp
<1> QED
  BY <1>1, <1>2, <1>3, <1>4, <1>5 DEF KeptInv

\* A step that is about the open project, of which the others know nothing.
LEMMA ClosedKept ==
  ASSUME ClosedInv, open' = open, spoiled \subseteq spoiled',
         \A p \in Projects : p # open =>
            /\ told'[p] = told[p] /\ saved'[p] = saved[p] /\ pack'[p] = pack[p]
            /\ p \in unpacked' <=> p \in unpacked,
         saved'[open] \subseteq told'[open],
         loading' = loading \/ (loading'.to = loading.to /\ loading'.got = loading.got
                                /\ loading'.on = loading.on),
         loading.to \in Projects
  PROVE  ClosedInv'
<1>1. \A p \in Projects : saved'[p] \subseteq told'[p]
  BY DEF ClosedInv
<1>2. \A p \in Projects \ (spoiled' \cup {open'}) :
          /\ told'[p] \subseteq pack'[p] \/ p \in unpacked'
          /\ p \in unpacked' => pack'[p] = NoFile
  BY DEF ClosedInv
<1>3. loading'.on /\ loading'.to \notin spoiled' \cup {open'} =>
          told'[loading'.to] \subseteq loading'.got
  BY DEF ClosedInv
<1> QED
  BY <1>1, <1>2, <1>3 DEF ClosedInv

\* A step that writes no package and reports nothing.
LEMMA KeptQuiet ==
  ASSUME KeptInv, UNCHANGED <<told, saved, pack, tmp, loading, writer, open, unpacked>>,
         mem[open] \cup db[open] \subseteq mem'[open] \cup db'[open]
  PROVE  KeptInv'
<1>1. Replacing' = Replacing
  BY DEF Replacing
<1>2. Reported' /\ OneHasTmp'
  BY DEF KeptInv, Reported, OneHasTmp
<1>3. /\ loading'.ok => InPackage(told[open])'
      /\ InPackage(saved[open])'
      /\ Replacing' \/ open' \in unpacked' => pack'[open'] = NoFile
  BY <1>1 DEF KeptInv, InPackage
<1>4. ASSUME NEW t \in Threads PROVE WriterKeeps(t)'
  BY <1>1 DEF KeptInv, WriterKeeps, InPackage
<1> QED
  BY <1>2, <1>3, <1>4 DEF KeptInv

\* A handler that begins to save the project and will report these rows. It may
\* delete rows, and then nobody has a snapshot.
LEMMA KeptSaves ==
  ASSUME TypeInv, EventInv, KeptInv, NEW rows, SavesAndReports(rows),
         writer["ui"].at = "idle",
         UNCHANGED <<pack, tmp, loading, open, unpacked>>,
         told'[open] \subseteq told[open], saved'[open] \subseteq saved[open],
         told'[open] \cup rows \subseteq mem'[open] \cup db'[open]
  PROVE  KeptInv'
<1>0. /\ writer'["ui"].at = "save" /\ writer'["ui"].then = rows
      /\ writer'["loader"] = writer["loader"]
  BY SavesAre
<1>1. Replacing' = Replacing
  BY <1>0, ThreadsAre DEF Replacing
<1>2. Reported'
  BY <1>0 DEF Reported
<1>3. OneHasTmp'
  BY <1>0 DEF OneHasTmp, HasTmp
<1>4. /\ loading'.ok => InPackage(told[open])'
      /\ InPackage(saved[open])'
      /\ Replacing' \/ open' \in unpacked' => pack'[open'] = NoFile
  BY <1>1 DEF KeptInv, InPackage
<1>5. WriterKeeps("ui")'
  BY <1>0 DEF WriterKeeps, HasTmp
<1>6. WriterKeeps("loader")'
  BY <1>0, <1>1, ThreadsAre DEF KeptInv, WriterKeeps, InPackage
<1> QED
  BY <1>2, <1>3, <1>4, <1>5, <1>6, ThreadsAre DEF KeptInv

LEMMA SafeSwitch ==
  ASSUME TypeInv, EventInv, SafeInv, NEW p, Switches(p) PROVE SafeInv'
<1>0. /\ writer["ui"].at = "idle" /\ writer["loader"].at = "idle"
      /\ UNCHANGED <<told, saved, pack, tmp, open, mem, db, spoiled, unpacked>>
      /\ writer'["ui"] = writer["ui"] /\ writer'["loader"].at = "save"
      /\ loading'.to = p /\ loading'.got = pack[p] /\ ~loading'.ok /\ p \in Projects
      /\ pack[p] # NoFile
  BY ReadyIdle DEF Switches, EventInv, stores, known, past
<1>1. ClosedInv'
  <2>1. \A q \in Projects : saved'[q] \subseteq told'[q]
    BY <1>0 DEF SafeInv, ClosedInv
  <2>2. \A q \in Projects \ (spoiled' \cup {open'}) :
            /\ told'[q] \subseteq pack'[q] \/ q \in unpacked'
            /\ q \in unpacked' => pack'[q] = NoFile
    BY <1>0 DEF SafeInv, ClosedInv
  <2>3. p \notin spoiled \cup {open} => told[p] \subseteq pack[p]
    BY <1>0 DEF SafeInv, ClosedInv
  <2>4. loading'.on /\ loading'.to \notin spoiled' \cup {open'} =>
            told'[loading'.to] \subseteq loading'.got
    BY <1>0, <2>3
  <2> QED
    BY <2>1, <2>2, <2>4 DEF ClosedInv
<1>2. ASSUME KeptInv PROVE KeptInv'
  <2>1. Replacing' = Replacing
    BY <1>0, ThreadsAre DEF Replacing
  <2>2. Reported' /\ OneHasTmp'
    BY <1>0, <1>2 DEF KeptInv, Reported, OneHasTmp, HasTmp
  <2>3. /\ loading'.ok => InPackage(told[open])'
        /\ InPackage(saved[open])'
        /\ Replacing' \/ open' \in unpacked' => pack'[open'] = NoFile
    BY <1>0, <1>2, <2>1 DEF KeptInv, InPackage
  <2>4. \A t \in Threads : WriterKeeps(t)'
    BY <1>0, ThreadsAre DEF WriterKeeps, HasTmp
  <2> QED
    BY <2>2, <2>3, <2>4 DEF KeptInv
<1> QED
  BY <1>0, <1>1, <1>2 DEF SafeInv

\* The project that was open has its package, and the next one is opened with all
\* that its package held when the switch began.
LEMMA SafeLoaded ==
  ASSUME TypeInv, EventInv, PackInv, SafeInv, HandleLoaded PROVE SafeInv'
<1>0. /\ Takes("loaded") /\ loading' = NotLoading /\ open \in Projects /\ loading.to \in Projects
      /\ UNCHANGED <<writer, told, saved, pack, tmp, unpacked>> /\ events \in Seq(Events)
      /\ Store(mem) /\ Store(db)
  BY DEF HandleLoaded, known, TypeInv
<1>1. loading.on /\ writer["loader"].at = "idle" /\ writer["ui"].at = "idle"
  <2>1. Awaits(events, "loaded") /\ UIReady
    BY <1>0, TakesAwaits DEF Takes, Events
  <2> QED
    BY <2>1, ReadyIdle DEF EventInv
<1>2. loading'.on = FALSE /\ loading'.ok = FALSE
  BY <1>0 DEF NotLoading
<1>3. ~Replacing /\ ~Replacing'
  BY <1>0, <1>1, ThreadsAre DEF Replacing
<1>4. OneHasTmp' /\ \A t \in Threads : WriterKeeps(t)'
  BY <1>0, <1>1, ThreadsAre DEF OneHasTmp, WriterKeeps, HasTmp
<1>5. \A p \in Projects : saved'[p] \subseteq told'[p]
  BY <1>0 DEF SafeInv, ClosedInv
<1>6. CASE ~loading.ok
  <2>1. UNCHANGED <<open, mem, db, spoiled>>
    BY <1>6 DEF HandleLoaded
  <2>2. ClosedInv'
    BY <1>0, <1>2, <1>5, <2>1 DEF SafeInv, ClosedInv
  <2>3. ASSUME KeptInv PROVE KeptInv'
    <3>1. Reported'
      BY <1>0, <2>1, <2>3 DEF KeptInv, Reported
    <3>2. /\ InPackage(saved[open])'
          /\ Replacing' \/ open' \in unpacked' => pack'[open'] = NoFile
      BY <1>0, <1>3, <2>1, <2>3 DEF KeptInv, InPackage
    <3> QED
      BY <1>2, <1>4, <3>1, <3>2 DEF KeptInv
  <2> QED
    BY <2>1, <2>2, <2>3 DEF SafeInv
<1>7. CASE loading.ok
  <2>1. /\ open' = loading.to
        /\ mem' = [mem EXCEPT ![open] = {}, ![loading.to] = {}]
        /\ db' = [db EXCEPT ![open] = {}, ![loading.to] = loading.got]
        /\ spoiled' = IF loading.to = open THEN spoiled \cup {open} ELSE spoiled
    BY <1>7 DEF HandleLoaded
  <2>2. open \notin spoiled =>
           /\ told[open] \subseteq pack[open] \/ open \in unpacked
           /\ open \in unpacked => pack[open] = NoFile
    BY <1>3, <1>7 DEF SafeInv, KeptInv, InPackage
  <2>3. ClosedInv'
    BY <1>0, <1>2, <1>5, <2>1, <2>2 DEF SafeInv, ClosedInv
  <2>4. ASSUME open' \notin spoiled' PROVE KeptInv'
    <3>1. loading.to # open /\ loading.to \notin spoiled
      BY <2>1, <2>4
    <3>2. mem'[open'] = {} /\ db'[open'] = loading.got
      BY <1>0, <2>1 DEF Store
    <3>3. writer'["ui"].then = {}
      BY <1>0, <1>1, ThreadsAre DEF PackInv, PackWriters, Nobody
    <3>4. Reported'
      BY <1>0, <1>1, <2>1, <3>1, <3>2, <3>3 DEF SafeInv, ClosedInv, Reported
    <3>5. /\ saved[loading.to] \subseteq pack[loading.to] \/ loading.to \in unpacked
          /\ loading.to \in unpacked => pack[loading.to] = NoFile
      BY <1>0, <3>1 DEF SafeInv, ClosedInv
    <3>6. /\ InPackage(saved[open])'
          /\ Replacing' \/ open' \in unpacked' => pack'[open'] = NoFile
      BY <1>0, <1>3, <2>1, <3>5 DEF InPackage
    <3> QED
      BY <1>2, <1>4, <3>4, <3>6 DEF KeptInv
  <2> QED
    BY <2>3, <2>4 DEF SafeInv
<1> QED
  BY <1>6, <1>7

LEMMA KeptOpens == ASSUME PackInv, KeptInv, Opens PROVE KeptInv'
<1>0. /\ writer["loader"].at \in {"packed", "failed"} /\ writer'["loader"].at = "idle"
      /\ writer'["ui"] = writer["ui"]
      /\ UNCHANGED <<told, saved, pack, tmp, open, mem, db, unpacked>>
      /\ (loading'.ok => writer["loader"].at = "packed")
  BY IdleFields DEF Opens, Packed, stores, known, past
<1>1. Replacing' = Replacing
  BY <1>0, ThreadsAre DEF Replacing
<1>2. Reported' /\ OneHasTmp'
  BY <1>0 DEF KeptInv, Reported, OneHasTmp, HasTmp
<1>3. loading'.ok => InPackage(told[open])'
  <2>1. loading'.ok => InPackage(told[open] \cup writer["loader"].then)
    BY <1>0, ThreadsAre DEF KeptInv, WriterKeeps
  <2> QED
    BY <1>0, <1>1, <2>1 DEF InPackage
<1>4. /\ InPackage(saved[open])'
      /\ Replacing' \/ open' \in unpacked' => pack'[open'] = NoFile
  BY <1>0, <1>1 DEF KeptInv, InPackage
<1>5. WriterKeeps("loader")'
  BY <1>0 DEF WriterKeeps, HasTmp
<1>6. WriterKeeps("ui")'
  BY <1>0, <1>1, ThreadsAre DEF KeptInv, WriterKeeps, InPackage
<1> QED
  BY <1>2, <1>3, <1>4, <1>5, <1>6, ThreadsAre DEF KeptInv

\* The saved rows of the open project are among those the user was told of.
LEMMA KeptReports ==
  ASSUME TypeInv, EventInv, PackInv, KeptInv, saved[open] \subseteq told[open], UIReports
  PROVE  KeptInv'
<1> DEFINE then == writer["ui"].then
<1>0. /\ writer["ui"].at \in {"packed", "failed"} /\ writer'["ui"].at = "idle"
      /\ writer'["ui"].then = {} /\ writer'["loader"] = writer["loader"]
      /\ UNCHANGED <<pack, tmp, open, mem, db, loading, unpacked>>
      /\ told'[open] = told[open] \cup then
      /\ \/ saved'[open] = saved[open]
         \/ writer["ui"].at = "packed" /\ saved'[open] = saved[open] \cup then
  BY IdleFields DEF UIReports, Packed, stores, past
<1>1. Replacing' = Replacing
  BY <1>0, ThreadsAre DEF Replacing
<1>2. loading.on => told'[open] = told[open]
  BY <1>0 DEF PackInv, PackLoads
<1>3. (loading.ok => loading.on) /\ (writer["loader"].at # "idle" => loading.on)
  BY DEF PackInv, PackLoads, EventInv
<1>4. Reported' /\ OneHasTmp'
  BY <1>0 DEF KeptInv, Reported, OneHasTmp, HasTmp
<1>5. /\ loading'.ok => InPackage(told[open])'
      /\ Replacing' \/ open' \in unpacked' => pack'[open'] = NoFile
  BY <1>0, <1>1, <1>2, <1>3 DEF KeptInv, InPackage
<1>6. InPackage(saved[open])'
  <2>1. CASE saved'[open] = saved[open]
    BY <1>0, <1>1, <2>1 DEF KeptInv, InPackage
  <2>2. CASE writer["ui"].at = "packed" /\ saved'[open] = saved[open] \cup then
    <3>1. InPackage(told[open] \cup then)
      BY <2>2, ThreadsAre DEF KeptInv, WriterKeeps
    <3> QED
      BY <1>0, <1>1, <2>2, <3>1 DEF InPackage
  <2> QED
    BY <1>0, <2>1, <2>2
<1>7. WriterKeeps("ui")'
  BY <1>0 DEF WriterKeeps, HasTmp
<1>8. WriterKeeps("loader")'
  <2>1. CASE writer["loader"].at = "idle"
    BY <1>0, <2>1 DEF WriterKeeps, HasTmp
  <2>2. CASE writer["loader"].at # "idle"
    <3>1. told'[open] = told[open]
      BY <1>2, <1>3, <2>2
    <3> QED
      BY <1>0, <1>1, <3>1, ThreadsAre DEF KeptInv, WriterKeeps, InPackage
  <2> QED
    BY <2>1, <2>2
<1> QED
  BY <1>4, <1>5, <1>6, <1>7, <1>8, ThreadsAre DEF KeptInv

LEMMA KeptSave ==
  ASSUME PackInv, KeptInv, NEW t \in Threads, SaveStage(t), UNCHANGED <<told, saved, loading>>
  PROVE  KeptInv'
<1>0. /\ writer[t].at = "save" /\ writer'[t].at = "write" /\ writer'[t].then = writer[t].then
      /\ writer'[t].shot = db'[open] /\ open' = open
      /\ \A u \in Threads : u # t => writer'[u] = writer[u]
      /\ mem'[open] = {} /\ db'[open] = db[open] \cup mem[open]
      /\ UNCHANGED <<tmp, pack, unpacked>>
  BY DEF SaveStage, Stage, past
<1>1. Replacing' = Replacing
  BY <1>0 DEF Replacing
<1>2. writer'["ui"].then = writer["ui"].then
  BY <1>0, ThreadsAre
<1>3. Reported'
  BY <1>0, <1>2 DEF KeptInv, Reported
<1>4. /\ loading'.ok => InPackage(told[open])'
      /\ InPackage(saved[open])'
      /\ Replacing' \/ open' \in unpacked' => pack'[open'] = NoFile
  BY <1>0, <1>1 DEF KeptInv, InPackage
<1>5. OneHasTmp'
  BY <1>0, ThreadsAre DEF KeptInv, OneHasTmp, HasTmp
<1>6. ASSUME NEW u \in Threads PROVE WriterKeeps(u)'
  <2>1. CASE u = t
    <3>1. told[open] \cup writer[t].then \subseteq mem[open] \cup db[open]
      BY ThreadsAre DEF KeptInv, Reported, PackInv, PackWriters
    <3> QED
      BY <1>0, <2>1, <3>1 DEF WriterKeeps, HasTmp
  <2>2. CASE u # t
    BY <1>0, <1>1, <2>2 DEF KeptInv, WriterKeeps, InPackage
  <2> QED
    BY <2>1, <2>2
<1> QED
  BY <1>3, <1>4, <1>5, <1>6 DEF KeptInv

\* A thread that fails before it has removed the package leaves all as it was.
LEMMA KeptFails ==
  ASSUME KeptInv, NEW t \in Threads, writer[t].at # "rename", writer'[t].at = "failed",
         writer'[t].then = writer[t].then,
         \A u \in Threads : u # t => writer'[u] = writer[u] /\ ~HasTmp(writer[u]),
         UNCHANGED <<told, saved, loading, mem, db, pack, open, unpacked>>
  PROVE  KeptInv'
<1>1. Replacing' = Replacing
  BY DEF Replacing
<1>2. writer'["ui"].then = writer["ui"].then
  BY ThreadsAre
<1>3. Reported' /\ OneHasTmp'
  BY <1>2, ThreadsAre DEF KeptInv, Reported, OneHasTmp, HasTmp
<1>4. /\ loading'.ok => InPackage(told[open])'
      /\ InPackage(saved[open])'
      /\ Replacing' \/ open' \in unpacked' => pack'[open'] = NoFile
  BY <1>1 DEF KeptInv, InPackage
<1>5. ASSUME NEW u \in Threads PROVE WriterKeeps(u)'
  <2>1. CASE u = t
    BY <2>1 DEF WriterKeeps, HasTmp
  <2>2. CASE u # t
    BY <1>1, <2>2 DEF KeptInv, WriterKeeps, InPackage, HasTmp
  <2> QED
    BY <2>1, <2>2
<1> QED
  BY <1>3, <1>4, <1>5 DEF KeptInv

LEMMA KeptFail ==
  ASSUME KeptInv, NEW t \in Threads, FailStage(t), UNCHANGED <<told, saved, loading>>
  PROVE  KeptInv'
<1>0. /\ writer[t].at = "save" /\ writer'[t].at = "failed" /\ writer'[t].then = writer[t].then
      /\ \A u \in Threads : u # t => writer'[u] = writer[u]
      /\ UNCHANGED <<mem, db, tmp, pack, open, unpacked>>
  BY DEF FailStage, Stage, stores, past
<1>1. Replacing' = Replacing
  BY <1>0 DEF Replacing
<1>2. writer'["ui"].then = writer["ui"].then
  BY <1>0, ThreadsAre
<1>3. Reported' /\ OneHasTmp'
  BY <1>0, <1>2, ThreadsAre DEF KeptInv, Reported, OneHasTmp, HasTmp
<1>4. /\ loading'.ok => InPackage(told[open])'
      /\ InPackage(saved[open])'
      /\ Replacing' \/ open' \in unpacked' => pack'[open'] = NoFile
  BY <1>0, <1>1 DEF KeptInv, InPackage
<1>5. ASSUME NEW u \in Threads PROVE WriterKeeps(u)'
  <2>1. CASE u = t
    BY <1>0, <2>1 DEF WriterKeeps, HasTmp
  <2>2. CASE u # t
    BY <1>0, <1>1, <2>2 DEF KeptInv, WriterKeeps, InPackage
  <2> QED
    BY <2>1, <2>2
<1> QED
  BY <1>3, <1>4, <1>5 DEF KeptInv

LEMMA KeptWrite ==
  ASSUME PackInv, KeptInv, NEW t \in Threads, WriteStage(t), open \notin spoiled',
         UNCHANGED <<told, saved, loading>>
  PROVE  KeptInv'
<1>0. /\ writer[t].at = "write" /\ writer'[t].at \in {"remove", "failed"}
      /\ writer'[t].then = writer[t].then
      /\ writer'[t].shot = writer[t].shot /\ open' = open
      /\ writer'[t].at = "remove" => tmp'[open] = writer[t].shot
      /\ \A u \in Threads : u # t => writer'[u] = writer[u] /\ ~HasShot(u, open)
      /\ UNCHANGED <<mem, db, pack, unpacked>>
  BY DEF WriteStage, Stage
<1>1. Replacing' = Replacing
  BY <1>0 DEF Replacing
<1>2. writer'["ui"].then = writer["ui"].then
  BY <1>0, ThreadsAre
<1>3. Reported'
  BY <1>0, <1>2 DEF KeptInv, Reported
<1>4. /\ loading'.ok => InPackage(told[open])'
      /\ InPackage(saved[open])'
      /\ Replacing' \/ open' \in unpacked' => pack'[open'] = NoFile
  BY <1>0, <1>1 DEF KeptInv, InPackage
<1>5. ASSUME NEW u \in Threads, u # t PROVE ~HasTmp(writer[u])
  BY <1>0, <1>5 DEF HasTmp, HasShot, PackInv, PackWriters
<1>6. OneHasTmp'
  BY <1>0, <1>5, ThreadsAre DEF OneHasTmp
<1>7. ASSUME NEW u \in Threads PROVE WriterKeeps(u)'
  <2>1. CASE u = t
    BY <1>0, <2>1 DEF KeptInv, WriterKeeps, HasTmp
  <2>2. CASE u # t
    BY <1>0, <1>1, <1>5, <2>2 DEF KeptInv, WriterKeeps, InPackage
  <2> QED
    BY <2>1, <2>2
<1> QED
  BY <1>3, <1>4, <1>6, <1>7 DEF KeptInv

LEMMA KeptRemove ==
  ASSUME KeptInv, NEW t \in Threads, RemoveStage(t), UNCHANGED <<told, saved, loading>>
  PROVE  KeptInv'
<1>0. /\ writer[t].at = "remove" /\ writer'[t].then = writer[t].then
      /\ writer'[t].shot = writer[t].shot /\ open' = open
      /\ \A u \in Threads : u # t => writer'[u] = writer[u]
      /\ UNCHANGED <<mem, db, unpacked>>
  BY DEF RemoveStage, Stage, past
<1>a. \A u \in Threads : u # t => ~HasTmp(writer[u])
  BY <1>0, ThreadsAre DEF KeptInv, OneHasTmp, HasTmp
<1>b. CASE writer'[t].at = "failed" /\ pack' = pack
  BY <1>0, <1>a, <1>b, KeptFails
<1>c. CASE writer'[t].at = "rename" /\ pack'[open] = NoFile /\ tmp' = tmp
  <2>1. Replacing'
    BY <1>c DEF Replacing
  <2>2. writer'["ui"].then = writer["ui"].then
    BY <1>0, ThreadsAre
  <2>3. Reported'
    BY <1>0, <2>2 DEF KeptInv, Reported
  <2>4. /\ loading'.ok => InPackage(told[open])'
        /\ InPackage(saved[open])'
        /\ pack'[open'] = NoFile
    BY <1>0, <1>c, <2>1 DEF InPackage
  <2>5. OneHasTmp'
    BY <1>0, <1>c, ThreadsAre DEF KeptInv, OneHasTmp, HasTmp
  <2>6. ASSUME NEW u \in Threads PROVE WriterKeeps(u)'
    <3>1. CASE u = t
      BY <1>0, <1>c, <3>1 DEF KeptInv, WriterKeeps, HasTmp
    <3>2. CASE u # t
      BY <1>0, <1>c, <2>1, <3>2 DEF KeptInv, WriterKeeps, InPackage
    <3> QED
      BY <3>1, <3>2
  <2> QED
    BY <2>3, <2>4, <2>5, <2>6 DEF KeptInv
<1> QED
  BY <1>b, <1>c DEF RemoveStage, Stage

\* The temporary file is the snapshot of this thread: the rename makes it the
\* package, or leaves none.
LEMMA KeptRename ==
  ASSUME TypeInv, EventInv, PackInv, KeptInv, saved[open] \subseteq told[open],
         NEW t \in Threads, RenameStage(t), UNCHANGED <<told, saved, loading>>
  PROVE  KeptInv'
<1>1. /\ writer[t].at = "rename" /\ writer'[t].then = writer[t].then /\ open' = open
      /\ \A u \in Threads : u # t => writer'[u] = writer[u]
      /\ UNCHANGED <<mem, db>>
      /\ \/ writer'[t].at = "packed" /\ pack'[open] = tmp[open] /\ open \notin unpacked'
         \/ writer'[t].at = "failed" /\ pack' = pack /\ open \in unpacked'
  BY DEF RenameStage, Stage
<1>2. tmp[open] = writer[t].shot /\ told[open] \cup writer[t].then \subseteq writer[t].shot
  BY <1>1 DEF KeptInv, WriterKeeps, HasTmp
<1>3. pack[open] = NoFile
  BY <1>1 DEF KeptInv, Replacing
<1>a. writer["loader"].then = {}
  BY DEF PackInv, PackWriters
<1>b. writer["loader"].at # "idle" => writer["ui"].then = {}
  BY DEF EventInv, PackInv, PackLoads
<1>5. ASSUME NEW u \in Threads, u # t PROVE ~HasTmp(writer[u]) /\ writer[u].then = {}
  <2>1. ~HasTmp(writer[u])
    BY <1>1, <1>5, ThreadsAre DEF KeptInv, OneHasTmp, HasTmp
  <2>2. CASE u = "loader"
    BY <1>a, <2>1, <2>2
  <2>3. CASE u = "ui" /\ t = "loader"
    BY <1>1, <1>b, <2>1, <2>3
  <2>4. writer[u].then = {}
    BY <1>5, <2>2, <2>3, ThreadsAre
  <2> QED
    BY <2>1, <2>4
<1>6. writer'["ui"].then = writer["ui"].then
  BY <1>1, ThreadsAre
<1>7. told[open] \cup writer[t].then \subseteq pack'[open] \/ open \in unpacked'
  BY <1>1, <1>2
<1>8. Reported'
  BY <1>1, <1>6 DEF KeptInv, Reported
<1>9. InPackage(told[open])' /\ InPackage(saved[open])'
  BY <1>1, <1>7 DEF InPackage
<1>10. Replacing' \/ open' \in unpacked' => pack'[open'] = NoFile
  <2>1. ~Replacing'
    BY <1>1, <1>5 DEF Replacing, HasTmp
  <2> QED
    BY <1>1, <1>3, <2>1
<1>11. OneHasTmp'
  BY <1>1, <1>5, ThreadsAre DEF OneHasTmp, HasTmp
<1>12. ASSUME NEW u \in Threads PROVE WriterKeeps(u)'
  <2>1. CASE u = t
    BY <1>1, <1>7, <2>1 DEF WriterKeeps, HasTmp, InPackage
  <2>2. CASE u # t
    <3>1. writer'[u] = writer[u] /\ ~HasTmp(writer[u]) /\ writer[u].then = {}
      BY <1>1, <1>5, <2>2
    <3>2. told[open] \cup writer[u].then \subseteq pack'[open] \/ open \in unpacked'
      BY <1>7, <3>1
    <3> QED
      BY <1>1, <3>1, <3>2 DEF KeptInv, WriterKeeps, InPackage, HasTmp
  <2> QED
    BY <2>1, <2>2
<1> QED
  BY <1>8, <1>9, <1>10, <1>11, <1>12 DEF KeptInv

\* The writes of an analysis are made, and reported unless a project is opened.
LEMMA KeptCommit ==
  ASSUME TypeInv, EventInv, PackInv, KeptInv, UIReady, NEW writes, Commit(writes),
         UNCHANGED <<loading, writer, open>>
  PROVE  KeptInv'
<1>0. /\ told[open] \subseteq told'[open] /\ db[open] \subseteq db'[open]
      /\ told'[open] \subseteq told[open] \cup ({Row("caption", open)} \cap db'[open])
      /\ loading.on => told' = told
      /\ UNCHANGED <<mem, tmp, pack, unpacked, saved>>
  BY CommitAre DEF PackInv, past
<1>1. CASE loading.on
  BY <1>0, <1>1, KeptQuiet
<1>2. CASE ~loading.on
  <2>1. /\ \A t \in Threads : writer[t].at = "idle"
        /\ writer["ui"].then = {} /\ loading.ok = FALSE
    BY <1>2, ReadyIdle, ThreadsAre DEF EventInv, PackInv, PackLoads
  <2>2. Replacing' = Replacing
    BY DEF Replacing
  <2>3. Reported'
    BY <1>0, <2>1 DEF KeptInv, Reported
  <2>4. /\ loading'.ok = FALSE /\ OneHasTmp' /\ InPackage(saved[open])'
        /\ Replacing' \/ open' \in unpacked' => pack'[open'] = NoFile
    BY <1>0, <2>1, <2>2 DEF KeptInv, OneHasTmp, InPackage
  <2>5. \A t \in Threads : WriterKeeps(t)'
    BY <2>1 DEF WriterKeeps, HasTmp
  <2> QED
    BY <2>3, <2>4, <2>5 DEF KeptInv
<1> QED
  BY <1>1, <1>2

\* What a handler of the UI thread may report is there.
LEMMA KeptHandler ==
  ASSUME TypeInv, JobInv, EventInv, PackInv, ImportInv, KeptInv,
         Edit \/ SaveProject \/ FinishLabels \/ FinishImport
  PROVE  KeptInv'
<1>0. /\ open \in Projects /\ Store(mem) /\ Store(db) /\ events \in Seq(Events)
      /\ told[open] \subseteq mem[open] \cup db[open]
      /\ Store(told) /\ Store(saved)
  BY DEF TypeInv, KeptInv, Reported, PackInv, PackStores
<1>1. writer["ui"].at = "idle" /\ UNCHANGED <<pack, tmp, loading, open, unpacked>>
  <2>1. UIReady
    BY DEF Edit, SaveProject, FinishLabels, FinishImport, UserCan, Unblocked, Takes
  <2> QED
    BY <2>1, ReadyIdle DEF Edit, SaveProject, FinishLabels, FinishImport, stores, past
<1>2. CASE Edit
  <2>1. PICK n : /\ db' = [db EXCEPT ![open] = @ \cup {Nth("edit", open, n)}]
                 /\ SavesAndReports({Nth("edit", open, n)})
                 /\ UNCHANGED <<mem, told, saved>>
    BY <1>2 DEF Edit, known
  <2>2. told[open] \cup {Nth("edit", open, n)} \subseteq mem'[open] \cup db'[open]
    BY <1>0, <2>1 DEF Store
  <2> QED
    BY <1>1, <2>1, <2>2, KeptSaves
<1>3. CASE SaveProject
  <2>1. PICK purged :
           /\ db' = [db EXCEPT ![open] = @ \ purged]
           /\ told' = [told EXCEPT ![open] = @ \ purged]
           /\ saved' = [saved EXCEPT ![open] = @ \ purged]
           /\ mem' = mem
    BY <1>3 DEF SaveProject
  <2>2. SavesAndReports(told'[open])
    BY <1>3 DEF SaveProject
  <2>3. /\ db'[open] = db[open] \ purged /\ told'[open] = told[open] \ purged
        /\ saved'[open] = saved[open] \ purged
    BY <1>0, <2>1 DEF Store
  <2>4. told'[open] \cup told'[open] \subseteq mem'[open] \cup db'[open]
    BY <1>0, <2>1, <2>3
  <2> QED
    BY <1>1, <2>2, <2>3, <2>4, KeptSaves
<1>4. CASE FinishLabels
  <2>1. UNCHANGED <<mem, db, told, saved>>
    BY <1>4 DEF FinishLabels, stores, known
  <2>2. PICK rows : SavesAndReports(rows) /\ rows \subseteq db[open]
    BY <1>4 DEF FinishLabels
  <2>3. told[open] \cup rows \subseteq mem'[open] \cup db'[open]
    BY <1>0, <2>1, <2>2
  <2> QED
    BY <1>1, <2>1, <2>2, <2>3, KeptSaves
<1>5. CASE FinishImport
  <2>0. UNCHANGED <<told, saved>>
    BY <1>5 DEF FinishImport, known
  <2>1. job.running /\ job.acked
    BY <1>0, <1>5, TakesAwaits DEF FinishImport, Events, PackInv, PackImports, Acked
  <2>2. job \in Jobs /\ Counted(job)
    BY <2>1, JobRuns
  <2>3. CASE job.done = 0
    <3>1. /\ mem' = [mem EXCEPT ![open] = @ \ {Imported}]
          /\ db' = [db EXCEPT ![open] = @ \ {Imported}]
          /\ SavesAndReports({})
      BY <1>5, <2>3 DEF FinishImport
    <3>2. mem'[open] = mem[open] \ {Imported} /\ db'[open] = db[open] \ {Imported}
      BY <1>0, <3>1 DEF Store
    <3>3. Imported \notin told[open]
      BY <1>0, <2>1 DEF ImportInv, Unreported, Imported
    <3>4. told[open] \cup {} \subseteq mem'[open] \cup db'[open]
      BY <1>0, <3>2, <3>3
    <3> QED
      BY <1>1, <2>0, <3>1, <3>4, KeptSaves
  <2>4. CASE job.done # 0
    <3>1. mem' = mem /\ db' = db /\ SavesAndReports({Imported})
      BY <1>0, <1>5, <2>4 DEF FinishImport, Store
    <3>2. job.submitted > 0
      <4>1. job.done <= job.finished + job.counting
        BY <2>1 DEF ImportInv
      <4>2. /\ job.done \in Nat /\ job.finished \in Nat /\ job.counting \in Nat
            /\ job.submitted \in Nat
        BY <2>2 DEF Jobs
      <4>3. job.finished + job.counting <= job.submitted
        BY <2>2 DEF Counted
      <4> QED
        BY <2>4, <4>1, <4>2, <4>3
    <3>3. Imported \in mem[open] \cup db[open]
      BY <2>1, <3>2 DEF ImportInv
    <3>4. told[open] \cup {Imported} \subseteq mem'[open] \cup db'[open]
      BY <1>0, <3>1, <3>3
    <3> QED
      BY <1>1, <2>0, <3>1, <3>4, KeptSaves
  <2> QED
    BY <2>3, <2>4
<1> QED
  BY <1>2, <1>3, <1>4, <1>5

\* The steps that neither switch nor open a project, and make no package.
Others ==
    \/ StartImport \/ ImportRuns \/ StartExport \/ RefuseAnalysis \/ StartLabels
    \/ (\E i \in Images : StartAnalysis(i))
    \/ Boot \/ ExportThread \/ AnalysisThread \/ LabelsEnd \/ UNCHANGED vars

LEMMA OthersAre ==
  ASSUME Others
  PROVE  UNCHANGED <<told, saved, pack, tmp, loading, writer, open, mem, db, past>>
  BY DEF Others, StartImport, ImportRuns, StartExport, RefuseAnalysis, StartLabels, StartAnalysis,
     Boot, BootFails, BootDone, ExportThread, ExportEnds, AnalysisThread, AnalysisEnds,
     LabelsEnd, vars, stores, known

LEMMA StepSafe ==
  /\ TypeInv /\ EventInv /\ JobInv /\ PackInv /\ ImportInv /\ SafeInv
  /\ [Next]_vars
  => SafeInv'
<1> SUFFICES ASSUME TypeInv, EventInv, JobInv, PackInv, ImportInv, SafeInv, [Next]_vars
             PROVE  SafeInv'
  OBVIOUS
<1>0. /\ ClosedInv /\ open \in Projects /\ Store(mem) /\ Store(db) /\ loading.to \in Projects
      /\ Store(told) /\ Store(saved) /\ saved[open] \subseteq told[open]
  BY DEF SafeInv, TypeInv, PackInv, PackStores, ClosedInv
<1>k. ASSUME ClosedInv', open' = open, spoiled \subseteq spoiled',
             KeptInv /\ open \notin spoiled' => KeptInv'
      PROVE  SafeInv'
  BY <1>k DEF SafeInv
<1>1. ASSUME NEW t \in Threads, Packs(t) PROVE SafeInv'
  <2>1. /\ SaveStage(t) \/ FailStage(t) \/ WriteStage(t) \/ RemoveStage(t) \/ RenameStage(t)
        /\ UNCHANGED <<told, saved, loading, open>>
    BY <1>1, PackStages
  <2>2. /\ spoiled \subseteq spoiled'
        /\ \A p \in Projects : p # open => pack'[p] = pack[p] /\ (p \in unpacked' <=> p \in unpacked)
    BY <2>1 DEF SaveStage, FailStage, WriteStage, RemoveStage, RenameStage, stores, past
  <2>3. ClosedInv'
    BY <1>0, <2>1, <2>2, ClosedKept
  <2>4. KeptInv /\ open \notin spoiled' => KeptInv'
    BY <1>0, <2>1, KeptSave, KeptFail, KeptWrite, KeptRemove, KeptRename
  <2> QED
    BY <1>k, <2>1, <2>2, <2>3, <2>4
<1>2. CASE Edit \/ SaveProject \/ FinishLabels \/ FinishImport
  <2>1. UNCHANGED <<open, loading, pack, past>>
    BY <1>2 DEF Edit, SaveProject, FinishLabels, FinishImport, stores
  <2>2. /\ \A p \in Projects : p # open => told'[p] = told[p] /\ saved'[p] = saved[p]
        /\ saved'[open] \subseteq told'[open]
    <3>1. CASE SaveProject
      <4>1. PICK purged : /\ told' = [told EXCEPT ![open] = @ \ purged]
                          /\ saved' = [saved EXCEPT ![open] = @ \ purged]
        BY <3>1 DEF SaveProject
      <4> QED
        BY <1>0, <4>1 DEF Store
    <3>2. CASE Edit \/ FinishLabels \/ FinishImport
      BY <1>0, <3>2 DEF Edit, FinishLabels, FinishImport, known
    <3> QED
      BY <1>2, <3>1, <3>2
  <2>3. ClosedInv'
    BY <1>0, <2>1, <2>2, ClosedKept DEF past
  <2> QED
    BY <1>k, <1>2, <2>1, <2>3, KeptHandler DEF past
<1>3. ASSUME NEW p \in Projects, StartSwitch(p) PROVE SafeInv'
  BY <1>3, SwitchesAre, SafeSwitch
<1>4. CASE HandleLoaded
  BY <1>4, SafeLoaded
<1>5. CASE LoaderOpens
  <2>1. Opens
    BY <1>5, OpensAre
  <2>2. UNCHANGED <<open, told, saved, pack, past>>
    BY <2>1 DEF Opens, stores, known
  <2>3. ClosedInv'
    BY <1>0, <2>1, <2>2, ClosedKept DEF past, Opens
  <2> QED
    BY <1>k, <2>1, <2>2, <2>3, KeptOpens DEF past
<1>6. CASE UIPacked
  <2>1. UIReports
    BY <1>6, ReportsAre
  <2>2. UNCHANGED <<open, loading, pack, past>>
    BY <2>1 DEF UIReports, stores
  <2>3. ClosedInv'
    BY <1>0, <2>1, <2>2, ClosedKept DEF past, UIReports
  <2> QED
    BY <1>0, <1>k, <2>1, <2>2, <2>3, KeptReports DEF past
<1>7. CASE FinishExport \/ FinishAnalysis
  <2>1. UIReady /\ UNCHANGED <<loading, writer, open>>
    BY <1>7 DEF FinishExport, FinishAnalysis, Takes
  <2>2. (\E ws : Commit(ws)) \/ UNCHANGED <<stores, known>>
    BY <1>7 DEF FinishExport, FinishAnalysis, Submit
  <2>3. CASE UNCHANGED <<stores, known>>
    <3>1. ClosedInv'
      BY <1>0, <2>1, <2>3, ClosedKept DEF stores, known, past
    <3> QED
      BY <1>k, <2>1, <2>3, <3>1, KeptQuiet DEF stores, known, past
  <2>4. ASSUME NEW ws, Commit(ws) PROVE SafeInv'
    <3>1. /\ \A p \in Projects : p # open => told'[p] = told[p]
          /\ told[open] \subseteq told'[open]
          /\ UNCHANGED <<pack, past, saved>>
      BY <2>4, CommitAre DEF PackInv
    <3>2. ClosedInv'
      BY <1>0, <2>1, <3>1, ClosedKept DEF past
    <3> QED
      BY <1>k, <2>1, <2>4, <3>1, <3>2, KeptCommit DEF past
  <2> QED
    BY <2>2, <2>3, <2>4
<1>8. CASE ImportSubmits \/ WriteLabel
  <2>1. UNCHANGED <<told, saved, pack, tmp, loading, writer, open, past>>
    BY <1>8 DEF ImportSubmits, WriteLabel, known
  <2>2. mem[open] \cup db[open] \subseteq mem'[open] \cup db'[open]
    BY <1>0, <1>8 DEF ImportSubmits, WriteLabel, Store
  <2>3. ClosedInv'
    BY <1>0, <2>1, ClosedKept DEF past
  <2> QED
    BY <1>k, <2>1, <2>2, <2>3, KeptQuiet DEF past
<1>9. CASE Others
  <2>1. UNCHANGED <<told, saved, pack, tmp, loading, writer, open, mem, db, past>>
    BY <1>9, OthersAre
  <2>2. ClosedInv'
    BY <1>0, <2>1, ClosedKept DEF past
  <2> QED
    BY <1>k, <2>1, <2>2, KeptQuiet DEF past
<1> QED
  BY <1>1, <1>2, <1>3, <1>4, <1>5, <1>6, <1>7, <1>8, <1>9, ThreadsAre
     DEF Next, User, UI, Loader, ImportThread, LabelThread, Others

LEMMA SafeIsKept == TypeInv /\ PackInv /\ SafeInv => ReportedIsKept
<1> SUFFICES ASSUME TypeInv, PackInv, SafeInv, NEW p \in Projects \ spoiled
             PROVE  /\ IF p = open THEN told[p] \subseteq mem[p] \cup db[p]
                                   ELSE told[p] \subseteq pack[p] \/ p \in unpacked
                    /\ saved[p] \subseteq pack[p] \/ Replaced(p) \/ p \in unpacked
  BY DEF ReportedIsKept
<1>1. CASE p # open
  BY <1>1 DEF SafeInv, ClosedInv
<1>2. CASE p = open
  <2>1. Replacing => Replaced(open)
    BY DEF Replacing, Replaced, PackInv, PackWriters
  <2> QED
    BY <1>2, <2>1 DEF SafeInv, KeptInv, Reported, InPackage
<1> QED
  BY <1>1, <1>2

\* What the user was told is done is in the project, and what was said to be saved is
\* in its package, whichever step of saving and packing fails: until a rename fails
\* after the old package was removed, and while no two threads pack the project and it
\* is not opened over itself (PersistCurrentProjectState, InitializeServices,
\* WritePackedProject).
THEOREM ReportsKept == Spec => []ReportedIsKept
<1>1. Init => SafeInv
  BY InitSafe
<1>2. /\ TypeInv /\ EventInv /\ JobInv /\ PackInv /\ ImportInv /\ SafeInv
      /\ [Next]_vars
      => SafeInv'
  BY StepSafe
<1> QED
  BY <1>1, <1>2, InitType, StepType, InitEvent, StepEvent, InitJob, StepJob, InitPack, StepPack,
     InitImport, StepImport, SafeIsKept, PTL DEF Spec
================================================================================
