----------------------------- MODULE ProjectSession -----------------------------
(* One run of the application over its projects: what is written to a project's *)
(* database, when it reaches the .alcd package, and who may run beside whom.    *)
(*   UI thread    ProjectHandler, ImportExportHandler, ImageAnalysisController, *)
(*                SemanticGenerationController, AlbumImageAnalysisSink and the  *)
(*                ProjectDbWriteBarrier: an action is one of its handlers, or a *)
(*                stage of one that writes a package                            *)
(*   loader       the detached thread of InitializeServices                     *)
(*   workers      import (ImportJob), export, image analysis, semantic labels   *)
(* Workers and loader post their results to the UI thread's event queue.        *)
(*                                                                              *)
(* The content of a project is a set of rows: "edit" pipelines and history,     *)
(* "import" files and images, "caption" results of image analysis, "label"      *)
(* results of semantic generation, each with the project it is about, and edits *)
(* and imports with their number.                                               *)
EXTENDS ImportJob, Sequences, SequencesExt

CONSTANTS
    Projects,
    First,         \* the project that is open in the beginning
    Images,        \* that an analysis may be asked for
    Bound,         \* bound: how often each kind of work may be asked for
    MaxWorks       \* bound: how often any work may be asked for

Kinds == {"edit", "switch", "analysis", "refusal", "save", "import", "export", "label"}

ASSUME SessionAssumption ==
    /\ First \in Projects
    /\ Bound \in [Kinds -> Nat] /\ MaxWorks \in Nat

Row(kind, p) == <<kind, p>>
Nth(kind, p, n) == <<kind, p, n>>
NoFile == {Row("no file", First)}

VARIABLES
    open,      \* project_handler_: the project whose services are in use
    loading,   \* project_loading_, and what the loader opens
    writer,    \* the package that each of the two threads writes
    events,    \* what the workers have posted to the UI thread
    barrier,   \* count_ of the ProjectDbWriteBarrier
    export,    \* the export: "none", "running" or "posted"
    analysis,  \* ImageAnalysisController: its run, whether offline, and background_task_id_
    tasks,     \* the registry: the images each task has locked, none when it ended
    pending,   \* the result queue: the images and the project of each write, and
               \* whether the analysis was a local one
    completes, \* its drain-complete callbacks: the tasks to finish
    labels,    \* the semantic generation run, and whether its storage is still open
    mem, db,   \* the rows of each project: in memory only, in its live database
    tmp, pack, \* the rows in its .alcd.tmp and in its .alcd, or NoFile
    told,      \* the rows of each project the user knows to be done
    saved,     \* those the user knows to be in its package
    spoiled,   \* history: projects that two threads packed, or opened over themselves
    unpacked,  \* history: those whose package was removed and whose new one not renamed
    spent      \* how often each kind of work was asked for

past    == <<spoiled, unpacked>>
stores  == <<mem, db, tmp, pack, past>>
workers == <<export, barrier, analysis, tasks, pending, completes, labels>>
known   == <<told, saved>>
vars    == <<job, open, loading, writer, events, workers, stores, known, spent>>

Threads == {"ui", "loader"}

\* The package a thread writes: the stage, the project, the rows of the snapshot,
\* and the rows the handler reports once it has the package.
Writer(at, of, then) == [at |-> at, of |-> of, shot |-> {}, then |-> then]
Idle == Writer("idle", First, {})
NotLoading == [on |-> FALSE, to |-> First, got |-> {}, ok |-> FALSE]

Init ==
    /\ job = NoImport
    /\ open = First
    /\ loading = NotLoading /\ writer = [t \in Threads |-> Idle]
    /\ events = <<>>
    /\ barrier = 0 /\ export = "none"
    /\ analysis = [at |-> "none", local |-> FALSE, of |-> First, bg |-> 0, images |-> {}]
    /\ tasks = <<>> /\ pending = <<>> /\ completes = <<>>
    /\ labels = [at |-> "none", into |-> FALSE]
    /\ mem = [p \in Projects |-> {}] /\ db = mem /\ pack = mem
    /\ told = mem /\ saved = mem
    /\ tmp = [p \in Projects |-> NoFile]
    /\ spoiled = {} /\ unpacked = {}
    /\ spent = [w \in Kinds |-> 0]

--------------------------------------------------------------------------------
(* Saving and packing: PersistCurrentProjectState and WritePackedProject on the *)
(* UI thread, the same calls on the old project in the loader.                  *)

Goes(t, at) == writer' = [writer EXCEPT ![t].at = at]

Saved_CopiesFirst(t) ==
    LET of == writer[t].of IN
    /\ writer[t].at = "save"
    /\ db' = [db EXCEPT ![of] = @ \cup mem[of]]
    /\ mem' = [mem EXCEPT ![of] = {}]
    /\ writer' = [writer EXCEPT ![t].at = "write", ![t].shot = db[of]]
    /\ UNCHANGED <<tmp, pack, past>>

\* What is only in memory goes to the database, then the database is copied.
Saved(t) ==
    LET of == writer[t].of IN
    /\ writer[t].at = "save"
    /\ db' = [db EXCEPT ![of] = @ \cup mem[of]]
    /\ mem' = [mem EXCEPT ![of] = {}]
    /\ writer' = [writer EXCEPT ![t].at = "write", ![t].shot = db'[of]]
    /\ UNCHANGED <<tmp, pack, past>>

\* One of the services cannot be saved: there is no package then.
SaveFails(t) ==
    /\ writer[t].at = "save"
    /\ Goes(t, "failed")
    /\ UNCHANGED stores

\* The thread has a snapshot of the project that it has not made the package of.
HasShot(t, of) == writer[t].at \in {"write", "remove", "rename"} /\ writer[t].of = of

\* Both threads use the same temporary name. The snapshot or the temporary file may
\* not come into being, or the write fails and leaves what it wrote.
WriteTmp(t) ==
    LET of == writer[t].of IN
    /\ writer[t].at = "write"
    /\ spoiled' = spoiled \cup {p \in {of} : \E u \in Threads \ {t} : HasShot(u, p)}
    /\ \/ tmp' = [tmp EXCEPT ![of] = writer[t].shot] /\ Goes(t, "remove")
       \/ tmp' = [tmp EXCEPT ![of] = {}] /\ Goes(t, "failed")
       \/ tmp' = tmp /\ Goes(t, "failed")
    /\ UNCHANGED <<mem, db, pack, unpacked>>

\* The package is not replaced in one step: it is removed, then the new one renamed.
\* Whichever of the two fails, the temporary file is removed.
RemoveOld(t) ==
    LET of == writer[t].of IN
    /\ writer[t].at = "remove"
    /\ \/ pack' = [pack EXCEPT ![of] = NoFile] /\ Goes(t, "rename") /\ UNCHANGED tmp
       \/ tmp' = [tmp EXCEPT ![of] = NoFile] /\ Goes(t, "failed") /\ UNCHANGED pack
    /\ UNCHANGED <<mem, db, past>>

\* There is nothing to rename when another thread has renamed it.
RenameNew(t) ==
    LET of == writer[t].of IN
    /\ writer[t].at = "rename"
    /\ tmp' = [tmp EXCEPT ![of] = NoFile]
    /\ \/ /\ tmp[of] # NoFile
          /\ pack' = [pack EXCEPT ![of] = tmp[of]] /\ unpacked' = unpacked \ {of}
          /\ Goes(t, "packed")
       \/ /\ unpacked' = unpacked \cup {of}
          /\ Goes(t, "failed")
          /\ UNCHANGED pack
    /\ UNCHANGED <<mem, db, spoiled>>

\* The stages of WritePackedProject, on the UI thread and in the loader.
Packs(t) ==
    /\ Saved(t) \/ SaveFails(t) \/ WriteTmp(t) \/ RemoveOld(t) \/ RenameNew(t)
    /\ UNCHANGED <<job, open, loading, events, workers, known, spent>>

Packed(t) == writer[t].at \in {"packed", "failed"}

--------------------------------------------------------------------------------
(* The UI thread.                                                               *)

\* It runs one handler at a time; ImportToFolder is part of the one that called it.
UIReady == writer["ui"] = Idle /\ (job.running => job.closed)

\* The overlays of a project load and of an import take the user's input.
Unblocked == UIReady /\ ~loading.on /\ ~job.running
UserCan(work) ==
    /\ Unblocked
    /\ spent[work] < Bound[work] /\ SumFunction(spent) < MaxWorks
    /\ spent' = [spent EXCEPT ![work] = @ + 1]

\* The next posted event is of this kind and is handled now.
Takes(event) ==
    /\ UIReady /\ events # <<>> /\ Head(events) = event
    /\ events' = Tail(events)

Post(event) == events' = Append(events, event)

\* The handler saves the project that is open, packs it and then reports these rows.
SavesAndReports(rows) == writer' = [writer EXCEPT !["ui"] = Writer("save", open, rows)]

\* The editor is closed: pipeline and history are written to the database, and
\* "Changes saved", whether or not the package could be written.
Edit ==
    /\ UserCan("edit")
    /\ db' = [db EXCEPT ![open] = @ \cup {Nth("edit", open, spent'["edit"])}]
    /\ SavesAndReports({Nth("edit", open, spent'["edit"])})
    /\ UNCHANGED <<job, open, loading, events, workers, mem, tmp, pack, past, known>>

\* The labels of a model that the user has uninstalled are deleted first.
SaveProject ==
    /\ UserCan("save")
    /\ \E purged \in SUBSET {Row("label", open)} :
          /\ db' = [db EXCEPT ![open] = @ \ purged]
          /\ told' = [told EXCEPT ![open] = @ \ purged]
          /\ saved' = [saved EXCEPT ![open] = @ \ purged]
    /\ SavesAndReports(told'[open])
    /\ UNCHANGED <<job, open, loading, events, workers, mem, tmp, pack, past>>

\* "Project saved and packed", or the error of the package.
UIPacked ==
    LET w == writer["ui"] IN
    /\ Packed("ui")
    /\ told' = [told EXCEPT ![w.of] = @ \cup w.then]
    /\ saved' = IF w.at = "packed" THEN [saved EXCEPT ![w.of] = @ \cup w.then] ELSE saved
    /\ writer' = [writer EXCEPT !["ui"] = Idle]
    /\ UNCHANGED <<job, open, loading, events, workers, stores, spent>>

--------------------------------------------------------------------------------
(* Switching projects: InitializeServices.                                      *)

Switchable == (job.running => job.acked) /\ export = "none"

\* The package of the next project is unpacked first, then the thread is started
\* that saves and packs the old one. That they are two is not asked.
StartSwitch(p) ==
    /\ UserCan("switch")
    /\ Switchable
    /\ pack[p] # NoFile
    /\ loading' = [on |-> TRUE, to |-> p, got |-> pack[p], ok |-> FALSE]
    /\ writer' = [writer EXCEPT !["loader"] = Writer("save", open, {})]
    /\ UNCHANGED <<job, open, events, workers, stores, known>>

\* Opening the next project may fail, and is not tried when the package failed.
LoaderOpens ==
    /\ Packed("loader")
    /\ \E ok \in BOOLEAN :
          /\ ok => writer["loader"].at = "packed"
          /\ loading' = [loading EXCEPT !.ok = ok]
    /\ writer' = [writer EXCEPT !["loader"] = Idle]
    /\ Post("loaded")
    /\ UNCHANGED <<job, open, workers, stores, known, spent>>

\* The services of the next project take the place of the old ones, whose
\* workspace is deleted.
HandleLoaded ==
    /\ Takes("loaded")
    /\ loading' = NotLoading
    /\ IF ~loading.ok THEN UNCHANGED <<open, mem, db, labels, spoiled>>
       ELSE /\ open' = loading.to
            /\ mem' = [mem EXCEPT ![open] = {}, ![loading.to] = {}]
            /\ db' = [db EXCEPT ![open] = {}, ![loading.to] = loading.got]
            /\ labels' = [labels EXCEPT !.into = FALSE]
            /\ spoiled' = IF loading.to = open THEN spoiled \cup {open} ELSE spoiled
    /\ UNCHANGED <<job, writer, export, barrier, analysis, tasks, pending, completes, tmp, pack,
                   unpacked, known, spent>>

--------------------------------------------------------------------------------
(* Importing. No project is opened while the overlay is shown, so the import is *)
(* into the project that is open.                                               *)

StartImport ==
    /\ UserCan("import")
    /\ \E n \in 1..MaxFiles : job' = NewJob(n)
    /\ UNCHANGED <<open, loading, writer, events, workers, stores, known>>

Imported == Nth("import", open, spent["import"])

\* A file that is submitted exists in memory from then on.
ImportSubmits ==
    /\ SubmitFile
    /\ mem' = IF job'.submitted = job.submitted THEN mem
              ELSE [mem EXCEPT ![open] = @ \cup {Imported}]
    /\ UNCHANGED <<open, loading, writer, events, workers, db, tmp, pack, past, known, spent>>

\* Who acknowledges the end posts the result.
ImportRuns ==
    /\ CloseSubmission \/ RunTask \/ Count \/ Ask
    /\ IF Acked(job') /\ ~Acked(job) THEN Post("import") ELSE UNCHANGED events
    /\ UNCHANGED <<open, loading, writer, workers, stores, known, spent>>

\* Files whose metadata could not be read are deleted again.
FinishImport ==
    LET row == {Imported}
        none == job.done = 0 IN
    /\ Takes("import")
    /\ job' = NoImport
    /\ mem' = [mem EXCEPT ![open] = IF none THEN @ \ row ELSE @]
    /\ db' = [db EXCEPT ![open] = IF none THEN @ \ row ELSE @]
    /\ SavesAndReports(IF none THEN {} ELSE row)
    /\ UNCHANGED <<open, loading, workers, tmp, pack, past, known, spent>>

--------------------------------------------------------------------------------
(* Exporting: the barrier is held from the start of an export to its end.       *)

StartExport ==
    /\ UserCan("export") /\ export = "none"
    /\ export' = "running" /\ barrier' = barrier + 1
    /\ UNCHANGED <<job, open, loading, writer, events, analysis, tasks, pending, completes,
                   labels, stores, known>>

ExportEnds ==
    /\ export = "running"
    /\ export' = "posted"
    /\ Post("export")
    /\ UNCHANGED <<job, open, loading, writer, barrier, analysis, tasks, pending, completes,
                   labels, stores, known, spent>>

\* The writes are made in the database of the project that is open now. The user is
\* told of those that belong to it and are made while no other project is opened.
Commit(writes) ==
    /\ db' = [db EXCEPT ![open] = @ \cup {Row("caption", w.of) : w \in writes}]
    /\ told' = [told EXCEPT ![open] = @ \cup
                    {Row("caption", open) : w \in {v \in writes : v.of = open /\ ~loading.on}}]
    /\ UNCHANGED <<mem, tmp, pack, past, saved>>

\* FinishTask, for each of these tasks.
FinishTasks(ids) == tasks' = [t \in DOMAIN tasks |-> IF t \in ids THEN {} ELSE tasks[t]]

\* The release drains the queue: the writes first, then the tasks that waited for them.
FinishExport ==
    /\ Takes("export")
    /\ export' = "none" /\ barrier' = barrier - 1
    /\ IF barrier' > 0 THEN UNCHANGED <<pending, completes, tasks, stores, known>>
       ELSE /\ Commit(ToSet(pending)) /\ FinishTasks(ToSet(completes))
            /\ pending' = <<>> /\ completes' = <<>>
    /\ UNCHANGED <<job, open, loading, writer, analysis, labels, spent>>

--------------------------------------------------------------------------------
(* Image analysis: ImageAnalysisController and AlbumImageAnalysisSink.          *)

Locked(image) == \E t \in DOMAIN tasks : image \in tasks[t]

\* SetError finishes the task whose id the controller still has.
RefuseAnalysis ==
    /\ UserCan("refusal") /\ analysis.at = "none"
    /\ FinishTasks({analysis.bg})
    /\ analysis' = [analysis EXCEPT !.bg = 0]
    /\ UNCHANGED <<job, open, loading, writer, events, export, barrier, pending, completes,
                   labels, stores, known>>

\* The task is registered before the sidecar is started. While the sidecar is
\* offline a local model does the work, in a thread that is started at once.
StartAnalysis(image) ==
    /\ UserCan("analysis") /\ analysis.at = "none" /\ ~Locked(image)
    /\ tasks' = Append(tasks, {image})
    /\ \E local \in BOOLEAN :
          analysis' = [at |-> IF local THEN "running" ELSE "boot", local |-> local,
                       of |-> open, bg |-> Len(tasks'), images |-> {image}]
    /\ UNCHANGED <<job, open, loading, writer, events, export, barrier, pending, completes,
                   labels, stores, known>>

\* The boot returns into the handler that waits for it with a nested event loop.
BootFails ==
    /\ analysis.at = "boot" /\ UIReady
    /\ FinishTasks({analysis.bg})
    /\ analysis' = [analysis EXCEPT !.at = "none", !.bg = 0]
    /\ UNCHANGED <<job, open, loading, writer, events, export, barrier, pending, completes,
                   labels, stores, known, spent>>

BootDone ==
    /\ analysis.at = "boot" /\ UIReady
    /\ analysis' = [analysis EXCEPT !.at = "running"]
    /\ UNCHANGED <<job, open, loading, writer, events, export, barrier, tasks, pending,
                   completes, labels, stores, known, spent>>

\* The job ends, with a result for the image or with none.
AnalysisEnds ==
    /\ analysis.at = "running"
    /\ \E at \in {"good", "bad"} : analysis' = [analysis EXCEPT !.at = at]
    /\ Post("analysis")
    /\ UNCHANGED <<job, open, loading, writer, export, barrier, tasks, pending, completes,
                   labels, stores, known, spent>>

Submit_IgnoresBarrier(writes) ==
    Commit(ToSet(writes)) /\ UNCHANGED pending

\* A write waits in the queue while the barrier is held.
Submit(writes) ==
    IF barrier > 0 THEN pending' = pending \o writes /\ UNCHANGED <<stores, known>>
                   ELSE Commit(ToSet(writes)) /\ UNCHANGED pending

EndTask_AtOnce ==
    /\ FinishTasks({analysis.bg})
    /\ analysis' = [analysis EXCEPT !.at = "none", !.bg = 0]
    /\ UNCHANGED completes

\* With writes in the queue the task ends when they are made, and the controller
\* keeps its id. The task of a local analysis ends at once (FinishOffline).
EndTask ==
    IF pending' # <<>> /\ ~analysis.local
    THEN /\ completes' = Append(completes, analysis.bg)
         /\ analysis' = [analysis EXCEPT !.at = "none"]
         /\ UNCHANGED tasks
    ELSE /\ FinishTasks({analysis.bg})
         /\ analysis' = [analysis EXCEPT !.at = "none", !.bg = 0]
         /\ UNCHANGED completes

FinishAnalysis ==
    /\ Takes("analysis")
    /\ Submit(IF analysis.at = "bad" THEN <<>>
              ELSE <<[images |-> analysis.images, of |-> analysis.of,
                      local |-> analysis.local]>>)
    /\ EndTask
    /\ UNCHANGED <<job, open, loading, writer, export, barrier, labels, spent>>

--------------------------------------------------------------------------------
(* Semantic generation, whose worker writes its labels into the storage of the  *)
(* project it was started for, whether or not the barrier is held.              *)

StartLabels ==
    /\ UserCan("label") /\ labels.at = "none"
    /\ labels' = [at |-> "running", into |-> TRUE]
    /\ UNCHANGED <<job, open, loading, writer, events, export, barrier, analysis, tasks,
                   pending, completes, stores, known>>

\* Once another project is open, nobody reads the database it writes to.
WriteLabel ==
    /\ labels.at = "running" /\ labels.into
    /\ db' = [db EXCEPT ![open] = @ \cup {Row("label", open)}]
    /\ UNCHANGED <<job, open, loading, writer, events, workers, mem, tmp, pack, past, known,
                   spent>>

LabelsEnd ==
    /\ labels.at = "running"
    /\ labels' = [labels EXCEPT !.at = "posted"]
    /\ Post("labels")
    /\ UNCHANGED <<job, open, loading, writer, export, barrier, analysis, tasks, pending,
                   completes, stores, known, spent>>

\* The project that is open by now is saved and packed, then the labels are reported
\* (as for a caption, not those of a run that ends while another project is opened).
FinishLabels ==
    /\ Takes("labels")
    /\ labels' = [labels EXCEPT !.at = "none"]
    /\ SavesAndReports(IF labels.into /\ ~loading.on THEN db[open] \cap {Row("label", open)}
                                                 ELSE {})
    /\ UNCHANGED <<job, open, loading, export, barrier, analysis, tasks, pending, completes,
                   stores, known, spent>>

--------------------------------------------------------------------------------

User ==
    \/ Edit \/ SaveProject \/ StartImport \/ StartExport \/ RefuseAnalysis \/ StartLabels
    \/ \E p \in Projects : StartSwitch(p)
    \/ \E i \in Images : StartAnalysis(i)

\* The event loop, and the handler it is in.
UI ==
    \/ HandleLoaded \/ FinishImport \/ FinishExport \/ FinishAnalysis \/ FinishLabels
    \/ ImportSubmits \/ UIPacked \/ Packs("ui")

Boot == BootFails \/ BootDone
Loader == Packs("loader") \/ LoaderOpens
ImportThread == ImportRuns
ExportThread == ExportEnds
AnalysisThread == AnalysisEnds
LabelThread == WriteLabel \/ LabelsEnd

Next ==
    \/ User \/ UI \/ Boot \/ Loader
    \/ ImportThread \/ ExportThread \/ AnalysisThread \/ LabelThread

\* The event loop runs, the boot of the sidecar has a time limit, and the threads of
\* the loader and of an import get their turn. Not so the others: they wait for
\* renders, which the scheduler may have parked for good.
Fairness == WF_vars(UI) /\ WF_vars(Boot) /\ WF_vars(Loader) /\ WF_vars(ImportThread)

Spec == Init /\ [][Next]_vars /\ Fairness

--------------------------------------------------------------------------------
(* Properties.                                                                  *)

TypeOK ==
    /\ open \in Projects
    /\ DOMAIN writer = Threads
    /\ barrier \in Nat /\ export \in {"none", "running", "posted"}
    /\ analysis.at \in {"none", "boot", "running", "good", "bad"}
    /\ analysis.bg \in 0..Len(tasks)
    /\ \A w \in ToSet(pending) : w.images \subseteq Images /\ w.of \in Projects
    /\ ToSet(completes) \subseteq DOMAIN tasks
    /\ labels.at \in {"none", "running", "posted"}

\* What the user was told is done is in the project: in the memory or the database
\* of the project that is open, in the package of any other. And what the user was
\* told is saved and packed is in its package from then on, but for the moment in
\* which the package is replaced. So every package is made of a snapshot taken
\* after what was only in memory went to the database, at whatever moment of the
\* workers it comes, and whichever step of saving and packing fails
\* (InitializeServices, PersistCurrentProjectState, WritePackedProject). Two things
\* end the claim, which nothing in the code prevents: a rename that fails after the
\* old package was removed, until the project is packed again; and two threads
\* that pack one project at once, or a project that is opened over itself.
Replaced(p) == \E t \in Threads : writer[t].at = "rename" /\ writer[t].of = p
ReportedIsKept ==
    \A p \in Projects \ spoiled :
        /\ IF p = open THEN told[p] \subseteq mem[p] \cup db[p]
                       ELSE told[p] \subseteq pack[p] \/ p \in unpacked
        /\ saved[p] \subseteq pack[p] \/ Replaced(p) \/ p \in unpacked

\* "So the task's interaction locks stay held across the export-barrier gap": an
\* image whose result is still to be written is locked by a task that has not ended
\* (project_db_write_barrier.hpp, the deferred FinishTask of Finish).
LockedUntilCommitted == \A w \in ToSet(pending) : \A i \in w.images : Locked(i)

\* The same, of the analyses of the sidecar, in a session where none is refused
\* before it is registered.
LocksHeldUnlessRefused ==
    spent["refusal"] = 0 =>
        \A w \in ToSet(pending) : \A i \in w.images : w.local \/ Locked(i)

\* While an export holds the barrier no result of an analysis is written to a
\* database, and no project is opened over the one that is exported
\* (AnalysisResultWriteQueue::Submit, the guards of InitializeServices).
Captions(p) == db[p] \cap {Row("caption", q) : q \in Projects}
NoWriteUnderBarrier ==
    [][barrier > 0 /\ barrier' > 0
         => open' = open /\ \A p \in Projects : Captions(p)' = Captions(p)]_vars

\* When the end of an import is reported, every file of it has been counted once, as
\* imported or as failed, whoever of the caller and the workers was last
\* (TryFinishImportJob).
ImportCounted == Acked(job) => job.done + job.failed = job.total

\* The same, of variables that have their types: tasks, queue and callbacks agree.
CountsAgree == TypeOK /\ ImportCounted

\* Every import and switch ends, and every other kind of work if its thread does; then
\* no thread stays inside a package, no write stays in the queue and no task keeps
\* its images locked. An export, an analysis and a label run may wait without a time
\* limit for a render (RunExportRenderTask, WaitForOneThumbnail,
\* WaitForThumbnailBatch) that the scheduler parked (PipelineScheduler::ScheduleTask).
Quiet ==
    /\ ~job.running /\ export = "none" /\ analysis.at = "none" /\ labels.at = "none"
    /\ ~loading.on /\ \A t \in Threads : writer[t] = Idle
    /\ events = <<>> /\ pending = <<>> /\ \A i \in Images : ~Locked(i)
ThreadsEnd ==
    []<>(export # "running") /\ []<>(analysis.at # "running") /\ []<>(labels.at # "running")
WorkEnds == ThreadsEnd => []<>Quiet
================================================================================
