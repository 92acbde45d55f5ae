# Alcedo Studio: a verification development

TLA+ models of the concurrent core of Alcedo Studio (`alcedo_studio/src`), TLC
instances that check them, and proofs of the properties that matter most. The
models are written from the code; a comment or a document is used only where a
property says that the code does not do what it says.

Paths below are relative to `alcedo_studio/src/`; `album_backend/` and
`editor_dialog/` are directories of `ui/alcedo_main/`.

## 1. The system

Alcedo Studio is a raw photo editor. One UI thread drives an album of
thumbnails, one open editor, pastes, exports and analyses; the work runs on
thread pools, detached threads and in a sidecar process. The parts, with the
state they keep and how they meet:

| Part | State | Operations | Talks to |
|---|---|---|---|
| `LRUCache` (`include/utils/cache/lru_cache.hpp`) | list of keys, capacity | access, record (and evict), resize, trim | used by the three caches below and by the history service |
| Pipeline management service (`app/pipeline_service.cpp`) | LRU, loaded guards with pin counts and dirty flags, backend preference | load, save, delete, sync, snapshot, switch backend | storage, render locks of the executors |
| Thumbnail service (`app/thumbnail_service.cpp`) | LRU of pinned guards, pending callbacks per key, generation tokens | get, cancel, release, invalidate, resize; disk read, prepare and callback on workers; analysis renditions | pipeline service, disk cache, scheduler, UI callbacks |
| Thumbnail disk cache (`app/thumbnail_disk_cache_service.cpp`) | index, LRU, generations, write queue, image files, two metadata files | read, enqueue, write, invalidate, clear, limits, shutdown, open | file system, its writer thread |
| Pipeline scheduler (`renderer/pipeline_scheduler.cpp`) | task numbers, parked tasks, a thread pool | schedule, run, flush parked tasks | memory budgets, render locks, frame sinks, callbacks and promises |
| Memory budget manager (`renderer/memory_budget_manager.cpp`) | last memory reading, table of granted budgets | refresh, can allocate, request, release | every scheduler of the process |
| Executor (`edit/pipeline/pipeline_cpu.cpp`) | operator and render parameters, stages, frame sink, timed render lock | acquire lock, attach / detach sink, render | shared by editor, thumbnails, exports, snapshots |
| Editor frame manager (`editor_dialog/frame/editor_frame_manager.cpp`) | the sink of the open editor | attach, detach under the render lock | executor |
| Editor render coordinator (`editor_dialog/render/editor_render_coordinator.cpp`) | preview generation, one pending request per kind, the one in flight, timers | request, start, poll, finish | dialog, scheduler, viewer |
| Image analysis service (`app/image_analysis_service.cpp`) | jobs, prefill queues, the in-flight gate | start, cancel; producer and worker of each job | thumbnail service, sidecar, controller |
| AI sidecar runtime (`app/ai_sidecar_runtime_service.cpp`) | process, status, options, leases, cancel flag | start and wait, lease, release, stop | analysis and semantic controllers, project close |
| Import service (`app/import_service.cpp`) | counters of a job | submit, run a metadata task, finish | library, image pool, UI |
| Project handler, export and import handlers, write barrier, background tasks (`album_backend/`) | open project, loading, barrier count, queued writes, locked images | open, save, pack, import, export, analyse, label | database, `.alcd` package, workers |
| Edit history, image pool, sleeve file system, storage, migration, relink, adjustment transfer, downloads, credentials, lists of the UI | see `PROJECT.json` | | |
| Operators, decoders, GPU kernels, the sidecar's models | images | numerical processing | |

What is hard in it:

* *shared objects with two locks*: a pipeline guard is under the service's lock,
  its executor under a timed render lock that may not be had;
* *state that moves between two critical sections* of one operation: a lookup
  and a registration, a check and a write, a rename and its entry in the index;
* *late results*: a render, a disk read, an analysis or a file that began before
  an edit, a cancel, an invalidation, a project switch, and ends after it;
* *handlers inside handlers*: waiting for the sidecar pumps the event loop, so a
  start, a cancel or a close runs inside another start;
* *counts and lists at their limits*: pins, capacities, budgets, threads, leases;
* *many ways out*: a task that is cancelled, cannot prepare, cannot lock, throws
  or renders nothing must still answer, and give everything back once;
* *restarts and replacements*: metadata files, packages, a process that crashes.

`PROJECT.json` lists each such hazard at its line, with the property that covers
it or the reason why none does.

## 2. The modules

| Module | Models | Notes |
|---|---|---|
| `LRU` | `LRUCache` | pure operators on `[keys, cap]`, most recent first |
| `PipelineMgmtService` | the pipeline service and its owners | every public operation runs under `lock_`: one action each |
| `ThumbnailRequests` | what a caller of `GetThumbnailDetailed` is promised | abstract specification |
| `ThumbnailService` | the live thumbnail path | one action per critical section of `cache_lock_`; implements `ThumbnailRequests` (`Promise`) by the mapping `status` |
| `ThumbnailDiskCache` | the disk cache, its threads, files and restarts | one action per section of `metadata_mutex_` and per file operation |
| `PipelineScheduler` | scheduler, thread pool, budget manager, render locks, frame sink | one action per step of a task between two shared effects |
| `EditorRenderCoordinator` | coordinator, its callers in the dialog, the viewer's layers | one action per event handler; methods are operators on one record |
| `ImageAnalysisJobs` | jobs, queue, gate, cancel, credential, renditions | one action per step of producer, worker and `Cancel` between two shared effects |
| `AiSidecarRuntime` | the runtime service, the process, the runs that share it | starts in progress are a stack; one action per poll or handler |
| `ImportJob` | the counters of an import | used by `ProjectSession` |
| `ProjectSession` | the application over its projects: memory, database, package, barrier, task locks, import, export, analysis, labels | composition: extends `ImportJob`; one action per handler, per stage of a package write, per step of a worker that shows |
| `PipelineMgmtService_proofs`, `ThumbnailService_proofs`, `ThumbnailDiskCache_proofs`, `PipelineScheduler_proofs`, `EditorRenderCoordinator_proofs`, `ImageAnalysisJobs_proofs`, `AiSidecarRuntime_proofs`, `ProjectSession_proofs` | theorems | each extends the module it is about; facts about `LRU` are proved in those that need them |
| `MC*` | instances for TLC | symmetry, views, the tasks and users of a run |

How state and actions correspond to the code:

* **PipelineMgmtService.** `lru`, `loaded`, `pref` are members of the service;
  `guard` and `exec` are the heap objects, `live` the strong references that
  `StorageService` keeps, `stored` the pipeline table. `held` is who has a guard
  and has not called `SavePipeline`. Objects nothing refers to are reset, as a
  `shared_ptr` would free them. `HandleEviction` is the loop of the code, folded
  over its attempts. A wait for a render lock blocks the operation (the action
  is disabled), or gives up when `LockTimeouts` is TRUE. `Finalised` is the
  UI's rule that it closes the editor of an element before it deletes it.
  `pinned_` is `pins > 0` and has no variable. Two steps are of other parts on a
  guard they hold: `MarkDirty` is the callback of a thumbnail
  (`app/thumbnail_service.cpp:734-736`), `FallBackToCPU` the scheduler
  (`renderer/pipeline_scheduler.cpp:661-665`, `683-686`). `late` is history: deleted
  elements that got a dirty guard back.
* **ThumbnailService.** The token of a key only grows and is only compared with
  what the work captured, so `stale` keeps the works whose token has moved.
  A work is named after the request that created it, a guard after the work
  that published it. `ui` is the UI operation between two of its sections. An
  image is the edit state (`content`) it shows, `disk` the images stored under
  committed versions; the editor commits, then invalidates. The pipeline of a
  task is held or given back, its cache being the module above.
* **ThumbnailDiskCache.** A file holds the `epoch` (number of invalidations and
  clears) in which it was enqueued, `<<n>>`, or that image without its end, `Cut(n)`:
  the encoders do not look at whether closing the file succeeded
  (165-167, 719-731). `temp` is the temporary file beside each path, `Torn` from its
  opening to its close; a write may fail at each step, a crash leaves it behind and
  the next `Initialize` removes it (`CleanupStaleTempFiles`). A cache key is an element
  and a version. `flush` is the position of each thread inside `FlushMetadata`;
  both threads write the same temporary file, so when they overlap the result is
  either list, or a file that does not parse, or the old one. `Crash` loses
  what is in memory and keeps files.
* **PipelineScheduler.** `stage` is where a task is: refused between `CanAllocate`
  and the push onto `pending_tasks_`, parked, queued, started, rendering, and
  through the destructors of the block in their order: budget, flush, sink and
  lock, then the callback or the handler. `again` is the list a worker took out
  of `pending_tasks_` and resubmits while it still holds the render lock. A
  memory reading is a pair, because `CanAllocate` takes the minimum of system
  and GPU memory and `RequestBudget` their mean. `params` is the task the render
  parameters of an executor were set for; a fast preview does not reset them
  (469-483). `InjectThrows` is the throw between the detach of the sink (583) and the
  guard that would attach it again (603). `lost` and `orphaned` are history: sinks that
  such a throw dropped, and sinks that their editor left behind when its wait for
  the render lock ran out.
* **EditorRenderCoordinator.** `ed` is the coordinator with what it reads of the
  dialog (edit, panel, commit, full-frame flag) and of the viewer (viewport).
  An edit is a value; `Shown` is what a render of it looks like, which depends
  on the panel that was active when the edit was applied. `Fire(t)` is a timer;
  the two debounce timers, the 16 ms of fast previews and the settling of the
  viewport have no lengths, only an end. `layers` are the three textures of
  `RhiImageRenderer`, `Displayed` and `PatchVisible` its selection rules.
  `overtook` and `failed` are history.
* **ImageAnalysisJobs.** `worker` and `producer` are program counters. An item is
  a number, a result a verdict. `mark` is `am_in_flight_` with a moment in which
  its store is not seen by `Cancel` yet: the comment at 1228-1235 counts on an
  order that a release store and an acquire load do not give. `rendition` is
  the token of `ThumbnailService`, which is kept per image and therefore shared
  by jobs of the same image. `pulled` is history: the items whose rendition the `Cancel` of
  another job took. A credential may be `"left"`: `RevokeCredential` was called, and failed
  or was not ready (402-409, 1415-1420).
* **AiSidecarRuntime.** `boots` is the stack of `WaitForReadiness` calls, innermost
  first; only the innermost polls, and returning pops it. `late` counts the
  outer ones past their deadline. A user of `Workers` posts its calls to the UI
  thread and is not nested itself. `harmed` and `disturbed` are history: whose
  process was taken away, and whether anything went wrong yet.
* **ProjectSession.** A row stands for all rows of one kind of one project; edits and
  imports are numbered (`Nth`), as an import that fails deletes its own rows only. `mem`
  is what only the image pool and the library objects have, `db` the live
  database, `tmp` and `pack` the two files. `writer[t]` is a thread inside
  `PersistCurrentProjectState` and `WritePackedProject`; the UI thread handles
  nothing else meanwhile, the loader runs beside it. `events` is the queue of
  posted results. `told` and `saved` are history: the rows the user knows to be
  done, and to be in the package; `spoiled` and `unpacked` are projects that two threads
  packed at once, and packages that were removed for a new one whose rename failed.
  `SaveProject` purges the labels of a model that is no longer there, then saves; that save, each
  write, the removal of the old package and the rename may fail (`SaveFails`,
  `RenameNew`). An analysis is of the sidecar or, offline, a local one, which begins and
  ends without the queue's deferral (`FinishOffline`). `Unblocked` stands for the two overlays of
  `Main.qml` that take all input. A task of the registry is the set of images it
  locks; `pending` and `completes` are the two queues of
  `AnalysisResultWriteQueue`.

## 3. The runs

All of them are exhaustive. Bounds are named in the modules.

| Run | Shows | Bounds, and why they are enough |
|---|---|---|
| `pipeline_safety` | pins equal holders; a held guard stays the cached one, has its stages and the selected backend or the CPU; no edit is lost; a deleted row stays deleted; list and map agree | 4 elements for 3 places, so that eviction happens with two owners pinned; one editable element, two parameter values; one delete, one switch; two objects per element, as a deleted or replaced one may still be held |
| `thumbnail_safety` | answers are never older than the latest invalidation, the pipeline is given back, pinned guards survive eviction and resizing; refinement of `ThumbnailRequests`, custody of callbacks, and who waits has somebody who will answer | 2 requests, 2 keys of one element, capacity 1 resized to 2 and back, one edit: enough for a request, a newer request of the same key and a second key that evicts |
| `disk_cache_index` | no stale entry, sizes, limit, list and index agree | 2 keys for a limit lowered from 2 to 1, one invalidation or clear, queue of 2; the metadata files are left out of the fingerprint as nothing reopens |
| `disk_cache_restart` | what a reader finds after a restart, no half-written image under a final name, the stop task | 1 key, two formats, one restart, by shutdown or crash; any step of a write may fail, or the process end before it |
| `scheduler_safety` | no task lost or run twice, every end answered, a budget is of a render and shared by renders of two schedulers only, grants fit the memory, sinks and parameters of an executor are right whoever used it | a thumbnail and a fast preview of one executor and an export of another, 2 schedulers of 2 threads, memory that holds one small render, or two, or the export; 2 editors in turn; throws, and waits of tasks and of editors that run out |
| `budget_ids` (violation) | see section 6 | same, without editors |
| `scheduler_progress` | a submitted task ends; parked tasks are tried again | a thumbnail, a quality preview and an export of one scheduler, one reading, no sink |
| `image_analysis` | one result per image, paid calls one by one and none after a cancel that sent nothing, no item cancelled but by the cancel of its own job or of one that shares its rendition, no paid call after the credential was given up, which is tried before the report; every job whose renditions come, or that is cancelled, ends | a batched job of 2 images with a credential, which may be cancelled, and a describe job of 1 of them: two jobs at the gate, a queue smaller than the batch unless clamped, a shared rendition |
| `sidecar` | the process is there as long as somebody uses it and no longer; no run works on a sidecar that is not ready or fails without a cause; every run ends | three users, one of each kind (UI, UI after a timer, worker without event pump), one run each, one crash, one close, any deadline may pass |
| `editor_preview` | at rest the viewer shows the edit, with a patch that is right; a ready base is on the screen; it comes to rest | 2 edits, 2 changes, 1 panel switch, 1 view move, 1 failing render: enough for a change and a commit around a render in flight, with all three slots full |
| `project_session` | what the user was told is kept, also by a switch; locks and barrier hold; import counts are right; everything ends if exports, analyses and label runs do | 2 projects, 2 images, imports of up to 2 files, each kind of work once (an edit, an import and an analysis twice), any 3 of them in a session; any save, write, remove or rename may fail |
| `analysis_locks` (violation) | see section 6 | same |

Deadlock is not checked: requests, tasks, works and restarts are used up, and
then the models rightly stop. That nobody waits for ever is stated where it
matters: `TaskEnds`, `ParkedTriedAgain`, `JobsFinish`, `RunsEnd`, `Settles`, `WorkEnds` are
liveness; `Served` and `StopReachesWriter` say in every state who is going to answer.

**Fairness** is weak everywhere, and only of what the code itself schedules. No module
assumes that a render handed to a `PipelineScheduler` ends: `ScheduleTask` (440-446) may park
it, and then only the end of another render of the same scheduler tries it again
(section 6, 5). The components that wait for a render, without a deadline, make that a
condition of their property: `RenditionsCome(j)`, `RendersEnd`, `ThreadsEnd`. Of thumbnails
no liveness is stated: `Served` says that an unanswered request is with a work that is
under way and not stale, so that only a task parked for good leaves it waiting.

* `PipelineScheduler!FairSpec`: the steps of each task and a call of
  `ScheduleTask` that has begun; not new tasks, memory or the editor.
* `ImageAnalysisJobs!FairSpec`: both threads of a job, whose calls have an RPC
  deadline, and a `Cancel` that has begun; not the start of a job, and not the delivery of a
  rendition, for which `WaitForOneThumbnail` (127-139) waits without end. `JobsFinish` is about
  the jobs whose renditions come and those that are cancelled.
* `AiSidecarRuntime!FairSpec`: the poll, the passing of deadlines, posted events
  and the end of a run's work; not the process, which may never become ready.
* `EditorRenderCoordinator!FairSpec`: the poll timer and each timer; not the user and
  not the render: `Settles` is `RendersEnd => ...`.
* `ProjectSession!Fairness`: the event loop, the boot (it has a deadline), the
  loader and the thread of an import, which renders nothing; not the user, and not
  exports (`RunExportRenderTask` blocks on a future, `app/export_service.cpp:105-110`), analyses and label runs: `WorkEnds` is `ThreadsEnd => ...`.

Every property of a passing run has a mutant in `PROJECT.json`: an operator of
the module, such as `Pin_Forgotten`, that changes one definition the way a slip
in the code would, and that makes the property fail in its run.

## 4. The theorems

Proved by TLAPS for every value of the constants that satisfies the named
assumptions of the modules (`PipelineAssumption`, `ThumbnailAssumption`,
`DiskCacheAssumption`, `SchedulerAssumption`, `JobsAssumption`, `UsersAssumption`,
`BoundsAssumption`, `SessionAssumption`, `FilesAssumption`). These say that bounds are
numbers, that finite sets are finite, and that values standing for "none" are none of
the others; TLC evaluates them in every run. Every invariant and every action
property that a passing run checks is stated by a theorem. Where a theorem has a
hypothesis besides, it is named below with what becomes false without it.

### PipelineMgmtService_proofs

* `PinsAreOwners == ASSUME Cardinality(Users) < Objects PROVE Spec => []PinsMatchHolders`.
  The inductive invariant, `Base0`: types, each object is of one element (`Own`), who is
  referred to is whole (`Whole`) and who is not is reset (`Gone`), and its pins are its
  owners (`Pins`, `LockHeld`). The
  hypothesis is about the bound `Objects` of the model: the heap does not run out of
  guards, so an element that is deleted while it is held gets a new one.
* `ListMatchesMap`, `OwnersCanRender`, `EditsAreKept`, `DeletedForGood` prove `CacheConsistent`,
  `HeldUsable`, `NoLostEdit`, `DeletedStaysDeleted` under `Enough`: as above, every render
  gives its lock back in time (`LockTimeouts = FALSE`), and there are fewer owners than
  places. Without either TLC refutes them (section 6, 1). `HeldUsable` grants a guard the CPU
  beside the selected backend, and `DeletedStaysDeleted` leaves out the elements in `late`
  (section 6, 13 and 14). `Rest` adds to `Base0` that
  list and map have the same keys with at most one key too many (`CacheInv`: a cache is
  full, evicts, and is trimmed later); that the guard an owner has is the loaded one, has
  stages and is on the selected backend or the CPU (`OwnerLoaded`, `OwnerStages`, `OwnerPref`); that a dirty
  guard is loaded and somebody will write it back (`DirtyInv`); and that parameters which
  differ from the table are those of a dirty guard (`Kept`). The walk of `HandleEviction` is a
  fold over the list: after `i` pinned candidates the list is the old one turned by `i`
  (`Turned`), and as not all of them are pinned the walk ends before it comes round.

### ThumbnailService_proofs

* `CustodyInvariant == Spec => []Custody`. The callback of an unanswered request
  is in one place: with the UI thread that registers it, in the pending entry
  of its own key, or with one work. `Custody` is inductive: each action moves
  callbacks from one place to another and `Dispatch` answers only what leaves a place.
* `ServiceKeepsPromise == Spec => RequestsPromise`. The refinement: initial states
  map to initial states and each step to `Ask`, `AskHit`, `Answer`, `Drop` or a
  stutter. It rests on `Custody`, without which a dispatch could reach a request
  that is answered or dropped already.
* `SoundInvariant == Spec => []Sound`, inductive together with `Custody`, and from it
  `AnswersAreFresh`, `PipelinesComeBack`, `CacheIsConsistent` and the action property
  `PinnedStaysCached`. `Flow` bounds from below the edit that an image shows wherever it
  is between disk, render, guard and answer; between the two halves of an
  invalidation (`Purging`) the disk is older, but every work that could read it is
  stale. `CacheShape` ties list and map and says that the list fits. `PinsInv`: a guard has
  no more pins than there are requests, which makes the growth of a cache whose
  thumbnails are all pinned enough.
* `EverybodyIsServed == Spec => []Served`. Custody says where the callback is; this says that
  whoever has it will answer: the UI thread is about to register it, a work that took
  it is about to dispatch, and a pending entry has a work that is not stale and will
  take it. `Rest` adds that a work which has not begun is not stale (`NewIsCurrent`);
  a token that moves empties the pending entry in the same critical section.

### ThumbnailDiskCache_proofs

* `NeverStale == Spec => []NoStaleEntry`, from the types of index and generations
  (`StampInv`): only `IndexWrite` adds an entry, and it has looked at the
  generations in the same critical section; every other change of the index is
  shown to leave fewer entries, and `Invalidate` and `Clear` remove what they outdate.
* `StopNotLost == Spec => []StopReachesWriter`. The strengthening `StopInv` adds the
  shape of queue messages and that the closed service has a stopped writer or,
  after a crash, an empty queue, so that reopening starts clean.
* `BooksAgree`, `NeverStaleFile`, `NoneHalfWritten` prove `IndexConsistent`, `NoStaleFile`, `NoHalfWrite` from
  `DiskInv`. `BookInv` is the bookkeeping: sizes are those of formats, their sum is
  `total_size_bytes_`, the list has the keys of the index. `EpochInv`, `TaskInv` and `WriterInv`
  say that a write in the queue or in the writer's hands, if its stamps are still
  current, carries the image of the latest invalidation. `NewestInv` is then what
  a reader finds, and `MetaInv` what a flush under way, the temporary file and the
  two metadata files list, so that `Initialize` loads only such files again. It needs
  that a clean `Shutdown` flushes last, which is where a crash differs. A file that was
  not closed is under its temporary name only, and only while the writer is at it or
  after a crash: the rename follows the close, and every failure removes it.

### PipelineScheduler_proofs

* `TasksAreAccounted == Spec => []TasksAccounted`. `PlaceInv`: a task is in the list that its
  stage names (`PlaceOf`) and in no other, once, through the swap of
  `pending_tasks_` and the resubmission; `AnswerInv`: how often it was answered.
* `GrantsAreCovered == Spec => []GrantsWithinMemory`. `GrantInv`: the sum of the grants is
  within some reading, although each task was admitted before any other asked.
  `NumberInv`: tasks of one scheduler have different numbers.
* `SinksAndParamsHold == Spec => []SinksAndParams`. `SinkInv`: the task that diverts has the sink that
  was attached, in every other state the executor has it; `ParamInv`, `LockInv` likewise for
  parameters and lock. The two ways in which the code does lose or keep a sink it should not
  are named in the property (`lost`, `orphaned`; section 6, 15 and 16), and nothing else is.
* `BudgetsAreOfRenders == Spec => []BudgetsOfRenders`, for any number of schedulers: an entry of the table
  is of a render under way, and two renders have one entry only if they are of two
  schedulers. That each render has its own is what `budget_ids` refutes.

### ImageAnalysisJobs_proofs

`IInv` is inductive; `ResultsAreComplete`, `CallsAreDisciplined`, `CredentialRevoked` and `CancelsHaveReason` prove
`ResultsComplete`, `CallDiscipline`, `RevokedOnceBetween` and `CanceledForAReason` from it.
`QueueInv`: the entries of the prefill queue are the items in order, one each, after those taken. `HeldInv`: the items the worker holds are those of
the entries it took, by its control point. `ResultInv`: taken items have one
verdict unless they are held. `CallInv` is the gate: who has the slot, what of it `Cancel` can see,
and who was asked to stop. `RevokeInv`: a job has its credential
from its producer's start to its report, before which it tries to give it up. `UncanceledInv` follows an item without a
picture from the cancel that took its rendition to its verdict.

### AiSidecarRuntime_proofs

* `ProcessIsOwned`, `WorksOnReady` prove `ProcessOwned` and the action property `WorksOnlyWhenReady` from `IInv`:
  types; a start that waits is in the stack once and nobody else is (`BootInv`); the
  count of leases is the number of holders until a close sets it to zero
  (`Counted` in `LeaseInv`).
* `FailuresHaveReason` proves `FailsForAReason`. While nothing is disturbed (`CalmInv`) no cancel is
  pending, there is a process unless the state says stopped, what a start waits for
  is among the options of the process, and who is over has been answered.
  The steps keep it because the options only become stricter.

### EditorRenderCoordinator_proofs

`ReadyBase` and `RestIsRight` prove `ReadyBaseIsShown` and `SettledRight` from `IInv`. Its parts are about the record
`ed`, the render under way and the layers: an edit that was not applied has a request
that will apply it (`RequestsRight`, `AppliedRight`); what the layers show was rendered for the
generation it is stored under (`FramesRight`); a zoomed viewport has its patch, or one
that is due (`PatchRight`); and a quality frame of the current generation is shown, coming or
has failed (`BaseComing`). Only the last is broken inside a handler, between the change of the
generation and the request that follows it (`Weak`).

### ProjectSession_proofs

* `NothingUnderBarrier == Spec => NoWriteUnderBarrier`. `EventInv` says what a posted
  result implies when it is handled: a loaded project that it is still being
  loaded and that no export runs, an ended export that the barrier is 1, so that
  releasing it cannot leave it held. `MemInv` says that results of analyses are
  never only in memory, so that saving a project cannot move one to the database.
* `LocksHeld == Spec => []LocksHeldUnlessRefused`. `TaskInv`: the task of the running
  analysis has its images and is not one of those that wait for the queue; each
  pending write, but those of local analyses, is covered by one that waits. It needs that the end of an analysis
  is handled once, while the controller still has it (`EventInv`).
* `CountsRight == Spec => []CountsAgree`. `JobInv`: files left, files submitted and not
  read, done and failed make the total, and an acknowledged job is closed with
  all its tasks finished; `TriesCounted` is the step of `TryFinishImportJob`.
* `ReportsKept == Spec => []ReportedIsKept`. `PackInv` says who writes a
  package: both threads only that of the project that is open, the loader with
  nothing to report, and the UI thread with nothing to report while a project is
  opened. `RowInv`: no set of rows is mistaken for a missing file. `ImportInv`: the rows
  of the import that runs are there and not reported, so a failed one may delete
  them. `KeptInv` then follows the rows along their way: what was told, and what
  the UI thread is about to tell, is in memory or database, in the snapshot of each
  thread between save and rename, in the temporary file of the only thread that
  has one (`OneHasTmp`), in the package of a thread that is done or in one that is being
  replaced at this moment, and in the package that was unpacked for the next
  project. It leaves out two kinds of projects, each of which the history names:
  those that two threads packed or that were opened over themselves (`spoiled`: the code unpacks
  before it saves, and goes on with the older package), and those whose old package was removed
  and whose new one could not be renamed, until a later write succeeds (`unpacked`).

**Data.** The library's induction theorems take an operator as a parameter and cannot be
used. Where a definition is recursive (sums of sizes and grants, `HandleEvict` over a list,
the walk of `HandleEviction`, the two loads of `Initialize`), induction is done with `AllNaturals`: a set of
naturals with 0 and closed under successor is `Nat`, which follows from counting the
elements of `0..n`.

**Only model-checked.** Liveness (`TaskEnds`, `ParkedTriedAgain`, `JobsFinish`, `RunsEnd`,
`Settles`, `WorkEnds`) is beyond the prover. `PipelineMgmtService` with render locks that time out is
checked for two owners and not proved. No module declares a RECURSIVE operator.

## 5. What the models leave out, and what that means

* **Pipeline service.** Owners that never call `SavePipeline`
  (`adjustment_transfer_service.cpp:644`, `adjustment_transfer_controller.cpp:350`,
  `export_service.cpp:68`) leak a pin for good; the model's owners always give
  back. A render that falls back to the CPU is one step; `ForceCPUOutput` and the render
  resolution, which the fallback sets too, decide only what is rendered. `Sync` takes each
  element as one step. The first insertion that leaves the LRU one place short is left out.
* **Thumbnail service.** `RetryThumbnail` and lookups that do not pin. Calls come
  from the UI thread, as they do in the application. The analysis rendition is in
  `ImageAnalysisJobs`, reduced to its token and its answer.
* **Disk cache.** One project. `SetCacheRoot`, statistics, qualities and metadata
  files that cannot be written are left out. `NoStaleFile` says nothing after a
  crash: invalidations are not persisted, and a metadata file written before one
  may list a file that outlived it. A picture cut short by a failed close is indexed like
  any other, as the code does not notice (section 6, 18). Fields read without the mutex
  (`FlushMetadata`'s totals) do not reach the properties.
* **Scheduler.** The CPU fallback of a render, which leaves the backend of the executor changed, is
  in `PipelineMgmtService`. Tasks without input or executor, the retry after GPU memory
  runs out, and the destruction of a scheduler with parked tasks are left out.
* **Editor preview.** The render is one step on the pipeline as it was applied; the
  promise that is set before the task lets go of the lock (`pipeline_scheduler.cpp:712`)
  is not composed with it. Resizing, scopes, HDR and history navigation are left out.
* **Image analysis.** What is asked and answered; the encoder's failures are one
  verdict. A call always ends, as its RPC has a deadline.
* **Sidecar.** `kill` ends the process. Ports, tokens, logs and the offline mode.
* **Project session.** Creating and migrating projects, deleting images
  and folders, ratings, the image pool's eviction
  (`storage/image_pool/image_pool_manager.cpp:108-126`, which drops changes that were
  not synchronised) and the end of the program, which drops queued writes. The
  ranges of ids a project has used are only saved with it.
* Components with status `not_modelled` in `PROJECT.json` give their reasons there:
  edit history, image pool, sleeve file system and storage are sequential code on
  a database and are next in the plan; kernels, decoders and the sidecar's models
  are numerical; downloads, credentials and updates are I/O.

## 6. What was found

**Two runs that TLC refutes.**

`analysis_locks`: a task whose writes wait for an export keeps its images locked until they
are made, says `album_backend/project_db_write_barrier.hpp:47-50`. But `Finish` keeps the id of such a
task in `background_task_id_` (`album_backend/image_analysis_controller.cpp:947`), and an analysis that
is refused before it is registered calls `SetError` (277), which finishes whatever task that id
names. The local analysis does not even try: `FinishOffline` (1050-1057) submits its writes through
the same queue and finishes its task at once. `project_session` checks that locks are held in
every session without such a refusal, but for local analyses (`LocksHeldUnlessRefused`).

`budget_ids`: "Generate a unique operation ID from the task ID for budget tracking", says
`renderer/pipeline_scheduler.cpp:608`. Each scheduler counts its tasks from zero, the application has
several and one budget manager, so two renders share one budget entry: the later grant replaces
the earlier, and the first that ends releases both. `scheduler_safety` checks with two schedulers
that nothing else goes wrong with budgets (`BudgetsOfRenders`).

**Divergences met while modelling**, which the properties are stated around:

1. *A pinned pipeline can leave the list* (`app/pipeline_service.cpp:160`). With
   every place pinned, `HandleEviction` rotates until it meets the key just
   recorded, which is not in `loaded_pipelines_` yet, and returns before the
   fallback its comment (190) announces. `HeldUsable` fails with 3 owners and 2 places.
   A second way out needs three owners and a place for each: the first key is pinned,
   and the render lock of the next candidate cannot be had. The candidate has left
   the list by then and nothing puts it back (the fallback at 193 records `evicted_id`
   only), so it stays in `loaded_pipelines_` and is never looked at again, though 168-169
   say "It will be retried on the next eviction pass". With `LockTimeouts` TRUE TLC finds
   `CacheConsistent` violated for 3 owners and 3 places; with the 2 owners of
   `pipeline_safety` it cannot happen.
2. *A stale failure answers a newer request* (`app/thumbnail_service.cpp:518`), though
   647-648 say that stale tasks must not touch `pending_`. `RequestsPromise` holds:
   the request is answered, once, by the wrong task.
3. *Task numbers are not unique in the process* (`renderer/pipeline_scheduler.cpp:610`):
   the run `budget_ids`.
4. *Render parameters reset without the lock* (`renderer/pipeline_scheduler.cpp:736`,
   and 571), by the exception handler and by a task that could not get the lock.
   `ParamsOfHolder` allows for it.
5. *A task parked too late* (`renderer/pipeline_scheduler.cpp:443`), after the last
   render has flushed, is never tried again. `ParkedTriedAgain` is about the others. Whoever
   waits for its render waits for ever: a thumbnail, the rendition of an analysis and with it
   both threads of the job, the editor's preview in flight, an export with the write barrier.
6. *A preview overtaken* (`editor_dialog/render/editor_render_coordinator.cpp:258`):
   a quality request without its own edit is rendered before the fast request that
   carries the edit. The frame on the screen then lacks the last edit or shows the
   crop of the other panel (`docs/editor_dialog_manual_test_matrix.md:83`).
   `overtook` marks it.
7. *An aborted start may end as failed* (`app/ai_sidecar_runtime_service.cpp:654`
   promises a return to stopped): an outer start that finds its process gone reports a
   failure. `FailsForAReason` counts a cancel as a reason.
8. *The cancel that is not seen* (`app/image_analysis_service.cpp:598`): a `Cancel` that
   reads `am_in_flight_` before the store is visible sends no `CancelTask`, and the
   paid call goes out. `SilentCancelStopsCalls` leaves out exactly these.
9. *Two packers* (`app/project_package_backend.cpp:763`): the end of a label run during
   a switch makes UI thread and loader write one temporary file. `spoiled` marks it.
10. *Results in a project that is left* (`album_backend/album_backend.cpp:404`): what
   ends while another project is opened is written to whichever is open, after the
   old one was packed. `told` leaves these out.
11. *An import cannot be cancelled*: `canceled_` is only set by the thread that is
   inside `ImportToFolder`, after which nobody reads it.
12. *Labels are written under the barrier*: the worker of a label run does not use
   the write queue. `NoWriteUnderBarrier` is about analyses.
13. *A fallback to the CPU is for good* (`renderer/pipeline_scheduler.cpp:661-665`, `683-686`): it sets the
    backend of an executor that others hold and share, and nothing sets it back until the user
    selects a backend again. `HeldUsable` allows for the CPU.
14. *A deleted element comes back* (`app/thumbnail_service.cpp:736`): a worker that still has the guard
    marks it as dirty, `SavePipeline` (`app/pipeline_service.cpp:312-325`) puts it into the cache again,
    and the next sync or eviction (172-174) inserts the row. `late` marks it.
15. *A throw loses the editor's sink* (`renderer/pipeline_scheduler.cpp:590`): `InjectRawMetadata` runs after
    the sink was detached (583) and before its guard exists (603), though the comment at 600-601 has the
    guard restore it on every exit. `lost` marks it.
16. *A sink outlives its editor* (`editor_dialog/frame/editor_frame_manager.cpp:19`): the destructor gives
    up after five seconds without the render lock and leaves the sink attached. `orphaned` marks it.
17. *A rename that fails loses the package* (`app/project_package_backend.cpp:811-820`): the old one was
    removed at 801, and the temporary file is removed as well. `unpacked` marks it.
18. *A close that fails is not noticed* (`app/thumbnail_disk_cache_service.cpp:165-167`, `719-731`): the
    picture without its end is renamed and indexed.
19. *A credential may outlive its job* (`app/image_analysis_service.cpp:402-409`, `1415-1420`): revoking it does
    nothing when the runtime is not ready, and a failure is a warning in the log.
    `RevokedOnceBetween` says that it was tried.

## 7. The plan

Next, in this order:

1. Proofs. `PipelineMgmtService` with render locks that time out and at most two
   owners, the case `pipeline_safety` checks and `Enough` leaves out. The refinement
   of the other components: an abstract cache that the three caches with an `LRU`
   implement, an abstract import that `ImportJob` implements.
2. `EditHistoryMgmtService`, whose cache has the eviction loop of the pipeline
   service, with the version tree of `EditHistory`.
3. The image pool and the sleeve file system, whose eviction drops changes.
4. Shutdown of a thread pool and the destruction of a scheduler, with the promises
   and callbacks that are dropped.
5. The coordinator composed with the scheduler; owners that leak a pin;
   `RetryThumbnail`.
