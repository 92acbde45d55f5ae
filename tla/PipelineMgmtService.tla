-------------------------- MODULE PipelineMgmtService --------------------------
(***************************************************************************)
(* PipelineMgmtService (app/pipeline_service.cpp): the pinned, write-back  *)
(* cache of pipeline guards shared by the editor, the paste controller,    *)
(* thumbnail and export workers and analysis snapshots.                    *)
(*                                                                         *)
(* Every public operation runs under lock_, so each is one action.  The    *)
(* render lock of an executor is a second, timed lock: an operation that   *)
(* finds it taken waits (the action is disabled) or, with LockTimeouts,    *)
(* may give up, as TryAcquireRenderLock does after its time limit.         *)
(*                                                                         *)
(* An executor's operator parameters, as the UI sets them, are one value   *)
(* of Params; Base is what a freshly built executor holds.  The colour     *)
(* temperature a render resolves is not among them: only that it makes the *)
(* guard dirty is kept.                                                    *)
(***************************************************************************)
EXTENDS Naturals, Sequences, FiniteSets, SequencesExt, LRU

CONSTANTS
    Ids,           \* sl_element_id_t
    Editors,       \* UI owners: edit the parameters, then save and sync
    Workers,       \* thumbnail / export workers: render only
    Objects,       \* bound: guard and executor objects alive per element
    Prefs,         \* AcceleratorBackendPreference
    CPU,           \* the preference a failing accelerated render falls back to
    Params,        \* operator parameter values
    Base,          \* parameters of a default constructed executor
    Capacity,      \* default_cache_capacity_
    LockTimeouts,  \* may a wait for a render lock time out?
    Editable,      \* bound: the elements that are changed, fail to render or are deleted
    MaxDeletes,    \* bound: elements deleted
    MaxSwitches    \* bound: backend switches

Users  == Editors \cup Workers
Guards == Ids \X (1..Objects)      \* the PipelineGuard objects of an element
Execs  == Ids \X (1..Objects)      \* its CPUPipelineExecutor objects

ASSUME PipelineAssumption ==
    /\ Capacity \in Nat \ {0}
    /\ Base \in Params
    /\ LockTimeouts \in BOOLEAN
    /\ Editors \cap Workers = {}
    /\ Editable \subseteq Ids
    /\ MaxDeletes \in Nat /\ MaxSwitches \in Nat
    /\ Objects \in Nat \ {0}
    /\ IsFiniteSet(Users) /\ CPU \in Prefs
    /\ None \notin Ids /\ "absent" \notin Ids \cup Params

Nobody == <<>>             \* the null shared_ptr
Absent == "absent"         \* no row in the pipeline table

VARIABLES
    lru,       \* pipeline_cache_
    loaded,    \* loaded_pipelines_ : id -> guard, Nobody when absent
    guard,     \* the guard objects
    exec,      \* the executor objects
    live,      \* StorageService::live_pipelines_, strong references
    stored,    \* the pipeline table
    pref,      \* accelerator_preference_
    held,      \* the guard each user holds
    lock,      \* the executor whose render lock each user holds
    unsynced,  \* editors that saved and have not synced yet
    deleted,   \* history: elements deleted so far
    late,      \* history: deleted elements of which a worker kept a dirty guard
    switches   \* history: backend switches so far

vars == <<lru, loaded, guard, exec, live, stored, pref, held, lock, unsynced, deleted, late, switches>>

NoGuard == [id |-> Absent, exec |-> Nobody, dirty |-> FALSE, pins |-> 0]
NoExec  == [params |-> Base, stages |-> FALSE, pref |-> CHOOSE p \in Prefs : TRUE]

LoadedIds(ld) == {id \in Ids : ld[id] # Nobody}
Locked        == {lock[u] : u \in Users} \ {Nobody}
Owners(g)     == {u \in Users : held[u] = g}

Fresh(id, used) ==
    LET free == {n \in 1..Objects : <<id, n>> \notin used}
    IN  <<id, CHOOSE n \in free : \A m \in free : n <= m>>

Pin_Forgotten(gs, g) == gs
Pin(gs, g)        == [gs EXCEPT ![g].pins = @ + 1]
Unpin(gs, g)      == [gs EXCEPT ![g].pins = IF @ > 0 THEN @ - 1 ELSE 0]
LastPin_Any(gs, g) == TRUE
LastPin(gs, g)    == gs[g].pins = 0
Evictable(gs, g)  == gs[g].pins = 0

\* shared_ptr ownership: an object nothing refers to any more is destroyed.
LiveGuards(ld, hd) == ({ld[id] : id \in Ids} \cup {hd[u] : u \in Users}) \ {Nobody}
KeepGuards(gs, ld, hd) ==
    LET alive == LiveGuards(ld, hd) IN [g \in Guards |-> IF g \in alive THEN gs[g] ELSE NoGuard]

UsedExecs(gs, lv, lk) ==
    ({lv[id] : id \in Ids} \cup {gs[g].exec : g \in Guards} \cup {lk[u] : u \in Users})
        \ {Nobody}
KeepExecs(xs, gs, lv, lk) ==
    LET used == UsedExecs(gs, lv, lk) IN [e \in Execs |-> IF e \in used THEN xs[e] ELSE NoExec]

Init ==
    /\ lru = EmptyCache(Capacity)
    /\ loaded = [id \in Ids |-> Nobody]
    /\ guard = [g \in Guards |-> NoGuard]
    /\ exec = [e \in Execs |-> NoExec]
    /\ live = [id \in Ids |-> Nobody]
    /\ stored \in [Ids -> {Absent}]
    /\ pref = CHOOSE p \in Prefs : TRUE
    /\ held = [u \in Users |-> Nobody]
    /\ lock = [u \in Users |-> Nobody]
    /\ unsynced = {}
    /\ deleted = {}
    /\ late = {}
    /\ switches = 0

-----------------------------------------------------------------------------
(* HandleEviction.  A pinned candidate goes back into the list and the key *)
(* that falls out is the next candidate; a candidate whose render lock is  *)
(* taken is tried again until the attempts run out.                        *)

EvictionStep_DropsPinned(gs, st) ==
    LET g == loaded[st.cand] IN
    [st EXCEPT !.done = TRUE,
               !.victim = IF g # Nobody /\ Evictable(gs, g) THEN st.cand ELSE None]
EvictionStep(gs, st) ==
    LET g == loaded[st.cand] IN
    IF st.done THEN st
    ELSE IF g = Nobody THEN [st EXCEPT !.done = TRUE]
    ELSE IF Evictable(gs, g)
    THEN IF gs[g].exec \in Locked
         THEN [st EXCEPT !.blocked = TRUE]
         ELSE [st EXCEPT !.victim = st.cand, !.done = TRUE]
    ELSE LET next == EvictedBy(st.cache, st.cand) IN
         [st EXCEPT !.cache = RecordAccess(@, st.cand),
                    !.done  = (next = None),
                    !.cand  = IF next = None THEN @ ELSE next]

HandleEviction(gs, cache, evicted) ==
    LET attempts == Cardinality(LoadedIds(loaded)) + 1
        start    == [cache |-> cache, cand |-> evicted, victim |-> None,
                     done |-> FALSE, blocked |-> FALSE]
        end      == FoldLeft(LAMBDA st, i : EvictionStep(gs, st), start, [i \in 1..attempts |-> i])
    IN  IF end.done
        THEN end
        ELSE [end EXCEPT !.cache =
                 RecordAccess(Resize(@, Len(@.keys) + 5), evicted)]

\* UpdatePipelineByElementId, done for a dirty victim.
WriteBack_Skipped(victim) == stored
WriteBack(victim) ==
    IF victim # None /\ guard[loaded[victim]].dirty
    THEN [stored EXCEPT ![victim] = exec[guard[loaded[victim]].exec].params]
    ELSE stored

\* The tail LoadPipeline and SavePipeline share: record the access, let
\* HandleEviction drop a victim, publish the guard, shrink a boosted cache.
Admit(gs, id, g) ==
    LET evicted == EvictedBy(lru, id)
        plain   == [cache |-> RecordAccess(lru, id), victim |-> None, blocked |-> FALSE]
        ev      == IF evicted = None THEN plain ELSE HandleEviction(gs, plain.cache, evicted)
        rest    == [i \in Ids |-> IF i = ev.victim THEN Nobody ELSE loaded[i]]
        ld      == [rest EXCEPT ![id] = g]
        n       == Cardinality(LoadedIds(ld))
    IN  [loaded  |-> ld,
         blocked |-> ev.blocked,
         cache   |-> IF evicted = None /\ n + 1 > Capacity
                     THEN Resize(ev.cache, n - 1) ELSE ev.cache,
         stored  |-> WriteBack(ev.victim)]

-----------------------------------------------------------------------------
\* An idle owner asks for an element.  The UI no longer lists a deleted one,
\* a worker may still have it queued.
MayLoad(u, id) ==
    /\ held[u] = Nobody /\ lock[u] = Nobody /\ u \notin unsynced
    /\ u \in Editors => id \notin deleted

Ready(e) == [exec[e] EXCEPT !.stages = TRUE, !.pref = pref]

\* A key without a loaded guard makes LoadPipeline throw; that the list and
\* the map never disagree is LruMatchesLoaded, so the throw has no action.
LoadHit(u, id) ==
    LET g == loaded[id]
        e == guard[g].exec
    IN
    /\ MayLoad(u, id)
    /\ Cached(lru, id) /\ g # Nobody
    /\ lru' = AccessElement(lru, id)
    /\ exec' = IF guard[g].pins = 0 THEN [exec EXCEPT ![e] = Ready(e)] ELSE exec
    /\ guard' = Pin(guard, g)
    /\ live' = [live EXCEPT ![id] = e]
    /\ held' = [held EXCEPT ![u] = g]
    /\ UNCHANGED <<loaded, stored, pref, lock, unsynced, deleted, late, switches>>

LoadMiss(u, id) ==
    LET e  == IF live[id] # Nobody THEN live[id]
              ELSE Fresh(id, UsedExecs(guard, live, lock))
        g  == Fresh(id, LiveGuards(loaded, held))
        ad == Admit(guard, id, g)
        params == IF live[id] # Nobody THEN exec[e].params
                  ELSE IF stored[id] = Absent THEN Base ELSE stored[id]
        hd == [held EXCEPT ![u] = g]
        gs == [guard EXCEPT ![g] = [id |-> id, exec |-> e, dirty |-> FALSE, pins |-> 1]]
    IN
    /\ MayLoad(u, id)
    /\ ~Cached(lru, id)
    /\ ad.blocked => LockTimeouts
    /\ lru' = ad.cache
    /\ loaded' = ad.loaded
    /\ held' = hd
    /\ guard' = KeepGuards(gs, ad.loaded, hd)
    /\ live' = [live EXCEPT ![id] = e]
    /\ exec' = [exec EXCEPT ![e] = [params |-> params, stages |-> TRUE, pref |-> pref]]
    /\ stored' = ad.stored
    /\ UNCHANGED <<pref, lock, unsynced, deleted, late, switches>>

\* The editor (or paste) changes operator parameters and marks the guard.
Edit(u, p) ==
    LET g == held[u] IN
    /\ u \in Editors /\ g # Nobody /\ guard[g].id \in Editable
    /\ p # exec[guard[g].exec].params
    /\ exec' = [exec EXCEPT ![guard[g].exec].params = p]
    /\ guard' = [guard EXCEPT ![g].dirty = TRUE]
    /\ UNCHANGED <<lru, loaded, live, stored, pref, held, lock, unsynced, deleted, late, switches>>

\* The callback of a thumbnail task, which runs without any lock: the render
\* resolved another colour temperature, so the worker marks its guard, be the
\* element deleted in the meantime or not.
MarkDirty(u) ==
    LET g == held[u] IN
    /\ u \in Workers /\ g # Nobody /\ lock[u] = Nobody
    /\ guard[g].id \in Editable /\ ~guard[g].dirty
    /\ guard' = [guard EXCEPT ![g].dirty = TRUE]
    /\ late' = late \cup ({guard[g].id} \cap deleted)
    /\ UNCHANGED <<lru, loaded, exec, live, stored, pref, held, lock, unsynced, deleted, switches>>

\* A task of the scheduler takes the render lock for an owner's executor.
StartRender(u) ==
    /\ held[u] # Nobody /\ lock[u] = Nobody
    /\ guard[held[u]].exec \notin Locked
    /\ lock' = [lock EXCEPT ![u] = guard[held[u]].exec]
    /\ UNCHANGED <<lru, loaded, guard, exec, live, stored, pref, held, unsynced, deleted, late, switches>>

\* The accelerated render of an owner fails: the scheduler puts the executor on
\* the CPU, which rebuilds its stages, renders again, and leaves it there.
FallBackToCPU(u) ==
    LET e == lock[u] IN
    /\ held[u] # Nobody /\ e # Nobody
    /\ guard[held[u]].id \in Editable /\ exec[e].pref # CPU
    /\ exec' = [exec EXCEPT ![e].pref = CPU, ![e].stages = TRUE]
    /\ UNCHANGED <<lru, loaded, guard, live, stored, pref, held, lock, unsynced, deleted, late, switches>>

\* LoadPipelineSnapshot on a live pipeline: the executor is borrowed without
\* a pin and its parameters are exported under the render lock.
StartSnapshot(u, id) ==
    /\ u \in Workers /\ held[u] = Nobody /\ lock[u] = Nobody
    /\ loaded[id] # Nobody
    /\ guard[loaded[id]].exec \notin Locked
    /\ lock' = [lock EXCEPT ![u] = guard[loaded[id]].exec]
    /\ UNCHANGED <<lru, loaded, guard, exec, live, stored, pref, held, unsynced, deleted, late, switches>>

ReleaseRenderLock(u) ==
    LET lk == [lock EXCEPT ![u] = Nobody] IN
    /\ lock[u] # Nobody
    /\ lock' = lk
    /\ exec' = KeepExecs(exec, guard, live, lk)
    /\ UNCHANGED <<lru, loaded, guard, live, stored, pref, held, unsynced, deleted, late, switches>>

\* SavePipeline.  The render lock cannot be had while the caller itself holds
\* it: a failure callback runs before the scheduler's task lets it go.
SavePipeline(u) ==
    LET g    == held[u]
        id   == guard[g].id
        e    == guard[g].exec
        unpinned == Unpin(guard, g)
        last == LastPin(unpinned, g)
        free == e \notin Locked
        ad   == Admit(unpinned, id, g)
        readmit == last /\ guard[g].dirty
        hd   == [held EXCEPT ![u] = Nobody]
        ld   == IF readmit THEN ad.loaded ELSE loaded
        lv   == [live EXCEPT ![id] = e]
        gs   == KeepGuards(unpinned, ld, hd)
        xs   == IF last /\ free THEN [exec EXCEPT ![e].stages = FALSE] ELSE exec
    IN
    /\ g # Nobody
    /\ (last /\ ~free /\ lock[u] # e) => LockTimeouts
    /\ (readmit /\ ad.blocked) => LockTimeouts
    /\ held' = hd
    /\ live' = lv
    /\ loaded' = ld
    /\ guard' = gs
    /\ exec' = KeepExecs(xs, gs, lv, lock)
    /\ lru' = IF readmit THEN ad.cache ELSE lru
    /\ stored' = IF readmit THEN ad.stored ELSE stored
    /\ unsynced' = IF u \in Editors THEN unsynced \cup {u} ELSE unsynced
    /\ UNCHANGED <<pref, lock, deleted, late, switches>>

\* Sync, which every editing owner calls after SavePipeline.
Sync(u) ==
    LET dirtyIds == {id \in LoadedIds(loaded) : guard[loaded[id]].dirty}
        written(id) == {j \in dirtyIds : guard[loaded[j]].id = id}
    IN
    /\ u \in unsynced
    /\ stored' = [id \in Ids |->
           IF written(id) = {} THEN stored[id]
           ELSE exec[guard[loaded[CHOOSE j \in written(id) : TRUE]].exec].params]
    /\ guard' = [g \in Guards |->
           IF \E id \in dirtyIds : loaded[id] = g
           THEN [guard[g] EXCEPT !.dirty = FALSE] ELSE guard[g]]
    /\ unsynced' = unsynced \ {u}
    /\ UNCHANGED <<lru, loaded, exec, live, pref, held, lock, deleted, late, switches>>

\* The UI thread finalises (saves and syncs) the editor session of an element
\* before it deletes the element.
Finalised_Skipped(id) == TRUE
Finalised(id) ==
    /\ unsynced = {}
    /\ \A u \in Editors : held[u] # Nobody => guard[held[u]].id # id

\* One of the elements a call of DeletePipelines names.
DeletePipelines(id) ==
    LET ld == [loaded EXCEPT ![id] = Nobody]
        lv == [live EXCEPT ![id] = Nobody]
        gs == KeepGuards(guard, ld, held)
    IN
    /\ Cardinality(deleted \cup {id}) <= MaxDeletes
    /\ Finalised(id)
    /\ lru' = RemoveRecord(lru, id)
    /\ loaded' = ld
    /\ live' = lv
    /\ guard' = gs
    /\ exec' = KeepExecs(exec, gs, lv, lock)
    /\ stored' = [stored EXCEPT ![id] = Absent]
    /\ deleted' = deleted \cup {id}
    /\ late' = IF \E u \in Workers : held[u] # Nobody /\ guard[held[u]].id = id /\ guard[held[u]].dirty
               THEN late \cup {id} ELSE late
    /\ UNCHANGED <<pref, held, lock, unsynced, switches>>

Reached(ld) == {guard[ld[id]].exec : id \in LoadedIds(ld)}

\* The switch reaches every loaded executor.  One whose render lock cannot
\* be had within the limit is switched all the same, only not cleared; an
\* executor that is attached to a backend rebuilds its stages.
SetAcceleratorBackendPreference(p) ==
    LET mine == Reached(loaded) IN
    /\ p # pref /\ switches < MaxSwitches
    /\ switches' = switches + 1
    /\ mine \cap Locked # {} => LockTimeouts
    /\ pref' = p
    /\ exec' = [e \in Execs |->
           IF e \in mine /\ exec[e].pref # p
           THEN [exec[e] EXCEPT !.pref = p, !.stages = TRUE] ELSE exec[e]]
    /\ UNCHANGED <<lru, loaded, guard, live, stored, held, lock, unsynced, deleted, late>>

Next ==
    \/ \E u \in Users, id \in Ids :
           LoadHit(u, id) \/ LoadMiss(u, id) \/ StartSnapshot(u, id)
    \/ \E u \in Users, p \in Params : Edit(u, p)
    \/ \E u \in Users :
           StartRender(u) \/ ReleaseRenderLock(u) \/ SavePipeline(u) \/ Sync(u)
    \/ \E u \in Users : MarkDirty(u) \/ FallBackToCPU(u)
    \/ \E id \in Editable : DeletePipelines(id)
    \/ \E p \in Prefs : SetAcceleratorBackendPreference(p)

Spec == Init /\ [][Next]_vars

-----------------------------------------------------------------------------
\* Every variable keeps its type and an object referred to is in its pool.
TypeOK ==
    /\ lru.keys \in Seq(Ids) /\ lru.cap \in Nat
    /\ loaded \in [Ids -> Guards \cup {Nobody}]
    /\ guard \in [Guards -> [id : Ids \cup {Absent}, exec : Execs \cup {Nobody},
                             dirty : BOOLEAN, pins : 0..Cardinality(Users)]]
    /\ exec \in [Execs -> [params : Params, stages : BOOLEAN, pref : Prefs]]
    /\ live \in [Ids -> Execs \cup {Nobody}]
    /\ stored \in [Ids -> Params \cup {Absent}]
    /\ pref \in Prefs
    /\ held \in [Users -> Guards \cup {Nobody}]
    /\ lock \in [Users -> Execs \cup {Nobody}]
    /\ unsynced \subseteq Editors
    /\ late \subseteq deleted /\ deleted \subseteq Ids

\* pin_count_ of a guard is the number of owners that loaded it and have not
\* given it back (LoadPipeline / SavePipeline pair up), whatever was evicted,
\* re-admitted or deleted in between.
PinsMatchHolders ==
    \A g \in LiveGuards(loaded, held) : guard[g].pins = Cardinality(Owners(g))

\* While no more guards are held than the cache can keep, an owner's guard is
\* the one the cache hands to the next caller: eviction passes over it.
HeldStaysLoaded ==
    \A u \in Users : held[u] # Nobody =>
        LET id == guard[held[u]].id IN id \in deleted \/ loaded[id] = held[u]

\* "only the last owner may release/reset": whoever still holds a guard finds
\* the execution stages of its executor built.
HeldHasStages ==
    \A u \in Users : held[u] # Nobody =>
        guard[held[u]].id \in deleted \/ exec[guard[held[u]].exec].stages

\* An edit is never lost: parameters that differ from what the pipeline table
\* holds belong to a guard the cache still has and still knows to be dirty.
NoLostEdit ==
    \A id \in Ids \ deleted : live[id] # Nobody =>
        LET known == IF stored[id] = Absent THEN Base ELSE stored[id] IN
        exec[live[id]].params # known =>
            /\ loaded[id] # Nobody
            /\ guard[loaded[id]].exec = live[id]
            /\ guard[loaded[id]].dirty

\* An owner that had a deleted element loaded and returns its guard later does
\* not bring the element back into the pipeline table, unless it is a worker's
\* guard that a thumbnail's render changed: that one is admitted again when it
\* is saved, and the next sync or eviction writes its row.
DeletedStaysDeleted == \A id \in deleted : stored[id] = Absent \/ id \in late

\* The list and the map of the cache agree, so every loaded pipeline can be
\* chosen for eviction and LoadPipeline never throws on a key it recorded.
LruMatchesLoaded == KeysOf(lru) = LoadedIds(loaded)

\* The bookkeeping of the cache: types, list and map.
CacheConsistent == TypeOK /\ LruMatchesLoaded

\* Whoever holds a pipeline renders it on the backend that is selected now,
\* even if the selection changed while the guard was loaded or evicted, or on
\* the CPU after a render of it fell back.
HeldOnCurrentBackend ==
    \A u \in Users : held[u] # Nobody =>
        guard[held[u]].id \in deleted \/ exec[guard[held[u]].exec].pref \in {pref, CPU}

\* Between LoadPipeline and SavePipeline an owner has a pipeline it can render
\* with: the one everybody else gets, with its stages, on the selected backend
\* or the CPU.
HeldUsable == HeldStaysLoaded /\ HeldHasStages /\ HeldOnCurrentBackend
================================================================================
