---------------------------- MODULE ThumbnailService ---------------------------
(***************************************************************************)
(* ThumbnailService (app/thumbnail_service.cpp): the live thumbnail path.  *)
(*                                                                         *)
(* The UI thread asks for, cancels, releases and invalidates thumbnails.   *)
(* A request that finds neither a cached guard nor a pending entry for its *)
(* key creates the work that will answer every request on that entry; the  *)
(* work runs on the disk-read pool and then as a task of the scheduler.    *)
(* Every critical section of cache_lock_ is one action, so between two     *)
(* sections of one operation the workers go on.                            *)
(*                                                                         *)
(* A generation token only ever grows, and the code only asks whether it   *)
(* still has the value the work captured: stale is the set of works whose  *)
(* token has moved since.  A work and the guard it publishes are named     *)
(* after the request that created the work.                                *)
(***************************************************************************)
EXTENDS Naturals, Sequences, FiniteSets, LRU

CONSTANTS
    Elements, Tiers,   \* a ThumbnailCacheKey is an element and a resolution
    Requests,          \* calls of GetThumbnailDetailed
    Capacity,          \* default_cache_size_
    Sizes,             \* capacities the UI asks ResizeCache for
    MaxEdits,          \* bound: changes of an element's content
    PrepareFails       \* may prepare_ fail (pipeline or image not there)?

Keys  == Elements \X Tiers
Works == Requests
Vers  == 0..MaxEdits

NoWork == "no work"        \* a null guard

ASSUME ThumbnailAssumption ==
    /\ Capacity \in Nat \ {0} /\ Sizes \subseteq Nat \ {0}
    /\ MaxEdits \in Nat
    /\ PrepareFails \in BOOLEAN
    /\ IsFiniteSet(Requests) /\ NoWork \notin Requests /\ None \notin Keys

WorkStates ==
    {"none", "reading", "read", "dispatch", "queued", "preparing", "prepared", "failed",
     "empty", "rendered", "published", "unmade", "done"}

NoKey  == <<>>
Free   == <<"free">>

VARIABLES
    content,   \* edit state of an element as its pipeline executor has it
    hash,      \* its committed version: GetActiveVersionHash
    fresh,     \* history: content at the latest InvalidateThumbnail
    disk,      \* disk cache: committed version -> content stored under it
    lru,       \* thumbnail_cache_
    cached,    \* thumbnail_cache_data_: key -> guard (its work)
    pins,      \* pin_count_ of the guard a work published
    pending,   \* pending_
    key,       \* the key a request asked for
    floor,     \* history: the oldest content the request may be given
    answers,   \* history: how often its callback was dispatched
    given,     \* history: the guard it was answered with, if any
    dropped,   \* history: requests whose callback InvalidateThumbnail threw away
    released,  \* requests whose caller has called ReleaseThumbnail
    work,      \* where the work stands
    readHash,  \* the disk key's version the work captured
    wver,      \* the content the work read or rendered
    taken,     \* callbacks the work moved out of pending_
    stale,     \* works whose generation token was bumped
    pipe,      \* task_context->pipeline
    ui         \* the UI operation that is between two critical sections

requestVars == <<key, floor, answers, given, dropped, released>>
cacheVars   == <<lru, cached, pins>>
workVars    == <<work, readHash, wver, taken, stale, pipe>>
editVars    == <<content, hash, fresh, disk>>
vars == <<editVars, cacheVars, pending, requestVars, workVars, ui>>

Init ==
    /\ content = [e \in Elements |-> 0]
    /\ hash = [e \in Elements |-> 0]
    /\ fresh = [e \in Elements |-> 0]
    /\ disk = [k \in Keys |-> [h \in Vers |-> {}]]
    /\ lru = EmptyCache(Capacity)
    /\ cached = [k \in Keys |-> NoWork]
    /\ pins = [w \in Works |-> 0]
    /\ pending = [k \in Keys |-> {}]
    /\ key = [r \in Requests |-> NoKey]
    /\ floor = [r \in Requests |-> 0]
    /\ answers = [r \in Requests |-> 0]
    /\ given = [r \in Requests |-> NoWork]
    /\ dropped = {}
    /\ released = {}
    /\ work = [w \in Works |-> "none"]
    /\ readHash = [w \in Works |-> 0]
    /\ wver = [w \in Works |-> 0]
    /\ taken = [w \in Works |-> {}]
    /\ stale = {}
    /\ pipe = [w \in Works |-> "none"]
    /\ ui = Free

-----------------------------------------------------------------------------
Issued      == {r \in Requests : key[r] # NoKey}
Running(w)  == work[w] \notin {"none", "done"}
KeysFor(e)  == {e} \X Tiers

\* IncrementGenerationTokenLocked on each key of K.
Bump(K) == stale' = stale \cup {w \in Works : Running(w) /\ key[w] \in K}

\* DispatchThumbnailResultCallback for every request of S.
Dispatch(S, g) ==
    /\ answers' = [r \in Requests |-> IF r \in S THEN answers[r] + 1 ELSE answers[r]]
    /\ given' = [r \in Requests |-> IF r \in S THEN g ELSE given[r]]

\* cache record and data erased together.
Uncache_DataOnly(K) ==
    /\ lru' = lru
    /\ cached' = [k \in Keys |-> IF k \in K THEN NoWork ELSE cached[k]]
Uncache(K) ==
    /\ lru' = RemoveRecords(lru, K)
    /\ cached' = [k \in Keys |-> IF k \in K THEN NoWork ELSE cached[k]]

\* HandleEvict: a pinned guard goes back in, after a boost of the capacity.
HandleEvict_Always(st, k) == [st EXCEPT !.data[k] = NoWork]
HandleEvict(st, k) ==
    IF k = None \/ st.data[k] = NoWork THEN st
    ELSE IF pins[st.data[k]] = 0 THEN [st EXCEPT !.data[k] = NoWork]
    ELSE LET size == Cardinality({j \in Keys : st.data[j] # NoWork})
         IN  [st EXCEPT !.cache = RecordAccess(Resize(@, size + 5), k)]

\* A guard of work w for n callbacks becomes the cached guard of its key.
Publish(w, n) ==
    LET k  == key[w]
        st == HandleEvict([cache |-> RecordAccess(lru, k), data |-> cached],
                          EvictedBy(lru, k))
    IN  /\ lru' = st.cache
        /\ cached' = [st.data EXCEPT ![k] = w]
        /\ pins' = [pins EXCEPT ![w] = IF n > 1 THEN n ELSE 1]

Step(w, to) == work' = [work EXCEPT ![w] = to]

\* release_task_pipeline: SavePipeline once.
Returned(w) == IF pipe[w] = "held" THEN [pipe EXCEPT ![w] = "returned"] ELSE pipe

-----------------------------------------------------------------------------
(* GetThumbnailDetailed, on the UI thread: the cache lookup is one section *)
(* and the registration in pending_ another.                               *)

Lookup(r, k) ==
    /\ ui = Free /\ key[r] = NoKey
    /\ key' = [key EXCEPT ![r] = k]
    /\ floor' = [floor EXCEPT ![r] = fresh[k[1]]]
    /\ lru' = IF cached[k] # NoWork THEN AccessElement(lru, k) ELSE RemoveRecord(lru, k)
    /\ IF cached[k] # NoWork
       THEN /\ pins' = [pins EXCEPT ![cached[k]] = @ + 1]
            /\ Dispatch({r}, cached[k])
            /\ UNCHANGED ui
       ELSE /\ ui' = <<"register", r>>
            /\ UNCHANGED <<pins, answers, given>>
    /\ UNCHANGED <<editVars, cached, pending, dropped, released, workVars>>

Register_Misjoins(r) ==
    LET k == key[r] IN
    /\ ui = <<"register", r>> /\ ui' = Free
    /\ pending' = [pending EXCEPT ![k] = @ \cup {r}]
    /\ IF pending[k] = {} /\ \A w \in Works : key[w] = k => ~Running(w)
       THEN Step(r, "reading") /\ readHash' = [readHash EXCEPT ![r] = hash[k[1]]]
       ELSE UNCHANGED <<work, readHash>>
    /\ UNCHANGED <<editVars, cacheVars, requestVars, wver, taken, stale, pipe>>

Register(r) ==
    LET k == key[r] IN
    /\ ui = <<"register", r>> /\ ui' = Free
    /\ pending' = [pending EXCEPT ![k] = @ \cup {r}]
    /\ IF pending[k] = {}
       THEN Step(r, "reading") /\ readHash' = [readHash EXCEPT ![r] = hash[k[1]]]
       ELSE UNCHANGED <<work, readHash>>
    /\ UNCHANGED <<editVars, cacheVars, requestVars, wver, taken, stale, pipe>>

\* CancelPending on the keys of K, their callbacks answered kCanceled.
Drained(K) == UNION {pending[k] : k \in K}

CancelPending(K) ==
    /\ Bump(K)
    /\ pending' = [k \in Keys |-> IF k \in K THEN {} ELSE pending[k]]
    /\ Dispatch(Drained(K), NoWork)
    /\ UNCHANGED <<editVars, key, floor, dropped, work, readHash, wver, taken, pipe>>

CancelElement(e) ==
    /\ ui = Free
    /\ \E r \in Issued : key[r] \in KeysFor(e)
    /\ CancelPending(KeysFor(e))
    /\ UNCHANGED <<cacheVars, released, ui>>

\* ReleaseThumbnail by a caller that has asked for r: first CancelPending,
\* then a second section gives the pin back.
Release(r) ==
    /\ ui = Free /\ r \in Issued \ released
    /\ CancelPending({key[r]})
    /\ released' = released \cup {r}
    /\ ui' = <<"unpin", key[r]>>
    /\ UNCHANGED cacheVars

Unpin(k) ==
    LET g    == cached[k]
        left == IF pins[g] > 0 THEN pins[g] - 1 ELSE 0
    IN
    /\ ui = <<"unpin", k>> /\ ui' = Free
    /\ IF g = NoWork
       THEN Uncache({k}) /\ UNCHANGED pins
       ELSE /\ pins' = [pins EXCEPT ![g] = left]
            /\ IF left = 0 THEN Uncache({k}) ELSE UNCHANGED <<lru, cached>>
    /\ UNCHANGED <<editVars, pending, requestVars, workVars>>

\* InvalidateThumbnail.  Callbacks in pending_ are dropped unanswered.
Invalidate(e) ==
    LET K == KeysFor(e) IN
    /\ ui \in {Free, <<"committed", e>>} /\ ui' = <<"purge", e>>
    /\ Bump(K)
    /\ pending' = [k \in Keys |-> IF k \in K THEN {} ELSE pending[k]]
    /\ dropped' = dropped \cup Drained(K)
    /\ Uncache(K)
    /\ fresh' = [fresh EXCEPT ![e] = content[e]]
    /\ UNCHANGED <<content, hash, disk, pins, key, floor, answers, given, released,
                   work, readHash, wver, taken, pipe>>

\* ThumbnailDiskCacheService::Invalidate, its second half.
Purged_Skipped(e) == disk
Purged(e) == [k \in Keys |-> IF k \in KeysFor(e) THEN [h \in Vers |-> {}] ELSE disk[k]]

PurgeDisk(e) ==
    /\ ui = <<"purge", e>> /\ ui' = Free
    /\ disk' = Purged(e)
    /\ UNCHANGED <<content, hash, fresh, cacheVars, pending, requestVars, workVars>>

\* HandleEvict of the keys that Resize_WithEvict returned, one after the other.
HandleEvicts(out, st) ==
    LET done[i \in 0..Len(out)] ==
            IF i = 0 THEN st ELSE HandleEvict(done[i - 1], out[i])
    IN  done[Len(out)]

ResizeCache(n) ==
    LET pinned == {k \in Keys : cached[k] # NoWork /\ pins[cached[k]] > 0}
        size   == IF n > Cardinality(pinned) THEN n ELSE Cardinality(pinned)
        end    == HandleEvicts(TrimmedBy(lru, size),
                               [cache |-> ResizeTrim(lru, size), data |-> cached])
    IN
    /\ ui = Free
    /\ lru' = end.cache
    /\ cached' = end.data
    /\ UNCHANGED <<editVars, pins, pending, requestVars, workVars, ui>>

\* The editor changes parameters, later commits the version and invalidates.
Edit(e) ==
    /\ ui = Free /\ content[e] < MaxEdits
    /\ content' = [content EXCEPT ![e] = @ + 1]
    /\ UNCHANGED <<hash, fresh, disk, cacheVars, pending, requestVars, workVars, ui>>

Commit(e) ==
    /\ ui = Free /\ hash[e] # content[e]
    /\ hash' = [hash EXCEPT ![e] = content[e]]
    /\ ui' = <<"committed", e>>
    /\ UNCHANGED <<content, fresh, disk, cacheVars, pending, requestVars, workVars>>

-----------------------------------------------------------------------------
(* The work of a request.                                                  *)

ReadDisk(w) ==
    LET hit == disk[key[w]][readHash[w]] IN
    /\ work[w] = "reading"
    /\ IF w \in stale THEN Step(w, "done") /\ UNCHANGED wver
       ELSE IF hit = {} THEN Step(w, "queued") /\ UNCHANGED wver
       ELSE /\ Step(w, "read")
            /\ \E v \in hit : wver' = [wver EXCEPT ![w] = v]
    /\ UNCHANGED <<editVars, cacheVars, pending, requestVars, readHash, taken, stale, pipe, ui>>

PublishRead(w) ==
    LET mine == pending[key[w]] IN
    /\ work[w] = "read"
    /\ IF w \in stale \/ mine = {}
       THEN Step(w, "done") /\ UNCHANGED <<pending, taken, cacheVars>>
       ELSE /\ Step(w, "dispatch")
            /\ pending' = [pending EXCEPT ![key[w]] = {}]
            /\ taken' = [taken EXCEPT ![w] = mine]
            /\ Publish(w, Cardinality(mine))
    /\ UNCHANGED <<editVars, requestVars, readHash, wver, stale, pipe, ui>>

\* The callbacks of a disk hit go out without another look at the token.
DispatchRead(w) ==
    /\ work[w] = "dispatch"
    /\ Step(w, "done")
    /\ Dispatch(taken[w], w)
    /\ taken' = [taken EXCEPT ![w] = {}]
    /\ UNCHANGED <<editVars, cacheVars, pending, key, floor, dropped, released,
                   readHash, wver, stale, pipe, ui>>

\* The scheduler's task begins: a cancelled one goes straight to callback_
\* with an empty buffer.
StartTask(w) ==
    /\ work[w] = "queued"
    /\ Step(w, IF w \in stale THEN "empty" ELSE "preparing")
    /\ UNCHANGED <<editVars, cacheVars, pending, requestVars,
                   readHash, wver, taken, stale, pipe, ui>>

PrepareOk(w) ==
    /\ work[w] = "preparing"
    /\ Step(w, "prepared")
    /\ pipe' = [pipe EXCEPT ![w] = "held"]
    /\ UNCHANGED <<editVars, cacheVars, pending, requestVars, readHash, wver, taken, stale, ui>>

\* fail_pending_request, which looks at no token.
PrepareFail(w) ==
    LET k == key[w] IN
    /\ PrepareFails /\ work[w] = "preparing"
    /\ Step(w, "failed")
    /\ taken' = [taken EXCEPT ![w] = pending[k]]
    /\ pending' = [pending EXCEPT ![k] = {}]
    /\ Uncache({k})
    /\ \E p \in {"none", "returned"} : pipe' = [pipe EXCEPT ![w] = p]
    /\ UNCHANGED <<editVars, pins, requestVars, readHash, wver, stale, ui>>

\* Its callbacks get a placeholder and kFailed; prepare_ returns false and
\* the scheduler still calls callback_ with an empty buffer.
DispatchFailed(w) ==
    /\ work[w] = "failed"
    /\ Step(w, "empty")
    /\ Dispatch(taken[w], NoWork)
    /\ taken' = [taken EXCEPT ![w] = {}]
    /\ UNCHANGED <<editVars, cacheVars, pending, key, floor, dropped, released,
                   readHash, wver, stale, pipe, ui>>

\* The render, cancelled, refused the render lock, without a usable buffer
\* ("empty"), or done.
Render(w) ==
    /\ work[w] = "prepared"
    /\ \/ Step(w, "empty") /\ UNCHANGED wver
       \/ /\ w \notin stale
          /\ Step(w, "rendered")
          /\ wver' = [wver EXCEPT ![w] = content[key[w][1]]]
    /\ UNCHANGED <<editVars, cacheVars, pending, requestVars, readHash, taken, stale, pipe, ui>>

\* callback_, up to the end of its critical section.  The write to the disk
\* cache is stored under the version that is committed now; it may be lost.
StaleReturn_Keeps(w) == pipe
StaleReturn(w) == Returned(w)

TaskCallback_KeepsPending(w) ==
    LET k == key[w]  mine == pending[k] IN
    /\ work[w] \in {"rendered", "empty"}
    /\ Step(w, "unmade")
    /\ taken' = [taken EXCEPT ![w] = mine]
    /\ Uncache({k})
    /\ UNCHANGED <<editVars, pins, pending, requestVars, readHash, wver, stale, pipe, ui>>

TaskCallback(w) ==
    LET k    == key[w]
        mine == pending[k]
        made == mine # {} /\ work[w] = "rendered"
    IN
    /\ work[w] \in {"rendered", "empty"}
    /\ IF w \in stale
       THEN /\ Step(w, "done")
            /\ pipe' = StaleReturn(w)
            /\ UNCHANGED <<cacheVars, pending, taken, disk>>
       ELSE /\ Step(w, IF made THEN "published" ELSE "unmade")
            /\ pending' = [pending EXCEPT ![k] = {}]
            /\ taken' = [taken EXCEPT ![w] = mine]
            /\ IF made
               THEN /\ Publish(w, Cardinality(mine))
                    /\ \/ UNCHANGED disk
                       \/ disk' = [disk EXCEPT ![k][hash[k[1]]] = {wver[w]}]
               ELSE Uncache({k}) /\ UNCHANGED <<pins, disk>>
            /\ UNCHANGED pipe
    /\ UNCHANGED <<content, hash, fresh, requestVars, readHash, wver, stale, ui>>

\* callback_, the rest: a token moved meanwhile withdraws the guard and
\* answers kCanceled.
Finish(w) ==
    /\ work[w] \in {"published", "unmade"}
    /\ Step(w, "done")
    /\ IF w \in stale /\ cached[key[w]] = w
       THEN Uncache({key[w]}) ELSE UNCHANGED <<lru, cached>>
    /\ pipe' = Returned(w)
    /\ Dispatch(taken[w], IF work[w] = "published" /\ w \notin stale THEN w ELSE NoWork)
    /\ taken' = [taken EXCEPT ![w] = {}]
    /\ UNCHANGED <<editVars, pins, pending, key, floor, dropped, released,
                   readHash, wver, stale, ui>>

-----------------------------------------------------------------------------
UIStep ==
    \/ \E r \in Requests, k \in Keys : Lookup(r, k)
    \/ \E r \in Requests : Register(r) \/ Release(r)
    \/ \E k \in Keys : Unpin(k)
    \/ \E e \in Elements :
           CancelElement(e) \/ Invalidate(e) \/ PurgeDisk(e) \/ Edit(e) \/ Commit(e)
    \/ \E n \in Sizes : ResizeCache(n)

WorkStep(w) ==
    \/ ReadDisk(w) \/ PublishRead(w) \/ DispatchRead(w)
    \/ StartTask(w) \/ PrepareOk(w) \/ PrepareFail(w) \/ DispatchFailed(w)
    \/ Render(w) \/ TaskCallback(w) \/ Finish(w)

Next == UIStep \/ \E w \in Works : WorkStep(w)

Spec == Init /\ [][Next]_vars

-----------------------------------------------------------------------------
\* What a request's caller has seen, for the promise in ThumbnailRequests.
status ==
    [r \in Requests |->
        IF answers[r] + (IF r \in dropped THEN 1 ELSE 0) > 1 THEN "answered again"
        ELSE IF r \in dropped THEN "dropped"
        ELSE IF answers[r] = 1 THEN "answered"
        ELSE IF key[r] = NoKey THEN "idle" ELSE "waiting"]

Promise == INSTANCE ThumbnailRequests WITH Requests <- Requests, status <- status

-----------------------------------------------------------------------------
\* Every variable keeps its type.
TypeOK ==
    /\ content \in [Elements -> Vers] /\ hash \in [Elements -> Vers]
    /\ fresh \in [Elements -> Vers]
    /\ disk \in [Keys -> [Vers -> SUBSET Vers]]
    /\ lru.keys \in Seq(Keys) /\ lru.cap \in Nat
    /\ cached \in [Keys -> Works \cup {NoWork}]
    /\ pins \in [Works -> 0..Cardinality(Requests)]
    /\ pending \in [Keys -> SUBSET Requests]
    /\ key \in [Requests -> Keys \cup {NoKey}]
    /\ floor \in [Requests -> Vers]
    /\ answers \in [Requests -> Nat]
    /\ given \in [Requests -> Works \cup {NoWork}]
    /\ dropped \subseteq Requests /\ released \subseteq Requests
    /\ work \in [Works -> WorkStates]
    /\ readHash \in [Works -> Vers] /\ wver \in [Works -> Vers]
    /\ taken \in [Works -> SUBSET Requests]
    /\ stale \subseteq Works
    /\ pipe \in [Works -> {"none", "held", "returned"}]

\* A request is answered at most once, and one that InvalidateThumbnail threw
\* away is not answered later, in spite of tasks that run callback_ twice,
\* callbacks taken by another request's work and cancels during dispatch.
RequestsPromise == Promise!Spec

(* Custody of a callback: an unanswered one is in one place only, held by  *)
(* the UI thread that registers it, by one pending_ entry, or by the one   *)
(* work that moved it out.  RequestsPromise rests on it.                   *)

Unanswered(r) == key[r] # NoKey /\ answers[r] = 0 /\ r \notin dropped

CustodyTypes ==
    /\ pending \in [Keys -> SUBSET Requests]
    /\ taken \in [Works -> SUBSET Requests]
    /\ answers \in [Requests -> {0, 1}]
    /\ dropped \subseteq Requests
    /\ key \in [Requests -> Keys \cup {NoKey}]
    /\ work \in [Works -> WorkStates]
    /\ \A w \in Works : work[w] # "none" => key[w] # NoKey

Settled == \A r \in Requests :
    /\ key[r] = NoKey => answers[r] = 0 /\ r \notin dropped
    /\ answers[r] = 1 => r \notin dropped

PendingHeld == \A k \in Keys : \A r \in pending[k] : key[r] = k /\ Unanswered(r)

TakenHeld == \A w \in Works : \A r \in taken[w] :
    /\ Unanswered(r)
    /\ \A k \in Keys : r \notin pending[k]
    /\ \A v \in Works \ {w} : r \notin taken[v]

RegisteringHeld == \A r \in Requests : ui = <<"register", r>> =>
    /\ Unanswered(r)
    /\ \A k \in Keys : r \notin pending[k]
    /\ \A w \in Works : r \notin taken[w]

\* The places a callback can be in exclude each other, and a settled request
\* is in none: no step can answer it again.
Custody == CustodyTypes /\ Settled /\ PendingHeld /\ TakenHeld /\ RegisteringHeld

\* A caller that asked after an InvalidateThumbnail never gets an image of the
\* element as it was before it: not from the memory cache, not from disk, not
\* from a render that had begun earlier.
FreshAnswers ==
    \A r \in Requests : given[r] # NoWork => wver[given[r]] >= floor[r]

\* A thumbnail task gives the pipeline it loaded back, however it ends.
PipelineReturned == \A w \in Works : work[w] = "done" => pipe[w] # "held"

\* The list and the data of the cache name the same keys.
LruMatchesCached == KeysOf(lru) = {k \in Keys : cached[k] # NoWork}

\* The bookkeeping of the cache: types, list and data.
CacheConsistent == TypeOK /\ LruMatchesCached

\* "Pinned visible entries must survive cache resizing and LRU eviction": a
\* pinned guard leaves the cache only by a step on its own key.
PinnedSurvive ==
    [][\A k \in Keys :
          (/\ cached[k] # NoWork /\ pins[cached[k]] > 0
           /\ \/ lru'.cap # lru.cap
              \/ \E w \in Works : key[w] # k /\ work'[w] # work[w])
          => cached'[k] = cached[k]]_vars

(* Who is going to answer.                                                 *)

ReadyToTake == {"reading", "read", "queued", "preparing", "prepared", "rendered", "empty"}
HasTaken    == {"dispatch", "failed", "published", "unmade"}

TakenServed == \A w \in Works : taken[w] # {} => work[w] \in HasTaken

PendingServed == \A k \in Keys : pending[k] # {} =>
    \E w \in pending[k] : w \notin stale /\ work[w] \in ReadyToTake

InOnePlace == \A r \in Requests : Unanswered(r) =>
    \/ ui = <<"register", r>> \/ r \in pending[key[r]]
    \/ \E w \in Works : r \in taken[w]

\* No caller waits for nobody: a request that is neither answered nor thrown away
\* is being registered, or has been taken by a work that is about to dispatch it,
\* or waits in a pending_ entry with a work that will still take it, one that has
\* not been cancelled: also when it joined while works were cancelled, failed,
\* found stale, or took another work's callbacks.  (The work may be parked by the
\* scheduler; that it begins is not promised.)
Served == InOnePlace /\ TakenServed /\ PendingServed
================================================================================
