--------------------------- MODULE ThumbnailDiskCache --------------------------
(***************************************************************************)
(* ThumbnailDiskCacheService (app/thumbnail_disk_cache_service.cpp): image *)
(* files beside an in-memory index of them, written by one writer thread.  *)
(*                                                                         *)
(* A worker enqueues a write with the generations it saw; the writer       *)
(* checks them before the write and again, under the lock, before it       *)
(* indexes the file; the UI thread invalidates, clears, resizes, closes    *)
(* and reopens; a reader looks up under the lock and opens the file        *)
(* outside it.  The index is persisted as two metadata files, each a       *)
(* snapshot under the lock and a later rename.  The process may crash.     *)
(*                                                                         *)
(* One project is open, always under the same cache root.  A metadata file *)
(* that two threads write at once may be torn or lost; else it is written. *)
(***************************************************************************)
EXTENDS Naturals, Sequences, FiniteSets, LRU

CONSTANTS
    Elements, Versions,   \* a cache key is an element and a version of its edit
    DefaultMaxEntries,    \* kDefaultMaxEntries
    Formats,              \* the asked format "main" and the kBmp fallback "bmp"
    Limits,               \* values the UI gives SetMaxEntries
    Switches,             \* values the UI gives SetEnabled
    MaxEpoch,             \* bound: invalidations and clears that touch an element
    QueueBound,           \* bound: length of write_queue_
    MaxRestarts,          \* bound: times the service is opened again
    MayCrash

ASSUME DiskCacheAssumption ==
    /\ Elements # {} /\ None \notin Elements \X Versions
    /\ DefaultMaxEntries \in Nat \ {0}
    /\ "main" \in Formats /\ Formats \subseteq {"main", "bmp"}
    /\ Limits \subseteq Nat \ {0} /\ Switches \subseteq BOOLEAN
    /\ MaxEpoch \in Nat /\ QueueBound \in Nat \ {0} /\ MaxRestarts \in Nat
    /\ MayCrash \in BOOLEAN

Keys     == Elements \X Versions
Paths    == Keys \X Formats
Bytes(f) == IF f = "main" THEN 1 ELSE 2
Flushers == {"writer", "ui"}

NoEntry == [format |-> "none"]
NoTask  == [kind |-> "none"]
Stop    == [kind |-> "stop"]         \* WriteTask{}: no buffer
NoFile  == <<>>
Cut(n)  == <<n, "cut">>              \* its end was lost when the file was closed
Image(n) == {<<n>>, Cut(n)}          \* enqueued in epoch n, and closed
Torn    == <<"torn", "torn", "torn">> \* not closed yet
Garbled == {}                        \* a metadata file that parses holds {list}

VARIABLES
    index, lru, total,    \* index_, lru_index_, total_size_bytes_
    gen, clearGen,        \* invalidation_generations_, clear_generation_
    enabled, limit,       \* enabled_, max_entries_
    queue,                \* write_queue_
    producer,             \* an EnqueueWrite between its two locks
    writer,               \* the writer thread: [pc, task, format]
    reader,               \* a Read between its sections
    ui,                   \* the UI thread
    flush,                \* FlushMetadata by the writer and by the UI thread
    file,                 \* the file system: path -> what the file holds
    temp,                 \* the same of the temporary file beside it
    metaProject, metaGlobal,  \* the two metadata files, oldest entry first
    epoch,                \* history: invalidations and clears of an element
    restarts,
    crashed               \* history: has the process crashed?

entryVars == <<index, lru, total, file>>
genVars   == <<gen, clearGen, epoch>>
runVars   == <<temp, restarts, crashed>>
metaVars  == <<flush, metaProject, metaGlobal>>
vars == <<entryVars, genVars, metaVars, enabled, limit, queue, producer, writer,
          reader, ui, runVars>>

NoFlush    == [at |-> "none", snap |-> <<>>, clash |-> FALSE]
IdleWriter == [pc |-> "idle", task |-> NoTask, format |-> "main"]
Fresh      == [index |-> [k \in Keys |-> NoEntry],
               lru |-> EmptyCache(DefaultMaxEntries), total |-> 0]

Init ==
    /\ index = Fresh.index /\ lru = Fresh.lru /\ total = 0
    /\ gen = [e \in Elements |-> 0] /\ clearGen = 0
    /\ epoch = [e \in Elements |-> 0]
    /\ enabled = TRUE /\ limit = DefaultMaxEntries
    /\ queue = <<>> /\ producer = NoTask
    /\ writer = IdleWriter
    /\ reader = <<"idle">> /\ ui = "free"
    /\ flush = [f \in Flushers |-> NoFlush]
    /\ file = [p \in Paths |-> NoFile] /\ temp = file
    /\ metaProject = {<<>>} /\ metaGlobal = {<<>>}
    /\ restarts = 0 /\ crashed = FALSE

-----------------------------------------------------------------------------
(* The index operations, on a record s of the four entry variables.        *)

Entries == [index |-> index, lru |-> lru, total |-> total, file |-> file]

Becomes(s) ==
    /\ index' = s.index /\ lru' = s.lru /\ total' = s.total /\ file' = s.file

Indexed(s) == {k \in Keys : s.index[k] # NoEntry}
PathOf(s, k) == <<k, s.index[k].format>>
SizeOf(s, K) == LET bmp == {k \in K : s.index[k].format = "bmp"}
                IN  Cardinality(K) + Cardinality(bmp)

\* Erase the entries of K that are indexed, and their files.
DropEntries(s, K) ==
    LET gone == K \cap Indexed(s) IN
    [index |-> [k \in Keys |-> IF k \in gone THEN NoEntry ELSE s.index[k]],
     lru   |-> s.lru,
     total |-> s.total - SizeOf(s, gone),
     file  |-> [p \in Paths |-> IF \E k \in gone : p = PathOf(s, k)
                                THEN NoFile ELSE s.file[p]]]

RecordLruAccess(s, k) ==
    LET out   == EvictedBy(s.lru, k)
        moved == [s EXCEPT !.lru = RecordAccess(@, k)]
    IN  IF out = None THEN moved ELSE DropEntries(moved, {out})

RemoveEntries(s, K) ==
    [DropEntries(s, K) EXCEPT !.lru = RemoveRecords(@, K)]

EvictLru(s, n) ==
    IF Cardinality(Indexed(s)) <= n THEN s
    ELSE LET out == TrimmedBy(s.lru, n)
         IN  [DropEntries(s, {out[i] : i \in 1..Len(out)})
                 EXCEPT !.lru = ResizeTrim(@, n)]

\* index_[k] = meta; an entry carries the generations it was written under.
Put(s, k, entry) ==
    LET old == IF s.index[k] = NoEntry THEN 0 ELSE Bytes(s.index[k].format)
        put == [index |-> [s.index EXCEPT ![k] = entry], lru |-> s.lru,
                total |-> s.total - old + Bytes(entry.format), file |-> s.file]
    IN  RecordLruAccess(put, k)

Current(task) == /\ task.inv = gen[task.key[1]]
                 /\ task.clear = clearGen

-----------------------------------------------------------------------------
(* Read, on a disk-read thread.                                            *)

ReadIndex(k) ==
    /\ ui # "down" /\ enabled /\ reader = <<"idle">> /\ index[k] # NoEntry
    /\ reader' = <<"open", k, index[k].format>>
    /\ Becomes(RecordLruAccess(Entries, k))
    /\ UNCHANGED <<genVars, metaVars, enabled, limit, queue, producer, writer, ui, runVars>>

\* A missing file, or one that does not decode, loses its entry later.
ReadFile ==
    /\ reader[1] = "open"
    /\ \/ reader' = <<"drop", reader[2]>>
       \/ file[<<reader[2], reader[3]>>] # NoFile /\ reader' = <<"idle">>
    /\ UNCHANGED <<entryVars, genVars, metaVars, enabled, limit, queue, producer,
                   writer, ui, runVars>>

ReadDrop ==
    /\ reader[1] = "drop" /\ reader' = <<"idle">>
    /\ Becomes(RemoveEntries(Entries, {reader[2]}))
    /\ UNCHANGED <<genVars, metaVars, enabled, limit, queue, producer, writer, ui, runVars>>

-----------------------------------------------------------------------------
(* EnqueueWrite, on a worker: the generations first, the queue after.      *)

Capture(k) ==
    /\ ui # "down" /\ enabled /\ producer = NoTask
    /\ producer' = [key |-> k, inv |-> gen[k[1]], clear |-> clearGen, born |-> epoch[k[1]]]
    /\ UNCHANGED <<entryVars, genVars, metaVars, enabled, limit, queue, writer,
                   reader, ui, runVars>>

Push ==
    /\ producer # NoTask /\ Len(queue) < QueueBound
    /\ queue' = Append(queue, producer) /\ producer' = NoTask
    /\ UNCHANGED <<entryVars, genVars, metaVars, enabled, limit, writer, reader, ui, runVars>>

-----------------------------------------------------------------------------
(* WriterThreadLoop.                                                       *)

WriterAt(pc) == [writer EXCEPT !.pc = pc]

\* pop, the checks that need no file, and the first look at the generations.
Popped_DisabledFirst(task) ==
    IF ~enabled THEN IdleWriter
    ELSE IF task = Stop THEN WriterAt("stopped")
    ELSE IF Current(task)
         THEN [pc |-> "encoding", task |-> task, format |-> "main"]
         ELSE IdleWriter
Popped(task) ==
    IF task = Stop THEN WriterAt("stopped")
    ELSE IF enabled /\ Current(task)
         THEN [pc |-> "encoding", task |-> task, format |-> "main"]
         ELSE IdleWriter

Pop ==
    /\ writer.pc = "idle" /\ queue # <<>>
    /\ queue' = Tail(queue)
    /\ writer' = Popped(Head(queue))
    /\ UNCHANGED <<entryVars, genVars, metaVars, enabled, limit, producer, reader, ui, runVars>>

\* Too little disk space: evict half of the entries, skip the write.
NoSpace ==
    /\ writer.pc = "encoding" /\ writer.format = "main"
    /\ Becomes(EvictLru(Entries, Cardinality(Indexed(Entries)) \div 2))
    /\ writer' = IdleWriter
    /\ UNCHANGED <<genVars, metaVars, enabled, limit, queue, producer, reader, ui, runVars>>

Target == <<writer.task.key, writer.format>>

\* The directory cannot be made: give up.  The encoder, the temporary file, its
\* close or the rename fails: fall back to bmp, then give up.
EncodeFails ==
    /\ writer.pc \in {"encoding", "writing", "encoded"}
    /\ \/ /\ writer.format = "main" /\ "bmp" \in Formats
          /\ writer' = [writer EXCEPT !.pc = "encoding", !.format = "bmp"]
       \/ /\ writer.format = "main" /\ "bmp" \in Formats => writer.pc = "encoding"
          /\ writer' = IdleWriter
    /\ temp' = [temp EXCEPT ![Target] = NoFile]
    /\ UNCHANGED <<entryVars, genVars, metaVars, enabled, limit, queue, producer,
                   reader, ui, restarts, crashed>>

\* The image goes to a temporary file beside the real one.
OpenTemp ==
    /\ writer.pc = "encoding" /\ writer' = WriterAt("writing")
    /\ temp' = [temp EXCEPT ![Target] = Torn]
    /\ UNCHANGED <<entryVars, genVars, metaVars, enabled, limit, queue, producer,
                   reader, ui, restarts, crashed>>

\* Nobody looks whether the close could write the rest.  A Clear may have removed
\* the file meanwhile.
CloseTemp ==
    /\ writer.pc = "writing" /\ writer' = WriterAt("encoded")
    /\ \E image \in Image(writer.task.born) :
          temp' = IF temp[Target] = NoFile THEN temp ELSE [temp EXCEPT ![Target] = image]
    /\ UNCHANGED <<entryVars, genVars, metaVars, enabled, limit, queue, producer,
                   reader, ui, restarts, crashed>>

Ready_WhileOpen == {"writing", "encoded"}
Ready == {"encoded"}

Rename ==
    /\ writer.pc \in Ready /\ temp[Target] # NoFile
    /\ writer' = WriterAt("renamed")
    /\ file' = [file EXCEPT ![Target] = temp[Target]]
    /\ temp' = [temp EXCEPT ![Target] = NoFile]
    /\ UNCHANGED <<index, lru, total, genVars, metaVars, enabled, limit, queue, producer,
                   reader, ui, restarts, crashed>>

Entry(task, f) == [format |-> f, inv |-> task.inv, clear |-> task.clear]

Admitted_Unchecked(task) == TRUE
Admitted(task) == Current(task)

IndexWrite ==
    LET task == writer.task
        put  == Put(Entries, task.key, Entry(task, writer.format))
    IN
    /\ writer.pc = "renamed"
    /\ IF Admitted(task)
       THEN /\ Becomes(EvictLru(put, limit))
            /\ writer' = [IdleWriter EXCEPT !.pc = "flushing"]
            /\ flush' = [flush EXCEPT !["writer"].at = "project"]
       ELSE /\ file' = [file EXCEPT ![<<task.key, writer.format>>] = NoFile]
            /\ writer' = IdleWriter
            /\ UNCHANGED <<index, lru, total, flush>>
    /\ UNCHANGED <<genVars, metaProject, metaGlobal, enabled, limit, queue, producer,
                   reader, ui, runVars>>

-----------------------------------------------------------------------------
(* FlushMetadata: project metadata, then global; each a snapshot under the *)
(* lock, and a rename of a temporary file both threads share.              *)

\* The keys of the list that are indexed, oldest first.
Listed(s) == LET in == RemoveRecords(s.lru, Keys \ Indexed(s)).keys
             IN  [i \in 1..Len(in) |-> PathOf(s, in[Len(in) + 1 - i])]

Snapshot(f) ==
    LET put == IF flush[f].at = "project" THEN "put project" ELSE "put global"
        twins == {g \in Flushers \ {f} : flush[g].at = put}
    IN
    /\ flush[f].at \in {"project", "global"}
    /\ flush' = [g \in Flushers |->
                   IF g = f THEN [at |-> put, snap |-> Listed(Entries), clash |-> twins # {}]
                   ELSE [flush[g] EXCEPT !.clash = @ \/ g \in twins]]
    /\ UNCHANGED <<entryVars, genVars, metaProject, metaGlobal, enabled, limit, queue,
                   producer, writer, reader, ui, runVars>>

Outcomes(f, old) ==
    IF flush[f].clash THEN {{flush[f].snap}, Garbled, old} ELSE {{flush[f].snap}}

PutProject(f) ==
    /\ flush[f].at = "put project"
    /\ metaProject' \in Outcomes(f, metaProject)
    /\ flush' = [flush EXCEPT ![f] = [NoFlush EXCEPT !.at = "global"]]
    /\ UNCHANGED <<entryVars, genVars, metaGlobal, enabled, limit, queue, producer,
                   writer, reader, ui, runVars>>

PutGlobal(f) ==
    /\ flush[f].at = "put global"
    /\ metaGlobal' \in Outcomes(f, metaGlobal)
    /\ flush' = [flush EXCEPT ![f] = NoFlush]
    /\ writer' = IF f = "writer" THEN IdleWriter ELSE writer
    /\ ui' = IF f = "writer" THEN ui ELSE IF ui = "closing" THEN "down" ELSE "free"
    /\ UNCHANGED <<entryVars, genVars, metaProject, enabled, limit, queue, producer,
                   reader, runVars>>

FlushStep(f) == Snapshot(f) \/ PutProject(f) \/ PutGlobal(f)

-----------------------------------------------------------------------------
(* The UI thread.                                                          *)

Invalidated(e) == RemoveEntries(Entries, {k \in Keys : k[1] = e})

Invalidate(e) ==
    /\ ui = "free" /\ epoch[e] < MaxEpoch
    /\ gen' = [gen EXCEPT ![e] = @ + 1]
    /\ epoch' = [epoch EXCEPT ![e] = @ + 1]
    /\ Becomes(Invalidated(e))
    /\ UNCHANGED <<clearGen, metaVars, enabled, limit, queue, producer, writer, reader,
                   ui, runVars>>

\* ClearAll and ClearProject of the open project: the index under the lock
\* (ClearProject with the indexed files), the directory after it, a flush.
Clear ==
    /\ ui = "free" /\ \A e \in Elements : epoch[e] < MaxEpoch
    /\ clearGen' = clearGen + 1
    /\ epoch' = [e \in Elements |-> epoch[e] + 1]
    /\ index' = Fresh.index /\ lru' = [lru EXCEPT !.keys = <<>>] /\ total' = 0
    /\ file' \in {file, DropEntries(Entries, Keys).file}
    /\ ui' = "removing"
    /\ UNCHANGED <<gen, metaVars, enabled, limit, queue, producer, writer, reader, runVars>>

RemoveFiles ==
    /\ ui = "removing" /\ ui' = "flushing"
    /\ file' = [p \in Paths |-> NoFile] /\ temp' = file'
    /\ metaProject' = {<<>>}
    /\ flush' = [flush EXCEPT !["ui"].at = "project"]
    /\ UNCHANGED <<index, lru, total, genVars, metaGlobal, enabled, limit, queue, producer,
                   writer, reader, restarts, crashed>>

Resized_LimitOnly(n) == Entries
Resized(n) ==
    IF Cardinality(Indexed(Entries)) > n THEN EvictLru(Entries, n)
    ELSE [Entries EXCEPT !.lru = Resize(@, n)]

SetMaxEntries(n) ==
    /\ ui = "free" /\ limit' = n
    /\ Becomes(Resized(n))
    /\ UNCHANGED <<genVars, metaVars, enabled, queue, producer, writer, reader, ui, runVars>>

SetEnabled(b) ==
    /\ ui = "free" /\ enabled' = b
    /\ UNCHANGED <<entryVars, genVars, metaVars, limit, queue, producer, writer, reader,
                   ui, runVars>>

\* Shutdown: the stop task, the join, the last flush.
Shutdown ==
    /\ ui = "free" /\ restarts < MaxRestarts
    /\ queue' = Append(queue, Stop) /\ ui' = "joining"
    /\ UNCHANGED <<entryVars, genVars, metaVars, enabled, limit, producer, writer, reader, runVars>>

Join ==
    /\ ui = "joining" /\ writer.pc = "stopped" /\ ui' = "closing"
    /\ flush' = [flush EXCEPT !["ui"].at = "project"]
    /\ UNCHANGED <<entryVars, genVars, metaProject, metaGlobal, enabled, limit, queue,
                   producer, writer, reader, runVars>>

\* Initialize of a new service: the listed entries whose file is there.
LoadList(s, meta) ==
    LET list == CHOOSE l \in meta : TRUE
        done[i \in 0..Len(list)] ==
          IF i = 0 THEN s
          ELSE IF done[i - 1].file[list[i]] = NoFile THEN done[i - 1]
          ELSE Put(done[i - 1], list[i][1], [format |-> list[i][2]])
    IN  done[Len(list)]

Load(s, meta) == IF meta = Garbled THEN s ELSE LoadList(s, meta)

\* A metadata file lists no generations: its entries count as this service's.
Stamped(s) ==
    [index |-> [k \in Keys |->
                   IF s.index[k] = NoEntry THEN NoEntry
                   ELSE [format |-> s.index[k].format, inv |-> 0, clear |-> 0]],
     lru |-> s.lru, total |-> s.total, file |-> s.file]

Open ==
    LET empty  == [index |-> Fresh.index, lru |-> Fresh.lru, total |-> 0, file |-> file]
        torn   == metaGlobal = Garbled             \* RebuildFromDirectoryScan
        global == Load(empty, IF torn THEN metaProject ELSE metaGlobal)
    IN
    /\ ui = "down" /\ producer = NoTask /\ reader = <<"idle">>
    /\ Becomes(Stamped(Load(global, metaProject)))
    /\ metaProject' = IF torn THEN {Listed(global)} ELSE metaProject
    /\ metaGlobal' = IF torn THEN {Listed(global)} ELSE metaGlobal
    /\ gen' = [e \in Elements |-> 0] /\ clearGen' = 0
    /\ enabled' = TRUE /\ limit' = DefaultMaxEntries
    /\ queue' = <<>> /\ writer' = IdleWriter
    /\ temp' = [p \in Paths |-> NoFile]           \* CleanupStaleTempFiles
    /\ ui' = "free" /\ restarts' = restarts + 1
    /\ UNCHANGED <<flush, producer, reader, epoch, crashed>>

\* What is in memory is lost, the files are not.
Crash ==
    /\ MayCrash /\ ui # "down" /\ restarts < MaxRestarts
    /\ ui' = "down" /\ crashed' = TRUE
    /\ index' = Fresh.index /\ lru' = Fresh.lru /\ total' = 0
    /\ queue' = <<>> /\ producer' = NoTask /\ writer' = IdleWriter /\ reader' = <<"idle">>
    /\ flush' = [f \in Flushers |-> NoFlush]
    /\ UNCHANGED <<file, temp, genVars, metaProject, metaGlobal, enabled, limit, restarts>>

-----------------------------------------------------------------------------
WriterStep ==
    \/ Pop \/ NoSpace \/ EncodeFails \/ OpenTemp \/ CloseTemp \/ Rename \/ IndexWrite
    \/ FlushStep("writer")

UIStep ==
    \/ \E e \in Elements : Invalidate(e)
    \/ Clear \/ RemoveFiles \/ Shutdown \/ Join \/ Open
    \/ \E n \in Limits : SetMaxEntries(n)
    \/ \E b \in Switches : SetEnabled(b)
    \/ FlushStep("ui")

WorkerStep ==
    \/ Push \/ ReadFile \/ ReadDrop
    \/ \E k \in Keys : Capture(k) \/ ReadIndex(k)

Next == WriterStep \/ UIStep \/ WorkerStep \/ Crash

Spec == Init /\ [][Next]_vars

-----------------------------------------------------------------------------
\* Every variable has its type; total_size_bytes_ has not wrapped below zero.
TypeOK ==
    /\ index \in [Keys -> {NoEntry} \cup
                    [format : Formats, inv : 0..MaxEpoch, clear : 0..MaxEpoch]]
    /\ KeysOf(lru) \subseteq Keys /\ lru.cap \in Nat
    /\ total \in Nat
    /\ gen \in [Elements -> 0..MaxEpoch] /\ clearGen \in 0..MaxEpoch
    /\ epoch \in [Elements -> 0..MaxEpoch]
    /\ enabled \in BOOLEAN /\ limit \in Nat
    /\ \A p \in Paths : file[p] \in {NoFile} \cup UNION {Image(n) : n \in 0..MaxEpoch}
    /\ \A p \in Paths : temp[p] \in {NoFile, Torn} \cup UNION {Image(n) : n \in 0..MaxEpoch}
    /\ writer.pc \in {"idle", "encoding", "writing", "encoded", "renamed", "flushing", "stopped"}
    /\ ui \in {"free", "removing", "flushing", "joining", "closing", "down"}

\* No entry was written under generations that an Invalidate or a Clear has
\* moved since: a write that raced with one is never indexed (lines 752-759).
NoStaleEntry ==
    \A k \in Keys : index[k] # NoEntry =>
        index[k].inv = gen[k[1]] /\ index[k].clear = clearGen

\* What a reader finds under an indexed key was enqueued after the element's
\* latest invalidation, also after the service was closed and opened again
\* (not after a crash: README).
NoStaleFile ==
    ui # "down" /\ ~crashed =>
        \A k \in Keys : index[k] # NoEntry =>
            file[PathOf(Entries, k)] \in {NoFile} \cup Image(epoch[k[1]])

\* What a write leaves half done, by a failure, a Clear or a crash between any two of
\* its steps, stays in a temporary file: none is ever indexed, and while the service
\* is open the only temporary file is that of the write the writer thread is at.
NoHalfWrite ==
    /\ \A k \in Keys : index[k] # NoEntry => file[PathOf(Entries, k)] # Torn
    /\ ui # "down" => \A p \in Paths :
          temp[p] # NoFile => writer.pc \in {"writing", "encoded"} /\ p = Target

\* index_ and lru_index_ hold the same keys, the latter once each.
LruMatchesIndex ==
    /\ KeysOf(lru) = Indexed(Entries)
    /\ Cardinality(KeysOf(lru)) = Len(lru.keys)

\* total_size_bytes_ is the size of what is indexed.
SizeMatches == total = SizeOf(Entries, Indexed(Entries))

\* The index never outgrows max_entries_, whatever lowers it meanwhile.
WithinLimit == Cardinality(Indexed(Entries)) <= limit

\* The bookkeeping of the cache: types, sizes, list and limit agree with index_.
IndexConsistent == TypeOK /\ SizeMatches /\ LruMatchesIndex /\ WithinLimit

\* Shutdown comes back: while it joins the writer thread, the stop task is on
\* its way, whatever was disabled, moved or evicted since (lines 301-314, 605).
StopReachesWriter ==
    ui = "joining" =>
        writer.pc = "stopped" \/ \E i \in DOMAIN queue : queue[i] = Stop
================================================================================
