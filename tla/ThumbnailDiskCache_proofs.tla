----------------------- MODULE ThumbnailDiskCache_proofs -----------------------
(***************************************************************************)
(* Five theorems of ThumbnailDiskCache.                                    *)
(*                                                                         *)
(* NeverStale: no entry of the index was written under generations that    *)
(* were bumped since, whatever the threads do and through restarts and     *)
(* crashes.  Only IndexWrite adds an entry, and it looks at the            *)
(* generations in the same critical section; Invalidate and Clear move a   *)
(* generation and remove its entries in one section; every other step on   *)
(* the index erases entries.                                               *)
(*                                                                         *)
(* StopNotLost: the stop task of Shutdown reaches the writer thread.       *)
(*                                                                         *)
(* BooksAgree, NeverStaleFile, NoneHalfWritten: the index, the LRU list,   *)
(* the sum of the sizes and the limit agree, an indexed file is missing or *)
(* the newest image, and none is a half-written one.  The inductive        *)
(* invariant DiskInv ties a write in flight to the generations it saw, and *)
(* the metadata of a clean shutdown to the files they list.  What the      *)
(* recursive function of Initialize and the fold of RemoveRecords compute  *)
(* is shown by AllNaturals: a set of numbers with 0 that is closed under   *)
(* + 1 is Nat.                                                             *)
(***************************************************************************)
EXTENDS ThumbnailDiskCache, FiniteSetTheorems, TLAPS

IsIndex(i) == i = [k \in Keys |-> i[k]]

IsEntries(s) ==
    /\ s = [index |-> s.index, lru |-> s.lru, total |-> s.total, file |-> s.file]
    /\ IsIndex(s.index)

\* t has entries of s only.
Fewer(t, s) ==
    IsEntries(t) /\ \A k \in Keys : t.index[k] = NoEntry \/ t.index[k] = s.index[k]

StampInv ==
    /\ IsIndex(index)
    /\ gen \in [Elements -> Nat] /\ clearGen \in Nat
    /\ NoStaleEntry

-----------------------------------------------------------------------------
\* DropEntries erases entries, those of K among them, and adds none.
LEMMA DropIsFewer ==
  ASSUME NEW s, IsEntries(s), NEW K
  PROVE  /\ Fewer(DropEntries(s, K), s)
         /\ \A k \in K \cap Keys : DropEntries(s, K).index[k] = NoEntry
<1> DEFINE t == DropEntries(s, K)
           gone == K \cap Indexed(s)
<1>1. t.index = [k \in Keys |-> IF k \in gone THEN NoEntry ELSE s.index[k]]
  BY DEF DropEntries, IsEntries
<1>2. t = [index |-> t.index, lru |-> t.lru, total |-> t.total, file |-> t.file]
  BY DEF DropEntries, IsEntries
<1>3. IsIndex(t.index)
  BY <1>1 DEF IsIndex
<1>4. \A k \in K \cap Keys : t.index[k] = NoEntry
  BY <1>1 DEF Indexed
<1> QED
  BY <1>1, <1>2, <1>3, <1>4 DEF Fewer, IsEntries

\* Replacing the list of the LRU leaves the entries as they are.
LEMMA LruIsFewer ==
  ASSUME NEW t, NEW s, Fewer(t, s), NEW l
  PROVE  Fewer([t EXCEPT !.lru = l], s) /\ [t EXCEPT !.lru = l].index = t.index
<1> DEFINE u == [t EXCEPT !.lru = l]
<1>1. u = [index |-> t.index, lru |-> l, total |-> t.total, file |-> t.file]
  BY DEF Fewer, IsEntries
<1>2. IsEntries(u) /\ u.index = t.index
  BY <1>1 DEF Fewer, IsEntries
<1> QED
  BY <1>2 DEF Fewer

\* Entries have no more than themselves.
LEMMA FewerSelf ==
  ASSUME NEW s, IsEntries(s)
  PROVE  Fewer(s, s)
  BY DEF Fewer

\* Erasing twice is erasing.
LEMMA FewerOfFewer ==
  ASSUME NEW r, NEW t, NEW s, Fewer(r, t), Fewer(t, s)
  PROVE  Fewer(r, s)
  BY DEF Fewer

\* A lookup may evict, RemoveEntries and EvictLru erase: none adds an entry.
LEMMA RecordLruIsFewer ==
  ASSUME NEW s, IsEntries(s), NEW k
  PROVE  Fewer(RecordLruAccess(s, k), s)
<1> DEFINE moved == [s EXCEPT !.lru = RecordAccess(@, k)]
<1>1. moved = [s EXCEPT !.lru = RecordAccess(s.lru, k)]
  BY DEF IsEntries
<1>2. Fewer(moved, s) /\ IsEntries(moved)
  BY <1>1, FewerSelf, LruIsFewer DEF Fewer
<1>d. RecordLruAccess(s, k) = moved
      \/ \E out : RecordLruAccess(s, k) = DropEntries(moved, {out})
  BY DEF RecordLruAccess
<1> HIDE DEF moved
<1>3. \A out : Fewer(DropEntries(moved, {out}), s)
  <2> TAKE out
  <2>1. Fewer(DropEntries(moved, {out}), moved)
    BY <1>2, DropIsFewer
  <2> QED
    BY <2>1, <1>2, FewerOfFewer
<1> QED
  BY <1>2, <1>d, <1>3

\* RemoveEntries erases entries, those of K among them.
LEMMA RemoveIsFewer ==
  ASSUME NEW s, IsEntries(s), NEW K
  PROVE  /\ Fewer(RemoveEntries(s, K), s)
         /\ \A k \in K \cap Keys : RemoveEntries(s, K).index[k] = NoEntry
<1> DEFINE t == DropEntries(s, K)
           l == RemoveRecords(t.lru, K)
<1>1. RemoveEntries(s, K) = [t EXCEPT !.lru = l]
  BY DEF RemoveEntries
<1>2. Fewer(t, s) /\ \A k \in K \cap Keys : t.index[k] = NoEntry
  BY DropIsFewer
<1> HIDE DEF t, l
<1> QED
  BY <1>1, <1>2, LruIsFewer

\* EvictLru erases entries.
LEMMA EvictIsFewer ==
  ASSUME NEW s, IsEntries(s), NEW n
  PROVE  Fewer(EvictLru(s, n), s)
<1> DEFINE out == TrimmedBy(s.lru, n)
           t == DropEntries(s, {out[i] : i \in 1..Len(out)})
<1>1. Fewer(t, s)
  BY DropIsFewer
<1>2. EvictLru(s, n) = s \/ \E l : EvictLru(s, n) = [t EXCEPT !.lru = l]
  BY DEF EvictLru
<1> HIDE DEF t
<1> QED
  BY <1>1, <1>2, FewerSelf, LruIsFewer

-----------------------------------------------------------------------------
\* The entry variables form a record the lemmas above speak of.
LEMMA EntriesAreEntries ==
  ASSUME IsIndex(index)
  PROVE  IsEntries(Entries)
  BY DEF IsEntries, Entries

\* A step that only erases entries keeps the invariant.
LEMMA ErasingKeeps ==
  ASSUME StampInv, NEW s, Fewer(s, Entries), Becomes(s), UNCHANGED <<gen, clearGen>>
  PROVE  StampInv'
<1>1. /\ index' = s.index /\ IsIndex(index')
      /\ \A k \in Keys : index'[k] = NoEntry \/ index'[k] = index[k]
  BY DEF Becomes, Fewer, IsEntries, Entries
<1> QED
  BY <1>1 DEF StampInv, NoStaleEntry, IsIndex

\* IndexWrite looks at the generations in the section that adds the entry.
LEMMA IndexWriteKeeps ==
  ASSUME StampInv, IndexWrite
  PROVE  StampInv'
<1> DEFINE task  == writer.task
           entry == Entry(task, writer.format)
           put   == Put(Entries, task.key, entry)
<1>1. CASE ~Admitted(task)
  BY <1>1 DEF IndexWrite, genVars, StampInv, NoStaleEntry, IsIndex
<1>2. CASE Admitted(task)
  <2>1. Becomes(EvictLru(put, limit)) /\ UNCHANGED <<gen, clearGen>>
    BY <1>2 DEF IndexWrite, genVars
  <2>2. PICK s : /\ put = RecordLruAccess(s, task.key)
                 /\ IsEntries(s)
                 /\ s.index = [index EXCEPT ![task.key] = entry]
    <3> DEFINE old == IF Entries.index[task.key] = NoEntry THEN 0
                      ELSE Bytes(Entries.index[task.key].format)
               s == [index |-> [Entries.index EXCEPT ![task.key] = entry],
                     lru |-> Entries.lru,
                     total |-> Entries.total - old + Bytes(entry.format),
                     file |-> Entries.file]
    <3>1. put = RecordLruAccess(s, task.key)
      BY DEF Put
    <3>2. s = [index |-> [index EXCEPT ![task.key] = entry], lru |-> lru,
               total |-> total - old + Bytes(entry.format), file |-> file]
      BY DEF Entries
    <3>3. IsIndex([index EXCEPT ![task.key] = entry])
      BY DEF StampInv, IsIndex
    <3> HIDE DEF entry, old, s
    <3>4. IsEntries(s) /\ s.index = [index EXCEPT ![task.key] = entry]
      BY <3>2, <3>3 DEF IsEntries
    <3> QED
      BY <3>1, <3>4
  <2> HIDE DEF put
  <2>3. Fewer(EvictLru(put, limit), s)
    <3>1. Fewer(put, s)
      BY <2>2, RecordLruIsFewer
    <3>2. Fewer(EvictLru(put, limit), put)
      BY <3>1, EvictIsFewer DEF Fewer
    <3> QED
      BY <3>1, <3>2, FewerOfFewer
  <2>4. /\ IsIndex(index')
        /\ \A k \in Keys : index'[k] = NoEntry \/ index'[k] = s.index[k]
    BY <2>1, <2>3 DEF Becomes, Fewer, IsEntries
  <2>5. entry.inv = gen[task.key[1]] /\ entry.clear = clearGen
    BY <1>2 DEF Admitted, Current, Entry
  <2> HIDE DEF entry, task
  <2>6. \A k \in Keys : s.index[k] # NoEntry =>
            s.index[k].inv = gen[k[1]] /\ s.index[k].clear = clearGen
    BY <2>2, <2>5 DEF StampInv, NoStaleEntry, IsIndex
  <2> QED
    BY <2>1, <2>4, <2>6 DEF StampInv, NoStaleEntry
<1> QED
  BY <1>1, <1>2

\* Invalidate erases the entries of the element whose generation it moves.
LEMMA InvalidateKeeps ==
  ASSUME StampInv, NEW e \in Elements, Invalidate(e)
  PROVE  StampInv'
<1> DEFINE K == {k \in Keys : k[1] = e}
<1>1. gen' = [gen EXCEPT ![e] = @ + 1] /\ UNCHANGED clearGen
      /\ Becomes(RemoveEntries(Entries, K))
  BY DEF Invalidate, Invalidated
<1>2. /\ Fewer(RemoveEntries(Entries, K), Entries)
      /\ \A k \in K \cap Keys : RemoveEntries(Entries, K).index[k] = NoEntry
  BY EntriesAreEntries, RemoveIsFewer DEF StampInv
<1>3. /\ IsIndex(index')
      /\ \A k \in Keys : index'[k] = NoEntry \/ index'[k] = index[k]
      /\ \A k \in Keys : k[1] = e => index'[k] = NoEntry
  BY <1>1, <1>2 DEF Becomes, Fewer, IsEntries, Entries
<1>4. \A k \in Keys : k[1] # e => gen'[k[1]] = gen[k[1]]
  BY <1>1 DEF StampInv, Keys
<1> QED
  BY <1>1, <1>3, <1>4 DEF StampInv, NoStaleEntry

\* A step after which nothing is indexed keeps the invariant.
LEMMA EmptyKeeps ==
  ASSUME index' = Fresh.index, gen' \in [Elements -> Nat], clearGen' \in Nat
  PROVE  StampInv'
  BY DEF Fresh, StampInv, NoStaleEntry, IsIndex

\* Open stamps what it lists with the generations it starts from.
LEMMA OpenKeeps ==
  ASSUME Open
  PROVE  StampInv'
<1>1. gen' = [e \in Elements |-> 0] /\ clearGen' = 0
  BY DEF Open
<1>2. PICK s : index' = Stamped(s).index
  BY DEF Open, Becomes
<1>3. \A k \in Keys : index'[k] = NoEntry \/ (index'[k].inv = 0 /\ index'[k].clear = 0)
  BY <1>2 DEF Stamped
<1>4. IsIndex(index')
  BY <1>2 DEF Stamped, IsIndex
<1> QED
  BY <1>1, <1>3, <1>4 DEF StampInv, NoStaleEntry, Keys

\* No step of the writer thread leaves a stale entry.
LEMMA WriterStepKeeps ==
  ASSUME StampInv, WriterStep
  PROVE  StampInv'
<1>e. IsEntries(Entries)
  BY EntriesAreEntries DEF StampInv
<1>1. CASE NoSpace
  BY <1>1, <1>e, EvictIsFewer, ErasingKeeps DEF NoSpace, genVars
<1>2. CASE IndexWrite
  BY <1>2, IndexWriteKeeps
<1>3. CASE Pop \/ EncodeFails \/ OpenTemp \/ CloseTemp \/ Rename \/ FlushStep("writer")
  <2>1. UNCHANGED <<index, gen, clearGen>>
    BY <1>3 DEF Pop, EncodeFails, OpenTemp, CloseTemp, Rename, FlushStep, Snapshot, PutProject, PutGlobal,
                entryVars, genVars
  <2> QED
    BY <2>1 DEF StampInv, NoStaleEntry, IsIndex
<1> QED
  BY <1>1, <1>2, <1>3 DEF WriterStep

\* No step of the UI thread leaves a stale entry.
LEMMA UIStepKeeps ==
  ASSUME StampInv, UIStep
  PROVE  StampInv'
<1>e. IsEntries(Entries)
  BY EntriesAreEntries DEF StampInv
<1>1. ASSUME NEW e \in Elements, Invalidate(e) PROVE StampInv'
  BY <1>1, InvalidateKeeps
<1>2. CASE Clear
  BY <1>2, EmptyKeeps DEF Clear, StampInv
<1>3. CASE Open
  BY <1>3, OpenKeeps
<1>4. ASSUME NEW n \in Limits, SetMaxEntries(n) PROVE StampInv'
  <2>1. Becomes(Resized(n)) /\ UNCHANGED <<gen, clearGen>>
    BY <1>4 DEF SetMaxEntries, genVars
  <2>2. Resized(n) = EvictLru(Entries, n)
        \/ Resized(n) = [Entries EXCEPT !.lru = Resize(lru, n)]
    BY DEF Resized, Entries
  <2>3. Fewer(Resized(n), Entries)
    BY <1>e, <2>2, EvictIsFewer, FewerSelf, LruIsFewer
  <2> QED
    BY <2>1, <2>3, ErasingKeeps
<1>5. CASE \/ RemoveFiles \/ Shutdown \/ Join \/ FlushStep("ui")
           \/ \E b \in Switches : SetEnabled(b)
  <2>1. UNCHANGED <<index, gen, clearGen>>
    BY <1>5 DEF RemoveFiles, Shutdown, Join, SetEnabled, FlushStep, Snapshot, PutProject,
                PutGlobal, entryVars, genVars
  <2> QED
    BY <2>1 DEF StampInv, NoStaleEntry, IsIndex
<1> QED
  BY <1>1, <1>2, <1>3, <1>4, <1>5 DEF UIStep

\* No step of a worker or a reader leaves a stale entry.
LEMMA WorkerStepKeeps ==
  ASSUME StampInv, WorkerStep
  PROVE  StampInv'
<1>e. IsEntries(Entries)
  BY EntriesAreEntries DEF StampInv
<1>1. CASE \/ Push \/ ReadFile \/ \E k \in Keys : Capture(k)
  <2>1. UNCHANGED <<index, gen, clearGen>>
    BY <1>1 DEF Push, ReadFile, Capture, entryVars, genVars
  <2> QED
    BY <2>1 DEF StampInv, NoStaleEntry, IsIndex
<1>2. CASE ReadDrop
  BY <1>2, <1>e, RemoveIsFewer, ErasingKeeps DEF ReadDrop, genVars
<1>3. ASSUME NEW k \in Keys, ReadIndex(k) PROVE StampInv'
  BY <1>3, <1>e, RecordLruIsFewer, ErasingKeeps DEF ReadIndex, genVars
<1> QED
  BY <1>1, <1>2, <1>3 DEF WorkerStep

LEMMA StampInit == Init => StampInv
  BY DEF Init, Fresh, StampInv, NoStaleEntry, IsIndex

LEMMA StampStep ==
  ASSUME StampInv, [Next]_vars
  PROVE  StampInv'
<1>1. CASE Crash
  BY <1>1, EmptyKeeps DEF Crash, genVars, StampInv
<1>2. CASE UNCHANGED vars
  BY <1>2 DEF vars, entryVars, genVars, StampInv, NoStaleEntry, IsIndex
<1> QED
  BY <1>1, <1>2, WriterStepKeeps, UIStepKeeps, WorkerStepKeeps DEF Next

\* No entry was written under generations that an Invalidate or a Clear has
\* moved since, for any keys, limits and bounds.
THEOREM NeverStale == Spec => []NoStaleEntry
<1>1. StampInv /\ [Next]_vars => StampInv'
  BY StampStep
<1>2. StampInv => NoStaleEntry
  BY DEF StampInv
<1> QED
  BY StampInit, <1>1, <1>2, PTL DEF Spec

-----------------------------------------------------------------------------
(* The stop task.  Only Pop takes a task out of the queue, and the stop     *)
(* task it takes stops the writer; nothing starts the writer again while    *)
(* Shutdown joins it, the flush being over by then.                         *)

Message == {Stop} \cup [key : Keys, inv : Nat, clear : Nat, born : Nat]

IsWriter(w) == w = [pc |-> w.pc, task |-> w.task, format |-> w.format]
IsFlush(f)  == f = [at |-> f.at, snap |-> f.snap, clash |-> f.clash]

StopTypes ==
    /\ queue \in Seq(Message) /\ producer \in Message \cup {NoTask}
    /\ gen \in [Elements -> Nat] /\ epoch \in [Elements -> Nat] /\ clearGen \in Nat
    /\ IsWriter(writer)
    /\ flush = [f \in Flushers |-> flush[f]] /\ \A f \in Flushers : IsFlush(flush[f])

\* The service is closed by the stopped writer, or by a crash.
Closed ==
    /\ ui = "closing" => writer.pc = "stopped"
    /\ ui = "down" =>
         \/ writer.pc = "stopped"
         \/ /\ writer.pc = "idle" /\ queue = <<>> /\ producer = NoTask
            /\ flush["writer"].at = "none"

StopInv ==
    /\ StopTypes /\ Closed
    /\ flush["writer"].at # "none" => writer.pc = "flushing"
    /\ StopReachesWriter

\* A task stays in the queue when one is appended, and when another is taken.
LEMMA QueueKeeps ==
  ASSUME queue \in Seq(Message), NEW m \in Message, NEW i \in DOMAIN queue, queue[i] = Stop
  PROVE  /\ \E j \in DOMAIN Append(queue, m) : Append(queue, m)[j] = Stop
         /\ Head(queue) # Stop => \E j \in DOMAIN Tail(queue) : Tail(queue)[j] = Stop
<1>1. i \in DOMAIN Append(queue, m) /\ Append(queue, m)[i] = Stop
  OBVIOUS
<1>2. ASSUME Head(queue) # Stop PROVE \E j \in DOMAIN Tail(queue) : Tail(queue)[j] = Stop
  <2>1. i \in 2..Len(queue)
    BY <1>2
  <2>2. i - 1 \in DOMAIN Tail(queue) /\ Tail(queue)[i - 1] = Stop
    BY <2>1
  <2> QED
    BY <2>2
<1> QED
  BY <1>1, <1>2

\* A step that leaves the queue, the writer and their stamps alone.
LEMMA ElsewhereKeeps ==
  ASSUME StopInv, UNCHANGED <<genVars, flush, queue, producer, writer>>,
         UNCHANGED ui
  PROVE  StopInv'
  BY DEF StopInv, StopTypes, StopReachesWriter, Closed, genVars, IsWriter, IsFlush

\* The queue: a write is appended, the stop task is appended, a task is taken.
LEMMA QueueStepKeeps ==
  ASSUME StopInv, Push \/ Shutdown \/ Pop
  PROVE  StopInv'
<1>1. CASE Push
  <2>1. producer \in Message /\ queue' = Append(queue, producer) /\ producer' = NoTask
    BY <1>1 DEF Push, StopInv, StopTypes
  <2>2. UNCHANGED <<gen, epoch, clearGen, flush, writer, ui>>
    BY <1>1 DEF Push, genVars, metaVars
  <2>3. StopTypes'
    BY <2>1, <2>2 DEF StopInv, StopTypes, IsWriter, IsFlush
  <2>4. StopReachesWriter'
    BY <2>1, <2>2, QueueKeeps DEF StopInv, StopTypes, StopReachesWriter
  <2> QED
    BY <2>1, <2>2, <2>3, <2>4, <1>1 DEF StopInv, Closed, Push
<1>2. CASE Shutdown
  <2>1. queue' = Append(queue, Stop) /\ Stop \in Message
    BY <1>2 DEF Shutdown, Message
  <2>2. UNCHANGED <<gen, epoch, clearGen, flush, producer, writer>>
    BY <1>2 DEF Shutdown, genVars, metaVars
  <2>3. StopTypes'
    BY <2>1, <2>2 DEF StopInv, StopTypes, IsWriter, IsFlush
  <2>4. Len(queue) + 1 \in DOMAIN queue' /\ queue'[Len(queue) + 1] = Stop
    BY <2>1 DEF StopInv, StopTypes
  <2> QED
    BY <1>2, <2>2, <2>3, <2>4 DEF StopInv, StopReachesWriter, Closed, Shutdown
<1>3. CASE Pop
  <2> DEFINE task == Head(queue)
  <2>1. /\ queue # <<>> /\ task \in Message
        /\ queue' = Tail(queue) /\ writer' = Popped(task) /\ writer.pc = "idle"
    BY <1>3 DEF Pop, StopInv, StopTypes
  <2>2. UNCHANGED <<gen, epoch, clearGen, flush, producer, ui>>
    BY <1>3 DEF Pop, genVars, metaVars
  <2>3. IsWriter(writer') /\ (task = Stop => writer'.pc = "stopped")
    BY <2>1 DEF Popped, WriterAt, IdleWriter, IsWriter, StopInv, StopTypes
  <2>4. StopTypes'
    BY <2>1, <2>2, <2>3 DEF StopInv, StopTypes, IsFlush
  <2>5. flush'["writer"].at = "none"
    BY <2>1, <2>2 DEF StopInv
  <2>6. StopReachesWriter'
    BY <2>1, <2>2, <2>3, QueueKeeps DEF StopInv, StopTypes, StopReachesWriter
  <2> QED
    BY <2>1, <2>2, <2>4, <2>5, <2>6 DEF StopInv, Closed
<1> QED
  BY <1>1, <1>2, <1>3

\* The writer at work: it was not stopped, so the stop task is in the queue.
LEMMA WritingKeeps ==
  ASSUME StopInv, NoSpace \/ EncodeFails \/ OpenTemp \/ CloseTemp \/ Rename \/ IndexWrite
  PROVE  StopInv'
<1>1. UNCHANGED <<gen, epoch, clearGen, queue, producer, ui>>
  BY DEF NoSpace, EncodeFails, OpenTemp, CloseTemp, Rename, IndexWrite, genVars
<1>2. IsWriter(writer') /\ writer.pc # "stopped" /\ writer.pc # "flushing"
  <2>1. IsWriter(writer)
    BY DEF StopInv, StopTypes
  <2>2. CASE NoSpace \/ IndexWrite
    BY <2>2 DEF NoSpace, IndexWrite, IdleWriter, IsWriter
  <2>3. CASE EncodeFails
    BY <2>1, <2>3 DEF EncodeFails, IdleWriter, IsWriter
  <2>4. CASE OpenTemp \/ CloseTemp \/ Rename
    BY <2>1, <2>4 DEF OpenTemp, CloseTemp, Rename, Ready, WriterAt, IsWriter
  <2> QED
    BY <2>2, <2>3, <2>4
<1>3. \/ flush' = flush
      \/ flush' = [flush EXCEPT !["writer"].at = "project"] /\ writer'.pc = "flushing"
  BY DEF NoSpace, EncodeFails, OpenTemp, CloseTemp, Rename, IndexWrite, metaVars, IdleWriter
<1>8. writer.pc # "idle"
  BY DEF NoSpace, EncodeFails, OpenTemp, CloseTemp, Rename, Ready, IndexWrite
<1>4. StopTypes'
  BY <1>1, <1>2, <1>3 DEF StopInv, StopTypes, IsFlush, Flushers
<1>5. flush'["writer"].at # "none" => writer'.pc = "flushing"
  BY <1>2, <1>3 DEF StopInv
<1>6. StopReachesWriter'
  BY <1>1, <1>2 DEF StopInv, StopReachesWriter
<1>7. Closed'
  BY <1>1, <1>2, <1>8 DEF StopInv, Closed
<1> QED
  BY <1>1, <1>2, <1>4, <1>5, <1>6, <1>7 DEF StopInv

\* A flush: the writer's ends with an idle writer, the UI's ends no join.
LEMMA FlushKeeps ==
  ASSUME StopInv, NEW f \in Flushers, FlushStep(f)
  PROVE  StopInv'
<1>1. UNCHANGED <<gen, epoch, clearGen, queue, producer>>
  BY DEF FlushStep, Snapshot, PutProject, PutGlobal, genVars
<1>2. CASE Snapshot(f) \/ PutProject(f)
  <2>1. UNCHANGED <<writer, ui>>
    BY <1>2 DEF Snapshot, PutProject
  <2>2. /\ flush' = [g \in Flushers |-> flush'[g]]
        /\ \A g \in Flushers : IsFlush(flush'[g])
        /\ \A g \in Flushers : flush[g].at = "none" => flush'[g].at = "none"
    <3>1. CASE Snapshot(f)
      <4>1. \A g \in Flushers \ {f} : \E c : flush'[g] = [flush[g] EXCEPT !.clash = c]
        BY <3>1 DEF Snapshot
      <4>2. \A g \in Flushers \ {f} : IsFlush(flush'[g]) /\ flush'[g].at = flush[g].at
        BY <4>1 DEF StopInv, StopTypes, IsFlush
      <4>3. flush[f].at # "none" /\ IsFlush(flush'[f])
        BY <3>1 DEF Snapshot, IsFlush
      <4>4. flush' = [g \in Flushers |-> flush'[g]]
        BY <3>1 DEF Snapshot
      <4> QED
        BY <4>2, <4>3, <4>4
    <3>2. CASE PutProject(f)
      BY <3>2 DEF PutProject, NoFlush, StopInv, StopTypes, IsFlush
    <3> QED
      BY <1>2, <3>1, <3>2
  <2>3. StopTypes'
    BY <1>1, <2>1, <2>2 DEF StopInv, StopTypes
  <2> QED
    BY <1>1, <2>1, <2>2, <2>3 DEF StopInv, StopReachesWriter, Closed, Flushers
<1>3. CASE PutGlobal(f)
  <2>1. /\ flush[f].at = "put global"
        /\ flush' = [flush EXCEPT ![f] = NoFlush]
        /\ writer' = IF f = "writer" THEN IdleWriter ELSE writer
        /\ ui' = IF f = "writer" THEN ui ELSE IF ui = "closing" THEN "down" ELSE "free"
    BY <1>3 DEF PutGlobal
  <2>2. IsWriter(writer')
    BY <2>1 DEF IdleWriter, IsWriter, StopInv, StopTypes
  <2>3. StopTypes'
    BY <1>1, <2>1, <2>2 DEF StopInv, StopTypes, NoFlush, IsFlush
  <2>4. flush'["writer"].at # "none" => writer'.pc = "flushing"
    BY <2>1 DEF StopInv, StopTypes, NoFlush, Flushers
  <2>5. StopReachesWriter'
    BY <1>1, <2>1 DEF StopInv, StopReachesWriter
  <2> QED
    BY <1>1, <2>1, <2>3, <2>4, <2>5 DEF StopInv, StopTypes, Closed, NoFlush, Flushers
<1> QED
  BY <1>2, <1>3 DEF FlushStep

\* The UI thread's other sections: none of them begins a join.
LEMMA UISectionKeeps ==
  ASSUME StopInv, (\E e \in Elements : Invalidate(e)) \/ Clear \/ RemoveFiles \/ Join
  PROVE  StopInv'
<1>1. UNCHANGED <<queue, producer, writer>> /\ ui' # "joining" /\ ui' # "down"
  <2>1. CASE \E e \in Elements : Invalidate(e)
    BY <2>1 DEF Invalidate
  <2>2. CASE Clear \/ RemoveFiles \/ Join
    BY <2>2 DEF Clear, RemoveFiles, Join
  <2> QED
    BY <2>1, <2>2
<1>2. gen' \in [Elements -> Nat] /\ epoch' \in [Elements -> Nat] /\ clearGen' \in Nat
  <2>1. CASE \E e \in Elements : Invalidate(e)
    BY <2>1 DEF Invalidate, StopInv, StopTypes
  <2>2. CASE Clear
    BY <2>2 DEF Clear, StopInv, StopTypes
  <2>3. CASE RemoveFiles \/ Join
    BY <2>3 DEF RemoveFiles, Join, genVars, StopInv, StopTypes
  <2> QED
    BY <2>1, <2>2, <2>3
<1>3. flush' = flush \/ flush' = [flush EXCEPT !["ui"].at = "project"]
  BY DEF Invalidate, Clear, RemoveFiles, Join, metaVars
<1>4. StopTypes'
  BY <1>1, <1>2, <1>3 DEF StopInv, StopTypes, IsWriter, IsFlush
<1>5. flush'["writer"] = flush["writer"]
  BY <1>3 DEF StopInv, StopTypes, Flushers
<1>6. ui' = "closing" => writer.pc = "stopped"
  BY DEF Invalidate, Clear, RemoveFiles, Join
<1> QED
  BY <1>1, <1>4, <1>5, <1>6 DEF StopInv, StopReachesWriter, Closed

\* A service that opens finds no flush of the writer's and starts an idle one.
LEMMA RestartKeeps ==
  ASSUME StopInv, Open \/ Crash
  PROVE  StopInv'
<1>1. CASE Open
  <2>1. /\ ui = "down" /\ ui' = "free" /\ UNCHANGED <<flush, producer, epoch>>
        /\ queue' = <<>> /\ writer' = IdleWriter
        /\ gen' = [e \in Elements |-> 0] /\ clearGen' = 0
    BY <1>1 DEF Open
  <2>2. flush["writer"].at = "none"
    BY <2>1 DEF StopInv, Closed
  <2>3. StopTypes'
    BY <2>1 DEF StopInv, StopTypes, IdleWriter, IsWriter, IsFlush
  <2> QED
    BY <2>1, <2>2, <2>3 DEF StopInv, StopReachesWriter, Closed
<1>2. CASE Crash
  <2>1. /\ ui' = "down" /\ flush' = [f \in Flushers |-> NoFlush]
        /\ queue' = <<>> /\ producer' = NoTask /\ writer' = IdleWriter
        /\ UNCHANGED <<gen, clearGen, epoch>>
    BY <1>2 DEF Crash, genVars
  <2>2. StopTypes'
    BY <2>1 DEF StopInv, StopTypes, IdleWriter, IsWriter, IsFlush, NoFlush
  <2> QED
    BY <2>1, <2>2 DEF StopInv, StopReachesWriter, Closed, IdleWriter, NoFlush, Flushers
<1> QED
  BY <1>1, <1>2

\* A worker looks at the generations before it has a task to push.
LEMMA CaptureKeeps ==
  ASSUME StopInv, NEW k \in Keys, Capture(k)
  PROVE  StopInv'
<1>1. /\ UNCHANGED <<genVars, flush, queue, writer, ui>> /\ ui # "down"
      /\ producer' = [key |-> k, inv |-> gen[k[1]], clear |-> clearGen, born |-> epoch[k[1]]]
  BY DEF Capture, metaVars
<1>2. producer' \in Message
  BY <1>1 DEF Message, Keys, StopInv, StopTypes
<1> QED
  BY <1>1, <1>2 DEF StopInv, StopTypes, StopReachesWriter, Closed, genVars, IsWriter, IsFlush

LEMMA StopInit == Init => StopInv
  BY DEF Init, StopInv, StopTypes, StopReachesWriter, Closed, IdleWriter, NoFlush, IsWriter,
         IsFlush, Flushers

LEMMA StopStep ==
  ASSUME StopInv, [Next]_vars
  PROVE  StopInv'
<1>1. CASE WriterStep
  BY <1>1, QueueStepKeeps, WritingKeeps, FlushKeeps DEF WriterStep, Flushers
<1>2. CASE UIStep
  <2>1. CASE \E n \in Limits : SetMaxEntries(n)
    BY <2>1, ElsewhereKeeps DEF SetMaxEntries, metaVars
  <2>2. CASE \E b \in Switches : SetEnabled(b)
    BY <2>2, ElsewhereKeeps DEF SetEnabled, metaVars
  <2> QED
    BY <1>2, <2>1, <2>2, QueueStepKeeps, UISectionKeeps, RestartKeeps, FlushKeeps
       DEF UIStep, Flushers
<1>3. CASE WorkerStep
  <2>1. CASE ReadFile \/ ReadDrop \/ \E k \in Keys : ReadIndex(k)
    BY <2>1, ElsewhereKeeps DEF ReadFile, ReadDrop, ReadIndex, metaVars
  <2> QED
    BY <1>3, <2>1, QueueStepKeeps, CaptureKeeps DEF WorkerStep
<1>4. CASE UNCHANGED vars
  BY <1>4, ElsewhereKeeps DEF vars, metaVars
<1> QED
  BY <1>1, <1>2, <1>3, <1>4, RestartKeeps DEF Next

\* Shutdown's join is never left waiting for a stop task that is gone: the
\* writer has met it or will, for any keys, bounds and sequence of calls.
THEOREM StopNotLost == Spec => []StopReachesWriter
<1>1. StopInv /\ [Next]_vars => StopInv'
  BY StopStep
<1>2. StopInv => StopReachesWriter
  BY DEF StopInv
<1> QED
  BY StopInit, <1>1, <1>2, PTL DEF Spec

--------------------------------------------------------------------------------
\* Induction for a set of numbers, by counting.
LEMMA AllNaturals ==
  ASSUME NEW S \in SUBSET Nat, 0 \in S, \A n \in S : n + 1 \in S
  PROVE  S = Nat
<1> SUFFICES ASSUME NEW n \in Nat, n \notin S PROVE FALSE
  OBVIOUS
<1> DEFINE U == S \cap 0..n
           f == [x \in U |-> x + 1]
<1>1. IsFiniteSet(U)
  <2>1. IsFiniteSet(0..n)
    BY FS_Interval
  <2> QED
    BY <2>1, FS_Subset
<1>2. 0 \in U
  OBVIOUS
<1>3. /\ IsFiniteSet(U \ {0}) /\ Cardinality(U \ {0}) = Cardinality(U) - 1
      /\ Cardinality(U) \in Nat
  BY <1>1, <1>2, FS_RemoveElement, FS_CardinalityType
<1>4. f \in Injection(U, U \ {0})
  BY DEF Injection, IsInjective
<1> HIDE DEF U, f
<1>5. Cardinality(U) <= Cardinality(U \ {0})
  BY <1>3, <1>4, FS_Injection
<1> QED
  BY <1>3, <1>5

--------------------------------------------------------------------------------
(* The operations of LRU on a list without repetitions.                           *)

Distinct(s) == \A i, j \in 1..Len(s) : s[i] = s[j] => i = j
Caches  == [keys : Seq(Keys), cap : Nat]
Good(c) == c \in Caches /\ Distinct(c.keys)

LEMMA RecKeys ==
  ASSUME NEW c, NEW t, c = [keys |-> c.keys, cap |-> c.cap]
  PROVE  [c EXCEPT !.keys = t] = [keys |-> t, cap |-> c.cap]
<1> DEFINE a == c.keys
           b == c.cap
<1>1. c = [keys |-> a, cap |-> b]
  OBVIOUS
<1> HIDE DEF a, b
<1>2. [c EXCEPT !.keys = t] = [keys |-> t, cap |-> b] /\ c.cap = b
  BY <1>1
<1> QED
  BY <1>2

LEMMA GoodFacts ==
  ASSUME NEW c, Good(c)
  PROVE  /\ c.keys \in Seq(Keys) /\ c.cap \in Nat /\ Len(c.keys) \in Nat
         /\ \A i \in 1..Len(c.keys) : c.keys[i] \in Keys
         /\ \A i, j \in 1..Len(c.keys) : c.keys[i] = c.keys[j] => i = j
         /\ c = [keys |-> c.keys, cap |-> c.cap]
<1>1. c.keys \in Seq(Keys) /\ c.cap \in Nat /\ c = [keys |-> c.keys, cap |-> c.cap]
  BY DEF Good, Caches
<1> QED
  BY <1>1 DEF Good, Distinct

\* The list without its key number i.
LEMMA RemoveFirstIs ==
  ASSUME NEW S, NEW s \in Seq(S), Distinct(s), NEW i \in 1..Len(s),
         NEW r, r = RemoveFirst(s, s[i])
  PROVE  /\ r \in Seq(S) /\ Len(r) = Len(s) - 1
         /\ \A j \in 1..Len(r) : r[j] = IF j < i THEN s[j] ELSE s[j + 1]
<1> DEFINE I == {k \in 1..Len(s) : s[k] = s[i]}
<1>1. I = {i}
  BY DEF Distinct
<1>2. Min(I) = i
  BY <1>1 DEF Min
<1>3. SelectInSeq(s, LAMBDA v : v = s[i]) = i
  BY <1>1, <1>2 DEF SelectInSeq
<1>4. r = RemoveAt(s, i)
  BY <1>3 DEF RemoveFirst
<1> DEFINE p == SubSeq(s, 1, i - 1)
           q == SubSeq(s, i + 1, Len(s))
<1>5. /\ p \in Seq(S) /\ Len(p) = i - 1 /\ \A j \in 1..(i - 1) : p[j] = s[j]
      /\ q \in Seq(S) /\ Len(q) = Len(s) - i /\ \A j \in 1..(Len(s) - i) : q[j] = s[j + i]
  OBVIOUS
<1>6. r = p \o q
  BY <1>4 DEF RemoveAt
<1> HIDE DEF p, q
<1>7. r \in Seq(S) /\ Len(r) = Len(s) - 1
  <2>1. r \in Seq(S) /\ Len(r) = Len(p) + Len(q)
    <3>1. p \in Seq(S) /\ q \in Seq(S)
      BY <1>5
    <3>2. p \o q \in Seq(S) /\ Len(p \o q) = Len(p) + Len(q)
      BY <3>1
    <3> QED
      BY <3>2, <1>6
  <2>2. Len(s) \in Nat /\ i \in Nat
    OBVIOUS
  <2> QED
    BY <1>5, <2>1, <2>2
<1>8. \A j \in 1..(i - 1) : r[j] = p[j]
  BY <1>5, <1>6
<1>9. \A j \in 1..(Len(s) - i) : r[i - 1 + j] = q[j]
  BY <1>5, <1>6
<1>10. ASSUME NEW j \in 1..Len(r) PROVE r[j] = IF j < i THEN s[j] ELSE s[j + 1]
  <2>1. CASE j < i
    BY <1>5, <1>8, <2>1
  <2>2. CASE j >= i
    <3>1. j - i + 1 \in 1..(Len(s) - i) /\ i - 1 + (j - i + 1) = j
      BY <1>7, <2>2
    <3>2. r[j] = q[j - i + 1] /\ q[j - i + 1] = s[j - i + 1 + i]
      BY <1>5, <1>9, <3>1
    <3>3. j - i + 1 + i = j + 1 /\ ~(j < i)
      BY <2>2
    <3> QED
      BY <3>2, <3>3
  <2> QED
    BY <2>1, <2>2
<1> QED
  BY <1>7, <1>10

\* A key that is in the list goes to its head, the others keep their order.
LEMMA MoveFacts ==
  ASSUME NEW c, Good(c), NEW k, Cached(c, k)
  PROVE  /\ Good(MoveToFront(c, k)) /\ KeysOf(MoveToFront(c, k)) = KeysOf(c)
         /\ MoveToFront(c, k).cap = c.cap /\ Len(MoveToFront(c, k).keys) = Len(c.keys)
<1> DEFINE s == c.keys
<1>0. PICK i \in 1..Len(s) : k = s[i]
  BY DEF Cached, KeysOf
<1>1. s \in Seq(Keys) /\ Len(s) \in Nat /\ Distinct(s)
  BY GoodFacts DEF Good
<1> DEFINE r == RemoveFirst(s, k)
           t == <<k>> \o r
<1>2. MoveToFront(c, k) = [keys |-> t, cap |-> c.cap]
  <2>1. MoveToFront(c, k) = [c EXCEPT !.keys = t]
    BY DEF MoveToFront
  <2> HIDE DEF t
  <2> QED
    BY <2>1, GoodFacts, RecKeys
<1> HIDE DEF s
<1>3. /\ r \in Seq(Keys) /\ Len(r) = Len(s) - 1
      /\ \A j \in 1..Len(r) : r[j] = IF j < i THEN s[j] ELSE s[j + 1]
  BY <1>0, <1>1, RemoveFirstIs
<1> HIDE DEF r
<1>4. k \in Keys /\ Len(s) \in Nat \ {0}
  BY <1>0, <1>1
<1>5. /\ t \in Seq(Keys) /\ Len(t) = Len(s) /\ t[1] = k
      /\ \A j \in 2..Len(t) : t[j] = r[j - 1]
  BY <1>3, <1>4
<1>6. \A j \in 2..Len(t) : t[j] = IF j - 1 < i THEN s[j - 1] ELSE s[j]
  BY <1>3, <1>5
<1> HIDE DEF t
<1>7. Distinct(t)
  <2> SUFFICES ASSUME NEW a \in 1..Len(t), NEW b \in 1..Len(t), t[a] = t[b], a < b PROVE FALSE
    BY <1>1, <1>5 DEF Distinct
  <2> DEFINE from(j) == IF j - 1 < i THEN j - 1 ELSE j
  <2>1. b \in 2..Len(t) /\ t[b] = s[from(b)] /\ from(b) \in 1..Len(s) /\ from(b) # i
    BY <1>0, <1>1, <1>5, <1>6
  <2>2. CASE a = 1
    BY <1>0, <1>1, <1>5, <2>1, <2>2 DEF Distinct
  <2>3. CASE a # 1
    <3>1. a \in 2..Len(t) /\ t[a] = s[from(a)] /\ from(a) \in 1..Len(s) /\ from(a) # from(b)
      BY <1>0, <1>1, <1>5, <1>6, <2>3
    <3> HIDE DEF from
    <3> QED
      BY <1>1, <2>1, <3>1 DEF Distinct
  <2> QED
    BY <2>2, <2>3
<1>8. ASSUME NEW x PROVE (\E j \in 1..Len(t) : t[j] = x) <=> (\E j \in 1..Len(s) : s[j] = x)
  <2>1. ASSUME NEW j \in 1..Len(t), t[j] = x PROVE \E m \in 1..Len(s) : s[m] = x
    BY <1>0, <1>5, <1>6, <2>1
  <2>2. ASSUME NEW j \in 1..Len(s), s[j] = x PROVE \E m \in 1..Len(t) : t[m] = x
    <3>1. CASE j = i
      BY <1>0, <1>4, <1>5, <2>2, <3>1
    <3>2. CASE j < i
      <4>1. j + 1 \in 2..Len(t) /\ t[j + 1] = s[j]
        BY <1>0, <1>4, <1>5, <1>6, <3>2
      <4> QED
        BY <2>2, <4>1
    <3>3. CASE j > i
      <4>1. j \in 2..Len(t) /\ t[j] = s[j]
        BY <1>0, <1>4, <1>5, <1>6, <3>3
      <4> QED
        BY <2>2, <4>1
    <3> QED
      BY <3>1, <3>2, <3>3, <1>0
  <2> QED
    BY <2>1, <2>2
<1>9. KeysOf([keys |-> t, cap |-> c.cap]) = KeysOf(c)
  BY <1>8 DEF KeysOf, s
<1> QED
  BY <1>2, <1>5, <1>7, <1>9, GoodFacts DEF Good, Caches, s

LEMMA RemoveFacts ==
  ASSUME NEW c, Good(c), NEW k
  PROVE  /\ Good(RemoveRecord(c, k)) /\ KeysOf(RemoveRecord(c, k)) = KeysOf(c) \ {k}
         /\ RemoveRecord(c, k).cap = c.cap /\ Len(RemoveRecord(c, k).keys) <= Len(c.keys)
<1> DEFINE s == c.keys
           r == RemoveFirst(s, k)
<1>1. s \in Seq(Keys) /\ Len(s) \in Nat /\ Distinct(s)
  BY GoodFacts DEF Good
<1>2. RemoveRecord(c, k) = [keys |-> r, cap |-> c.cap]
  BY GoodFacts DEF RemoveRecord
<1>3. CASE ~Cached(c, k)
  <2>1. r = s
    BY <1>3 DEF RemoveFirst, Cached, KeysOf
  <2> QED
    BY <1>1, <1>2, <1>3, <2>1, GoodFacts DEF Cached
<1>4. CASE Cached(c, k)
  <2>0. PICK i \in 1..Len(s) : k = s[i]
    BY <1>4 DEF Cached, KeysOf
  <2> HIDE DEF s
  <2>1. /\ r \in Seq(Keys) /\ Len(r) = Len(s) - 1
        /\ \A j \in 1..Len(r) : r[j] = IF j < i THEN s[j] ELSE s[j + 1]
    BY <1>1, <2>0, RemoveFirstIs
  <2> HIDE DEF r
  <2>2. Distinct(r)
    BY <1>1, <2>0, <2>1 DEF Distinct
  <2>3. ASSUME NEW x
        PROVE  (\E j \in 1..Len(r) : r[j] = x) <=> (x # k /\ \E j \in 1..Len(s) : s[j] = x)
    <3>1. ASSUME NEW j \in 1..Len(r), r[j] = x PROVE x # k /\ \E m \in 1..Len(s) : s[m] = x
      <4>1. PICK m \in 1..Len(s) : m # i /\ r[j] = s[m]
        BY <1>1, <2>0, <2>1
      <4> QED
        BY <1>1, <2>0, <3>1, <4>1 DEF Distinct
    <3>2. ASSUME NEW j \in 1..Len(s), s[j] = x, x # k PROVE \E m \in 1..Len(r) : r[m] = x
      <4>1. CASE j < i
        <5>1. j \in 1..Len(r) /\ r[j] = s[j]
          BY <1>1, <2>0, <2>1, <4>1
        <5> QED
          BY <3>2, <5>1
      <4>2. CASE j > i
        <5>1. j - 1 \in 1..Len(r) /\ r[j - 1] = s[j]
          BY <1>1, <2>0, <2>1, <4>2
        <5> QED
          BY <3>2, <5>1
      <4> QED
        BY <2>0, <3>2, <4>1, <4>2
    <3> QED
      BY <3>1, <3>2
  <2>4. KeysOf([keys |-> r, cap |-> c.cap]) = KeysOf(c) \ {k}
    BY <2>3 DEF KeysOf, s
  <2> QED
    BY <1>1, <1>2, <2>1, <2>2, <2>4, GoodFacts DEF Good, Caches, s
<1> QED
  BY <1>3, <1>4

\* A new key goes in front of the list, or of the list without its last key.
LEMMA RecordIs ==
  ASSUME NEW c, Good(c), NEW k \in Keys, ~Cached(c, k),
         NEW m, m = IF Full(c) /\ c.keys # <<>> THEN Len(c.keys) - 1 ELSE Len(c.keys),
         NEW d, d = RecordAccess(c, k)
  PROVE  /\ Good(d) /\ d.cap = c.cap /\ Len(d.keys) = m + 1 /\ m \in Nat /\ d.keys[1] = k
         /\ \A j \in 2..(m + 1) : d.keys[j] = c.keys[j - 1]
<1> DEFINE s == c.keys
           f == SubSeq(s, 1, Len(s) - 1)
           p == IF Full(c) /\ s # <<>> THEN f ELSE s
           t == <<k>> \o p
<1>1. s \in Seq(Keys) /\ Len(s) \in Nat /\ Distinct(s) /\ \A i \in 1..Len(s) : s[i] # k
  BY GoodFacts DEF Good, Cached, KeysOf
<1>2. d = [keys |-> t, cap |-> c.cap]
  <2>0. c = [keys |-> c.keys, cap |-> c.cap]
    BY GoodFacts
  <2>1. CASE Full(c) /\ s # <<>>
    <3>1. Evict(c) = [c EXCEPT !.keys = f]
      BY <2>1 DEF Evict, Front
    <3>2. p = f /\ d = [Evict(c) EXCEPT !.keys = <<k>> \o @]
      BY <2>1 DEF RecordAccess
    <3> DEFINE v == Evict(c)
    <3> HIDE DEF f, p, v
    <3>3. v = [keys |-> f, cap |-> c.cap]
      BY <2>0, <3>1, RecKeys DEF v
    <3>4. v = [keys |-> v.keys, cap |-> v.cap] /\ v.keys = f /\ v.cap = c.cap
      BY <3>3
    <3>5. d = [v EXCEPT !.keys = t]
      BY <3>2, <3>4 DEF v
    <3> HIDE DEF t
    <3> QED
      BY <3>4, <3>5, RecKeys
  <2>2. CASE ~(Full(c) /\ s # <<>>)
    <3>1. p = s /\ (Full(c) => Evict(c) = c)
      BY <2>2 DEF Evict
    <3>2. d = [c EXCEPT !.keys = t]
      BY <3>1 DEF RecordAccess
    <3> HIDE DEF t
    <3> QED
      BY <2>0, <3>2, RecKeys
  <2> QED
    BY <2>1, <2>2
<1>3. s # <<>> => /\ f \in Seq(Keys) /\ Len(f) = Len(s) - 1 /\ Len(s) - 1 \in Nat
                  /\ \A j \in 1..(Len(s) - 1) : f[j] = s[j]
  BY <1>1
<1> HIDE DEF f
<1>4. p \in Seq(Keys) /\ Len(p) = m /\ m \in Nat /\ m <= Len(s) /\ \A j \in 1..m : p[j] = s[j]
  BY <1>1, <1>3
<1> HIDE DEF p
<1>5. /\ t \in Seq(Keys) /\ Len(t) = m + 1 /\ t[1] = k
      /\ \A j \in 2..(m + 1) : t[j] = s[j - 1]
  BY <1>4
<1> HIDE DEF t
<1>6. Distinct(t)
  <2> HIDE DEF s
  <2> SUFFICES ASSUME NEW a \in 1..Len(t), NEW b \in 1..Len(t), t[a] = t[b], a < b PROVE FALSE
    BY <1>4, <1>5 DEF Distinct
  <2>1. b \in 2..(m + 1) /\ t[b] = s[b - 1] /\ b - 1 \in 1..Len(s)
    BY <1>1, <1>4, <1>5
  <2>2. CASE a = 1
    BY <1>1, <1>5, <2>1, <2>2
  <2>3. CASE a # 1
    <3>1. t[a] = s[a - 1] /\ a - 1 \in 1..Len(s)
      BY <1>1, <1>4, <1>5, <2>3
    <3> QED
      BY <1>1, <2>1, <3>1 DEF Distinct
  <2> QED
    BY <2>2, <2>3
<1> QED
  BY <1>2, <1>4, <1>5, <1>6, GoodFacts DEF Good, Caches

LEMMA RecordNew ==
  ASSUME NEW c, Good(c), NEW k \in Keys, ~Cached(c, k), ~Full(c)
  PROVE  /\ Good(RecordAccess(c, k)) /\ KeysOf(RecordAccess(c, k)) = KeysOf(c) \cup {k}
         /\ RecordAccess(c, k).cap = c.cap /\ Len(RecordAccess(c, k).keys) = Len(c.keys) + 1
<1> DEFINE d == RecordAccess(c, k)
           m == Len(c.keys)
           s == d.keys
<1>0. m = IF Full(c) /\ c.keys # <<>> THEN Len(c.keys) - 1 ELSE Len(c.keys)
  OBVIOUS
<1>1. /\ Good(d) /\ d.cap = c.cap /\ Len(d.keys) = m + 1 /\ m \in Nat /\ d.keys[1] = k
      /\ \A j \in 2..(m + 1) : d.keys[j] = c.keys[j - 1]
  BY <1>0, RecordIs
<1> HIDE DEF d
<1>2. ASSUME NEW x
      PROVE  (\E j \in 1..Len(s) : s[j] = x) <=> (x = k \/ \E j \in 1..m : c.keys[j] = x)
  <2>1. ASSUME NEW j \in 1..m, c.keys[j] = x PROVE \E i \in 1..Len(s) : s[i] = x
    <3>1. j + 1 \in 2..(m + 1) /\ s[j + 1] = c.keys[j]
      BY <1>1
    <3> QED
      BY <1>1, <2>1, <3>1
  <2> QED
    BY <1>1, <2>1
<1>3. KeysOf(d) = KeysOf(c) \cup {k}
  BY <1>2 DEF KeysOf
<1> QED
  BY <1>1, <1>3 DEF d

LEMMA CardKeys ==
  ASSUME NEW c, Good(c)
  PROVE  IsFiniteSet(KeysOf(c)) /\ Cardinality(KeysOf(c)) = Len(c.keys)
<1> DEFINE f == [i \in 1..Len(c.keys) |-> c.keys[i]]
<1>0. Len(c.keys) \in Nat
  BY GoodFacts
<1>1. f \in Bijection(1..Len(c.keys), KeysOf(c))
  <2>1. \A i, j \in 1..Len(c.keys) : c.keys[i] = c.keys[j] => i = j
    BY GoodFacts
  <2>2. f \in [1..Len(c.keys) -> KeysOf(c)] /\ \A i, j \in 1..Len(c.keys) : f[i] = f[j] => i = j
    BY <2>1 DEF KeysOf
  <2>3. \A x \in KeysOf(c) : \E i \in 1..Len(c.keys) : f[i] = x
    BY DEF KeysOf
  <2> HIDE DEF f
  <2> QED
    BY <2>2, <2>3 DEF Bijection, Injection, Surjection, IsInjective
<1>2. IsFiniteSet(1..Len(c.keys)) /\ Cardinality(1..Len(c.keys)) = Len(c.keys)
  BY <1>0, FS_Interval
<1>3. ExistsBijection(1..Len(c.keys), KeysOf(c))
  BY <1>1 DEF ExistsBijection
<1> QED
  BY <1>2, <1>3, FS_Bijection


\* RecordAccess of a new key by a full list drops the oldest one.
LEMMA RecordFull ==
  ASSUME NEW c, Good(c), NEW k \in Keys, ~Cached(c, k), Full(c), c.keys # <<>>
  PROVE  /\ Good(RecordAccess(c, k)) /\ Oldest(c) \in KeysOf(c)
         /\ KeysOf(RecordAccess(c, k)) = (KeysOf(c) \ {Oldest(c)}) \cup {k}
         /\ RecordAccess(c, k).cap = c.cap /\ Len(RecordAccess(c, k).keys) = Len(c.keys)
<1> DEFINE d == RecordAccess(c, k)
           n == Len(c.keys)
           m == n - 1
           s == d.keys
<1>0. n \in Nat \ {0} /\ m = IF Full(c) /\ c.keys # <<>> THEN Len(c.keys) - 1 ELSE Len(c.keys)
  BY GoodFacts
<1>1. /\ Good(d) /\ d.cap = c.cap /\ Len(d.keys) = m + 1 /\ m \in Nat /\ d.keys[1] = k
      /\ \A j \in 2..(m + 1) : d.keys[j] = c.keys[j - 1]
  <2>1. d = RecordAccess(c, k)
    OBVIOUS
  <2> HIDE DEF d, m, n
  <2> QED
    BY <1>0, <2>1, RecordIs
<1>2. Oldest(c) = c.keys[n] /\ Oldest(c) \in KeysOf(c)
  BY <1>0 DEF Oldest, Last, KeysOf
<1>3. \A i, j \in 1..n : c.keys[i] = c.keys[j] => i = j
  BY GoodFacts
<1> HIDE DEF d
<1>4. ASSUME NEW x
      PROVE  (\E j \in 1..Len(s) : s[j] = x) <=>
                (x = k \/ (x # c.keys[n] /\ \E j \in 1..n : c.keys[j] = x))
  <2>1. ASSUME NEW j \in 1..n, c.keys[j] = x, x # c.keys[n] PROVE \E i \in 1..Len(s) : s[i] = x
    <3>1. j # n /\ j + 1 \in 2..(m + 1)
      BY <1>0, <2>1
    <3>2. s[j + 1] = c.keys[j]
      BY <1>0, <1>1, <3>1
    <3> QED
      BY <1>1, <2>1, <3>1, <3>2
  <2>2. ASSUME NEW j \in 1..Len(s), s[j] = x, x # k
        PROVE  x # c.keys[n] /\ \E i \in 1..n : c.keys[i] = x
    <3>1. j \in 2..(m + 1) /\ s[j] = c.keys[j - 1] /\ j - 1 \in 1..n /\ j - 1 # n
      BY <1>0, <1>1, <2>2
    <3> QED
      BY <1>0, <1>3, <2>2, <3>1
  <2>3. x = k => \E i \in 1..Len(s) : s[i] = x
    BY <1>1
  <2> QED
    BY <2>1, <2>2, <2>3
<1>5. KeysOf(d) = (KeysOf(c) \ {Oldest(c)}) \cup {k}
  <2> HIDE DEF n
  <2>1. \A x : x \in KeysOf(d) <=> \E j \in 1..Len(s) : s[j] = x
    BY DEF KeysOf
  <2>2. \A x : x \in KeysOf(c) <=> \E j \in 1..n : c.keys[j] = x
    BY DEF KeysOf, n
  <2> QED
    BY <1>2, <1>4, <2>1, <2>2
<1>6. m + 1 = n
  BY <1>0
<1> QED
  BY <1>1, <1>2, <1>5, <1>6 DEF d

\* What RemoveRecords keeps of the first n keys of a list.
Keeps(f, s, K, n) ==
    f = [i \in 0..n |-> IF i = 0 THEN <<>>
                        ELSE IF s[i] \in K THEN f[i - 1] ELSE Append(f[i - 1], s[i])]

LEMMA KeepsExist ==
  ASSUME NEW s, NEW K, NEW n \in Nat
  PROVE  \E f : Keeps(f, s, K, n)
<1> DEFINE Ns == {k \in Nat : \E f : Keeps(f, s, K, k)}
<1>1. 0 \in Ns
  <2> DEFINE f == [i \in 0..0 |-> <<>>]
  <2>1. Keeps(f, s, K, 0)
    BY DEF Keeps
  <2> QED
    BY <2>1
<1>2. ASSUME NEW k \in Ns PROVE k + 1 \in Ns
  <2>1. PICK f : Keeps(f, s, K, k)
    OBVIOUS
  <2> DEFINE g == [i \in 0..(k + 1) |->
                     IF i = 0 THEN <<>>
                     ELSE IF s[i] \in K THEN f[i - 1] ELSE Append(f[i - 1], s[i])]
  <2>2. ASSUME NEW i \in 0..k PROVE g[i] = f[i]
    <3>1. f = [j \in 0..k |-> IF j = 0 THEN <<>>
                ELSE IF s[j] \in K THEN f[j - 1] ELSE Append(f[j - 1], s[j])]
      BY <2>1 DEF Keeps
    <3>2. f[i] = IF i = 0 THEN <<>>
                 ELSE IF s[i] \in K THEN f[i - 1] ELSE Append(f[i - 1], s[i])
      BY <3>1, Zenon
    <3>3. i \in 0..(k + 1)
      OBVIOUS
    <3> QED
      BY <3>2, <3>3
  <2>3. g = [i \in 0..(k + 1) |->
               IF i = 0 THEN <<>>
               ELSE IF s[i] \in K THEN g[i - 1] ELSE Append(g[i - 1], s[i])]
    <3>1. \A i \in 0..(k + 1) : i # 0 => g[i - 1] = f[i - 1]
      <4>1. \A i \in 0..(k + 1) : i # 0 => i - 1 \in 0..k
        OBVIOUS
      <4> HIDE DEF g
      <4> QED
        BY <2>2, <4>1
    <3> QED
      BY <3>1, Zenon
  <2> HIDE DEF g
  <2>4. Keeps(g, s, K, k + 1)
    BY <2>3 DEF Keeps
  <2> QED
    BY <2>4
<1>3. Ns = Nat
  <2>1. Ns \in SUBSET Nat
    OBVIOUS
  <2> HIDE DEF Ns
  <2> QED
    BY <1>1, <1>2, <2>1, AllNaturals
<1> QED
  BY <1>3

\* t holds the elements of s[1..n] that are not in K, each once.
Kept(t, s, K, n) ==
    /\ t \in Seq(Keys) /\ Len(t) \in Nat /\ Len(t) <= n
    /\ Distinct(t)
    /\ \A x : (\E j \in 1..Len(t) : t[j] = x) <=> (x \notin K /\ \E j \in 1..n : s[j] = x)

LEMMA KeptMore ==
  ASSUME NEW s \in Seq(Keys), Distinct(s), NEW K, NEW n \in Nat, n + 1 <= Len(s),
         NEW t, Kept(t, s, K, n), NEW r, r = IF s[n + 1] \in K THEN t ELSE Append(t, s[n + 1])
  PROVE  Kept(r, s, K, n + 1)
<1>0. n + 1 \in 1..Len(s) /\ s[n + 1] \in Keys /\ Len(s) \in Nat
  OBVIOUS
<1>1. ASSUME NEW x PROVE (\E j \in 1..(n + 1) : s[j] = x) <=> (x = s[n + 1] \/ \E j \in 1..n : s[j] = x)
  OBVIOUS
<1>2. \A j \in 1..n : s[j] # s[n + 1]
  BY <1>0 DEF Distinct
<1>3. CASE s[n + 1] \in K
  <2>1. r = t
    BY <1>3
  <2>2. \A x : (\E j \in 1..Len(t) : t[j] = x) <=> (x \notin K /\ \E j \in 1..(n + 1) : s[j] = x)
    BY <1>1, <1>3 DEF Kept
  <2>3. t \in Seq(Keys) /\ Len(t) \in Nat /\ Len(t) <= n + 1 /\ Distinct(t)
    BY DEF Kept
  <2> QED
    BY <2>1, <2>2, <2>3 DEF Kept
<1>4. CASE s[n + 1] \notin K
  <2> DEFINE y == s[n + 1]
  <2>0. t \in Seq(Keys) /\ y \in Keys /\ Len(t) \in Nat /\ Len(t) <= n /\ r = Append(t, y)
    BY <1>0, <1>4 DEF Kept
  <2> HIDE DEF y
  <2>1. /\ r \in Seq(Keys) /\ Len(r) = Len(t) + 1 /\ r[Len(t) + 1] = y
        /\ \A j \in 1..Len(t) : r[j] = t[j]
    BY <2>0
  <2>2. \A j \in 1..Len(t) : t[j] # y
    BY <1>2 DEF Kept, y
  <2>3. Distinct(r)
    <3> SUFFICES ASSUME NEW a \in 1..Len(r), NEW b \in 1..Len(r), r[a] = r[b], a < b PROVE FALSE
      BY <2>0, <2>1 DEF Distinct
    <3>1. a \in 1..Len(t) /\ r[a] = t[a]
      BY <2>0, <2>1
    <3>2. CASE b = Len(t) + 1
      BY <2>1, <2>2, <3>1, <3>2
    <3>3. CASE b # Len(t) + 1
      <4> DEFINE l == Len(t)
      <4>0. b \in Nat /\ 1 <= b /\ b <= l + 1 /\ l \in Nat /\ b # l + 1
        BY <2>0, <2>1, <3>3
      <4> HIDE DEF l
      <4>1. b \in 1..l
        BY <4>0
      <4>2. r[b] = t[b]
        BY <2>1, <4>1 DEF l
      <4> QED
        BY <3>1, <4>1, <4>2 DEF Kept, Distinct, l
    <3> QED
      BY <3>2, <3>3
  <2>4. ASSUME NEW x
        PROVE  (\E j \in 1..Len(r) : r[j] = x) <=> (x = y \/ \E j \in 1..Len(t) : t[j] = x)
    BY <2>0, <2>1
  <2>5. \A x : (\E j \in 1..Len(r) : r[j] = x) <=> (x \notin K /\ \E j \in 1..(n + 1) : s[j] = x)
    BY <1>1, <1>4, <2>4 DEF Kept, y
  <2>6. r \in Seq(Keys) /\ Len(r) \in Nat /\ Len(r) <= n + 1
    BY <2>0, <2>1
  <2> QED
    BY <2>3, <2>5, <2>6 DEF Kept
<1> QED
  BY <1>3, <1>4

LEMMA RemoveAllFacts ==
  ASSUME NEW c, Good(c), NEW K, NEW d, d = RemoveRecords(c, K)
  PROVE  /\ Good(d) /\ KeysOf(d) = KeysOf(c) \ K
         /\ d.cap = c.cap /\ Len(d.keys) <= Len(c.keys)
<1> DEFINE s == c.keys
           n == Len(s)
           f == CHOOSE g : Keeps(g, s, K, n)
<1>0. s \in Seq(Keys) /\ n \in Nat /\ Distinct(s) /\ c = [keys |-> c.keys, cap |-> c.cap] /\ c.cap \in Nat
  BY GoodFacts DEF Good
<1>1. Keeps(f, s, K, n)
  BY <1>0, KeepsExist
<1>2. d = [c EXCEPT !.keys = f[n]]
  BY DEF RemoveRecords, Keeps
<1>3. d = [keys |-> f[n], cap |-> c.cap]
  <2> HIDE DEF f, n
  <2> QED
    BY <1>0, <1>2, RecKeys
<1> HIDE DEF f, s
<1>4. /\ f[0] = <<>>
      /\ \A i \in 0..n : i # n =>
            f[i + 1] = IF s[i + 1] \in K THEN f[i] ELSE Append(f[i], s[i + 1])
  <2> HIDE DEF n
  <2>1. f = [j \in 0..n |-> IF j = 0 THEN <<>>
              ELSE IF s[j] \in K THEN f[j - 1] ELSE Append(f[j - 1], s[j])]
    BY <1>1 DEF Keeps
  <2>2. \A j \in 0..n : f[j] = IF j = 0 THEN <<>>
              ELSE IF s[j] \in K THEN f[j - 1] ELSE Append(f[j - 1], s[j])
    BY <2>1, Zenon
  <2>3. n \in Nat
    BY <1>0 DEF n
  <2>4. f[0] = <<>>
    BY <2>2, <2>3
  <2>5. ASSUME NEW i \in 0..n, i # n
        PROVE f[i + 1] = IF s[i + 1] \in K THEN f[i] ELSE Append(f[i], s[i + 1])
    <3>1. i + 1 \in 0..n /\ i + 1 # 0 /\ (i + 1) - 1 = i
      BY <2>3, <2>5
    <3> DEFINE j == i + 1
    <3>2. j \in 0..n /\ j # 0 /\ j - 1 = i
      BY <3>1
    <3> HIDE DEF j
    <3>3. f[j] = IF s[j] \in K THEN f[i] ELSE Append(f[i], s[j])
      BY <2>2, <3>2
    <3> QED
      BY <3>3 DEF j
  <2> QED
    BY <2>4, <2>5
<1> HIDE DEF n
<1> DEFINE Ns == {i \in Nat : i <= n => Kept(f[i], s, K, i)}
<1>5. 0 \in Ns
  <2>1. f[0] = <<>>
    BY <1>4
  <2>2. f[0] \in Seq(Keys) /\ Len(f[0]) = 0 /\ Distinct(f[0])
    BY <2>1 DEF Distinct
  <2>3. \A x : (\E j \in 1..Len(f[0]) : f[0][j] = x) <=> (x \notin K /\ \E j \in 1..0 : s[j] = x)
    BY <2>2
  <2> QED
    BY <2>2, <2>3 DEF Kept
<1>6. ASSUME NEW i \in Ns PROVE i + 1 \in Ns
  <2> SUFFICES ASSUME i + 1 <= n PROVE Kept(f[i + 1], s, K, i + 1)
    OBVIOUS
  <2>1. i \in 0..n /\ i # n /\ i \in Nat /\ Kept(f[i], s, K, i)
    BY <1>0
  <2>2. f[i + 1] = IF s[i + 1] \in K THEN f[i] ELSE Append(f[i], s[i + 1])
    BY <1>4, <2>1
  <2> QED
    BY <1>0, <2>1, <2>2, KeptMore DEF n
<1>7. Ns = Nat
  <2>1. Ns \in SUBSET Nat
    OBVIOUS
  <2> HIDE DEF Ns
  <2> QED
    BY <1>5, <1>6, <2>1, AllNaturals
<1>8. Kept(f[n], s, K, n)
  BY <1>0, <1>7
<1>9. d.keys = f[n] /\ d.cap = c.cap /\ d \in Caches
  BY <1>0, <1>3, <1>8 DEF Caches, Kept
<1>10. KeysOf(d) = KeysOf(c) \ K
  BY <1>8, <1>9 DEF KeysOf, Kept, s, n
<1> QED
  BY <1>8, <1>9, <1>10 DEF Good, Kept, s, n

\* A list shorter than the new capacity loses nothing.
LEMMA ResizeFacts ==
  ASSUME NEW c, Good(c), NEW n \in Nat, Len(c.keys) <= n, NEW d, d = Resize(c, n)
  PROVE  Good(d) /\ d.keys = c.keys /\ d.cap = n
<1>0. /\ c.keys \in Seq(Keys) /\ c.cap \in Nat /\ c = [keys |-> c.keys, cap |-> c.cap]
      /\ Len(c.keys) \in Nat
  BY GoodFacts
<1>1. SubSeq(c.keys, 1, Len(c.keys)) = c.keys
  BY <1>0
<1>2. (IF Len(c.keys) < n THEN Len(c.keys) ELSE n) = Len(c.keys)
  BY <1>0
<1> DEFINE a == c.keys
           b == c.cap
<1>3. d = [keys |-> a, cap |-> n]
  <2>1. CASE n > b
    BY <1>1, <1>2, <2>1 DEF Resize
  <2>2. CASE ~(n > b)
    <3>1. c = [keys |-> a, cap |-> b] /\ d = [c EXCEPT !.cap = n]
      BY <1>0, <2>2 DEF Resize
    <3> HIDE DEF a, b
    <3> QED
      BY <3>1
  <2> QED
    BY <2>1, <2>2
<1> QED
  BY <1>0, <1>3 DEF Good, Caches

\* A list within its capacity, or of one key: EvictLru may leave a capacity of 0.
Fits(c) == Len(c.keys) <= c.cap \/ Len(c.keys) <= 1

\* Resize_WithEvict below the length parts the list into what stays and what it
\* hands back.
LEMMA TrimFacts ==
  ASSUME NEW c, Good(c), NEW n \in Nat, n <= c.cap, n < Len(c.keys),
         NEW d, d = ResizeTrim(c, n), NEW out, out = TrimmedBy(c, n)
  PROVE  /\ Good(d) /\ Len(d.keys) = n /\ d.cap = n
         /\ {out[i] : i \in 1..Len(out)} \subseteq KeysOf(c)
         /\ KeysOf(d) = KeysOf(c) \ {out[i] : i \in 1..Len(out)}
<1> DEFINE s == c.keys
           p == SubSeq(s, 1, n)
           q == SubSeq(s, n + 1, Len(s))
           l == Len(s) - n
<1>0. s \in Seq(Keys) /\ Len(s) \in Nat /\ c.cap \in Nat /\ Distinct(s)
  BY GoodFacts DEF Good
<1>1. out = Reverse(q) /\ d = [keys |-> p, cap |-> n]
  <2>1. (IF Len(s) < n THEN Len(s) ELSE n) = n /\ ~(n > c.cap)
    BY <1>0
  <2> QED
    BY <2>1 DEF TrimmedBy, ResizeTrim
<1>2. l \in Nat /\ n + l = Len(s)
  BY <1>0
<1>3. p \in Seq(Keys) /\ Len(p) = n /\ \A j \in 1..n : p[j] = s[j]
  BY <1>0
<1>4. q \in Seq(Keys) /\ Len(q) = l /\ \A j \in 1..l : q[j] = s[j + n]
  BY <1>0
<1> HIDE DEF p, q, l, s
<1>5. Len(out) = l /\ \A j \in 1..l : out[j] = s[n + l + 1 - j] /\ n + l + 1 - j \in (n + 1)..Len(s)
  <2>1. out = [j \in 1..l |-> q[(l - j) + 1]]
    BY <1>1, <1>4 DEF Reverse
  <2>2. Len(out) = l
    BY <1>2, <2>1
  <2>3. ASSUME NEW j \in 1..l
        PROVE  out[j] = s[n + l + 1 - j] /\ n + l + 1 - j \in (n + 1)..Len(s)
    <3>1. (l - j) + 1 \in 1..l /\ (l - j) + 1 + n = n + l + 1 - j
      BY <1>2
    <3>2. out[j] = q[(l - j) + 1]
      BY <2>1
    <3> QED
      BY <1>2, <1>4, <3>1, <3>2
  <2> QED
    BY <2>2, <2>3
<1>6. d.keys = p /\ d.cap = n /\ Good(d) /\ Len(d.keys) = n
  BY <1>0, <1>1, <1>2, <1>3 DEF Good, Caches, Distinct
<1>7. \A x : x \in KeysOf(d) <=> \E j \in 1..n : s[j] = x
  BY <1>3, <1>6 DEF KeysOf
<1>8. \A x : x \in KeysOf(c) <=> \E j \in 1..Len(s) : s[j] = x
  BY DEF KeysOf, s
<1> DEFINE K == {out[i] : i \in 1..Len(out)}
<1>9. \A x : x \in K <=> \E j \in (n + 1)..Len(s) : s[j] = x
  <2>1. ASSUME NEW i \in 1..Len(out) PROVE \E j \in (n + 1)..Len(s) : s[j] = out[i]
    BY <1>5
  <2>2. ASSUME NEW j \in (n + 1)..Len(s) PROVE \E i \in 1..Len(out) : s[j] = out[i]
    <3>1. n + l + 1 - j \in 1..l /\ n + l + 1 - (n + l + 1 - j) = j
      BY <1>2
    <3> QED
      BY <1>5, <3>1
  <2>3. ASSUME NEW x, x \in K PROVE \E j \in (n + 1)..Len(s) : s[j] = x
    <3>1. PICK i \in 1..Len(out) : x = out[i]
      BY <2>3
    <3> QED
      BY <2>1, <3>1
  <2>4. ASSUME NEW j \in (n + 1)..Len(s) PROVE s[j] \in K
    BY <2>2
  <2> HIDE DEF K
  <2> QED
    BY <2>3, <2>4, Zenon
<1> HIDE DEF K
<1>10. K \subseteq KeysOf(c)
  BY <1>2, <1>8, <1>9
<1>11. ASSUME NEW x PROVE x \in KeysOf(d) <=> (x \in KeysOf(c) /\ x \notin K)
  <2>1. ASSUME NEW j \in 1..n, s[j] = x PROVE x \in KeysOf(c) /\ x \notin K
    BY <1>0, <1>2, <1>8, <1>9, <2>1 DEF Distinct, s
  <2>2. ASSUME x \in KeysOf(c), x \notin K PROVE x \in KeysOf(d)
    <3>1. PICK j \in 1..Len(s) : s[j] = x
      BY <1>8, <2>2
    <3>2. j \in 1..n
      BY <1>0, <1>2, <1>9, <2>2, <3>1
    <3> QED
      BY <1>7, <3>1, <3>2
  <2>3. ASSUME x \in KeysOf(d) PROVE x \in KeysOf(c) /\ x \notin K
    <3>1. PICK j \in 1..n : s[j] = x
      BY <1>7, <2>3
    <3> QED
      BY <2>1, <3>1
  <2> QED
    BY <2>2, <2>3
<1> QED
  BY <1>6, <1>10, <1>11 DEF K

-----------------------------------------------------------------------------
(* The bookkeeping: what total_size_bytes_ adds up to.                      *)

Sizes(s) == \A k \in Keys : s.index[k] = NoEntry \/ s.index[k].format \in Formats

LEMMA FormatsAre ==
  /\ \A f \in Formats : f = "main" \/ f = "bmp"
  /\ "none" \notin Formats
  BY DiskCacheAssumption

LEMMA NotNone == ASSUME NEW x, x.format \in Formats PROVE x # NoEntry
<1>1. NoEntry.format = "none"
  BY DEF NoEntry
<1> QED
  BY <1>1, FormatsAre

\* Bmp(s, K) are those of K that count twice.
Bmp(s, K) == {k \in K : s.index[k].format = "bmp"}

LEMMA SizeIs ==
  ASSUME NEW s, NEW K, IsFiniteSet(K)
  PROVE  /\ IsFiniteSet(Bmp(s, K)) /\ Cardinality(K) \in Nat /\ Cardinality(Bmp(s, K)) \in Nat
         /\ SizeOf(s, K) = Cardinality(K) + Cardinality(Bmp(s, K))
         /\ SizeOf(s, K) \in Nat
<1>1. IsFiniteSet(Bmp(s, K))
  <2>1. Bmp(s, K) \in SUBSET K
    BY DEF Bmp
  <2> QED
    BY <2>1, FS_Subset
<1>2. Cardinality(K) \in Nat /\ Cardinality(Bmp(s, K)) \in Nat
  BY <1>1, FS_CardinalityType
<1>3. SizeOf(s, K) = Cardinality(K) + Cardinality(Bmp(s, K))
  BY DEF SizeOf, Bmp
<1> QED
  BY <1>1, <1>2, <1>3

\* Entries taken away take their size with them.
LEMMA SizeLess ==
  ASSUME NEW s, NEW K, IsFiniteSet(K), NEW G \in SUBSET K
  PROVE  IsFiniteSet(K \ G) /\ SizeOf(s, K \ G) = SizeOf(s, K) - SizeOf(s, G)
<1>1. IsFiniteSet(G)
  BY FS_Subset
<1>2. K \cap G = G /\ Bmp(s, K \ G) = Bmp(s, K) \ Bmp(s, G)
      /\ Bmp(s, K) \cap Bmp(s, G) = Bmp(s, G)
  BY DEF Bmp
<1>3. IsFiniteSet(K \ G) /\ Cardinality(K \ G) = Cardinality(K) - Cardinality(G)
  <2>1. IsFiniteSet(K \ G) /\ Cardinality(K \ G) = Cardinality(K) - Cardinality(K \cap G)
    BY FS_Difference
  <2> QED
    BY <1>2, <2>1
<1>4. Cardinality(Bmp(s, K \ G)) = Cardinality(Bmp(s, K)) - Cardinality(Bmp(s, G))
  <2> DEFINE B == Bmp(s, K)
             H == Bmp(s, G)
  <2>1. IsFiniteSet(B) /\ B \cap H = H /\ Bmp(s, K \ G) = B \ H
    BY <1>2, SizeIs
  <2> HIDE DEF B, H
  <2>2. Cardinality(B \ H) = Cardinality(B) - Cardinality(B \cap H)
    BY <2>1, FS_Difference
  <2>3. Cardinality(Bmp(s, K \ G)) = Cardinality(B) - Cardinality(H)
    BY <2>1, <2>2
  <2> QED
    BY <2>3 DEF B, H
<1>5. /\ SizeOf(s, K) = Cardinality(K) + Cardinality(Bmp(s, K))
      /\ Cardinality(K) \in Nat /\ Cardinality(Bmp(s, K)) \in Nat
  BY SizeIs
<1>6. /\ SizeOf(s, G) = Cardinality(G) + Cardinality(Bmp(s, G))
      /\ Cardinality(G) \in Nat /\ Cardinality(Bmp(s, G)) \in Nat
  BY <1>1, SizeIs
<1>7. SizeOf(s, K \ G) = Cardinality(K \ G) + Cardinality(Bmp(s, K \ G))
  BY <1>3, SizeIs
<1> QED
  BY <1>3, <1>4, <1>5, <1>6, <1>7

LEMMA SizeOne ==
  ASSUME NEW s, NEW k, s.index[k].format \in Formats
  PROVE  SizeOf(s, {k}) = Bytes(s.index[k].format)
<1>1. IsFiniteSet({k}) /\ Cardinality({k}) = 1 /\ Cardinality({}) = 0
  BY FS_Singleton, FS_EmptySet
<1>2. s.index[k].format = "main" \/ s.index[k].format = "bmp"
  BY FormatsAre
<1>3. Bmp(s, {k}) = IF s.index[k].format = "bmp" THEN {k} ELSE {}
  BY DEF Bmp
<1>4. SizeOf(s, {k}) = Cardinality({k}) + Cardinality(Bmp(s, {k}))
  BY <1>1, SizeIs
<1>5. CASE s.index[k].format = "bmp"
  <2>1. Bmp(s, {k}) = {k}
    BY <1>3, <1>5
  <2> QED
    BY <1>1, <1>4, <1>5, <2>1 DEF Bytes
<1>6. CASE s.index[k].format = "main"
  <2>1. Bmp(s, {k}) = {}
    BY <1>3, <1>6
  <2> QED
    BY <1>1, <1>4, <1>6, <2>1 DEF Bytes
<1> QED
  BY <1>2, <1>5, <1>6

LEMMA SizeSame ==
  ASSUME NEW s, NEW t, NEW K, \A k \in K : t.index[k].format = s.index[k].format
  PROVE  SizeOf(t, K) = SizeOf(s, K)
<1>1. {k \in K : t.index[k].format = "bmp"} = {k \in K : s.index[k].format = "bmp"}
  OBVIOUS
<1> QED
  BY <1>1 DEF SizeOf

\* An entry more takes its size.
LEMMA SizeMore ==
  ASSUME NEW s, NEW K, IsFiniteSet(K), NEW k, k \notin K, s.index[k].format \in Formats
  PROVE  /\ IsFiniteSet(K \cup {k})
         /\ SizeOf(s, K \cup {k}) = SizeOf(s, K) + Bytes(s.index[k].format)
<1> DEFINE A == K \cup {k}
<1>1. IsFiniteSet(A) /\ A \ {k} = K /\ {k} \in SUBSET A
  BY FS_AddElement
<1>2. SizeOf(s, A \ {k}) = SizeOf(s, A) - SizeOf(s, {k})
  BY <1>1, SizeLess
<1>3. SizeOf(s, A) \in Nat /\ SizeOf(s, K) \in Nat
  BY <1>1, SizeIs
<1>4. SizeOf(s, {k}) = Bytes(s.index[k].format) /\ Bytes(s.index[k].format) \in Nat
  BY SizeOne DEF Bytes
<1> HIDE DEF A
<1>5. SizeOf(s, A) = SizeOf(s, K) + Bytes(s.index[k].format)
  <2> DEFINE a == SizeOf(s, A)
             b == SizeOf(s, K)
             x == Bytes(s.index[k].format)
  <2>1. SizeOf(s, A \ {k}) = b
    BY <1>1
  <2>2. b = a - x /\ a \in Nat /\ b \in Nat /\ x \in Nat
    BY <1>2, <1>3, <1>4, <2>1
  <2> HIDE DEF a, b, x
  <2>3. a = b + x
    BY <2>2
  <2> QED
    BY <2>3 DEF a, b, x
<1> QED
  BY <1>1, <1>5 DEF A

-----------------------------------------------------------------------------
(* The index operations keep the books.                                     *)

\* Types and sizes agree with the index, whatever the list is.
Booked(s) ==
    /\ IsEntries(s) /\ Sizes(s) /\ s.file = [p \in Paths |-> s.file[p]]
    /\ IsFiniteSet(Indexed(s)) /\ s.total = SizeOf(s, Indexed(s))

\* The list agrees with the index too.
Shape(s) ==
    /\ Booked(s)
    /\ Good(s.lru) /\ Fits(s.lru) /\ KeysOf(s.lru) = Indexed(s)

\* t is s with some entries and some files gone.
Erased(t, s) == Fewer(t, s) /\ \A p \in Paths : t.file[p] = s.file[p] \/ t.file[p] = NoFile

LEMMA ErasedSelf == ASSUME NEW s, IsEntries(s) PROVE Erased(s, s)
  BY DEF Erased, Fewer

LEMMA ErasedTwice ==
  ASSUME NEW r, NEW t, NEW s, Erased(r, t), Erased(t, s)
  PROVE  Erased(r, s)
<1>1. Fewer(r, s)
  BY FewerOfFewer DEF Erased
<1> QED
  BY <1>1 DEF Erased

\* Replacing the list changes nothing else.
LEMMA LruSet ==
  ASSUME NEW s, IsEntries(s), NEW l, NEW t, t = [s EXCEPT !.lru = l]
  PROVE  /\ IsEntries(t) /\ t.index = s.index /\ t.total = s.total /\ t.file = s.file
         /\ t.lru = l /\ Indexed(t) = Indexed(s) /\ Erased(t, s)
         /\ Booked(s) => Booked(t)
<1> DEFINE a == s.index
           b == s.total
           c == s.file
<1>0. s = [index |-> a, lru |-> s.lru, total |-> b, file |-> c] /\ IsIndex(a)
  BY DEF IsEntries
<1> HIDE DEF a, b, c
<1>1. t = [index |-> a, lru |-> l, total |-> b, file |-> c] /\ t.lru = l
  BY <1>0
<1>2. t.index = a /\ t.total = b /\ t.file = c
  BY <1>1
<1>3. IsEntries(t)
  BY <1>0, <1>1, <1>2 DEF IsEntries
<1>4. Indexed(t) = Indexed(s)
  BY <1>2 DEF Indexed, a
<1>5. SizeOf(t, Indexed(t)) = SizeOf(s, Indexed(s))
  BY <1>2, <1>4 DEF SizeOf, a
<1>6. Erased(t, s)
  BY <1>2, <1>3 DEF Erased, Fewer, a, c
<1>7. Booked(s) => Booked(t)
  BY <1>2, <1>3, <1>4, <1>5 DEF Booked, Sizes, a, b, c
<1> QED
  BY <1>1, <1>2, <1>3, <1>4, <1>6, <1>7 DEF a, b, c

LEMMA DropBooks ==
  ASSUME NEW s, Booked(s), NEW K, NEW t, t = DropEntries(s, K)
  PROVE  /\ Booked(t) /\ Indexed(t) = Indexed(s) \ K /\ t.lru = s.lru /\ Erased(t, s)
<1> DEFINE gone == K \cap Indexed(s)
           A == Indexed(s)
<1>1. /\ t.index = [k \in Keys |-> IF k \in gone THEN NoEntry ELSE s.index[k]]
      /\ t.lru = s.lru /\ t.total = s.total - SizeOf(s, gone)
      /\ t.file = [p \in Paths |-> IF \E k \in gone : p = PathOf(s, k) THEN NoFile ELSE s.file[p]]
      /\ IsEntries(t)
  <2>1. IsIndex(t.index)
    BY DEF DropEntries, IsIndex
  <2> QED
    BY <2>1 DEF DropEntries, IsEntries
<1>2. Indexed(t) = A \ K
  BY <1>1 DEF Indexed
<1>3. A \ K = A \ gone /\ gone \in SUBSET A /\ IsFiniteSet(A) /\ s.total = SizeOf(s, A)
  BY DEF Booked
<1>4. IsFiniteSet(A \ gone) /\ SizeOf(s, A \ gone) = SizeOf(s, A) - SizeOf(s, gone)
  BY <1>3, SizeLess
<1>5. \A k \in A \ gone : t.index[k].format = s.index[k].format
  BY <1>1 DEF Indexed
<1>6. SizeOf(t, A \ gone) = SizeOf(s, A \ gone)
  BY <1>5, SizeSame
<1>7. t.total = SizeOf(t, Indexed(t)) /\ IsFiniteSet(Indexed(t))
  BY <1>1, <1>2, <1>3, <1>4, <1>6
<1>8. Sizes(t)
  BY <1>1 DEF Sizes, Booked
<1>9. t.file = [p \in Paths |-> t.file[p]]
  BY <1>1
<1>10. Erased(t, s)
  BY <1>1 DEF Erased, Fewer
<1> QED
  BY <1>1, <1>2, <1>7, <1>8, <1>9, <1>10 DEF Booked

\* Recording an access of an indexed key: the key it evicts leaves the index too.
LEMMA RecordShape ==
  ASSUME NEW s, Booked(s), Good(s.lru), Fits(s.lru), NEW k \in Keys,
         Indexed(s) = KeysOf(s.lru) \cup {k}, NEW t, t = RecordLruAccess(s, k)
  PROVE  /\ Shape(t) /\ Erased(t, s) /\ t.lru.cap = s.lru.cap
         /\ k \in KeysOf(s.lru) => Len(t.lru.keys) = Len(s.lru.keys)
<1> DEFINE c == s.lru
           d == RecordAccess(c, k)
           out == EvictedBy(c, k)
           moved == [s EXCEPT !.lru = d]
<1>0. IsEntries(s)
  BY DEF Booked
<1>1. t = IF out = None THEN moved ELSE DropEntries(moved, {out})
  <2>1. [s EXCEPT !.lru = RecordAccess(@, k)] = moved
    BY <1>0 DEF IsEntries
  <2> HIDE DEF moved, out
  <2> QED
    BY <2>1 DEF RecordLruAccess, out
<1>m. moved = [s EXCEPT !.lru = d]
  OBVIOUS
<1> HIDE DEF moved, d
<1>2. Booked(moved) /\ moved.lru = d /\ Indexed(moved) = Indexed(s) /\ Erased(moved, s)
  BY <1>0, <1>m, LruSet
<1>3. ASSUME out = None, Good(d), Fits(d), KeysOf(d) = KeysOf(c) \cup {k}
      PROVE  Shape(t) /\ Erased(t, s) /\ t.lru = d
  BY <1>1, <1>2, <1>3 DEF Shape
<1>4. CASE Cached(c, k)
  <2>1. out = None /\ d = MoveToFront(c, k) /\ k \in KeysOf(c)
    BY <1>4 DEF EvictedBy, RecordAccess, d, Cached
  <2>2. /\ Good(d) /\ KeysOf(d) = KeysOf(c) \cup {k} /\ d.cap = c.cap
        /\ Len(d.keys) = Len(c.keys)
    BY <1>4, <2>1, MoveFacts
  <2> QED
    BY <1>3, <2>1, <2>2 DEF Fits
<1>5. CASE ~Cached(c, k) /\ ~Full(c)
  <2>1. out = None /\ k \notin KeysOf(c)
    BY <1>5 DEF EvictedBy, Cached
  <2>2. /\ Good(d) /\ KeysOf(d) = KeysOf(c) \cup {k} /\ d.cap = c.cap
        /\ Len(d.keys) = Len(c.keys) + 1
    BY <1>5, RecordNew DEF d
  <2>3. Fits(d)
    BY <1>5, <2>2, GoodFacts DEF Fits, Full
  <2> QED
    BY <1>3, <2>1, <2>2, <2>3
<1>6. CASE ~Cached(c, k) /\ Full(c) /\ c.keys = <<>>
  <2>1. out = None /\ k \notin KeysOf(c)
    BY <1>6 DEF EvictedBy, Cached, Oldest
  <2> DEFINE m == 0
  <2>2. m = IF Full(c) /\ c.keys # <<>> THEN Len(c.keys) - 1 ELSE Len(c.keys)
    BY <1>6
  <2>8. m = 0
    OBVIOUS
  <2> HIDE DEF m
  <2>3. /\ Good(d) /\ d.cap = c.cap /\ Len(d.keys) = m + 1 /\ d.keys[1] = k
    <3>1. d = RecordAccess(c, k) /\ Good(c) /\ ~Cached(c, k)
      BY <1>6 DEF d
    <3> HIDE DEF c
    <3> QED
      BY <2>2, <3>1, RecordIs
  <2>4. KeysOf(d) = {k} /\ KeysOf(c) = {}
    BY <1>6, <2>3, <2>8 DEF KeysOf
  <2> QED
    BY <1>3, <2>1, <2>3, <2>4, <2>8 DEF Fits
<1>7. CASE ~Cached(c, k) /\ Full(c) /\ c.keys # <<>>
  <2>1. /\ Good(d) /\ Oldest(c) \in KeysOf(c)
        /\ KeysOf(d) = (KeysOf(c) \ {Oldest(c)}) \cup {k}
        /\ d.cap = c.cap /\ Len(d.keys) = Len(c.keys)
    BY <1>7, RecordFull DEF d
  <2>2. out = Oldest(c) /\ k \notin KeysOf(c)
    BY <1>7 DEF EvictedBy, Cached
  <2>3. out \in Keys /\ out # None
    <3>1. out \in Keys
      BY <2>1, <2>2, GoodFacts DEF KeysOf
    <3> QED
      BY <3>1, DiskCacheAssumption DEF Keys
  <2> HIDE DEF out
  <2>4. t = DropEntries(moved, {out})
    BY <1>1, <2>3
  <2>5. Booked(t) /\ Indexed(t) = Indexed(moved) \ {out} /\ t.lru = d /\ Erased(t, moved)
    BY <1>2, <2>4, DropBooks
  <2>6. KeysOf(d) = Indexed(t)
    BY <1>2, <2>1, <2>2, <2>5
  <2>7. Fits(d)
    BY <2>1 DEF Fits
  <2> QED
    BY <1>2, <2>1, <2>2, <2>5, <2>6, <2>7, ErasedTwice DEF Shape
<1> QED
  BY <1>4, <1>5, <1>6, <1>7

LEMMA RemoveShape ==
  ASSUME NEW s, Shape(s), NEW K, NEW t, t = RemoveEntries(s, K)
  PROVE  /\ Shape(t) /\ Erased(t, s) /\ Indexed(t) = Indexed(s) \ K
         /\ Len(t.lru.keys) <= Len(s.lru.keys)
<1> DEFINE u == DropEntries(s, K)
           l == RemoveRecords(s.lru, K)
<1>1. Booked(u) /\ Indexed(u) = Indexed(s) \ K /\ u.lru = s.lru /\ Erased(u, s)
  BY DropBooks DEF Shape
<1>2. t = [u EXCEPT !.lru = l]
  <2>1. t = [u EXCEPT !.lru = RemoveRecords(u.lru, K)]
    BY DEF RemoveEntries
  <2> HIDE DEF u
  <2> QED
    BY <1>1, <2>1
<1>3. /\ Good(l) /\ KeysOf(l) = KeysOf(s.lru) \ K /\ l.cap = s.lru.cap
      /\ Len(l.keys) <= Len(s.lru.keys)
  BY RemoveAllFacts DEF Shape
<1> HIDE DEF u, l
<1>6. IsEntries(u)
  BY <1>1 DEF Booked
<1>4. Booked(t) /\ t.lru = l /\ Indexed(t) = Indexed(u) /\ Erased(t, u)
  BY <1>1, <1>2, <1>6, LruSet
<1>5. Fits(l)
  BY <1>3, GoodFacts DEF Fits, Shape
<1> QED
  BY <1>1, <1>3, <1>4, <1>5, ErasedTwice DEF Shape

LEMMA EvictShape ==
  ASSUME NEW s, Shape(s), NEW n \in Nat, NEW t, t = EvictLru(s, n)
  PROVE  Shape(t) /\ Erased(t, s) /\ Len(t.lru.keys) <= n /\ Len(t.lru.keys) <= Len(s.lru.keys)
<1> DEFINE c == s.lru
           d == ResizeTrim(c, n)
           out == TrimmedBy(c, n)
           K == {out[i] : i \in 1..Len(out)}
           u == DropEntries(s, K)
<1>0. Good(c) /\ Cardinality(Indexed(s)) = Len(c.keys) /\ Len(c.keys) \in Nat /\ c.cap \in Nat
  BY CardKeys, GoodFacts DEF Shape
<1>1. CASE Cardinality(Indexed(s)) <= n
  BY <1>0, <1>1, ErasedSelf DEF EvictLru, Shape, Booked
<1>2. CASE ~(Cardinality(Indexed(s)) <= n)
  <2>1. n < Len(c.keys) /\ n <= c.cap
    BY <1>0, <1>2 DEF Shape, Fits
  <2>2. Good(d) /\ Len(d.keys) = n /\ d.cap = n /\ KeysOf(d) = KeysOf(c) \ K
    BY <1>0, <2>1, TrimFacts
  <2>3. t = [u EXCEPT !.lru = ResizeTrim(@, n)]
    BY <1>2 DEF EvictLru
  <2>4. Booked(u) /\ Indexed(u) = Indexed(s) \ K /\ u.lru = c /\ Erased(u, s)
    BY DropBooks DEF Shape
  <2> HIDE DEF u, K
  <2>5. t = [u EXCEPT !.lru = d]
    BY <2>3, <2>4
  <2> HIDE DEF d, out
  <2>9. IsEntries(u)
    BY <2>4 DEF Booked
  <2>6. Booked(t) /\ t.lru = d /\ Indexed(t) = Indexed(u) /\ Erased(t, u)
    BY <2>4, <2>5, <2>9, LruSet
  <2>7. Fits(d)
    BY <2>2 DEF Fits
  <2>8. KeysOf(d) = Indexed(t)
    BY <2>2, <2>4, <2>6 DEF Shape
  <2> QED
    BY <1>0, <2>1, <2>2, <2>4, <2>6, <2>7, <2>8, ErasedTwice DEF Shape
<1> QED
  BY <1>1, <1>2

LEMMA ResizedShape ==
  ASSUME Shape(Entries), NEW n \in Nat \ {0}, NEW t, t = Resized(n)
  PROVE  Shape(t) /\ Erased(t, Entries) /\ Len(t.lru.keys) <= n
<1> DEFINE s == Entries
           l == Resize(s.lru, n)
<1>0. Good(s.lru) /\ Cardinality(Indexed(s)) = Len(s.lru.keys) /\ Len(s.lru.keys) \in Nat
  BY CardKeys, GoodFacts DEF Shape
<1>1. CASE Cardinality(Indexed(s)) > n
  BY <1>1, EvictShape DEF Resized
<1>2. CASE ~(Cardinality(Indexed(s)) > n)
  <2>1. Len(s.lru.keys) <= n
    BY <1>0, <1>2
  <2>2. Good(l) /\ l.keys = s.lru.keys /\ l.cap = n
    BY <1>0, <2>1, ResizeFacts
  <2>3. t = [s EXCEPT !.lru = l]
    BY <1>2 DEF Resized, Entries
  <2> HIDE DEF l, s
  <2>6. IsEntries(s) /\ Booked(s)
    BY DEF Booked, Shape, s
  <2>4. Booked(t) /\ t.lru = l /\ Indexed(t) = Indexed(s) /\ Erased(t, s)
    BY <2>3, <2>6, LruSet
  <2>5. Fits(l) /\ KeysOf(l) = KeysOf(s.lru)
    BY <2>1, <2>2 DEF Fits, KeysOf
  <2> QED
    BY <2>1, <2>2, <2>4, <2>5 DEF Shape, s
<1> QED
  BY <1>1, <1>2

\* Put takes the entry's size in, and that of the one it replaces out.
LEMMA PutShape ==
  ASSUME NEW s, Shape(s), NEW k \in Keys, NEW entry, entry.format \in Formats,
         NEW t, t = Put(s, k, entry)
  PROVE  /\ Shape(t) /\ t.lru.cap = s.lru.cap
         /\ \A j \in Keys : \/ t.index[j] = NoEntry
                            \/ t.index[j] = IF j = k THEN entry ELSE s.index[j]
         /\ \A p \in Paths : t.file[p] = s.file[p] \/ t.file[p] = NoFile
<1> DEFINE old == IF s.index[k] = NoEntry THEN 0 ELSE Bytes(s.index[k].format)
           u == [index |-> [s.index EXCEPT ![k] = entry], lru |-> s.lru,
                 total |-> s.total - old + Bytes(entry.format), file |-> s.file]
           A == Indexed(s)
<1>1. t = RecordLruAccess(u, k)
  BY DEF Put
<1>2. s.index = [j \in Keys |-> s.index[j]] /\ entry # NoEntry
  BY NotNone DEF Shape, Booked, IsEntries, IsIndex
<1>3. /\ u.index = [s.index EXCEPT ![k] = entry] /\ u.lru = s.lru /\ u.file = s.file
      /\ u.total = s.total - old + Bytes(entry.format)
      /\ u = [index |-> u.index, lru |-> u.lru, total |-> u.total, file |-> u.file]
  OBVIOUS
<1> HIDE DEF u
<1>4. \A j \in Keys : u.index[j] = IF j = k THEN entry ELSE s.index[j]
  BY <1>2, <1>3
<1>5. u.index = [j \in Keys |-> u.index[j]]
  BY <1>2, <1>3
<1>6. Indexed(u) = A \cup {k}
  BY <1>2, <1>4 DEF Indexed
<1>7. IsFiniteSet(A) /\ s.total = SizeOf(s, A) /\ Sizes(s)
  BY DEF Shape, Booked
<1>8. IsFiniteSet(A \ {k}) /\ SizeOf(s, A \ {k}) = SizeOf(s, A) - old
  <2>0. SizeOf(s, A) \in Nat
    BY <1>7, SizeIs
  <2>1. CASE k \in A
    <3>1. s.index[k] # NoEntry /\ s.index[k].format \in Formats
      BY <1>7, <2>1 DEF Indexed, Sizes
    <3>2. SizeOf(s, {k}) = Bytes(s.index[k].format) /\ old = Bytes(s.index[k].format)
      BY <3>1, SizeOne
    <3> QED
      BY <1>7, <2>1, <3>2, SizeLess
  <2>2. CASE k \notin A
    <3>1. A \ {k} = A /\ old = 0
      BY <2>2 DEF Indexed
    <3> QED
      BY <1>7, <2>0, <3>1
  <2> QED
    BY <2>1, <2>2
<1>9. \A j \in A \ {k} : u.index[j].format = s.index[j].format
  BY <1>4 DEF Indexed
<1>10. SizeOf(u, A \ {k}) = SizeOf(s, A \ {k})
  BY <1>9, SizeSame
<1>11. /\ IsFiniteSet((A \ {k}) \cup {k})
       /\ SizeOf(u, (A \ {k}) \cup {k}) = SizeOf(u, A \ {k}) + Bytes(u.index[k].format)
  BY <1>4, <1>8, SizeMore
<1>12. (A \ {k}) \cup {k} = Indexed(u) /\ u.index[k] = entry
  BY <1>4, <1>6
<1>13. u.total = SizeOf(u, Indexed(u)) /\ IsFiniteSet(Indexed(u))
  <2> HIDE DEF A, old
  <2> QED
    BY <1>3, <1>7, <1>8, <1>10, <1>11, <1>12
<1>14. Booked(u)
  <2>1. IsEntries(u)
    BY <1>3, <1>5 DEF IsEntries, IsIndex
  <2>2. Sizes(u)
    BY <1>4, <1>7 DEF Sizes
  <2>3. u.file = [p \in Paths |-> u.file[p]]
    BY <1>3 DEF Shape, Booked
  <2> QED
    BY <1>13, <2>1, <2>2, <2>3 DEF Booked
<1>15. Good(u.lru) /\ Fits(u.lru) /\ Indexed(u) = KeysOf(u.lru) \cup {k}
  BY <1>3, <1>6 DEF Shape
<1>16. Shape(t) /\ Erased(t, u) /\ t.lru.cap = u.lru.cap
  BY <1>1, <1>14, <1>15, RecordShape
<1> QED
  BY <1>3, <1>4, <1>16 DEF Erased, Fewer

-----------------------------------------------------------------------------
(* The metadata: what a snapshot lists, and what Initialize makes of a list. *)

MetaFiles == {Garbled} \cup {{l} : l \in Seq(Paths)}

LEMMA ListedIs ==
  ASSUME NEW s, Shape(s), NEW l, l = Listed(s)
  PROVE  /\ l \in Seq(Paths)
         /\ \A i \in 1..Len(l) : \E k \in Indexed(s) : l[i] = PathOf(s, k)
<1> DEFINE d == RemoveRecords(s.lru, Keys \ Indexed(s))
           in == d.keys
           n == Len(in)
<1>1. Good(d) /\ KeysOf(d) = Indexed(s)
  <2>1. Good(d) /\ KeysOf(d) = KeysOf(s.lru) \ (Keys \ Indexed(s))
    BY RemoveAllFacts DEF Shape
  <2>2. KeysOf(s.lru) = Indexed(s) /\ Indexed(s) \subseteq Keys
    BY DEF Shape, Indexed
  <2> QED
    BY <2>1, <2>2
<1>2. n \in Nat /\ \A j \in 1..n : in[j] \in Indexed(s)
  BY <1>1, GoodFacts DEF KeysOf
<1>3. l = [i \in 1..n |-> PathOf(s, in[n + 1 - i])]
  BY DEF Listed
<1>4. \A k \in Indexed(s) : PathOf(s, k) \in Paths
  BY DEF Indexed, PathOf, Paths, Shape, Booked, Sizes
<1> HIDE DEF in, n, d
<1>5. \A i \in 1..n : n + 1 - i \in 1..n
  BY <1>2
<1>6. Len(l) = n /\ \A i \in 1..n : \E k \in Indexed(s) : l[i] = PathOf(s, k)
  BY <1>2, <1>3, <1>5
<1>7. l \in Seq(Paths)
  BY <1>2, <1>3, <1>4, <1>5
<1> QED
  BY <1>6, <1>7

\* The entries of Initialize, one listed path after the other.
Loaded(s, p) == IF s.file[p] = NoFile THEN s ELSE Put(s, p[1], [format |-> p[2]])

Loads(f, s, list, n) ==
    f = [i \in 0..n |-> IF i = 0 THEN s
                        ELSE IF f[i - 1].file[list[i]] = NoFile THEN f[i - 1]
                        ELSE Put(f[i - 1], list[i][1], [format |-> list[i][2]])]

LEMMA LoadsExist ==
  ASSUME NEW s, NEW list, NEW n \in Nat
  PROVE  \E f : Loads(f, s, list, n)
<1> DEFINE Ns == {k \in Nat : \E f : Loads(f, s, list, k)}
<1>1. 0 \in Ns
  <2> DEFINE f == [i \in 0..0 |-> s]
  <2>1. Loads(f, s, list, 0)
    BY DEF Loads
  <2> QED
    BY <2>1
<1>2. ASSUME NEW k \in Ns PROVE k + 1 \in Ns
  <2>1. PICK f : Loads(f, s, list, k)
    OBVIOUS
  <2> DEFINE g == [i \in 0..(k + 1) |->
                     IF i = 0 THEN s
                     ELSE IF f[i - 1].file[list[i]] = NoFile THEN f[i - 1]
                     ELSE Put(f[i - 1], list[i][1], [format |-> list[i][2]])]
  <2>2. ASSUME NEW i \in 0..k PROVE g[i] = f[i]
    <3>1. f[i] = IF i = 0 THEN s
                 ELSE IF f[i - 1].file[list[i]] = NoFile THEN f[i - 1]
                 ELSE Put(f[i - 1], list[i][1], [format |-> list[i][2]])
      BY <2>1, Zenon DEF Loads
    <3>2. i \in 0..(k + 1)
      OBVIOUS
    <3> QED
      BY <3>1, <3>2, Zenon
  <2>3. g = [i \in 0..(k + 1) |->
               IF i = 0 THEN s
               ELSE IF g[i - 1].file[list[i]] = NoFile THEN g[i - 1]
               ELSE Put(g[i - 1], list[i][1], [format |-> list[i][2]])]
    <3>1. \A i \in 0..(k + 1) : i # 0 => g[i - 1] = f[i - 1]
      <4>1. \A i \in 0..(k + 1) : i # 0 => i - 1 \in 0..k
        OBVIOUS
      <4> HIDE DEF g
      <4> QED
        BY <2>2, <4>1
    <3> QED
      BY <3>1, Zenon
  <2> HIDE DEF g
  <2>4. Loads(g, s, list, k + 1)
    BY <2>3 DEF Loads
  <2> QED
    BY <2>4
<1>3. Ns = Nat
  <2>1. Ns \in SUBSET Nat
    OBVIOUS
  <2> HIDE DEF Ns
  <2> QED
    BY <1>1, <1>2, <2>1, AllNaturals
<1> QED
  BY <1>3

LEMMA LoadListIs ==
  ASSUME NEW s, NEW list \in Seq(Paths)
  PROVE  \E f : /\ f[0] = s /\ LoadList(s, {list}) = f[Len(list)]
                /\ \A i \in 1..Len(list) : f[i] = Loaded(f[i - 1], list[i])
<1> DEFINE n == Len(list)
           L == CHOOSE l \in {list} : TRUE
           f == CHOOSE g : Loads(g, s, L, Len(L))
<1>0. n \in Nat /\ L = list
  OBVIOUS
<1>2. LoadList(s, {list}) = f[Len(L)]
  BY DEF LoadList, Loads
<1> HIDE DEF L
<1>1. Loads(f, s, L, Len(L))
  BY <1>0, LoadsExist
<1> HIDE DEF f
<1>6. Loads(f, s, list, n) /\ LoadList(s, {list}) = f[n]
  BY <1>0, <1>1, <1>2
<1>3. \A i \in 0..n : f[i] = IF i = 0 THEN s
                             ELSE IF f[i - 1].file[list[i]] = NoFile THEN f[i - 1]
                             ELSE Put(f[i - 1], list[i][1], [format |-> list[i][2]])
  <2> HIDE DEF n
  <2> QED
    BY <1>6, Zenon DEF Loads
<1>4. f[0] = s
  <2>1. 0 \in 0..n
    BY <1>0
  <2> HIDE DEF n
  <2> QED
    BY <1>3, <2>1, Zenon
<1>5. ASSUME NEW i \in 1..n PROVE f[i] = Loaded(f[i - 1], list[i])
  <2>1. i \in 0..n /\ i # 0
    BY <1>0
  <2> HIDE DEF n
  <2> QED
    BY <1>3, <2>1 DEF Loaded
<1> QED
  BY <1>4, <1>5, <1>6

\* The file of every entry is gone or holds the image of the current edit.
\* No file, or an image of epoch n.
Fine(n) == {NoFile} \cup Image(n)

LEMMA FineFacts == \A n : NoFile \in Fine(n) /\ Torn \notin Fine(n) /\ Torn # NoFile
<1>1. \A n : Len(<<n>>) = 1 /\ Len(Cut(n)) = 2 /\ Len(Torn) = 3 /\ Len(NoFile) = 0
  BY DEF Cut, Torn, NoFile
<1> QED
  BY <1>1 DEF Fine, Image

Newest(s) == \A k \in Indexed(s) : s.file[PathOf(s, k)] \in Fine(epoch[k[1]])

\* So is every listed file.
ListOK(files, l) ==
    \A i \in 1..Len(l) : files[l[i]] \in Fine(epoch[l[i][1][1]])

\* What Initialize starts from and comes to: f is the file system it found.
Opening(s, files) ==
    /\ Shape(s) /\ s.lru.cap = DefaultMaxEntries
    /\ \A p \in Paths : s.file[p] = files[p] \/ s.file[p] = NoFile

LEMMA LoadedOpens ==
  ASSUME NEW files, NEW s, Opening(s, files), NEW p \in Paths, NEW t, t = Loaded(s, p)
  PROVE  /\ Opening(t, files)
         /\ (Newest(s) /\ files[p] \in Fine(epoch[p[1][1]])) => Newest(t)
<1>1. p[1] \in Keys /\ p[2] \in Formats /\ p = <<p[1], p[2]>>
  BY DEF Paths
<1>2. CASE s.file[p] = NoFile
  BY <1>2 DEF Loaded
<1>3. CASE s.file[p] # NoFile
  <2> DEFINE k == p[1]
             entry == [format |-> p[2]]
  <2>1. t = Put(s, k, entry) /\ k \in Keys /\ entry.format = p[2] /\ p = <<k, p[2]>>
    BY <1>1, <1>3 DEF Loaded
  <2> HIDE DEF k, entry
  <2>2. /\ Shape(t) /\ t.lru.cap = s.lru.cap
        /\ \A j \in Keys : \/ t.index[j] = NoEntry
                           \/ t.index[j] = IF j = k THEN entry ELSE s.index[j]
        /\ \A q \in Paths : t.file[q] = s.file[q] \/ t.file[q] = NoFile
    BY <1>1, <2>1, PutShape DEF Opening
  <2>3. Opening(t, files)
    BY <2>2 DEF Opening
  <2>4. ASSUME Newest(s), files[p] \in Fine(epoch[k[1]]), NEW j \in Indexed(t)
        PROVE  t.file[PathOf(t, j)] \in Fine(epoch[j[1]])
    <3>0. j \in Keys /\ t.index[j] # NoEntry
      BY DEF Indexed
    <3>1. CASE j = k
      <4>1. PathOf(t, j) = p
        BY <2>1, <2>2, <3>0, <3>1 DEF PathOf
      <4>2. t.file[p] = NoFile \/ t.file[p] = files[p]
        BY <2>3 DEF Opening
      <4> QED
        BY FineFacts, <2>4, <3>1, <4>1, <4>2
    <3>2. CASE j # k
      <4>1. t.index[j] = s.index[j] /\ j \in Indexed(s)
        BY <2>2, <3>0, <3>2 DEF Indexed
      <4>2. PathOf(t, j) = PathOf(s, j) /\ PathOf(s, j) \in Paths
        BY <4>1 DEF PathOf, Paths, Opening, Shape, Booked, Sizes, Indexed
      <4>3. t.file[PathOf(s, j)] = s.file[PathOf(s, j)] \/ t.file[PathOf(s, j)] = NoFile
        BY <2>2, <4>2
      <4>4. s.file[PathOf(s, j)] \in Fine(epoch[j[1]])
        BY <2>4, <4>1 DEF Newest
      <4> QED
        BY FineFacts, <4>2, <4>3, <4>4
    <3> QED
      BY <3>1, <3>2
  <2> QED
    BY <2>3, <2>4 DEF Newest, k
<1> QED
  BY <1>2, <1>3

LEMMA LoadOpens ==
  ASSUME NEW files, NEW s, Opening(s, files), NEW meta \in MetaFiles, NEW t, t = Load(s, meta)
  PROVE  /\ Opening(t, files)
         /\ (Newest(s) /\ \A l \in meta : ListOK(files, l)) => Newest(t)
<1>1. CASE meta = Garbled
  BY <1>1 DEF Load
<1>2. CASE meta # Garbled
  <2>1. PICK list \in Seq(Paths) : meta = {list}
    BY <1>2 DEF MetaFiles
  <2> DEFINE n == Len(list)
  <2>2. PICK f : /\ f[0] = s /\ t = f[n]
                 /\ \A i \in 1..n : f[i] = Loaded(f[i - 1], list[i])
    BY <1>2, <2>1, LoadListIs DEF Load
  <2>3. n \in Nat /\ \A i \in 1..n : list[i] \in Paths
    OBVIOUS
  <2> DEFINE ok == Newest(s) /\ ListOK(files, list)
             Ns == {i \in Nat : i <= n => Opening(f[i], files) /\ (ok => Newest(f[i]))}
  <2>4. 0 \in Ns
    BY <2>2
  <2>5. ASSUME NEW i \in Ns PROVE i + 1 \in Ns
    <3> SUFFICES ASSUME i + 1 <= n
                 PROVE  Opening(f[i + 1], files) /\ (ok => Newest(f[i + 1]))
      OBVIOUS
    <3>1. i \in Nat /\ i + 1 \in 1..n /\ (i + 1) - 1 = i
      BY <2>3
    <3>2. Opening(f[i], files) /\ (ok => Newest(f[i]))
      BY <2>3, <3>1
    <3> DEFINE j == i + 1
    <3>3. j \in 1..n /\ j - 1 = i
      BY <3>1
    <3> HIDE DEF j
    <3>4. f[j] = Loaded(f[i], list[j]) /\ list[j] \in Paths
      BY <2>2, <2>3, <3>3
    <3>5. ok => files[list[j]] \in Fine(epoch[list[j][1][1]])
      BY <3>3 DEF ListOK
    <3> HIDE DEF ok
    <3>6. Opening(f[j], files) /\ (ok => Newest(f[j]))
      BY <3>2, <3>4, <3>5, LoadedOpens
    <3> QED
      BY <3>6 DEF j
  <2>6. Ns = Nat
    <3>1. Ns \in SUBSET Nat
      OBVIOUS
    <3> HIDE DEF Ns
    <3> QED
      BY <2>4, <2>5, <3>1, AllNaturals
  <2>7. Opening(f[n], files) /\ (ok => Newest(f[n]))
    <3>1. n \in Ns
      BY <2>3, <2>6
    <3> HIDE DEF ok, n
    <3> QED
      BY <2>3, <3>1 DEF n
  <2>8. (\A l \in meta : ListOK(files, l)) => ListOK(files, list)
    BY <2>1
  <2> QED
    BY <2>2, <2>7, <2>8
<1> QED
  BY <1>1, <1>2

\* Stamping the entries changes neither their formats nor anything else.
LEMMA StampedShape ==
  ASSUME NEW s, Shape(s), NEW t, t = Stamped(s)
  PROVE  /\ Shape(t) /\ t.lru = s.lru /\ t.file = s.file /\ Indexed(t) = Indexed(s)
         /\ \A k \in Indexed(s) : PathOf(t, k) = PathOf(s, k)
         /\ \A k \in Indexed(s) : t.index[k] = [format |-> s.index[k].format, inv |-> 0, clear |-> 0]
<1>1. /\ t.index = [k \in Keys |-> IF s.index[k] = NoEntry THEN NoEntry
                      ELSE [format |-> s.index[k].format, inv |-> 0, clear |-> 0]]
      /\ t.lru = s.lru /\ t.total = s.total /\ t.file = s.file
      /\ t = [index |-> t.index, lru |-> t.lru, total |-> t.total, file |-> t.file]
  BY DEF Stamped
<1>2. \A k \in Indexed(s) :
         /\ t.index[k] = [format |-> s.index[k].format, inv |-> 0, clear |-> 0]
         /\ t.index[k].format = s.index[k].format /\ s.index[k].format \in Formats
  BY <1>1 DEF Indexed, Shape, Booked, Sizes
<1>3. \A k \in Indexed(s) : t.index[k] # NoEntry
  BY <1>2, NotNone
<1>4. Indexed(t) = Indexed(s)
  BY <1>1, <1>3 DEF Indexed
<1>5. SizeOf(t, Indexed(t)) = SizeOf(s, Indexed(s))
  <2> DEFINE K == Indexed(s)
  <2>1. \A k \in K : t.index[k].format = s.index[k].format
    BY <1>2
  <2> HIDE DEF K
  <2>2. SizeOf(t, K) = SizeOf(s, K)
    BY <2>1, SizeSame
  <2> QED
    BY <1>4, <2>2 DEF K
<1>6. IsEntries(t)
  BY <1>1 DEF IsEntries, IsIndex
<1>7. Sizes(t)
  BY <1>1, <1>2 DEF Sizes, Indexed
<1>8. Booked(t)
  BY <1>1, <1>4, <1>5, <1>6, <1>7 DEF Booked, Shape
<1>9. \A k \in Indexed(s) : PathOf(t, k) = PathOf(s, k)
  BY <1>2 DEF PathOf
<1> QED
  BY <1>1, <1>2, <1>4, <1>8, <1>9 DEF Shape

-----------------------------------------------------------------------------
(* The books hold and a reader finds the newest image.  A write carries the *)
(* generations it saw; while they are current its epoch is too, so the file *)
(* it renames is the newest.  Once they are not, nothing of the element is  *)
(* indexed until that write is over.  A clean Shutdown leaves metadata that *)
(* list such files only, which Initialize loads again.                      *)

Epochs == 0..MaxEpoch
Writes == [key : Keys, inv : Nat, clear : Nat, born : Epochs]
Stamps == {NoEntry} \cup [format : Formats, inv : Nat, clear : Nat]
Images == {NoFile} \cup UNION {Image(n) : n \in Epochs}
Busy   == writer.pc \in {"encoding", "writing", "encoded", "renamed"}

Dated(task) ==
    /\ task.inv <= gen[task.key[1]] /\ task.clear <= clearGen
    /\ Current(task) => task.born = epoch[task.key[1]]

BookInv ==
    /\ Shape(Entries) /\ Len(lru.keys) <= limit /\ limit \in Nat \ {0}
    /\ index \in [Keys -> Stamps] /\ file \in [Paths -> Images]
    /\ enabled \in BOOLEAN

EpochInv ==
    /\ gen \in [Elements -> Nat] /\ clearGen \in Nat /\ epoch \in [Elements -> Epochs]
    /\ \A e \in Elements : gen[e] <= epoch[e] /\ clearGen <= epoch[e]

Waiting(m) == m = Stop \/ (m \in Writes /\ Dated(m))

TaskInv ==
    /\ producer = NoTask \/ (producer \in Writes /\ Dated(producer))
    /\ \A i \in 1..Len(queue) : Waiting(queue[i])

\* What the writer thread holds of a write it has begun.
Writing(w) ==
    /\ w.task \in Writes /\ Dated(w.task) /\ w.format \in Formats
    /\ ~Current(w.task) => \A k \in Keys : k[1] = w.task.key[1] => index[k] = NoEntry
    /\ w.pc = "renamed" => file[<<w.task.key, w.format>>] \in Fine(w.task.born)

WriterInv ==
    /\ writer.pc \in {"idle", "encoding", "writing", "encoded", "renamed", "flushing", "stopped"}
    /\ Busy => Writing(writer)

\* The temporary file is whole, or cut, once it is closed; there is no other.
TempInv ==
    /\ temp \in [Paths -> Images \cup {Torn}]
    /\ ui # "down" => \A p \in Paths :
          temp[p] # NoFile => writer.pc \in {"writing", "encoded"} /\ p = Target
    /\ writer.pc = "encoded" => temp[Target] \in Fine(writer.task.born)

NewestInv == ~crashed => Newest(Entries)

Whole(meta) == meta # Garbled /\ \A l \in meta : ListOK(file, l)

FlushTypes ==
    /\ metaProject \in MetaFiles /\ metaGlobal \in MetaFiles
    /\ \A f \in Flushers :
         /\ flush[f].snap \in Seq(Paths) /\ flush[f].clash \in BOOLEAN
         /\ flush[f].at \in {"none", "project", "put project", "global", "put global"}
         /\ flush[f].at \in {"none", "project", "global"} => ~flush[f].clash

MetaInv ==
    /\ FlushTypes
    /\ ui \in {"free", "removing", "flushing", "joining", "closing", "down"}
    /\ ui \in {"free", "removing", "joining", "down"} => flush["ui"].at = "none"
    /\ ~crashed /\ ui = "closing" =>
         /\ flush["ui"].at \in {"put project", "put global"} =>
              ~flush["ui"].clash /\ ListOK(file, flush["ui"].snap)
         /\ flush["ui"].at \in {"global", "put global"} => Whole(metaProject)
    /\ ~crashed /\ ui = "down" => Whole(metaProject) /\ Whole(metaGlobal)

DiskInv ==
    /\ StampInv /\ StopInv
    /\ BookInv /\ EpochInv /\ TaskInv /\ WriterInv /\ TempInv /\ NewestInv /\ MetaInv

-----------------------------------------------------------------------------
(* Every step but Rename, an admitted IndexWrite and Open at most erases.   *)

LEMMA Primed ==
  ASSUME NEW t, IsEntries(t), Becomes(t)
  PROVE  Entries' = t
<1>1. Entries' = [index |-> index', lru |-> lru', total |-> total', file |-> file']
  BY DEF Entries
<1> QED
  BY <1>1 DEF Becomes, IsEntries

LEMMA EntriesAre ==
  ASSUME BookInv
  PROVE  /\ IsEntries(Entries) /\ Entries.index = index /\ Entries.lru = lru
         /\ Entries.total = total /\ Entries.file = file
  BY DEF BookInv, Shape, Booked, Entries

LEMMA IndexedAre ==
  ASSUME NEW s
  PROVE  Indexed(s) = {k \in Keys : s.index[k] # NoEntry}
  BY DEF Indexed

\* The books after a step that only erases.
LEMMA BookErase ==
  ASSUME BookInv, NEW t, Shape(t), Erased(t, Entries), Becomes(t),
         limit' \in Nat \ {0}, Len(t.lru.keys) <= limit', enabled' \in BOOLEAN
  PROVE  BookInv' /\ Erased(Entries', Entries)
<1>1. Entries' = t
  BY Primed DEF Erased, Fewer
<1>2. Shape(Entries)' /\ Erased(Entries', Entries)
  BY <1>1 DEF Shape, Booked, IsEntries, Sizes
<1>3. index' = t.index /\ lru' = t.lru /\ file' = t.file
  BY DEF Becomes
<1>4. /\ t.index = [k \in Keys |-> t.index[k]] /\ t.file = [p \in Paths |-> t.file[p]]
      /\ \A k \in Keys : t.index[k] = NoEntry \/ t.index[k] = index[k]
      /\ \A p \in Paths : t.file[p] = NoFile \/ t.file[p] = file[p]
  BY EntriesAre DEF Erased, Fewer, IsEntries, IsIndex, Shape, Booked
<1>5. index' \in [Keys -> Stamps]
  BY <1>3, <1>4 DEF BookInv, Stamps
<1>6. file' \in [Paths -> Images]
  BY <1>3, <1>4 DEF BookInv, Images
<1> QED
  BY <1>2, <1>3, <1>5, <1>6 DEF BookInv

\* A step that leaves the entries alone, or some files fewer.
LEMMA BookFiles ==
  ASSUME BookInv, UNCHANGED <<index, lru, total, limit, enabled>>,
         file' \in [Paths -> Images]
  PROVE  BookInv' /\ Fewer(Entries', Entries)
<1> DEFINE t == [index |-> index, lru |-> lru, total |-> total, file |-> file']
<1>1. Entries' = t
  BY DEF Entries
<1>2. /\ IsEntries(t) /\ t.index = index /\ t.lru = lru /\ t.total = total /\ t.file = file'
      /\ IsEntries(Entries)
  BY EntriesAre DEF IsEntries
<1> HIDE DEF t
<1>3. Indexed(t) = Indexed(Entries)
  BY <1>2, EntriesAre DEF Indexed
<1>4. SizeOf(t, Indexed(t)) = SizeOf(Entries, Indexed(Entries))
  BY <1>2, <1>3, EntriesAre DEF SizeOf
<1>5. Shape(t)
  BY <1>2, <1>3, <1>4, EntriesAre DEF BookInv, Shape, Booked, Sizes
<1>6. Shape(Entries)'
  BY <1>1, <1>5 DEF Shape, Booked, IsEntries, Sizes
<1>7. Fewer(t, Entries)
  BY <1>2, EntriesAre DEF Fewer
<1> QED
  BY <1>1, <1>6, <1>7 DEF BookInv

\* An empty index has its books in order.
LEMMA EmptyShape ==
  ASSUME NEW s, NEW n \in Nat, s = [index |-> Fresh.index, lru |-> [keys |-> <<>>, cap |-> n],
                                    total |-> 0, file |-> s.file],
         s.file = [p \in Paths |-> s.file[p]]
  PROVE  Shape(s) /\ Indexed(s) = {} /\ s.lru.cap = n
<1>1. Fresh.index = [k \in Keys |-> NoEntry]
  BY DEF Fresh
<1>2. /\ s.index = Fresh.index /\ s.lru = [keys |-> <<>>, cap |-> n] /\ s.total = 0
      /\ s = [index |-> s.index, lru |-> s.lru, total |-> s.total, file |-> s.file]
  OBVIOUS
<1>3. Indexed(s) = {}
  BY <1>1, <1>2 DEF Indexed
<1>4. IsFiniteSet({}) /\ Cardinality({}) = 0
  BY FS_EmptySet
<1>5. SizeOf(s, {}) = 0
  <2>1. {k \in {} : s.index[k].format = "bmp"} = {}
    OBVIOUS
  <2> QED
    BY <1>4, <2>1 DEF SizeOf
<1>6. Good(s.lru) /\ Fits(s.lru) /\ KeysOf(s.lru) = {} /\ s.lru.cap = n
  BY <1>2 DEF Good, Caches, Distinct, Fits, KeysOf
<1>7. IsEntries(s) /\ Sizes(s)
  BY <1>1, <1>2 DEF IsEntries, IsIndex, Sizes
<1> QED
  BY <1>2, <1>3, <1>4, <1>5, <1>6, <1>7 DEF Shape, Booked

LEMMA BookEmpty ==
  ASSUME BookInv, index' = Fresh.index, NEW n \in Nat, lru' = [keys |-> <<>>, cap |-> n],
         total' = 0, file' \in [Paths -> Images],
         \A p \in Paths : file'[p] = file[p] \/ file'[p] = NoFile, UNCHANGED <<limit, enabled>>
  PROVE  BookInv' /\ Erased(Entries', Entries)
<1> DEFINE t == [index |-> Fresh.index, lru |-> [keys |-> <<>>, cap |-> n], total |-> 0,
                 file |-> file']
<1>1. Entries' = t /\ Becomes(t)
  BY DEF Entries, Becomes
<1>2. /\ t.index = Fresh.index /\ t.lru = [keys |-> <<>>, cap |-> n] /\ t.file = file'
      /\ t = [index |-> Fresh.index, lru |-> [keys |-> <<>>, cap |-> n], total |-> 0,
              file |-> t.file]
  OBVIOUS
<1> HIDE DEF t
<1>3. Shape(t)
  BY <1>2, EmptyShape
<1>4. \A k \in Keys : t.index[k] = NoEntry
  BY <1>2 DEF Fresh
<1>5. Erased(t, Entries)
  BY <1>2, <1>3, <1>4, EntriesAre DEF Erased, Fewer, Shape, Booked
<1>6. Len(t.lru.keys) <= limit' /\ limit' \in Nat \ {0} /\ enabled' \in BOOLEAN
  BY <1>2 DEF BookInv
<1> QED
  BY <1>1, <1>3, <1>5, <1>6, BookErase

\* Every step but these three only erases entries and files.
Adds == Rename \/ (IndexWrite /\ Admitted(writer.task)) \/ Open

LEMMA ImagesLess ==
  ASSUME BookInv, NEW K
  PROVE  /\ DropEntries(Entries, K).file \in [Paths -> Images]
         /\ \A p \in Paths : \/ DropEntries(Entries, K).file[p] = file[p]
                             \/ DropEntries(Entries, K).file[p] = NoFile
<1>1. Booked(Entries)
  BY DEF BookInv, Shape
<1> DEFINE t == DropEntries(Entries, K)
<1>2. Booked(t) /\ Erased(t, Entries)
  BY <1>1, DropBooks
<1> HIDE DEF t
<1>3. \A p \in Paths : t.file[p] = file[p] \/ t.file[p] = NoFile
  BY <1>2, EntriesAre DEF Erased
<1>4. t.file = [p \in Paths |-> t.file[p]]
  BY <1>2 DEF Booked
<1>5. t.file \in [Paths -> Images]
  BY <1>3, <1>4 DEF BookInv, Images
<1> QED
  BY <1>3, <1>5 DEF t

\* The writer thread and the readers.
LEMMA WorkErases ==
  ASSUME BookInv, WorkerStep \/ (WriterStep /\ ~Adds)
  PROVE  BookInv' /\ Erased(Entries', Entries)
<1>s. Shape(Entries) /\ limit \in Nat \ {0} /\ Len(lru.keys) <= limit /\ enabled \in BOOLEAN
  BY DEF BookInv
<1>n. Cardinality(Indexed(Entries)) \div 2 \in Nat
  <2>1. Cardinality(Indexed(Entries)) \in Nat
    BY <1>s, FS_CardinalityType DEF Shape, Booked
  <2> QED
    BY <2>1
<1>l. Len(lru.keys) \in Nat
  BY <1>s, EntriesAre, GoodFacts DEF Shape
<1>1. ASSUME UNCHANGED <<index, lru, total, file, limit, enabled>>
      PROVE  BookInv' /\ Erased(Entries', Entries)
  <2>1. file' \in [Paths -> Images]
    BY <1>1 DEF BookInv
  <2>2. BookInv' /\ Entries' = Entries
    BY <1>1, <2>1, BookFiles DEF Entries
  <2> QED
    BY <2>2, EntriesAre, ErasedSelf
<1>2. CASE \E k \in Keys : ReadIndex(k)
  <2>1. PICK k \in Keys : ReadIndex(k)
    BY <1>2
  <2> DEFINE t == RecordLruAccess(Entries, k)
  <2>2. Becomes(t) /\ UNCHANGED <<limit, enabled>> /\ index[k] # NoEntry
    BY <2>1 DEF ReadIndex
  <2>3. k \in KeysOf(Entries.lru) /\ KeysOf(Entries.lru) = Indexed(Entries)
    BY <1>s, <2>2, EntriesAre DEF Shape, Indexed
  <2>4. Indexed(Entries) = KeysOf(Entries.lru) \cup {k}
    BY <2>3
  <2>5. Shape(t) /\ Erased(t, Entries) /\ Len(t.lru.keys) = Len(Entries.lru.keys)
    BY <1>s, <2>3, <2>4, RecordShape DEF Shape
  <2> HIDE DEF t
  <2> QED
    BY <1>s, <1>l, <2>2, <2>5, EntriesAre, BookErase
<1>3. CASE ReadDrop
  <2> DEFINE t == RemoveEntries(Entries, {reader[2]})
  <2>1. Becomes(t) /\ UNCHANGED <<limit, enabled>>
    BY <1>3 DEF ReadDrop
  <2>2. Shape(t) /\ Erased(t, Entries) /\ Len(t.lru.keys) <= Len(Entries.lru.keys)
    BY <1>s, RemoveShape
  <2>3. Len(t.lru.keys) \in Nat
    BY <2>2, GoodFacts DEF Shape
  <2> HIDE DEF t
  <2>4. Len(t.lru.keys) <= limit
    BY <1>s, <1>l, <2>2, <2>3, EntriesAre
  <2> QED
    BY <1>s, <2>1, <2>2, <2>4, BookErase
<1>4. CASE NoSpace
  <2> DEFINE t == EvictLru(Entries, Cardinality(Indexed(Entries)) \div 2)
  <2>1. Becomes(t) /\ UNCHANGED <<limit, enabled>>
    BY <1>4 DEF NoSpace
  <2>2. Shape(t) /\ Erased(t, Entries) /\ Len(t.lru.keys) <= Len(Entries.lru.keys)
    BY <1>s, <1>n, EvictShape
  <2>3. Len(t.lru.keys) \in Nat
    BY <2>2, GoodFacts DEF Shape
  <2> HIDE DEF t
  <2>4. Len(t.lru.keys) <= limit
    BY <1>s, <1>l, <2>2, <2>3, EntriesAre
  <2> QED
    BY <1>s, <2>1, <2>2, <2>4, BookErase
<1>5. CASE IndexWrite /\ ~Admitted(writer.task)
  <2>1. /\ file' = [file EXCEPT ![<<writer.task.key, writer.format>>] = NoFile]
        /\ UNCHANGED <<index, lru, total, limit, enabled>>
    BY <1>5 DEF IndexWrite
  <2>2. file' \in [Paths -> Images] /\ \A p \in Paths : file'[p] = file[p] \/ file'[p] = NoFile
    BY <2>1 DEF BookInv, Images
  <2>3. BookInv' /\ Fewer(Entries', Entries)
    BY <2>1, <2>2, BookFiles
  <2>4. Entries'.file = file'
    BY DEF Entries
  <2> QED
    BY <2>2, <2>3, <2>4, EntriesAre DEF Erased
<1>6. CASE \/ Push \/ ReadFile \/ \E k \in Keys : Capture(k)
           \/ Pop \/ EncodeFails \/ OpenTemp \/ CloseTemp \/ FlushStep("writer")
  <2>1. UNCHANGED <<index, lru, total, file, limit, enabled>>
    BY <1>6 DEF Push, ReadFile, Capture, Pop, EncodeFails, OpenTemp, CloseTemp, FlushStep, Snapshot,
                PutProject, PutGlobal, entryVars
  <2> QED
    BY <1>1, <2>1
<1>7. CASE WorkerStep
  BY <1>2, <1>3, <1>6, <1>7 DEF WorkerStep
<1>8. CASE WriterStep /\ ~Adds
  BY <1>4, <1>5, <1>6, <1>8 DEF WriterStep, Adds
<1> QED
  BY <1>7, <1>8

\* The UI thread, and a crash.
LEMMA UIErases ==
  ASSUME BookInv, (UIStep /\ ~Adds) \/ Crash
  PROVE  BookInv' /\ Erased(Entries', Entries)
<1>s. Shape(Entries) /\ limit \in Nat \ {0} /\ Len(lru.keys) <= limit /\ enabled \in BOOLEAN
  BY DEF BookInv
<1>l. Len(lru.keys) \in Nat /\ lru.cap \in Nat /\ lru = [keys |-> lru.keys, cap |-> lru.cap]
  BY <1>s, EntriesAre, GoodFacts DEF Shape
<1>1. CASE \E e \in Elements : Invalidate(e)
  <2>0. PICK e \in Elements : Invalidate(e)
    BY <1>1
  <2> DEFINE t == RemoveEntries(Entries, {k \in Keys : k[1] = e})
  <2>1. Becomes(t) /\ UNCHANGED <<limit, enabled>>
    BY <2>0 DEF Invalidate, Invalidated
  <2>2. Shape(t) /\ Erased(t, Entries) /\ Len(t.lru.keys) <= Len(Entries.lru.keys)
    BY <1>s, RemoveShape
  <2>3. Len(t.lru.keys) \in Nat
    BY <2>2, GoodFacts DEF Shape
  <2> HIDE DEF t
  <2>4. Len(t.lru.keys) <= limit
    BY <1>s, <1>l, <2>2, <2>3, EntriesAre
  <2> QED
    BY <1>s, <2>1, <2>2, <2>4, BookErase
<1>2. CASE Clear
  <2>1. /\ index' = Fresh.index /\ lru' = [lru EXCEPT !.keys = <<>>] /\ total' = 0
        /\ file' = file \/ file' = DropEntries(Entries, Keys).file
        /\ UNCHANGED <<limit, enabled>>
    BY <1>2 DEF Clear
  <2>2. lru' = [keys |-> <<>>, cap |-> lru.cap]
    BY <1>l, <2>1, RecKeys
  <2>3. file' \in [Paths -> Images] /\ \A p \in Paths : file'[p] = file[p] \/ file'[p] = NoFile
    BY <2>1, ImagesLess DEF BookInv
  <2> QED
    BY <1>l, <2>1, <2>2, <2>3, BookEmpty
<1>3. CASE Crash
  <2>1. /\ index' = Fresh.index /\ lru' = Fresh.lru /\ total' = 0
        /\ UNCHANGED <<file, limit, enabled>>
    BY <1>3 DEF Crash
  <2>2. lru' = [keys |-> <<>>, cap |-> DefaultMaxEntries] /\ DefaultMaxEntries \in Nat
    BY <2>1, DiskCacheAssumption DEF Fresh, EmptyCache
  <2>3. file' \in [Paths -> Images] /\ \A p \in Paths : file'[p] = file[p] \/ file'[p] = NoFile
    BY <2>1 DEF BookInv
  <2> QED
    BY <2>1, <2>2, <2>3, BookEmpty
<1>4. CASE RemoveFiles
  <2>1. file' = [p \in Paths |-> NoFile] /\ UNCHANGED <<index, lru, total, limit, enabled>>
    BY <1>4 DEF RemoveFiles
  <2>2. file' \in [Paths -> Images] /\ \A p \in Paths : file'[p] = file[p] \/ file'[p] = NoFile
    BY <2>1 DEF Images
  <2>3. BookInv' /\ Fewer(Entries', Entries)
    BY <2>1, <2>2, BookFiles
  <2>4. Entries'.file = file'
    BY DEF Entries
  <2> QED
    BY <2>2, <2>3, <2>4, EntriesAre DEF Erased
<1>5. CASE \E n \in Limits : SetMaxEntries(n)
  <2>0. PICK n \in Limits : SetMaxEntries(n)
    BY <1>5
  <2>1. n \in Nat \ {0} /\ limit' = n /\ Becomes(Resized(n)) /\ UNCHANGED enabled
    BY <2>0, DiskCacheAssumption DEF SetMaxEntries
  <2>2. Shape(Resized(n)) /\ Erased(Resized(n), Entries) /\ Len(Resized(n).lru.keys) <= n
    BY <1>s, <2>1, ResizedShape
  <2> DEFINE t == Resized(n)
  <2> HIDE DEF t
  <2>3. Shape(t) /\ Erased(t, Entries) /\ Len(t.lru.keys) <= limit' /\ Becomes(t)
    BY <2>1, <2>2 DEF t
  <2> QED
    BY <1>s, <2>1, <2>3, BookErase
<1>6. CASE Shutdown \/ Join \/ FlushStep("ui") \/ \E b \in Switches : SetEnabled(b)
  <2>1. UNCHANGED <<index, lru, total, file, limit>> /\ enabled' \in BOOLEAN
    BY <1>6, <1>s, DiskCacheAssumption
       DEF Shutdown, Join, SetEnabled, FlushStep, Snapshot, PutProject, PutGlobal, entryVars
  <2>2. Becomes(Entries) /\ IsEntries(Entries)
    BY <2>1, EntriesAre DEF Becomes
  <2>3. Erased(Entries, Entries)
    BY <2>2, ErasedSelf
  <2> QED
    BY <1>s, <2>1, <2>2, <2>3, EntriesAre, BookErase
<1> QED
  BY <1>1, <1>2, <1>3, <1>4, <1>5, <1>6 DEF UIStep, Adds

LEMMA MostErase ==
  ASSUME BookInv, Next, ~Adds
  PROVE  BookInv' /\ Erased(Entries', Entries)
  BY WorkErases, UIErases DEF Next

-----------------------------------------------------------------------------
(* The three steps that add: a file, an entry, the entries of a list.       *)

LEMMA RenameBooks ==
  ASSUME BookInv, WriterInv, TempInv, Rename
  PROVE  /\ BookInv' /\ Target \in Paths
         /\ file' = [file EXCEPT ![Target] = temp[Target]]
         /\ temp[Target] \in Fine(writer.task.born)
<1>1. /\ file' = [file EXCEPT ![Target] = temp[Target]] /\ writer.pc = "encoded"
      /\ UNCHANGED <<index, lru, total, limit, enabled>>
  BY DEF Rename, Ready
<1>2. writer.task.born \in Epochs /\ Target \in Paths
  BY <1>1 DEF WriterInv, Busy, Writing, Writes, Target, Paths
<1>3. temp[Target] \in Fine(writer.task.born)
  BY <1>1 DEF TempInv
<1>4. temp[Target] \in Images
  BY <1>2, <1>3 DEF Images, Fine
<1>5. file' \in [Paths -> Images]
  BY <1>1, <1>2, <1>4 DEF BookInv
<1>6. BookInv'
  BY <1>1, <1>5, BookFiles
<1> QED
  BY <1>1, <1>2, <1>3, <1>6

\* IndexWrite adds the entry of the write, under the generations it saw.
LEMMA AdmitBooks ==
  ASSUME BookInv, WriterInv, IndexWrite, Admitted(writer.task)
  PROVE  /\ BookInv'
         /\ \A k \in Keys : \/ index'[k] = NoEntry
                            \/ index'[k] = IF k = writer.task.key
                                           THEN Entry(writer.task, writer.format) ELSE index[k]
         /\ \A p \in Paths : file'[p] = file[p] \/ file'[p] = NoFile
<1> DEFINE task == writer.task
           entry == Entry(task, writer.format)
           put == Put(Entries, task.key, entry)
           t == EvictLru(put, limit)
<1>1. Becomes(t) /\ UNCHANGED <<limit, enabled>>
  BY DEF IndexWrite
<1>2. task \in Writes /\ writer.format \in Formats
  BY DEF WriterInv, IndexWrite, Busy, Writing
<1>3. task.key \in Keys /\ entry \in [format : Formats, inv : Nat, clear : Nat]
      /\ entry.format \in Formats
  BY <1>2 DEF Writes, Entry
<1>4. Shape(Entries) /\ limit \in Nat /\ limit \in Nat \ {0} /\ enabled \in BOOLEAN
  BY DEF BookInv
<1> HIDE DEF entry, task
<1>5. /\ Shape(put)
      /\ \A j \in Keys : \/ put.index[j] = NoEntry
                         \/ put.index[j] = IF j = task.key THEN entry ELSE Entries.index[j]
      /\ \A p \in Paths : put.file[p] = Entries.file[p] \/ put.file[p] = NoFile
  BY <1>3, <1>4, PutShape
<1> HIDE DEF put
<1>6. Shape(t) /\ Erased(t, put) /\ Len(t.lru.keys) <= limit
  BY <1>4, <1>5, EvictShape
<1> HIDE DEF t
<1>7. /\ \A k \in Keys : \/ t.index[k] = NoEntry
                         \/ t.index[k] = IF k = task.key THEN entry ELSE index[k]
      /\ \A p \in Paths : t.file[p] = file[p] \/ t.file[p] = NoFile
  BY <1>5, <1>6, EntriesAre DEF Erased, Fewer
<1>8. Entries' = t /\ index' = t.index /\ lru' = t.lru /\ file' = t.file
  BY <1>1, <1>6, Primed DEF Becomes, Erased, Fewer
<1>9. Shape(Entries)'
  BY <1>6, <1>8 DEF Shape, Booked, IsEntries, Sizes
<1>10. /\ t.index = [k \in Keys |-> t.index[k]] /\ t.file = [p \in Paths |-> t.file[p]]
  BY <1>6 DEF Shape, Booked, IsEntries, IsIndex
<1>11. index' \in [Keys -> Stamps]
  BY <1>3, <1>7, <1>8, <1>10 DEF BookInv, Stamps
<1>12. file' \in [Paths -> Images]
  BY <1>7, <1>8, <1>10 DEF BookInv, Images
<1>13. BookInv'
  BY <1>1, <1>4, <1>6, <1>8, <1>9, <1>11, <1>12 DEF BookInv
<1> QED
  BY <1>7, <1>8, <1>13 DEF entry, task

\* Initialize of the service that is opened again.
LEMMA OpenBooks ==
  ASSUME BookInv, FlushTypes, Open
  PROVE  /\ BookInv'
         /\ metaProject' \in MetaFiles /\ metaGlobal' \in MetaFiles
         /\ Whole(metaProject) /\ Whole(metaGlobal) => Newest(Entries)'
<1> DEFINE empty  == [index |-> Fresh.index, lru |-> Fresh.lru, total |-> 0, file |-> file]
           torn   == metaGlobal = Garbled
           first  == IF torn THEN metaProject ELSE metaGlobal
           global == Load(empty, first)
           all    == Load(global, metaProject)
           t      == Stamped(all)
<1>1. /\ Becomes(t) /\ enabled' = TRUE /\ limit' = DefaultMaxEntries /\ epoch' = epoch
      /\ metaProject' = IF torn THEN {Listed(global)} ELSE metaProject
      /\ metaGlobal' = IF torn THEN {Listed(global)} ELSE metaGlobal
  BY DEF Open
<1>2. first \in MetaFiles /\ metaProject \in MetaFiles /\ metaGlobal \in MetaFiles
  BY DEF FlushTypes
<1>3. Opening(empty, file) /\ Newest(empty)
  <2>1. /\ empty = [index |-> Fresh.index, lru |-> [keys |-> <<>>, cap |-> DefaultMaxEntries],
                    total |-> 0, file |-> empty.file]
        /\ empty.file = file
    BY DEF Fresh, EmptyCache
  <2>2. empty.file = [p \in Paths |-> empty.file[p]] /\ DefaultMaxEntries \in Nat
    BY <2>1, DiskCacheAssumption DEF BookInv
  <2> HIDE DEF empty
  <2>3. Shape(empty) /\ Indexed(empty) = {} /\ empty.lru.cap = DefaultMaxEntries
    BY <2>1, <2>2, EmptyShape
  <2> QED
    BY <2>1, <2>3 DEF Opening, Newest
<1> HIDE DEF empty
<1>4. /\ Opening(global, file)
      /\ (\A l \in first : ListOK(file, l)) => Newest(global)
  <2> HIDE DEF first
  <2> QED
    BY <1>2, <1>3, LoadOpens
<1> HIDE DEF global
<1>5. /\ Opening(all, file)
      /\ (Newest(global) /\ \A l \in metaProject : ListOK(file, l)) => Newest(all)
  BY <1>2, <1>4, LoadOpens
<1> HIDE DEF all
<1>6. /\ Shape(t) /\ t.lru = all.lru /\ t.file = all.file /\ Indexed(t) = Indexed(all)
      /\ \A k \in Indexed(all) : PathOf(t, k) = PathOf(all, k)
      /\ \A k \in Indexed(all) : t.index[k] = [format |-> all.index[k].format, inv |-> 0, clear |-> 0]
  BY <1>5, StampedShape DEF Opening
<1> HIDE DEF t
<1>7. Entries' = t /\ index' = t.index /\ lru' = t.lru /\ file' = t.file
  BY <1>1, <1>6, Primed DEF Becomes, Shape, Booked
<1>8. Shape(Entries)'
  BY <1>6, <1>7 DEF Shape, Booked, IsEntries, Sizes
<1>9. Len(lru'.keys) <= limit' /\ limit' \in Nat \ {0}
  <2>1. Fits(all.lru) /\ all.lru.cap = DefaultMaxEntries /\ Len(all.lru.keys) \in Nat
    BY <1>5, GoodFacts DEF Opening, Shape
  <2> QED
    BY <1>1, <1>6, <1>7, <2>1, DiskCacheAssumption DEF Fits
<1>10. index' \in [Keys -> Stamps]
  <2>1. t.index = [k \in Keys |-> t.index[k]] /\ Sizes(all)
    BY <1>5, <1>6 DEF Opening, Shape, Booked, IsEntries, IsIndex
  <2>2. \A k \in Keys : t.index[k] \in Stamps
    <3> TAKE k \in Keys
    <3>1. CASE k \notin Indexed(t)
      BY <3>1 DEF Indexed, Stamps
    <3>2. CASE k \in Indexed(t)
      <4>1. /\ t.index[k] = [format |-> all.index[k].format, inv |-> 0, clear |-> 0]
            /\ all.index[k].format \in Formats
        BY <1>6, <2>1, <3>2 DEF Indexed, Sizes
      <4> QED
        BY <4>1 DEF Stamps
    <3> QED
      BY <3>1, <3>2
  <2> QED
    BY <1>7, <2>1, <2>2
<1>11. file' \in [Paths -> Images]
  <2>1. t.file = [p \in Paths |-> t.file[p]]
    BY <1>6 DEF Shape, Booked
  <2>2. \A p \in Paths : t.file[p] = file[p] \/ t.file[p] = NoFile
    BY <1>5, <1>6 DEF Opening
  <2> QED
    BY <1>7, <2>1, <2>2 DEF BookInv, Images
<1>12. BookInv'
  BY <1>1, <1>8, <1>9, <1>10, <1>11 DEF BookInv
<1>13. {Listed(global)} \in MetaFiles
  <2>1. Listed(global) \in Seq(Paths)
    BY <1>4, ListedIs DEF Opening
  <2> QED
    BY <2>1 DEF MetaFiles
<1>14. ASSUME Whole(metaProject), Whole(metaGlobal) PROVE Newest(Entries)'
  <2>1. Newest(all)
    BY <1>4, <1>5, <1>14 DEF Whole
  <2>2. \A k \in Indexed(t) : t.file[PathOf(t, k)] \in Fine(epoch[k[1]])
    BY <1>6, <2>1 DEF Newest
  <2> QED
    BY <1>1, <1>7, <2>2 DEF Newest, Indexed, PathOf
<1> QED
  BY <1>1, <1>2, <1>12, <1>13, <1>14

-----------------------------------------------------------------------------
(* The generations and the epochs.                                          *)

LEMMA EpochStep ==
  ASSUME EpochInv, Next
  PROVE  EpochInv'
<1>m. MaxEpoch \in Nat
  BY DiskCacheAssumption
<1>1. CASE \E e \in Elements : Invalidate(e)
  <2>1. PICK e \in Elements : Invalidate(e)
    BY <1>1
  <2>2. /\ gen' = [gen EXCEPT ![e] = @ + 1] /\ epoch' = [epoch EXCEPT ![e] = @ + 1]
        /\ clearGen' = clearGen /\ epoch[e] < MaxEpoch
    BY <2>1 DEF Invalidate
  <2> QED
    BY <1>m, <2>2 DEF EpochInv, Epochs
<1>2. CASE Clear
  <2>1. /\ clearGen' = clearGen + 1 /\ epoch' = [e \in Elements |-> epoch[e] + 1]
        /\ gen' = gen /\ \A e \in Elements : epoch[e] < MaxEpoch
    BY <1>2 DEF Clear
  <2> QED
    BY <1>m, <2>1 DEF EpochInv, Epochs
<1>3. CASE Open
  <2>1. gen' = [e \in Elements |-> 0] /\ clearGen' = 0 /\ epoch' = epoch
    BY <1>3 DEF Open
  <2> QED
    BY <1>m, <2>1 DEF EpochInv, Epochs
<1>4. CASE \/ WriterStep \/ WorkerStep \/ Crash \/ RemoveFiles \/ Shutdown \/ Join
           \/ (\E n \in Limits : SetMaxEntries(n)) \/ (\E b \in Switches : SetEnabled(b))
           \/ FlushStep("ui")
  <2>1. UNCHANGED <<gen, clearGen, epoch>>
    BY <1>4 DEF WriterStep, Pop, NoSpace, EncodeFails, OpenTemp, CloseTemp, Rename, IndexWrite, FlushStep,
                Snapshot, PutProject, PutGlobal, WorkerStep, Push, ReadFile, ReadDrop, Capture,
                ReadIndex, Crash, RemoveFiles, Shutdown, Join, SetMaxEntries, SetEnabled, genVars
  <2> QED
    BY <2>1 DEF EpochInv
<1> QED
  BY <1>1, <1>2, <1>3, <1>4 DEF Next, UIStep

\* An element whose generations stay, or move and take its entries with them.
Stays(e) == gen'[e] = gen[e] /\ clearGen' = clearGen /\ epoch'[e] = epoch[e]
Moves(e) == /\ gen[e] <= gen'[e] /\ clearGen <= clearGen'
            /\ gen[e] # gen'[e] \/ clearGen # clearGen'
            /\ \A k \in Keys : k[1] = e => index'[k] = NoEntry

LEMMA StaysOrMoves ==
  ASSUME StampInv, EpochInv, Next, ~Open, NEW e \in Elements
  PROVE  Stays(e) \/ Moves(e)
<1>1. CASE \E d \in Elements : Invalidate(d)
  <2>1. PICK d \in Elements : Invalidate(d)
    BY <1>1
  <2>2. /\ gen' = [gen EXCEPT ![d] = @ + 1] /\ epoch' = [epoch EXCEPT ![d] = @ + 1]
        /\ clearGen' = clearGen
        /\ Becomes(RemoveEntries(Entries, {k \in Keys : k[1] = d}))
    BY <2>1 DEF Invalidate, Invalidated
  <2>3. \A k \in Keys : k[1] = d => index'[k] = NoEntry
    BY <2>2, EntriesAreEntries, RemoveIsFewer DEF StampInv, Becomes
  <2> QED
    BY <2>2, <2>3 DEF EpochInv, Stays, Moves, Epochs
<1>2. CASE Clear
  <2>1. clearGen' = clearGen + 1 /\ gen' = gen /\ index' = Fresh.index
    BY <1>2 DEF Clear
  <2> QED
    BY <2>1 DEF EpochInv, Moves, Fresh
<1>4. CASE \/ WriterStep \/ WorkerStep \/ Crash \/ RemoveFiles \/ Shutdown \/ Join
           \/ (\E n \in Limits : SetMaxEntries(n)) \/ (\E b \in Switches : SetEnabled(b))
           \/ FlushStep("ui")
  <2>1. UNCHANGED <<gen, clearGen, epoch>>
    BY <1>4 DEF WriterStep, Pop, NoSpace, EncodeFails, OpenTemp, CloseTemp, Rename, IndexWrite, FlushStep,
                Snapshot, PutProject, PutGlobal, WorkerStep, Push, ReadFile, ReadDrop, Capture,
                ReadIndex, Crash, RemoveFiles, Shutdown, Join, SetMaxEntries, SetEnabled, genVars
  <2> QED
    BY <2>1 DEF Stays
<1> QED
  BY <1>1, <1>2, <1>4 DEF Next, UIStep

LEMMA DatedStays ==
  ASSUME EpochInv, EpochInv', NEW task \in Writes, Dated(task),
         Stays(task.key[1]) \/ Moves(task.key[1])
  PROVE  /\ Dated(task)'
         /\ Current(task)' => Current(task) /\ Stays(task.key[1])
<1> DEFINE e == task.key[1]
<1>1. e \in Elements /\ task.inv \in Nat /\ task.clear \in Nat
  BY DEF Writes, Keys
<1>2. gen[e] \in Nat /\ gen'[e] \in Nat /\ clearGen \in Nat /\ clearGen' \in Nat
  BY <1>1 DEF EpochInv
<1>3. task.inv <= gen[e] /\ task.clear <= clearGen /\ (Current(task) => task.born = epoch[e])
  BY DEF Dated
<1>4. CASE Stays(e)
  BY <1>3, <1>4 DEF Stays, Dated, Current
<1>5. CASE Moves(e)
  <2>1. task.inv <= gen'[e] /\ task.clear <= clearGen'
    BY <1>1, <1>2, <1>3, <1>5 DEF Moves
  <2>2. ~(task.inv = gen'[e] /\ task.clear = clearGen')
    BY <1>1, <1>2, <1>3, <1>5 DEF Moves
  <2> QED
    BY <2>1, <2>2 DEF Dated, Current
<1> QED
  BY <1>4, <1>5

-----------------------------------------------------------------------------
(* The tasks and the writer thread.                                         *)

LEMMA TaskStep ==
  ASSUME StampInv, StopInv, EpochInv, EpochInv', TaskInv, Next
  PROVE  TaskInv'
<1>1. CASE Open \/ Crash
  <2>1. queue' = <<>>
    BY <1>1 DEF Open, Crash
  <2>2. producer' = NoTask
    BY <1>1 DEF Open, Crash
  <2> QED
    BY <2>1, <2>2 DEF TaskInv
<1>2. CASE ~(Open \/ Crash)
  <2>1. ASSUME NEW task \in Writes, Dated(task) PROVE Dated(task)'
    <3>1. task.key[1] \in Elements
      BY DEF Writes, Keys
    <3>2. Stays(task.key[1]) \/ Moves(task.key[1])
      BY <1>2, <3>1, StaysOrMoves
    <3> QED
      BY <2>1, <3>2, DatedStays
  <2>2. ASSUME NEW m, Waiting(m) PROVE Waiting(m)'
    BY <2>1, <2>2 DEF Waiting
  <2>3. queue \in Seq(Message)
    BY DEF StopInv, StopTypes
  <2>4. CASE \E k \in Keys : Capture(k)
    <3>1. PICK k \in Keys : Capture(k)
      BY <2>4
    <3> DEFINE task == [key |-> k, inv |-> gen[k[1]], clear |-> clearGen, born |-> epoch[k[1]]]
    <3>2. producer' = task /\ UNCHANGED <<gen, clearGen, epoch, queue>>
      BY <3>1 DEF Capture, genVars
    <3>3. task \in Writes
      BY DEF Writes, EpochInv, Keys
    <3>4. task.key = k /\ task.inv = gen[k[1]] /\ task.clear = clearGen /\ task.born = epoch[k[1]]
          /\ gen[k[1]] \in Nat /\ clearGen \in Nat
      BY DEF EpochInv, Keys
    <3> HIDE DEF task
    <3>5. producer' \in Writes /\ Dated(producer)'
      BY <3>2, <3>3, <3>4 DEF Dated
    <3> QED
      BY <2>2, <3>2, <3>5 DEF TaskInv, Waiting, Dated, Current
  <2>5. CASE Push
    <3>1. queue' = Append(queue, producer) /\ producer' = NoTask /\ producer # NoTask
      BY <2>5 DEF Push
    <3>2. Waiting(producer) /\ producer \in Message
      BY <3>1 DEF TaskInv, Waiting, StopInv, StopTypes
    <3>3. \A i \in 1..Len(queue') : Waiting(queue'[i])
      <4> SUFFICES ASSUME NEW i \in 1..Len(queue') PROVE Waiting(queue'[i])
        OBVIOUS
      <4>1. CASE i \in 1..Len(queue)
        <5>1. queue'[i] = queue[i]
          BY <2>3, <3>1, <3>2, <4>1
        <5> QED
          BY <4>1, <5>1 DEF TaskInv
      <4>2. CASE i \notin 1..Len(queue)
        <5>1. queue'[i] = producer
          BY <2>3, <3>1, <3>2, <4>2
        <5> QED
          BY <3>2, <5>1
      <4> QED
        BY <4>1, <4>2
    <3> QED
      BY <2>2, <3>1, <3>3 DEF TaskInv, Waiting, Dated, Current
  <2>6. CASE Pop
    <3>1. queue' = Tail(queue) /\ producer' = producer /\ queue # <<>>
      BY <2>6 DEF Pop
    <3>2. \A i \in 1..Len(queue') : i + 1 \in 1..Len(queue) /\ queue'[i] = queue[i + 1]
      BY <2>3, <3>1
    <3>3. \A i \in 1..Len(queue') : Waiting(queue'[i])
      BY <3>2 DEF TaskInv
    <3> QED
      BY <2>1, <2>2, <3>1, <3>3 DEF TaskInv, Waiting, Dated, Current
  <2>7. CASE Shutdown
    <3>1. queue' = Append(queue, Stop) /\ producer' = producer
      BY <2>7 DEF Shutdown
    <3>2. Stop \in Message
      BY DEF Message
    <3>3. \A i \in 1..Len(queue') : Waiting(queue'[i])
      <4> SUFFICES ASSUME NEW i \in 1..Len(queue') PROVE Waiting(queue'[i])
        OBVIOUS
      <4>1. CASE i \in 1..Len(queue)
        <5>1. queue'[i] = queue[i]
          BY <2>3, <3>1, <3>2, <4>1
        <5> QED
          BY <4>1, <5>1 DEF TaskInv
      <4>2. CASE i \notin 1..Len(queue)
        <5>1. queue'[i] = Stop
          BY <2>3, <3>1, <3>2, <4>2
        <5> QED
          BY <5>1 DEF Waiting
      <4> QED
        BY <4>1, <4>2
    <3> QED
      BY <2>1, <2>2, <3>1, <3>3 DEF TaskInv, Waiting, Dated, Current
  <2>8. CASE ~(Push \/ Pop \/ Shutdown \/ \E k \in Keys : Capture(k))
    <3>1. UNCHANGED <<queue, producer>>
      BY <1>2, <2>8
         DEF Next, WriterStep, NoSpace, EncodeFails, OpenTemp, CloseTemp, Rename, IndexWrite, FlushStep,
             Snapshot, PutProject, PutGlobal, WorkerStep, ReadFile, ReadDrop, ReadIndex, UIStep,
             Invalidate, Clear, RemoveFiles, Join, SetMaxEntries, SetEnabled
    <3> QED
      BY <2>1, <2>2, <3>1 DEF TaskInv, Waiting, Dated, Current
  <2> QED
    BY <2>4, <2>5, <2>6, <2>7, <2>8
<1> QED
  BY <1>1, <1>2

\* A write the writer thread has in its hands, while others erase.
LEMMA WritingStays ==
  ASSUME StampInv, EpochInv, EpochInv', BookInv, Next, ~Open, Erased(Entries', Entries),
         NEW w, Writing(w)
  PROVE  Writing(w)'
<1> DEFINE task == w.task
           p == <<w.task.key, w.format>>
<1>1. task \in Writes /\ Dated(task) /\ w.format \in Formats
  BY DEF Writing
<1>2. task.key \in Keys /\ task.key[1] \in Elements /\ p \in Paths
  BY <1>1 DEF Writes, Keys, Paths
<1>3. Stays(task.key[1]) \/ Moves(task.key[1])
  BY <1>2, StaysOrMoves
<1>4. Dated(task)' /\ (Current(task)' => Current(task) /\ Stays(task.key[1]))
  BY <1>1, <1>3, DatedStays
<1>5. \A k \in Keys : index'[k] = NoEntry \/ index'[k] = index[k]
  BY EntriesAre DEF Erased, Fewer, Entries
<1>6. file'[p] = file[p] \/ file'[p] = NoFile
  BY <1>2 DEF Erased, Entries
<1>7. ASSUME ~Current(task)', NEW k \in Keys, k[1] = task.key[1] PROVE index'[k] = NoEntry
  <2>1. CASE Moves(task.key[1])
    BY <1>7, <2>1 DEF Moves
  <2>2. CASE Stays(task.key[1])
    <3>1. ~Current(task)
      BY <1>7, <2>2 DEF Stays, Current
    <3> QED
      BY <1>5, <1>7, <3>1 DEF Writing
  <2> QED
    BY <1>3, <2>1, <2>2
<1> QED
  BY FineFacts, <1>1, <1>4, <1>6, <1>7 DEF Writing

LEMMA WriterStays ==
  ASSUME StampInv, EpochInv, EpochInv', BookInv, WriterInv, Next, ~Open,
         Erased(Entries', Entries), writer' = writer
  PROVE  WriterInv'
<1>1. ASSUME Busy PROVE Writing(writer)'
  <2>1. PICK w : w = writer
    OBVIOUS
  <2>2. Writing(w)
    BY <1>1, <2>1 DEF WriterInv
  <2>3. Writing(w)'
    BY <2>2, WritingStays
  <2> QED
    BY <2>1, <2>3 DEF Writing, Dated, Current
<1> QED
  BY <1>1 DEF WriterInv, Busy

\* The writer thread goes on with the write it has, or takes one.
LEMMA WriterStepWrites ==
  ASSUME StampInv, StopInv, EpochInv, BookInv, TaskInv, WriterInv, TempInv, WriterStep
  PROVE  WriterInv'
<1>w. IsWriter(writer) /\ queue \in Seq(Message)
  BY DEF StopInv, StopTypes
<1>f. "main" \in Formats
  BY DiskCacheAssumption
<1>1. CASE Pop
  <2> DEFINE task == Head(queue)
  <2>1. /\ queue # <<>> /\ writer' = Popped(task) /\ UNCHANGED <<gen, clearGen, epoch, index, file>>
        /\ writer.pc = "idle"
    BY <1>1 DEF Pop, genVars, entryVars
  <2>2. Waiting(task)
    <3>1. 1 \in 1..Len(queue) /\ task = queue[1]
      BY <1>w, <2>1
    <3> QED
      BY <3>1 DEF TaskInv
  <2> HIDE DEF task
  <2>3. CASE writer' = [pc |-> "encoding", task |-> task, format |-> "main"] /\ task # Stop
                /\ Current(task)
    <3>1. task \in Writes /\ Dated(task)
      BY <2>2, <2>3 DEF Waiting
    <3>2. writer'.pc = "encoding" /\ writer'.task = task /\ writer'.format = "main"
      BY <2>3
    <3> QED
      BY <1>f, <2>1, <2>3, <3>1, <3>2 DEF WriterInv, Busy, Writing, Dated, Current
  <2>4. CASE writer'.pc \in {"idle", "stopped"}
    BY <2>4 DEF WriterInv, Busy
  <2> QED
    BY <1>w, <2>1, <2>3, <2>4 DEF Popped, IdleWriter, WriterAt, IsWriter
<1>2. CASE EncodeFails
  <2>1. /\ UNCHANGED <<gen, clearGen, epoch, index, file>> /\ Busy
        /\ \/ /\ "bmp" \in Formats
              /\ writer' = [writer EXCEPT !.pc = "encoding", !.format = "bmp"]
           \/ writer' = IdleWriter
    BY <1>2 DEF EncodeFails, genVars, entryVars, Busy
  <2>2. CASE "bmp" \in Formats /\ writer' = [writer EXCEPT !.pc = "encoding", !.format = "bmp"]
    <3>1. writer'.pc = "encoding" /\ writer'.task = writer.task /\ writer'.format = "bmp"
      BY <1>w, <2>2 DEF IsWriter
    <3> QED
      BY <2>1, <2>2, <3>1 DEF WriterInv, Busy, Writing, Dated, Current
  <2>3. CASE writer' = IdleWriter
    BY <2>3 DEF WriterInv, Busy, IdleWriter
  <2> QED
    BY <2>1, <2>2, <2>3
<1>3. CASE OpenTemp \/ CloseTemp
  <2>1. /\ UNCHANGED <<gen, clearGen, epoch, index, file>> /\ Busy
        /\ writer' = WriterAt("writing") \/ writer' = WriterAt("encoded")
    BY <1>3 DEF OpenTemp, CloseTemp, genVars, entryVars, Busy
  <2>2. /\ writer'.pc \in {"writing", "encoded"}
        /\ writer'.task = writer.task /\ writer'.format = writer.format
    BY <1>w, <2>1 DEF IsWriter, WriterAt
  <2> QED
    BY <2>1, <2>2 DEF WriterInv, Busy, Writing, Dated, Current
<1>4. CASE Rename
  <2>1. UNCHANGED <<gen, clearGen, epoch, index>> /\ Busy /\ writer' = WriterAt("renamed")
    BY <1>4 DEF Rename, Ready, genVars, Busy
  <2>2. writer'.pc = "renamed" /\ writer'.task = writer.task /\ writer'.format = writer.format
    BY <1>w, <2>1 DEF IsWriter, WriterAt
  <2>3. file'[Target] \in Fine(writer.task.born)
    BY <1>4, RenameBooks DEF BookInv
  <2> QED
    BY <2>1, <2>2, <2>3 DEF WriterInv, Busy, Writing, Dated, Current, Target
<1>5. CASE NoSpace \/ IndexWrite
  <2>1. writer'.pc \in {"idle", "flushing"}
    BY <1>5 DEF NoSpace, IndexWrite, IdleWriter
  <2> QED
    BY <2>1 DEF WriterInv, Busy
<1>6. CASE FlushStep("writer")
  <2>1. UNCHANGED <<gen, clearGen, epoch, index, file>>
    BY <1>6 DEF FlushStep, Snapshot, PutProject, PutGlobal, genVars, entryVars
  <2>2. writer' = writer \/ writer' = IdleWriter
    BY <1>6 DEF FlushStep, Snapshot, PutProject, PutGlobal
  <2>3. CASE writer' = writer
    BY <2>1, <2>3 DEF WriterInv, Busy, Writing, Dated, Current
  <2>4. CASE writer' = IdleWriter
    BY <2>4 DEF WriterInv, Busy, IdleWriter
  <2> QED
    BY <2>2, <2>3, <2>4
<1> QED
  BY <1>1, <1>2, <1>3, <1>4, <1>5, <1>6 DEF WriterStep

LEMMA WriterInvStep ==
  ASSUME StampInv, StopInv, EpochInv, EpochInv', BookInv, TaskInv, WriterInv, TempInv, Next
  PROVE  WriterInv'
<1>1. CASE WriterStep
  BY <1>1, WriterStepWrites
<1>2. CASE Open \/ Crash
  <2>1. writer' = IdleWriter
    BY <1>2 DEF Open, Crash
  <2> QED
    BY <2>1 DEF WriterInv, Busy, IdleWriter
<1>3. CASE ~WriterStep /\ ~Open /\ ~Crash
  <2>1. ~Adds
    BY <1>3 DEF Adds, WriterStep
  <2>2. Erased(Entries', Entries)
    BY <2>1, MostErase
  <2>3. writer' = writer
    BY <1>3 DEF Next, WorkerStep, UIStep, Push, ReadFile, ReadDrop, Capture, ReadIndex,
                Invalidate, Clear, RemoveFiles, Shutdown, Join, SetMaxEntries, SetEnabled,
                FlushStep, Snapshot, PutProject, PutGlobal
  <2> QED
    BY <1>3, <2>2, <2>3, WriterStays
<1> QED
  BY <1>1, <1>2, <1>3

\* The temporary files.
LEMMA TempStep ==
  ASSUME StopInv, WriterInv, TempInv, MetaInv, Next
  PROVE  TempInv'
<1>w. IsWriter(writer)
  BY DEF StopInv, StopTypes
<1>t. ASSUME writer.pc \in {"encoding", "writing", "encoded"}
      PROVE  Target \in Paths /\ writer.task.born \in Epochs
  BY <1>t DEF WriterInv, Busy, Writing, Writes, Target, Paths
<1>1. CASE Open \/ RemoveFiles
  <2>1. temp' = [p \in Paths |-> NoFile]
    BY <1>1 DEF Open, RemoveFiles
  <2>2. \/ writer' = writer
        \/ writer'.pc = "idle"
    BY <1>1 DEF Open, RemoveFiles, IdleWriter
  <2>3. writer'.pc = "encoded" => Target' \in Paths
    BY <1>t, <2>2 DEF Target
  <2> QED
    BY <2>1, <2>3, FineFacts DEF TempInv, Images
<1>2. CASE Crash
  <2>1. ui' = "down" /\ writer'.pc = "idle" /\ temp' = temp
    BY <1>2 DEF Crash, IdleWriter
  <2> QED
    BY <2>1 DEF TempInv
<1>3. CASE OpenTemp
  <2>1. /\ writer'.pc = "writing" /\ Target' = Target /\ ui' = ui
        /\ temp' = [temp EXCEPT ![Target] = Torn] /\ writer.pc = "encoding"
    BY <1>w, <1>3 DEF OpenTemp, WriterAt, IsWriter, Target
  <2> QED
    BY <1>t, <2>1 DEF TempInv
<1>4. CASE CloseTemp
  <2>1. /\ writer'.pc = "encoded" /\ Target' = Target /\ ui' = ui /\ writer.pc = "writing"
        /\ writer'.task = writer.task
    BY <1>w, <1>4 DEF CloseTemp, WriterAt, IsWriter, Target
  <2>2. PICK image \in Image(writer.task.born) :
           temp' = IF temp[Target] = NoFile THEN temp ELSE [temp EXCEPT ![Target] = image]
    BY <1>4 DEF CloseTemp
  <2>3. image \in Images /\ image \in Fine(writer.task.born)
    BY <1>t, <2>1 DEF Images, Fine
  <2> QED
    BY <1>t, <2>1, <2>2, <2>3, FineFacts DEF TempInv
<1>5. CASE Rename \/ EncodeFails
  <2>1. /\ writer.pc \in {"encoding", "writing", "encoded"} /\ ui' = ui
        /\ temp' = [temp EXCEPT ![Target] = NoFile]
    BY <1>5 DEF Rename, EncodeFails, Ready
  <2>2. CASE Rename
    <3>1. writer'.pc = "renamed"
      BY <1>w, <2>2 DEF Rename, WriterAt, IsWriter
    <3> QED
      BY <1>t, <2>1, <3>1 DEF TempInv, Images
  <2>3. CASE EncodeFails
    <3>1. writer'.pc \in {"encoding", "idle"}
      <4>1. \/ writer' = [writer EXCEPT !.pc = "encoding", !.format = "bmp"]
            \/ writer' = IdleWriter
        BY <2>3 DEF EncodeFails
      <4>2. writer' = [writer EXCEPT !.pc = "encoding", !.format = "bmp"] => writer'.pc = "encoding"
        BY <1>w DEF IsWriter
      <4> QED
        BY <4>1, <4>2 DEF IdleWriter
    <3> QED
      BY <1>t, <2>1, <3>1 DEF TempInv, Images
  <2> QED
    BY <1>5, <2>2, <2>3
<1>6. CASE ~(Open \/ RemoveFiles \/ Crash \/ OpenTemp \/ CloseTemp \/ Rename \/ EncodeFails)
  <2>0. ASSUME Pop \/ NoSpace \/ IndexWrite \/ WorkerStep PROVE temp' = temp /\ ui' = ui
    BY <2>0 DEF Pop, NoSpace, IndexWrite, runVars, WorkerStep, Push, ReadFile, ReadDrop, Capture,
                ReadIndex
  <2>8. ASSUME NEW f \in Flushers, FlushStep(f)
        PROVE  temp' = temp /\ (ui = "down" => ui' = "down")
    <3>1. CASE Snapshot(f) \/ PutProject(f)
      BY <3>1 DEF Snapshot, PutProject, runVars
    <3>2. CASE PutGlobal(f)
      <4>1. f = "ui" => ui # "down"
        BY <3>2 DEF PutGlobal, MetaInv
      <4> QED
        BY <3>2, <4>1 DEF PutGlobal, runVars, Flushers
    <3> QED
      BY <2>8, <3>1, <3>2 DEF FlushStep
  <2>1. temp' = temp /\ (ui = "down" => ui' = "down")
    <3>1. CASE UIStep /\ ~FlushStep("ui")
      BY <1>6, <3>1 DEF UIStep, Invalidate, Clear, Shutdown, Join, SetMaxEntries, SetEnabled, runVars
    <3> QED
      BY <1>6, <2>0, <2>8, <3>1 DEF Next, WriterStep, UIStep, Flushers
  <2>2. CASE Pop \/ NoSpace \/ IndexWrite \/ PutGlobal("writer")
    <3>1. writer.pc \in {"idle", "encoding", "renamed", "flushing"}
      BY <2>2 DEF Pop, NoSpace, IndexWrite, PutGlobal, StopInv
    <3>2. writer'.pc \in {"idle", "encoding", "stopped", "flushing"}
      <4>1. CASE Pop
        BY <1>w, <4>1 DEF Pop, Popped, WriterAt, IdleWriter, IsWriter
      <4>2. CASE NoSpace \/ IndexWrite \/ PutGlobal("writer")
        <5>1. writer' = IdleWriter \/ writer' = [IdleWriter EXCEPT !.pc = "flushing"]
          BY <4>2 DEF NoSpace, IndexWrite, PutGlobal
        <5> QED
          BY <5>1 DEF IdleWriter
      <4> QED
        BY <2>2, <4>1, <4>2
    <3> QED
      BY <2>1, <3>1, <3>2 DEF TempInv
  <2>3. CASE ~(Pop \/ NoSpace \/ IndexWrite \/ PutGlobal("writer"))
    <3>1. writer' = writer
      BY <1>6, <2>3 DEF Next, WriterStep, FlushStep, Snapshot, PutProject,
                PutGlobal, WorkerStep, Push, ReadFile, ReadDrop, Capture, ReadIndex, UIStep,
                Invalidate, Clear, Shutdown, Join, SetMaxEntries, SetEnabled
    <3> QED
      BY <2>1, <3>1 DEF TempInv, Target
  <2> QED
    BY <2>2, <2>3
<1> QED
  BY <1>1, <1>2, <1>3, <1>4, <1>5, <1>6

-----------------------------------------------------------------------------
(* What a reader finds.                                                     *)

LEMMA PathsOfEntries ==
  ASSUME BookInv, NEW k \in Keys, index[k] # NoEntry
  PROVE  /\ k \in Indexed(Entries) /\ PathOf(Entries, k) = <<k, index[k].format>>
         /\ PathOf(Entries, k) \in Paths
<1>1. index[k].format \in Formats
  BY EntriesAre DEF BookInv, Shape, Booked, Sizes
<1> QED
  BY <1>1, EntriesAre DEF Indexed, PathOf, Paths

LEMMA NewestAre ==
  Newest(Entries) <=>
     \A k \in Keys : index[k] # NoEntry =>
        file[<<k, index[k].format>>] \in Fine(epoch[k[1]])
  BY DEF Newest, Indexed, PathOf, Entries

LEMMA NewestNext ==
  Newest(Entries)' <=>
     \A k \in Keys : index'[k] # NoEntry =>
        file'[<<k, index'[k].format>>] \in Fine(epoch'[k[1]])
  BY DEF Newest, Indexed, PathOf, Entries

LEMMA CrashesOnce ==
  ASSUME Next
  PROVE  crashed' = crashed \/ (Crash /\ crashed')
  BY DEF Next, WriterStep, Pop, NoSpace, EncodeFails, OpenTemp, CloseTemp, Rename, IndexWrite, FlushStep,
         Snapshot, PutProject, PutGlobal, WorkerStep, Push, ReadFile, ReadDrop, Capture,
         ReadIndex, UIStep, Invalidate, Clear, RemoveFiles, Shutdown, Join, Open, SetMaxEntries,
         SetEnabled, Crash, runVars

LEMMA NewestErase ==
  ASSUME StampInv, EpochInv, BookInv, Next, ~Adds, Newest(Entries)
  PROVE  Newest(Entries)'
<1>1. Erased(Entries', Entries)
  BY MostErase
<1>2. \A k \in Keys : index'[k] = NoEntry \/ index'[k] = index[k]
  BY <1>1, EntriesAre DEF Erased, Fewer, Entries
<1>3. \A p \in Paths : file'[p] = file[p] \/ file'[p] = NoFile
  BY <1>1 DEF Erased, Entries
<1>4. ASSUME NEW k \in Keys, index'[k] # NoEntry
      PROVE  file'[<<k, index'[k].format>>] \in Fine(epoch'[k[1]])
  <2>1. k[1] \in Elements
    BY DEF Keys
  <2>2. Stays(k[1])
    BY <1>4, <2>1, StaysOrMoves DEF Adds, Moves
  <2>3. index'[k] = index[k] /\ <<k, index[k].format>> \in Paths
    BY <1>2, <1>4, PathsOfEntries
  <2>4. file[<<k, index[k].format>>] \in Fine(epoch[k[1]])
    BY <1>4, <2>3, NewestAre
  <2> QED
    BY FineFacts, <1>3, <2>2, <2>3, <2>4 DEF Stays
<1> QED
  BY <1>4, NewestNext

LEMMA NewestStep ==
  ASSUME StampInv, EpochInv, BookInv, WriterInv, TempInv, NewestInv, MetaInv, Next
  PROVE  NewestInv'
<1> SUFFICES ASSUME ~crashed' PROVE Newest(Entries)'
  BY DEF NewestInv
<1>c. ~crashed /\ Newest(Entries)
  BY CrashesOnce DEF NewestInv
<1>1. CASE ~Adds
  BY <1>c, <1>1, NewestErase
<1>2. CASE Rename
  <2> DEFINE task == writer.task
             q == <<writer.task.key, writer.format>>
  <2>1. /\ UNCHANGED <<index, epoch>> /\ file' = [file EXCEPT ![q] = temp[q]] /\ Busy
        /\ temp[q] \in Fine(task.born)
    BY <1>2, RenameBooks DEF Rename, Ready, genVars, Busy, Target
  <2>2. Writing(writer)
    BY <2>1 DEF WriterInv
  <2>3. task.key \in Keys
    BY <2>2 DEF Writing, Writes
  <2>4. ASSUME NEW k \in Keys, index'[k] # NoEntry
        PROVE  file'[<<k, index'[k].format>>] \in Fine(epoch'[k[1]])
    <3>1. /\ file[<<k, index[k].format>>] \in Fine(epoch[k[1]])
          /\ <<k, index[k].format>> \in Paths
      BY <1>c, <2>1, <2>4, NewestAre, PathsOfEntries
    <3>2. CASE q # <<k, index[k].format>>
      BY <2>1, <3>1, <3>2 DEF BookInv
    <3>3. CASE q = <<k, index[k].format>>
      <4>1. k = task.key
        BY <3>3
      <4>2. Current(task)
        BY <2>1, <2>2, <2>4, <4>1 DEF Writing
      <4>3. task.born = epoch[k[1]]
        BY <2>2, <4>1, <4>2 DEF Writing, Dated
      <4>4. file'[q] \in Fine(task.born)
        BY <2>1, <3>1, <3>3 DEF BookInv
      <4> QED
        BY <2>1, <3>3, <4>3, <4>4
    <3> QED
      BY <3>2, <3>3
  <2> QED
    BY <2>4, NewestNext
<1>3. CASE IndexWrite /\ Admitted(writer.task)
  <2> DEFINE task == writer.task
  <2>1. /\ \A k \in Keys : \/ index'[k] = NoEntry
                           \/ index'[k] = IF k = task.key THEN Entry(task, writer.format)
                                          ELSE index[k]
        /\ \A p \in Paths : file'[p] = file[p] \/ file'[p] = NoFile
    BY <1>3, AdmitBooks
  <2>2. Writing(writer) /\ writer.pc = "renamed" /\ Current(task) /\ epoch' = epoch
    BY <1>3 DEF WriterInv, IndexWrite, Busy, Admitted, genVars
  <2>3. /\ file[<<task.key, writer.format>>] \in Fine(epoch[task.key[1]])
        /\ <<task.key, writer.format>> \in Paths
    BY <2>2 DEF Writing, Dated, Writes, Paths
  <2>4. ASSUME NEW k \in Keys, index'[k] # NoEntry
        PROVE  file'[<<k, index'[k].format>>] \in Fine(epoch'[k[1]])
    <3>1. CASE k = task.key
      <4>1. index'[k].format = writer.format
        BY <2>1, <2>4, <3>1 DEF Entry
      <4> QED
        BY FineFacts, <2>1, <2>2, <2>3, <3>1, <4>1
    <3>2. CASE k # task.key
      <4>1. index'[k] = index[k]
        BY <2>1, <2>4, <3>2
      <4>2. /\ file[<<k, index[k].format>>] \in Fine(epoch[k[1]])
            /\ <<k, index[k].format>> \in Paths
        BY <1>c, <2>4, <4>1, NewestAre, PathsOfEntries
      <4> QED
        BY FineFacts, <2>1, <2>2, <4>1, <4>2
    <3> QED
      BY <3>1, <3>2
  <2> QED
    BY <2>4, NewestNext
<1>4. CASE Open
  <2>1. Whole(metaProject) /\ Whole(metaGlobal) /\ FlushTypes
    BY <1>c, <1>4 DEF MetaInv, Open
  <2> QED
    BY <1>4, <2>1, OpenBooks
<1> QED
  BY <1>1, <1>2, <1>3, <1>4 DEF Adds

-----------------------------------------------------------------------------
(* The metadata files.                                                      *)

\* Nothing of the index moves while the service closes, or is closed.
LEMMA ClosedStill ==
  ASSUME StopInv, Next, ui \in {"closing", "down"}, ~Open
  PROVE  /\ flush["writer"].at = "none" /\ ~Adds /\ epoch' = epoch
         /\ ~FlushStep("writer") /\ ~IndexWrite
<1>1. writer.pc \in {"stopped", "idle"} /\ flush["writer"].at = "none"
  BY DEF StopInv, Closed
<1>2. ~Rename /\ ~IndexWrite
  BY <1>1 DEF Rename, Ready, IndexWrite
<1>3. ~FlushStep("writer")
  BY <1>1 DEF FlushStep, Snapshot, PutProject, PutGlobal
<1>4. ~Adds
  BY <1>2 DEF Adds
<1>5. epoch' = epoch
  <2>1. ~(\E e \in Elements : Invalidate(e)) /\ ~Clear
    BY DEF Invalidate, Clear
  <2> QED
    BY <2>1 DEF Next, WriterStep, Pop, NoSpace, EncodeFails, OpenTemp, CloseTemp, Rename, IndexWrite,
         FlushStep, Snapshot, PutProject, PutGlobal, WorkerStep, Push, ReadFile, ReadDrop,
         Capture, ReadIndex, UIStep, RemoveFiles, Shutdown, Join, SetMaxEntries, SetEnabled,
         Crash, genVars
<1> QED
  BY <1>1, <1>2, <1>3, <1>4, <1>5

LEMMA ListStays ==
  ASSUME Erased(Entries', Entries), epoch' = epoch, NEW l \in Seq(Paths), ListOK(file, l)
  PROVE  ListOK(file, l)'
<1>1. \A p \in Paths : file'[p] = file[p] \/ file'[p] = NoFile
  BY DEF Erased, Entries
<1>2. \A i \in 1..Len(l) : l[i] \in Paths
  OBVIOUS
<1> QED
  BY FineFacts, <1>1, <1>2 DEF ListOK

LEMMA WholeStays ==
  ASSUME Erased(Entries', Entries), epoch' = epoch, NEW m \in MetaFiles, Whole(m)
  PROVE  Whole(m)'
<1>1. \A l \in m : l \in Seq(Paths)
  BY DEF MetaFiles, Garbled
<1> QED
  BY <1>1, ListStays DEF Whole

\* A flush that begins.
LEMMA FlushBegins ==
  ASSUME StopTypes, FlushTypes, NEW f \in Flushers, flush[f].at = "none",
         flush' = [flush EXCEPT ![f].at = "project"],
         metaProject' \in MetaFiles, metaGlobal' \in MetaFiles
  PROVE  /\ FlushTypes' /\ flush'[f].at = "project"
         /\ \A g \in Flushers \ {f} : flush'[g] = flush[g]
<1>1. flush = [g \in Flushers |-> flush[g]] /\ IsFlush(flush[f])
  BY DEF StopTypes
<1>2. flush'[f] = [flush[f] EXCEPT !.at = "project"] /\ \A g \in Flushers \ {f} : flush'[g] = flush[g]
  BY <1>1
<1>3. flush'[f].at = "project" /\ flush'[f].snap = flush[f].snap /\ flush'[f].clash = flush[f].clash
  <2> DEFINE r == flush[f]
  <2>1. r = [at |-> r.at, snap |-> r.snap, clash |-> r.clash]
    BY <1>1 DEF IsFlush
  <2> HIDE DEF r
  <2>2. [r EXCEPT !.at = "project"] = [at |-> "project", snap |-> r.snap, clash |-> r.clash]
    BY <2>1
  <2> QED
    BY <1>2, <2>2 DEF r
<1> QED
  BY <1>2, <1>3 DEF FlushTypes

LEMMA SnapshotMeta ==
  ASSUME StopInv, BookInv, NewestInv, MetaInv, NEW f \in Flushers, Snapshot(f)
  PROVE  MetaInv'
<1> DEFINE put == IF flush[f].at = "project" THEN "put project" ELSE "put global"
           twins == {g \in Flushers \ {f} : flush[g].at = put}
           snap == Listed(Entries)
<1>1. /\ flush[f].at \in {"project", "global"}
      /\ flush' = [g \in Flushers |->
                     IF g = f THEN [at |-> put, snap |-> snap, clash |-> twins # {}]
                     ELSE [flush[g] EXCEPT !.clash = @ \/ g \in twins]]
      /\ UNCHANGED <<index, lru, total, file, epoch, metaProject, metaGlobal, writer, ui, crashed>>
  BY DEF Snapshot, entryVars, genVars, runVars
<1>2. /\ snap \in Seq(Paths)
      /\ \A i \in 1..Len(snap) : \E k \in Indexed(Entries) : snap[i] = PathOf(Entries, k)
  BY ListedIs DEF BookInv
<1>3. flush'[f].at = put /\ flush'[f].snap = snap /\ flush'[f].clash = (twins # {})
  BY <1>1
<1>4. ASSUME NEW g \in Flushers \ {f}
      PROVE  /\ flush'[g].at = flush[g].at /\ flush'[g].snap = flush[g].snap
             /\ flush'[g].clash = (flush[g].clash \/ g \in twins)
  <2> DEFINE r == flush[g]
             c == g \in twins
  <2>1. r = [at |-> r.at, snap |-> r.snap, clash |-> r.clash]
    BY DEF StopInv, StopTypes, IsFlush
  <2>2. flush'[g] = [r EXCEPT !.clash = @ \/ c]
    BY <1>1
  <2> HIDE DEF r, c
  <2>3. flush'[g] = [at |-> r.at, snap |-> r.snap, clash |-> (r.clash \/ c)]
    BY <2>1, <2>2
  <2>4. flush'[g].at = r.at /\ flush'[g].snap = r.snap
    BY <2>3
  <2>5. flush'[g].clash = (r.clash \/ c)
    <3> DEFINE b == r.clash \/ c
    <3>1. flush'[g] = [at |-> r.at, snap |-> r.snap, clash |-> b]
      BY <2>3
    <3> HIDE DEF b
    <3>2. flush'[g].clash = b
      BY <3>1
    <3> QED
      BY <3>2 DEF b
  <2> QED
    BY <2>4, <2>5 DEF r, c
<1>5. FlushTypes'
  <2>1. metaProject' \in MetaFiles /\ metaGlobal' \in MetaFiles
    BY <1>1 DEF MetaInv, FlushTypes
  <2>2. put \in {"put project", "put global"}
    OBVIOUS
  <2> HIDE DEF snap
  <2>3. /\ flush'[f].snap \in Seq(Paths) /\ flush'[f].clash \in BOOLEAN
        /\ flush'[f].at \in {"none", "project", "put project", "global", "put global"}
        /\ flush'[f].at \in {"none", "project", "global"} => ~flush'[f].clash
    BY <1>2, <1>3
  <2>4. ASSUME NEW g \in Flushers \ {f}
        PROVE  /\ flush'[g].snap \in Seq(Paths) /\ flush'[g].clash \in BOOLEAN
               /\ flush'[g].at \in {"none", "project", "put project", "global", "put global"}
               /\ flush'[g].at \in {"none", "project", "global"} => ~flush'[g].clash
    <3>1. /\ flush[g].snap \in Seq(Paths) /\ flush[g].clash \in BOOLEAN
          /\ flush[g].at \in {"none", "project", "put project", "global", "put global"}
          /\ flush[g].at \in {"none", "project", "global"} => ~flush[g].clash
      BY DEF MetaInv, FlushTypes
    <3>2. g \in twins => flush[g].at \in {"put project", "put global"}
      OBVIOUS
    <3> HIDE DEF twins
    <3> QED
      BY <1>4, <3>1, <3>2
  <2> QED
    BY <2>1, <2>3, <2>4 DEF FlushTypes
<1>6. "ui" \in Flushers /\ "writer" \in Flushers /\ Flushers = {"ui", "writer"}
  BY DEF Flushers
<1>7. ui \in {"free", "removing", "joining", "down"} => flush'["ui"].at = "none"
  BY <1>1, <1>4, <1>6 DEF MetaInv
<1>8. ASSUME ~crashed, ui = "closing", flush'["ui"].at \in {"put project", "put global"}
      PROVE  ~flush'["ui"].clash /\ ListOK(file, flush["ui"].snap)'
  <2>1. flush["writer"].at = "none"
    BY <1>8 DEF StopInv, Closed
  <2>2. f = "ui" /\ twins = {}
    BY <1>1, <1>6, <2>1
  <2>3. ListOK(file, snap)
    <3> SUFFICES ASSUME NEW i \in 1..Len(snap)
                 PROVE  file[snap[i]] \in Fine(epoch[snap[i][1][1]])
      BY DEF ListOK
    <3>1. PICK k \in Indexed(Entries) : snap[i] = PathOf(Entries, k)
      BY <1>2
    <3>2. Entries.file[PathOf(Entries, k)] \in Fine(epoch[k[1]])
      BY <1>8, <3>1 DEF NewestInv, Newest
    <3>3. PathOf(Entries, k)[1] = k
      BY DEF PathOf
    <3> QED
      BY <3>1, <3>2, <3>3, EntriesAre
  <2> HIDE DEF snap
  <2> QED
    BY <1>1, <1>3, <2>2, <2>3 DEF ListOK
<1>9. ASSUME ~crashed, ui = "closing", flush'["ui"].at \in {"global", "put global"}
      PROVE  Whole(metaProject)'
  <2>1. flush["writer"].at = "none"
    BY <1>9 DEF StopInv, Closed
  <2>2. f = "ui" /\ flush["ui"].at = "global"
    BY <1>1, <1>3, <1>6, <1>9, <2>1
  <2> QED
    BY <1>1, <1>9, <2>2 DEF MetaInv, Whole, ListOK
<1>10. ui # "down"
  BY <1>1, <1>6 DEF StopInv, Closed, MetaInv
<1> QED
  BY <1>1, <1>5, <1>7, <1>8, <1>9, <1>10 DEF MetaInv

LEMMA PutMeta ==
  ASSUME StopInv, MetaInv, NEW f \in Flushers, PutProject(f) \/ PutGlobal(f)
  PROVE  MetaInv'
<1>0. Flushers = {"ui", "writer"}
  BY DEF Flushers
<1>1. /\ flush[f].snap \in Seq(Paths) /\ metaProject \in MetaFiles /\ metaGlobal \in MetaFiles
      /\ flush = [g \in Flushers |-> flush[g]]
  BY DEF MetaInv, FlushTypes, StopInv, StopTypes
<1>2. {flush[f].snap} \in MetaFiles /\ Garbled \in MetaFiles
  BY <1>1 DEF MetaFiles
<1>3. <<>> \in Seq(Paths)
  OBVIOUS
<1>4. UNCHANGED <<file, epoch, crashed>> /\ flush[f].at \in {"put project", "put global"}
  BY DEF PutProject, PutGlobal, entryVars, genVars, runVars
<1>5. ui \in {"closing", "down"} => f = "ui"
  BY <1>0, <1>4 DEF StopInv, Closed
<1>6. CASE PutProject(f)
  <2>1. /\ flush[f].at = "put project" /\ metaProject' \in Outcomes(f, metaProject)
        /\ flush' = [flush EXCEPT ![f] = [NoFlush EXCEPT !.at = "global"]]
        /\ UNCHANGED <<metaGlobal, ui>>
    BY <1>6 DEF PutProject
  <2>2. metaProject' \in MetaFiles
    BY <1>1, <1>2, <2>1 DEF Outcomes
  <2>3. /\ flush'[f] = [at |-> "global", snap |-> <<>>, clash |-> FALSE]
        /\ \A g \in Flushers \ {f} : flush'[g] = flush[g]
    BY <1>1, <2>1 DEF NoFlush
  <2>4. FlushTypes'
    BY <1>1, <1>3, <2>1, <2>2, <2>3 DEF FlushTypes, MetaInv
  <2>5. ui \in {"free", "removing", "joining", "down"} => flush'["ui"].at = "none"
    BY <1>0, <1>4, <2>3 DEF MetaInv
  <2>6. ASSUME ~crashed, ui = "closing" PROVE Whole(metaProject)' /\ flush'["ui"].at = "global"
    <3>1. f = "ui" /\ ~flush["ui"].clash /\ ListOK(file, flush["ui"].snap)
      BY <1>5, <2>1, <2>6 DEF MetaInv
    <3>2. metaProject' = {flush["ui"].snap}
      BY <2>1, <3>1 DEF Outcomes
    <3>3. flush'["ui"].at = "global"
      BY <2>3, <3>1
    <3>p. PICK l : l = flush["ui"].snap
      OBVIOUS
    <3>4. ListOK(file, l)'
      BY <1>4, <3>1, <3>p DEF ListOK
    <3>5. metaProject' = {l}
      BY <3>2, <3>p
    <3>6. Whole(metaProject)'
      BY <3>4, <3>5 DEF Whole, ListOK, Garbled
    <3> QED
      BY <3>3, <3>6
  <2>7. ui # "down"
    BY <1>4, <1>5 DEF MetaInv
  <2> QED
    BY <1>4, <2>1, <2>4, <2>5, <2>6, <2>7 DEF MetaInv
<1>7. CASE PutGlobal(f)
  <2>1. /\ flush[f].at = "put global" /\ metaGlobal' \in Outcomes(f, metaGlobal)
        /\ flush' = [flush EXCEPT ![f] = NoFlush] /\ UNCHANGED metaProject
        /\ ui' = IF f = "writer" THEN ui ELSE IF ui = "closing" THEN "down" ELSE "free"
    BY <1>7 DEF PutGlobal
  <2>2. metaGlobal' \in MetaFiles
    BY <1>1, <1>2, <2>1 DEF Outcomes
  <2>3. /\ flush'[f] = [at |-> "none", snap |-> <<>>, clash |-> FALSE]
        /\ \A g \in Flushers \ {f} : flush'[g] = flush[g]
    BY <1>1, <2>1 DEF NoFlush
  <2>4. FlushTypes'
    <3>1. /\ flush'[f].snap \in Seq(Paths) /\ flush'[f].clash \in BOOLEAN
          /\ flush'[f].at = "none" /\ ~flush'[f].clash
      BY <1>3, <2>3
    <3>2. ASSUME NEW g \in Flushers \ {f}
          PROVE  /\ flush'[g].snap \in Seq(Paths) /\ flush'[g].clash \in BOOLEAN
                 /\ flush'[g].at \in {"none", "project", "put project", "global", "put global"}
                 /\ flush'[g].at \in {"none", "project", "global"} => ~flush'[g].clash
      BY <2>3 DEF FlushTypes, MetaInv
    <3>3. metaProject' \in MetaFiles
      BY <1>1, <2>1
    <3> QED
      BY <2>2, <3>1, <3>2, <3>3 DEF FlushTypes
  <2>5. ui' \in {"free", "removing", "joining", "down"} => flush'["ui"].at = "none"
    <3>1. CASE f = "ui"
      BY <2>3, <3>1
    <3>2. CASE f = "writer"
      <4>1. ui' = ui /\ flush'["ui"] = flush["ui"]
        BY <1>0, <2>1, <2>3, <3>2
      <4> QED
        BY <4>1 DEF MetaInv
    <3> QED
      BY <1>0, <3>1, <3>2
  <2>6. ui' # "closing"
    BY <1>0, <1>5, <2>1
  <2>7. ASSUME ~crashed, ui' = "down" PROVE Whole(metaProject)' /\ Whole(metaGlobal)'
    <3>1. f = "ui" /\ ui = "closing"
      BY <1>0, <1>4, <1>5, <2>1, <2>7 DEF MetaInv
    <3>2. ~flush["ui"].clash /\ ListOK(file, flush["ui"].snap) /\ Whole(metaProject)
      BY <2>1, <2>7, <3>1 DEF MetaInv
    <3>3. metaGlobal' = {flush["ui"].snap}
      BY <2>1, <3>1, <3>2 DEF Outcomes
    <3> QED
      BY <1>4, <2>1, <3>2, <3>3 DEF Whole, ListOK, Garbled
  <2>8. ui' \in {"free", "removing", "flushing", "joining", "closing", "down"}
    BY <2>1 DEF MetaInv
  <2> QED
    BY <1>4, <2>4, <2>5, <2>6, <2>7, <2>8 DEF MetaInv
<1> QED
  BY <1>6, <1>7

\* A step elsewhere: what the metadata list is erased at most.
LEMMA ElseMeta ==
  ASSUME StopInv, BookInv, MetaInv, Next, ~Open,
         UNCHANGED <<flush, metaProject, metaGlobal, ui, crashed>>
  PROVE  MetaInv'
<1>1. FlushTypes'
  BY DEF MetaInv, FlushTypes
<1>2. ASSUME ui \in {"closing", "down"} PROVE Erased(Entries', Entries) /\ epoch' = epoch
  BY <1>2, ClosedStill, MostErase
<1>t. metaProject \in MetaFiles /\ metaGlobal \in MetaFiles /\ flush["ui"].snap \in Seq(Paths)
  BY DEF MetaInv, FlushTypes, Flushers
<1>3. ASSUME ui \in {"closing", "down"}, Whole(metaProject) PROVE Whole(metaProject)'
  <2>1. PICK m : m = metaProject
    OBVIOUS
  <2>2. Whole(m)'
    BY <1>2, <1>3, <1>t, <2>1, WholeStays
  <2> QED
    BY <2>1, <2>2 DEF Whole
<1>4. ASSUME ui \in {"closing", "down"}, Whole(metaGlobal) PROVE Whole(metaGlobal)'
  <2>1. PICK m : m = metaGlobal
    OBVIOUS
  <2>2. Whole(m)'
    BY <1>2, <1>4, <1>t, <2>1, WholeStays
  <2> QED
    BY <2>1, <2>2 DEF Whole
<1>5. ASSUME ui \in {"closing", "down"}, ListOK(file, flush["ui"].snap)
      PROVE  ListOK(file, flush["ui"].snap)'
  <2>1. PICK l : l = flush["ui"].snap
    OBVIOUS
  <2>2. ListOK(file, l)'
    BY <1>2, <1>5, <1>t, <2>1, ListStays
  <2> QED
    BY <2>1, <2>2 DEF ListOK
<1> QED
  BY <1>1, <1>3, <1>4, <1>5 DEF MetaInv

LEMMA MetaStep ==
  ASSUME StopInv, BookInv, NewestInv, MetaInv, Next
  PROVE  MetaInv'
<1>0. StopTypes /\ FlushTypes /\ Flushers = {"ui", "writer"}
  BY DEF StopInv, MetaInv, Flushers
<1>1. CASE \E f \in Flushers : FlushStep(f)
  BY <1>1, SnapshotMeta, PutMeta DEF FlushStep
<1>2. CASE IndexWrite
  <2>1. /\ UNCHANGED <<metaProject, metaGlobal, ui, crashed>>
        /\ flush' = flush \/ flush' = [flush EXCEPT !["writer"].at = "project"]
        /\ writer.pc = "renamed"
    BY <1>2 DEF IndexWrite, runVars
  <2>2. flush["writer"].at = "none" /\ ui \notin {"closing", "down"}
    BY <1>2, <2>1, ClosedStill DEF StopInv, Open, IndexWrite, Closed
  <2>3. FlushTypes' /\ flush'["ui"] = flush["ui"]
    <3>1. CASE flush' = flush
      BY <2>1, <3>1 DEF MetaInv, FlushTypes
    <3>2. CASE flush' # flush
      BY <1>0, <2>1, <2>2, <3>2, FlushBegins DEF FlushTypes
    <3> QED
      BY <3>1, <3>2
  <2> QED
    BY <2>1, <2>2, <2>3 DEF MetaInv
<1>3. CASE RemoveFiles
  <2>1. /\ ui = "removing" /\ ui' = "flushing" /\ metaProject' = {<<>>}
        /\ flush' = [flush EXCEPT !["ui"].at = "project"] /\ UNCHANGED metaGlobal
    BY <1>3 DEF RemoveFiles
  <2>2. metaProject' \in MetaFiles
    <3>1. <<>> \in Seq(Paths)
      OBVIOUS
    <3> QED
      BY <2>1, <3>1 DEF MetaFiles
  <2>3. FlushTypes'
    BY <1>0, <2>1, <2>2, FlushBegins DEF MetaInv, FlushTypes
  <2> QED
    BY <2>1, <2>3 DEF MetaInv
<1>4. CASE Join
  <2>1. /\ ui = "joining" /\ ui' = "closing"
        /\ flush' = [flush EXCEPT !["ui"].at = "project"] /\ UNCHANGED <<metaProject, metaGlobal>>
    BY <1>4 DEF Join
  <2>2. FlushTypes' /\ flush'["ui"].at = "project"
    BY <1>0, <2>1, FlushBegins DEF MetaInv, FlushTypes
  <2> QED
    BY <2>1, <2>2 DEF MetaInv
<1>5. CASE Clear \/ Shutdown
  <2>1. /\ ui = "free" /\ ui' \in {"removing", "joining"}
        /\ UNCHANGED <<flush, metaProject, metaGlobal>>
    BY <1>5 DEF Clear, Shutdown, metaVars
  <2> QED
    BY <2>1 DEF MetaInv, FlushTypes
<1>6. CASE Open
  <2>1. ui = "down" /\ ui' = "free" /\ UNCHANGED flush
    BY <1>6 DEF Open
  <2>2. metaProject' \in MetaFiles /\ metaGlobal' \in MetaFiles
    BY <1>0, <1>6, OpenBooks
  <2> QED
    BY <2>1, <2>2 DEF MetaInv, FlushTypes
<1>7. CASE Crash
  <2>1. /\ ui' = "down" /\ crashed' /\ flush' = [f \in Flushers |-> NoFlush]
        /\ UNCHANGED <<metaProject, metaGlobal>>
    BY <1>7 DEF Crash
  <2>2. \A f \in Flushers : flush'[f].at = "none" /\ flush'[f].snap = <<>> /\ flush'[f].clash = FALSE
    BY <2>1 DEF NoFlush
  <2>3. <<>> \in Seq(Paths)
    OBVIOUS
  <2>4. FlushTypes'
    BY <2>1, <2>2, <2>3 DEF MetaInv, FlushTypes
  <2> QED
    BY <1>0, <2>1, <2>2, <2>4 DEF MetaInv
<1>8. CASE \/ Pop \/ NoSpace \/ EncodeFails \/ OpenTemp \/ CloseTemp \/ Rename \/ WorkerStep
           \/ (\E e \in Elements : Invalidate(e))
           \/ (\E n \in Limits : SetMaxEntries(n)) \/ (\E b \in Switches : SetEnabled(b))
  <2>1. UNCHANGED <<flush, metaProject, metaGlobal, ui, crashed>>
    BY <1>8 DEF Pop, NoSpace, EncodeFails, OpenTemp, CloseTemp, Rename, WorkerStep, Push, ReadFile, ReadDrop,
                Capture, ReadIndex, Invalidate, SetMaxEntries, SetEnabled, metaVars, runVars
  <2>2. CASE Open
    BY <1>6, <2>2
  <2> QED
    BY <2>1, <2>2, ElseMeta
<1> QED
  BY <1>0, <1>1, <1>2, <1>3, <1>4, <1>5, <1>6, <1>7, <1>8 DEF Next, WriterStep, UIStep

-----------------------------------------------------------------------------
(* The invariant as a whole.                                                *)

LEMMA BookStep ==
  ASSUME BookInv, WriterInv, TempInv, MetaInv, Next
  PROVE  BookInv'
<1>1. CASE ~Adds
  BY <1>1, MostErase
<1>2. CASE Rename
  BY <1>2, RenameBooks
<1>3. CASE IndexWrite /\ Admitted(writer.task)
  BY <1>3, AdmitBooks
<1>4. CASE Open
  BY <1>4, OpenBooks DEF MetaInv
<1> QED
  BY <1>1, <1>2, <1>3, <1>4 DEF Adds

LEMMA DiskStays ==
  ASSUME DiskInv, UNCHANGED vars
  PROVE  DiskInv'
<1>1. /\ UNCHANGED <<index, lru, total, file, gen, clearGen, epoch, flush, metaProject>>
      /\ UNCHANGED <<metaGlobal, enabled, limit, queue, producer, writer, ui, crashed>>
  BY DEF vars, entryVars, genVars, metaVars, runVars
<1>t. temp' = temp
  BY DEF vars, runVars
<1>2. StampInv' /\ StopInv'
  BY StampStep, StopStep DEF DiskInv
<1>3. Entries' = Entries
  BY <1>1 DEF Entries
<1>4. BookInv'
  BY <1>1, <1>3 DEF DiskInv, BookInv, Shape, Booked, IsEntries, Sizes
<1>5. EpochInv'
  BY <1>1 DEF DiskInv, EpochInv
<1>6. TaskInv' /\ WriterInv'
  BY <1>1 DEF DiskInv, TaskInv, WriterInv, Waiting, Writing, Dated, Current, Busy
<1>7. NewestInv'
  BY <1>1, <1>3 DEF DiskInv, NewestInv, Newest, PathOf
<1>8. MetaInv'
  BY <1>1 DEF DiskInv, MetaInv, FlushTypes, Whole, ListOK
<1>9. TempInv'
  BY <1>1, <1>t DEF DiskInv, TempInv, Target
<1> QED
  BY <1>2, <1>4, <1>5, <1>6, <1>7, <1>8, <1>9 DEF DiskInv

LEMMA DiskStep ==
  ASSUME DiskInv, [Next]_vars
  PROVE  DiskInv'
<1>1. CASE Next
  <2>1. /\ StampInv /\ StopInv /\ BookInv /\ EpochInv /\ TaskInv /\ WriterInv /\ TempInv
        /\ NewestInv /\ MetaInv
    BY DEF DiskInv
  <2>2. StampInv' /\ StopInv'
    BY <2>1, StampStep, StopStep
  <2>3. EpochInv'
    BY <1>1, <2>1, EpochStep
  <2>4. BookInv'
    BY <1>1, <2>1, BookStep
  <2>5. TaskInv'
    BY <1>1, <2>1, <2>3, TaskStep
  <2>6. WriterInv'
    BY <1>1, <2>1, <2>3, WriterInvStep
  <2>7. NewestInv'
    BY <1>1, <2>1, NewestStep
  <2>8. MetaInv'
    BY <1>1, <2>1, MetaStep
  <2>9. TempInv'
    BY <1>1, <2>1, TempStep
  <2> QED
    BY <2>2, <2>3, <2>4, <2>5, <2>6, <2>7, <2>8, <2>9 DEF DiskInv
<1>2. CASE UNCHANGED vars
  BY <1>2, DiskStays
<1> QED
  BY <1>1, <1>2

LEMMA DiskInit ==
  ASSUME Init
  PROVE  DiskInv
<1>1. /\ index = Fresh.index /\ lru = Fresh.lru /\ total = 0
      /\ file = [p \in Paths |-> NoFile] /\ limit = DefaultMaxEntries /\ enabled = TRUE
      /\ gen = [e \in Elements |-> 0] /\ clearGen = 0 /\ epoch = [e \in Elements |-> 0]
      /\ queue = <<>> /\ producer = NoTask /\ writer = IdleWriter /\ ui = "free"
      /\ flush = [f \in Flushers |-> NoFlush] /\ metaProject = {<<>>} /\ metaGlobal = {<<>>}
  BY DEF Init
<1>2. DefaultMaxEntries \in Nat \ {0} /\ MaxEpoch \in Nat
  BY DiskCacheAssumption
<1>3. lru = [keys |-> <<>>, cap |-> DefaultMaxEntries] /\ \A k \in Keys : index[k] = NoEntry
  BY <1>1 DEF Fresh, EmptyCache
<1>4. Shape(Entries) /\ Indexed(Entries) = {}
  <2>1. Entries = [index |-> Fresh.index, lru |-> [keys |-> <<>>, cap |-> DefaultMaxEntries],
                   total |-> 0, file |-> Entries.file]
        /\ Entries.file = [p \in Paths |-> Entries.file[p]]
    BY <1>1, <1>3 DEF Entries
  <2> QED
    BY <1>2, <2>1, EmptyShape
<1>5. BookInv
  <2>1. index \in [Keys -> Stamps] /\ file \in [Paths -> Images]
    BY <1>1 DEF Fresh, Stamps, Images
  <2>2. Len(lru.keys) = 0
    BY <1>3
  <2> QED
    BY <1>1, <1>2, <1>4, <2>1, <2>2 DEF BookInv
<1>6. EpochInv
  BY <1>1, <1>2 DEF EpochInv, Epochs
<1>7. TaskInv /\ WriterInv
  BY <1>1 DEF TaskInv, WriterInv, Busy, IdleWriter
<1>8. NewestInv
  BY <1>4 DEF NewestInv, Newest
<1>9. MetaInv
  <2>1. \A f \in Flushers : flush[f].at = "none" /\ flush[f].snap = <<>> /\ flush[f].clash = FALSE
    BY <1>1 DEF NoFlush
  <2>2. <<>> \in Seq(Paths) /\ "ui" \in Flushers
    BY DEF Flushers
  <2>3. {<<>>} \in MetaFiles
    BY <2>2 DEF MetaFiles
  <2>4. FlushTypes
    BY <1>1, <2>1, <2>2, <2>3 DEF FlushTypes
  <2> QED
    BY <1>1, <2>1, <2>2, <2>4 DEF MetaInv
<1>10. TempInv
  <2>1. temp = [p \in Paths |-> NoFile] /\ writer.pc = "idle"
    BY <1>1 DEF Init, IdleWriter
  <2> QED
    BY <2>1 DEF TempInv, Images
<1> QED
  BY <1>5, <1>6, <1>7, <1>8, <1>9, <1>10, StampInit, StopInit DEF DiskInv

-----------------------------------------------------------------------------
LEMMA BooksFollow ==
  ASSUME DiskInv
  PROVE  IndexConsistent
<1>0. StampInv /\ BookInv /\ EpochInv /\ WriterInv /\ TempInv /\ MetaInv
  BY DEF DiskInv
<1>1. /\ IsEntries(Entries) /\ Entries.index = index /\ Entries.lru = lru
      /\ Entries.total = total /\ Entries.file = file
  BY <1>0, EntriesAre
<1>2. Good(lru) /\ KeysOf(lru) = Indexed(Entries) /\ total = SizeOf(Entries, Indexed(Entries))
  BY <1>0, <1>1 DEF BookInv, Shape, Booked
<1>3. /\ IsFiniteSet(KeysOf(lru)) /\ Cardinality(KeysOf(lru)) = Len(lru.keys)
      /\ Len(lru.keys) \in Nat /\ lru.cap \in Nat
  BY <1>2, CardKeys, GoodFacts
<1>4. total \in Nat
  BY <1>2, <1>3, SizeIs
<1>5. WithinLimit /\ LruMatchesIndex /\ SizeMatches
  BY <1>0, <1>2, <1>3 DEF WithinLimit, LruMatchesIndex, SizeMatches, BookInv
<1>6. MaxEpoch \in Nat /\ Elements # {}
  BY DiskCacheAssumption
<1>7. \A e \in Elements : gen[e] \in 0..MaxEpoch /\ epoch[e] \in 0..MaxEpoch /\ clearGen \in 0..MaxEpoch
  BY <1>0, <1>6 DEF EpochInv, Epochs
<1>8. /\ gen \in [Elements -> 0..MaxEpoch] /\ epoch \in [Elements -> 0..MaxEpoch]
      /\ clearGen \in 0..MaxEpoch
  BY <1>0, <1>6, <1>7 DEF EpochInv, Epochs
<1>9. index \in [Keys -> {NoEntry} \cup [format : Formats, inv : 0..MaxEpoch, clear : 0..MaxEpoch]]
  <2>1. ASSUME NEW k \in Keys, index[k] # NoEntry
        PROVE  index[k] \in [format : Formats, inv : 0..MaxEpoch, clear : 0..MaxEpoch]
    <3>1. index[k] \in [format : Formats, inv : Nat, clear : Nat]
      BY <1>0, <2>1 DEF BookInv, Stamps
    <3>2. k[1] \in Elements
      BY DEF Keys
    <3>3. index[k].inv \in 0..MaxEpoch /\ index[k].clear \in 0..MaxEpoch
      BY <1>0, <1>7, <1>8, <2>1, <3>2 DEF StampInv, NoStaleEntry
    <3> QED
      BY <3>1, <3>3
  <2> QED
    BY <1>0, <2>1 DEF BookInv
<1>10. \A p \in Paths :
          /\ file[p] \in {NoFile} \cup UNION {Image(n) : n \in 0..MaxEpoch}
          /\ temp[p] \in {NoFile, Torn} \cup UNION {Image(n) : n \in 0..MaxEpoch}
  BY <1>0 DEF BookInv, TempInv, Images, Epochs
<1>11. KeysOf(lru) \subseteq Keys
  BY <1>2 DEF Indexed
<1>12. enabled \in BOOLEAN /\ limit \in Nat
  BY <1>0 DEF BookInv
<1>13. TypeOK
  BY <1>0, <1>3, <1>4, <1>8, <1>9, <1>10, <1>11, <1>12 DEF TypeOK, WriterInv, MetaInv
<1> QED
  BY <1>5, <1>13 DEF IndexConsistent

\* The types, the sum of the sizes, the LRU list and the limit agree with the
\* index after any steps of the threads, restarts and crashes (index_,
\* lru_index_, total_size_bytes_, max_entries_), for any keys and bounds.
THEOREM BooksAgree == Spec => []IndexConsistent
<1>1. Init => DiskInv
  BY DiskInit
<1>2. DiskInv /\ [Next]_vars => DiskInv'
  BY DiskStep
<1>3. DiskInv => IndexConsistent
  BY BooksFollow
<1> QED
  BY <1>1, <1>2, <1>3, PTL DEF Spec

\* Under an indexed key a reader finds no file, or the image enqueued after the
\* latest Invalidate or Clear of its element, also when the service was closed
\* and opened again: the generations of WriterThreadLoop and the metadata that
\* Shutdown leaves see to it, unless the process crashed.
THEOREM NeverStaleFile == Spec => []NoStaleFile
<1>1. Init => DiskInv
  BY DiskInit
<1>2. DiskInv /\ [Next]_vars => DiskInv'
  BY DiskStep
<1>3. DiskInv => NoStaleFile
  BY PathsOfEntries, NewestAre DEF DiskInv, NewestInv, NoStaleFile, Fine
<1> QED
  BY <1>1, <1>2, <1>3, PTL DEF Spec

\* A write that fails, is overtaken by a Clear or dies with the process at any of its
\* steps leaves nothing half written under an indexed key, and while the service is
\* open no temporary file but that of the write underway.
THEOREM NoneHalfWritten == Spec => []NoHalfWrite
<1>1. Init => DiskInv
  BY DiskInit
<1>2. DiskInv /\ [Next]_vars => DiskInv'
  BY DiskStep
<1>3. ASSUME DiskInv PROVE NoHalfWrite
  <2>1. Torn \notin Images
    BY FineFacts DEF Images, Fine
  <2>2. \A k \in Keys : index[k] # NoEntry => file[PathOf(Entries, k)] # Torn
    BY <1>3, <2>1, PathsOfEntries DEF DiskInv, BookInv
  <2> QED
    BY <1>3, <2>2 DEF DiskInv, TempInv, NoHalfWrite
<1> QED
  BY <1>1, <1>2, <1>3, PTL DEF Spec
================================================================================
