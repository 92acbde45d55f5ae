---------------------------------- MODULE LRU ----------------------------------
(***************************************************************************)
(* The operations of LRUCache (include/utils/cache/lru_cache.hpp) as pure  *)
(* operators on a record [keys, cap].  keys is the list of the class, most *)
(* recently used key first; every user of the cache in this repository     *)
(* stores the key as the value, so the value is left out.  access_count_   *)
(* of the class is never incremented, hence the growth step inside Evict   *)
(* is dead code and is not modelled.                                       *)
(***************************************************************************)
EXTENDS Naturals, Sequences, SequencesExt

None == "none"            \* std::nullopt

EmptyCache(capacity) == [keys |-> <<>>, cap |-> capacity]

KeysOf(c) == {c.keys[i] : i \in 1..Len(c.keys)}

Cached(c, k) == k \in KeysOf(c)

MoveToFront(c, k) == [c EXCEPT !.keys = <<k>> \o RemoveFirst(@, k)]

AccessElement(c, k) == IF Cached(c, k) THEN MoveToFront(c, k) ELSE c

RemoveRecord(c, k) == [c EXCEPT !.keys = RemoveFirst(@, k)]

\* RemoveRecord of each key of K: the others keep their order.
RemoveRecords(c, K) ==
    LET kept[i \in 0..Len(c.keys)] ==
            IF i = 0 THEN <<>>
            ELSE IF c.keys[i] \in K THEN kept[i - 1] ELSE Append(kept[i - 1], c.keys[i])
    IN  [c EXCEPT !.keys = kept[Len(c.keys)]]

Oldest(c) == IF c.keys = <<>> THEN None ELSE Last(c.keys)

Evict(c) == IF c.keys = <<>> THEN c ELSE [c EXCEPT !.keys = Front(@)]

Full(c) == Len(c.keys) >= c.cap

RecordAccess(c, k) ==
    IF Cached(c, k)
    THEN MoveToFront(c, k)
    ELSE LET room == IF Full(c) THEN Evict(c) ELSE c
         IN  [room EXCEPT !.keys = <<k>> \o @]

\* The key RecordAccess_WithEvict hands back to its caller.
EvictedBy(c, k) == IF ~Cached(c, k) /\ Full(c) THEN Oldest(c) ELSE None

\* Growing flushes the list and records every key again, oldest first, so a
\* list longer than the new capacity silently loses its oldest keys.
\* Shrinking only stores the new capacity.
Resize(c, n) ==
    IF n > c.cap
    THEN [keys |-> SubSeq(c.keys, 1, IF Len(c.keys) < n THEN Len(c.keys) ELSE n),
          cap  |-> n]
    ELSE [c EXCEPT !.cap = n]

\* Resize_WithEvict trims the list as well and returns what it dropped,
\* oldest first.
ResizeTrim(c, n) ==
    IF n > c.cap
    THEN Resize(c, n)
    ELSE [keys |-> SubSeq(c.keys, 1, IF Len(c.keys) < n THEN Len(c.keys) ELSE n),
          cap  |-> n]

TrimmedBy(c, n) ==
    IF n > c.cap
    THEN <<>>
    ELSE Reverse(SubSeq(c.keys, n + 1, Len(c.keys)))
================================================================================
