----------------------- MODULE PipelineMgmtService_proofs -----------------------
(* What TLAPS proves of PipelineMgmtService, for any elements, owners and capacity. *)
EXTENDS PipelineMgmtService, FiniteSetTheorems, TLAPS

--------------------------------------------------------------------------------
(* The operations of LRU on a list without repetitions.                           *)

Distinct(s) == \A i, j \in 1..Len(s) : s[i] = s[j] => i = j
Caches  == [keys : Seq(Ids), cap : Nat]
Good(c) == c \in Caches /\ Distinct(c.keys)

LEMMA RecKeys ==
  ASSUME NEW c, NEW t, c = [keys |-> c.keys, cap |-> c.cap]
  PROVE  [c EXCEPT !.keys = t] = [keys |-> t, cap |-> c.cap]
<1> DEFINE a == c.keys
           b == c.cap
<1>1. c = [keys |-> a, cap |-> b]
  OBVIOUS
<1> HIDE DEF a, b
<1>2. [c EXCEPT !.keys = t] = [keys |-> t, cap |-> b] /\ c.cap = b
  BY <1>1
<1> QED
  BY <1>2

LEMMA GoodFacts ==
  ASSUME NEW c, Good(c)
  PROVE  /\ c.keys \in Seq(Ids) /\ c.cap \in Nat /\ Len(c.keys) \in Nat
         /\ \A i \in 1..Len(c.keys) : c.keys[i] \in Ids
         /\ \A i, j \in 1..Len(c.keys) : c.keys[i] = c.keys[j] => i = j
         /\ c = [keys |-> c.keys, cap |-> c.cap]
<1>1. c.keys \in Seq(Ids) /\ c.cap \in Nat /\ c = [keys |-> c.keys, cap |-> c.cap]
  BY DEF Good, Caches
<1> QED
  BY <1>1 DEF Good, Distinct

\* The list without its key number i.
LEMMA RemoveFirstIs ==
  ASSUME NEW S, NEW s \in Seq(S), Distinct(s), NEW i \in 1..Len(s),
         NEW r, r = RemoveFirst(s, s[i])
  PROVE  /\ r \in Seq(S) /\ Len(r) = Len(s) - 1
         /\ \A j \in 1..Len(r) : r[j] = IF j < i THEN s[j] ELSE s[j + 1]
<1> DEFINE I == {k \in 1..Len(s) : s[k] = s[i]}
<1>1. I = {i}
  BY DEF Distinct
<1>2. Min(I) = i
  BY <1>1 DEF Min
<1>3. SelectInSeq(s, LAMBDA v : v = s[i]) = i
  BY <1>1, <1>2 DEF SelectInSeq
<1>4. r = RemoveAt(s, i)
  BY <1>3 DEF RemoveFirst
<1> DEFINE p == SubSeq(s, 1, i - 1)
           q == SubSeq(s, i + 1, Len(s))
<1>5. /\ p \in Seq(S) /\ Len(p) = i - 1 /\ \A j \in 1..(i - 1) : p[j] = s[j]
      /\ q \in Seq(S) /\ Len(q) = Len(s) - i /\ \A j \in 1..(Len(s) - i) : q[j] = s[j + i]
  OBVIOUS
<1>6. r = p \o q
  BY <1>4 DEF RemoveAt
<1> HIDE DEF p, q
<1>7. r \in Seq(S) /\ Len(r) = Len(s) - 1
  <2>1. r \in Seq(S) /\ Len(r) = Len(p) + Len(q)
    <3>1. p \in Seq(S) /\ q \in Seq(S)
      BY <1>5
    <3>2. p \o q \in Seq(S) /\ Len(p \o q) = Len(p) + Len(q)
      BY <3>1
    <3> QED
      BY <3>2, <1>6
  <2>2. Len(s) \in Nat /\ i \in Nat
    OBVIOUS
  <2> QED
    BY <1>5, <2>1, <2>2
<1>8. \A j \in 1..(i - 1) : r[j] = p[j]
  BY <1>5, <1>6
<1>9. \A j \in 1..(Len(s) - i) : r[i - 1 + j] = q[j]
  BY <1>5, <1>6
<1>10. ASSUME NEW j \in 1..Len(r) PROVE r[j] = IF j < i THEN s[j] ELSE s[j + 1]
  <2>1. CASE j < i
    BY <1>5, <1>8, <2>1
  <2>2. CASE j >= i
    <3>1. j - i + 1 \in 1..(Len(s) - i) /\ i - 1 + (j - i + 1) = j
      BY <1>7, <2>2
    <3>2. r[j] = q[j - i + 1] /\ q[j - i + 1] = s[j - i + 1 + i]
      BY <1>5, <1>9, <3>1
    <3>3. j - i + 1 + i = j + 1 /\ ~(j < i)
      BY <2>2
    <3> QED
      BY <3>2, <3>3
  <2> QED
    BY <2>1, <2>2
<1> QED
  BY <1>7, <1>10

\* A key that is in the list goes to its head, the others keep their order.
LEMMA MoveFacts ==
  ASSUME NEW c, Good(c), NEW k, Cached(c, k)
  PROVE  /\ Good(MoveToFront(c, k)) /\ KeysOf(MoveToFront(c, k)) = KeysOf(c)
         /\ MoveToFront(c, k).cap = c.cap /\ Len(MoveToFront(c, k).keys) = Len(c.keys)
<1> DEFINE s == c.keys
<1>0. PICK i \in 1..Len(s) : k = s[i]
  BY DEF Cached, KeysOf
<1>1. s \in Seq(Ids) /\ Len(s) \in Nat /\ Distinct(s)
  BY GoodFacts DEF Good
<1> DEFINE r == RemoveFirst(s, k)
           t == <<k>> \o r
<1>2. MoveToFront(c, k) = [keys |-> t, cap |-> c.cap]
  <2>1. MoveToFront(c, k) = [c EXCEPT !.keys = t]
    BY DEF MoveToFront
  <2> HIDE DEF t
  <2> QED
    BY <2>1, GoodFacts, RecKeys
<1> HIDE DEF s
<1>3. /\ r \in Seq(Ids) /\ Len(r) = Len(s) - 1
      /\ \A j \in 1..Len(r) : r[j] = IF j < i THEN s[j] ELSE s[j + 1]
  BY <1>0, <1>1, RemoveFirstIs
<1> HIDE DEF r
<1>4. k \in Ids /\ Len(s) \in Nat \ {0}
  BY <1>0, <1>1
<1>5. /\ t \in Seq(Ids) /\ Len(t) = Len(s) /\ t[1] = k
      /\ \A j \in 2..Len(t) : t[j] = r[j - 1]
  BY <1>3, <1>4
<1>6. \A j \in 2..Len(t) : t[j] = IF j - 1 < i THEN s[j - 1] ELSE s[j]
  BY <1>3, <1>5
<1> HIDE DEF t
<1>7. Distinct(t)
  <2> SUFFICES ASSUME NEW a \in 1..Len(t), NEW b \in 1..Len(t), t[a] = t[b], a < b PROVE FALSE
    BY <1>1, <1>5 DEF Distinct
  <2> DEFINE from(j) == IF j - 1 < i THEN j - 1 ELSE j
  <2>1. b \in 2..Len(t) /\ t[b] = s[from(b)] /\ from(b) \in 1..Len(s) /\ from(b) # i
    BY <1>0, <1>1, <1>5, <1>6
  <2>2. CASE a = 1
    BY <1>0, <1>1, <1>5, <2>1, <2>2 DEF Distinct
  <2>3. CASE a # 1
    <3>1. a \in 2..Len(t) /\ t[a] = s[from(a)] /\ from(a) \in 1..Len(s) /\ from(a) # from(b)
      BY <1>0, <1>1, <1>5, <1>6, <2>3
    <3> HIDE DEF from
    <3> QED
      BY <1>1, <2>1, <3>1 DEF Distinct
  <2> QED
    BY <2>2, <2>3
<1>8. ASSUME NEW x PROVE (\E j \in 1..Len(t) : t[j] = x) <=> (\E j \in 1..Len(s) : s[j] = x)
  <2>1. ASSUME NEW j \in 1..Len(t), t[j] = x PROVE \E m \in 1..Len(s) : s[m] = x
    BY <1>0, <1>5, <1>6, <2>1
  <2>2. ASSUME NEW j \in 1..Len(s), s[j] = x PROVE \E m \in 1..Len(t) : t[m] = x
    <3>1. CASE j = i
      BY <1>0, <1>4, <1>5, <2>2, <3>1
    <3>2. CASE j < i
      <4>1. j + 1 \in 2..Len(t) /\ t[j + 1] = s[j]
        BY <1>0, <1>4, <1>5, <1>6, <3>2
      <4> QED
        BY <2>2, <4>1
    <3>3. CASE j > i
      <4>1. j \in 2..Len(t) /\ t[j] = s[j]
        BY <1>0, <1>4, <1>5, <1>6, <3>3
      <4> QED
        BY <2>2, <4>1
    <3> QED
      BY <3>1, <3>2, <3>3, <1>0
  <2> QED
    BY <2>1, <2>2
<1>9. KeysOf([keys |-> t, cap |-> c.cap]) = KeysOf(c)
  BY <1>8 DEF KeysOf, s
<1> QED
  BY <1>2, <1>5, <1>7, <1>9, GoodFacts DEF Good, Caches, s

LEMMA RemoveFacts ==
  ASSUME NEW c, Good(c), NEW k
  PROVE  /\ Good(RemoveRecord(c, k)) /\ KeysOf(RemoveRecord(c, k)) = KeysOf(c) \ {k}
         /\ RemoveRecord(c, k).cap = c.cap /\ Len(RemoveRecord(c, k).keys) <= Len(c.keys)
<1> DEFINE s == c.keys
           r == RemoveFirst(s, k)
<1>1. s \in Seq(Ids) /\ Len(s) \in Nat /\ Distinct(s)
  BY GoodFacts DEF Good
<1>2. RemoveRecord(c, k) = [keys |-> r, cap |-> c.cap]
  BY GoodFacts DEF RemoveRecord
<1>3. CASE ~Cached(c, k)
  <2>1. r = s
    BY <1>3 DEF RemoveFirst, Cached, KeysOf
  <2> QED
    BY <1>1, <1>2, <1>3, <2>1, GoodFacts DEF Cached
<1>4. CASE Cached(c, k)
  <2>0. PICK i \in 1..Len(s) : k = s[i]
    BY <1>4 DEF Cached, KeysOf
  <2> HIDE DEF s
  <2>1. /\ r \in Seq(Ids) /\ Len(r) = Len(s) - 1
        /\ \A j \in 1..Len(r) : r[j] = IF j < i THEN s[j] ELSE s[j + 1]
    BY SMTT(30), <1>1, <2>0, RemoveFirstIs
  <2> HIDE DEF r
  <2>2. Distinct(r)
    BY <1>1, <2>0, <2>1 DEF Distinct
  <2>3. ASSUME NEW x
        PROVE  (\E j \in 1..Len(r) : r[j] = x) <=> (x # k /\ \E j \in 1..Len(s) : s[j] = x)
    <3>1. ASSUME NEW j \in 1..Len(r), r[j] = x PROVE x # k /\ \E m \in 1..Len(s) : s[m] = x
      <4>1. PICK m \in 1..Len(s) : m # i /\ r[j] = s[m]
        BY <1>1, <2>0, <2>1
      <4> QED
        BY <1>1, <2>0, <3>1, <4>1 DEF Distinct
    <3>2. ASSUME NEW j \in 1..Len(s), s[j] = x, x # k PROVE \E m \in 1..Len(r) : r[m] = x
      <4>1. CASE j < i
        <5>1. j \in 1..Len(r) /\ r[j] = s[j]
          BY <1>1, <2>0, <2>1, <4>1
        <5> QED
          BY <3>2, <5>1
      <4>2. CASE j > i
        <5>1. j - 1 \in 1..Len(r) /\ r[j - 1] = s[j]
          BY <1>1, <2>0, <2>1, <4>2
        <5> QED
          BY <3>2, <5>1
      <4> QED
        BY <2>0, <3>2, <4>1, <4>2
    <3> QED
      BY <3>1, <3>2
  <2>4. KeysOf([keys |-> r, cap |-> c.cap]) = KeysOf(c) \ {k}
    BY <2>3 DEF KeysOf, s
  <2> QED
    BY <1>1, <1>2, <2>1, <2>2, <2>4, GoodFacts DEF Good, Caches, s
<1> QED
  BY <1>3, <1>4

\* A new key goes in front of the list, or of the list without its last key.
LEMMA RecordIs ==
  ASSUME NEW c, Good(c), NEW k \in Ids, ~Cached(c, k),
         NEW m, m = IF Full(c) /\ c.keys # <<>> THEN Len(c.keys) - 1 ELSE Len(c.keys),
         NEW d, d = RecordAccess(c, k)
  PROVE  /\ Good(d) /\ d.cap = c.cap /\ Len(d.keys) = m + 1 /\ m \in Nat /\ d.keys[1] = k
         /\ \A j \in 2..(m + 1) : d.keys[j] = c.keys[j - 1]
<1> DEFINE s == c.keys
           f == SubSeq(s, 1, Len(s) - 1)
           p == IF Full(c) /\ s # <<>> THEN f ELSE s
           t == <<k>> \o p
<1>1. s \in Seq(Ids) /\ Len(s) \in Nat /\ Distinct(s) /\ \A i \in 1..Len(s) : s[i] # k
  BY GoodFacts DEF Good, Cached, KeysOf
<1>2. d = [keys |-> t, cap |-> c.cap]
  <2>0. c = [keys |-> c.keys, cap |-> c.cap]
    BY GoodFacts
  <2>1. CASE Full(c) /\ s # <<>>
    <3>1. Evict(c) = [c EXCEPT !.keys = f]
      BY <2>1 DEF Evict, Front
    <3>2. p = f /\ d = [Evict(c) EXCEPT !.keys = <<k>> \o @]
      BY <2>1 DEF RecordAccess
    <3> DEFINE v == Evict(c)
    <3> HIDE DEF f, p, v
    <3>3. v = [keys |-> f, cap |-> c.cap]
      BY <2>0, <3>1, RecKeys DEF v
    <3>4. v = [keys |-> v.keys, cap |-> v.cap] /\ v.keys = f /\ v.cap = c.cap
      BY <3>3
    <3>5. d = [v EXCEPT !.keys = t]
      BY <3>2, <3>4 DEF v
    <3> HIDE DEF t
    <3> QED
      BY <3>4, <3>5, RecKeys
  <2>2. CASE ~(Full(c) /\ s # <<>>)
    <3>1. p = s /\ (Full(c) => Evict(c) = c)
      BY <2>2 DEF Evict
    <3>2. d = [c EXCEPT !.keys = t]
      BY <3>1 DEF RecordAccess
    <3> HIDE DEF t
    <3> QED
      BY <2>0, <3>2, RecKeys
  <2> QED
    BY <2>1, <2>2
<1>3. s # <<>> => /\ f \in Seq(Ids) /\ Len(f) = Len(s) - 1 /\ Len(s) - 1 \in Nat
                  /\ \A j \in 1..(Len(s) - 1) : f[j] = s[j]
  BY <1>1
<1> HIDE DEF f
<1>4. p \in Seq(Ids) /\ Len(p) = m /\ m \in Nat /\ m <= Len(s) /\ \A j \in 1..m : p[j] = s[j]
  BY <1>1, <1>3
<1> HIDE DEF p
<1>5. /\ t \in Seq(Ids) /\ Len(t) = m + 1 /\ t[1] = k
      /\ \A j \in 2..(m + 1) : t[j] = s[j - 1]
  BY <1>4
<1> HIDE DEF t
<1>6. Distinct(t)
  <2> HIDE DEF s
  <2> SUFFICES ASSUME NEW a \in 1..Len(t), NEW b \in 1..Len(t), t[a] = t[b], a < b PROVE FALSE
    BY <1>4, <1>5 DEF Distinct
  <2>1. b \in 2..(m + 1) /\ t[b] = s[b - 1] /\ b - 1 \in 1..Len(s)
    BY <1>1, <1>4, <1>5
  <2>2. CASE a = 1
    BY <1>1, <1>5, <2>1, <2>2
  <2>3. CASE a # 1
    <3>1. t[a] = s[a - 1] /\ a - 1 \in 1..Len(s)
      BY <1>1, <1>4, <1>5, <2>3
    <3> QED
      BY <1>1, <2>1, <3>1 DEF Distinct
  <2> QED
    BY <2>2, <2>3
<1> QED
  BY <1>2, <1>4, <1>5, <1>6, GoodFacts DEF Good, Caches

LEMMA RecordNew ==
  ASSUME NEW c, Good(c), NEW k \in Ids, ~Cached(c, k), ~Full(c)
  PROVE  /\ Good(RecordAccess(c, k)) /\ KeysOf(RecordAccess(c, k)) = KeysOf(c) \cup {k}
         /\ RecordAccess(c, k).cap = c.cap /\ Len(RecordAccess(c, k).keys) = Len(c.keys) + 1
<1> DEFINE d == RecordAccess(c, k)
           m == Len(c.keys)
           s == d.keys
<1>0. m = IF Full(c) /\ c.keys # <<>> THEN Len(c.keys) - 1 ELSE Len(c.keys)
  OBVIOUS
<1>1. /\ Good(d) /\ d.cap = c.cap /\ Len(d.keys) = m + 1 /\ m \in Nat /\ d.keys[1] = k
      /\ \A j \in 2..(m + 1) : d.keys[j] = c.keys[j - 1]
  BY <1>0, RecordIs
<1> HIDE DEF d
<1>2. ASSUME NEW x
      PROVE  (\E j \in 1..Len(s) : s[j] = x) <=> (x = k \/ \E j \in 1..m : c.keys[j] = x)
  <2>1. ASSUME NEW j \in 1..m, c.keys[j] = x PROVE \E i \in 1..Len(s) : s[i] = x
    <3>1. j + 1 \in 2..(m + 1) /\ s[j + 1] = c.keys[j]
      BY <1>1
    <3> QED
      BY <1>1, <2>1, <3>1
  <2> QED
    BY SMTT(30), <1>1, <2>1
<1>3. KeysOf(d) = KeysOf(c) \cup {k}
  BY <1>2 DEF KeysOf
<1> QED
  BY <1>1, <1>3 DEF d

--------------------------------------------------------------------------------
(* Counting: induction for sets of numbers, and the objects an element can use.   *)

\* Induction for a set of numbers: n -> n + 1 would map the part of S up to a
\* number it lacks into that part without 0, which has one element less.
LEMMA AllNaturals ==
  ASSUME NEW S \in SUBSET Nat, 0 \in S, \A n \in S : n + 1 \in S
  PROVE  S = Nat
<1> SUFFICES ASSUME NEW n \in Nat, n \notin S PROVE FALSE
  OBVIOUS
<1> DEFINE U == S \cap 0..n
           f == [x \in U |-> x + 1]
<1>1. IsFiniteSet(U)
  <2>1. IsFiniteSet(0..n)
    BY FS_Interval
  <2> QED
    BY <2>1, FS_Subset
<1>2. 0 \in U
  OBVIOUS
<1>3. /\ IsFiniteSet(U \ {0}) /\ Cardinality(U \ {0}) = Cardinality(U) - 1
      /\ Cardinality(U) \in Nat
  BY <1>1, <1>2, FS_RemoveElement, FS_CardinalityType
<1>4. f \in Injection(U, U \ {0})
  BY DEF Injection, IsInjective
<1> HIDE DEF U, f
<1>5. Cardinality(U) <= Cardinality(U \ {0})
  BY <1>3, <1>4, FS_Injection
<1> QED
  BY <1>3, <1>5

LEMMA Least ==
  ASSUME NEW S \in SUBSET Nat, NEW x \in S
  PROVE  \E n \in S : \A m \in S : n <= m
<1> SUFFICES ASSUME \A n \in S : \E m \in S : ~(n <= m) PROVE FALSE
  OBVIOUS
<1> DEFINE T == {n \in Nat : \A m \in S : n <= m}
<1>1. 0 \in T
  OBVIOUS
<1>2. ASSUME NEW n \in T PROVE n + 1 \in T
  <2>1. n \notin S
    OBVIOUS
  <2>2. \A m \in S : n + 1 <= m
    BY <2>1
  <2> QED
    BY <2>2
<1>3. T = Nat
  <2>1. T \in SUBSET Nat
    OBVIOUS
  <2> HIDE DEF T
  <2> QED
    BY <1>1, <1>2, <2>1, AllNaturals
<1>4. x + 1 \in T
  BY <1>3
<1> QED
  BY <1>4

Covers(w, id, used) ==
    \A n \in 1..Objects : <<id, n>> \in used => \E u \in Users : w[u] = <<id, n>>

\* When every used object of an element is one that w gives to some user, one
\* of its Objects is free.
LEMMA FreshIs ==
  ASSUME NEW id \in Ids, NEW used, NEW w, Cardinality(Users) < Objects, Covers(w, id, used),
         NEW x, x = Fresh(id, used)
  PROVE  x \in Guards /\ x \in Execs /\ x[1] = id /\ x \notin used
<1> DEFINE free == {n \in 1..Objects : <<id, n>> \notin used}
           f == [n \in 1..Objects |-> CHOOSE u \in Users : w[u] = <<id, n>>]
<1>0. Objects \in Nat /\ IsFiniteSet(Users) /\ Cardinality(Users) \in Nat
  BY PipelineAssumption, FS_CardinalityType
<1>1. free # {}
  <2> SUFFICES ASSUME free = {} PROVE FALSE
    OBVIOUS
  <2>1. \A n \in 1..Objects : f[n] \in Users /\ w[f[n]] = <<id, n>>
    BY DEF Covers
  <2>2. f \in Injection(1..Objects, Users)
    <3>1. f \in [1..Objects -> Users]
      BY <2>1
    <3>2. \A m, n \in 1..Objects : f[m] = f[n] => m = n
      BY <2>1
    <3> HIDE DEF f
    <3> QED
      BY <3>1, <3>2 DEF Injection, IsInjective
  <2>3. Cardinality(1..Objects) = Objects
    BY <1>0, FS_Interval
  <2> HIDE DEF f
  <2>4. Cardinality(1..Objects) <= Cardinality(Users)
    BY <1>0, <2>2, FS_Injection
  <2> QED
    BY <1>0, <2>3, <2>4
<1>2. \E n \in free : \A m \in free : n <= m
  <2>1. free \in SUBSET Nat
    OBVIOUS
  <2> HIDE DEF free
  <2> QED
    BY <1>1, <2>1, Least
<1> DEFINE k == CHOOSE n \in free : \A m \in free : n <= m
<1>3. k \in free
  BY <1>2
<1>4. x = <<id, k>>
  BY DEF Fresh
<1> HIDE DEF k
<1> QED
  BY <1>3, <1>4 DEF Guards, Execs

--------------------------------------------------------------------------------
(* Pins.                                                                          *)

OwnersIn(hd, g) == {u \in Users : hd[u] = g}

LEMMA OwnersFinite ==
  ASSUME NEW hd, NEW g
  PROVE  /\ IsFiniteSet(OwnersIn(hd, g)) /\ Cardinality(OwnersIn(hd, g)) \in Nat
         /\ Cardinality(OwnersIn(hd, g)) <= Cardinality(Users)
         /\ Cardinality(Users) \in Nat /\ Cardinality(OwnersIn(hd, g)) \in 0..Cardinality(Users)
<1>1. IsFiniteSet(Users) /\ OwnersIn(hd, g) \subseteq Users
  BY PipelineAssumption DEF OwnersIn
<1> HIDE DEF Users
<1>2. IsFiniteSet(OwnersIn(hd, g)) /\ Cardinality(OwnersIn(hd, g)) <= Cardinality(Users)
  BY <1>1, FS_Subset
<1> QED
  BY <1>1, <1>2, FS_CardinalityType

\* A user that held nothing takes a guard, or gives the one it has back.
LEMMA OwnersTake ==
  ASSUME NEW hd, NEW hp, NEW u \in Users, NEW g, hd[u] # g, hp[u] = g,
         \A v \in Users \ {u} : hp[v] = hd[v]
  PROVE  /\ Cardinality(OwnersIn(hp, g)) = Cardinality(OwnersIn(hd, g)) + 1
         /\ \A h : h # g /\ h # hd[u] => OwnersIn(hp, h) = OwnersIn(hd, h)
<1>1. OwnersIn(hp, g) = OwnersIn(hd, g) \cup {u} /\ u \notin OwnersIn(hd, g)
  BY DEF OwnersIn
<1>2. \A h : h # g /\ h # hd[u] => OwnersIn(hp, h) = OwnersIn(hd, h)
  BY DEF OwnersIn
<1> QED
  BY <1>1, <1>2, OwnersFinite, FS_AddElement

LEMMA NobodyIs == Nobody \notin Guards /\ Nobody \notin Execs
  BY DEF Nobody, Guards, Execs

GuardRecs == [id : Ids \cup {Absent}, exec : Execs \cup {Nobody}, dirty : BOOLEAN,
              pins : 0..Cardinality(Users)]

Types ==
    /\ loaded \in [Ids -> Guards \cup {Nobody}]
    /\ guard \in [Guards -> GuardRecs]
    /\ live \in [Ids -> Execs \cup {Nobody}]
    /\ held \in [Users -> Guards \cup {Nobody}]
    /\ lock \in [Users -> Execs \cup {Nobody}]
    /\ unsynced \subseteq Editors
    /\ deleted \subseteq Ids

\* The objects of an element are its own.
Own == \A id \in Ids : /\ loaded[id] # Nobody => loaded[id][1] = id
                       /\ live[id] # Nobody => live[id][1] = id

Alive(g) == (\E id \in Ids : loaded[id] = g) \/ (\E u \in Users : held[u] = g)

\* A guard somebody refers to is the guard of its element and has an executor
\* of that element; the others are gone.
Whole == \A g \in Guards : Alive(g) =>
            /\ guard[g].id = g[1]
            /\ guard[g].exec \in Execs /\ guard[g].exec[1] = g[1]
Gone  == \A g \in Guards : ~Alive(g) => guard[g] = NoGuard
Pins  == \A g \in Guards : Alive(g) => guard[g].pins = Cardinality(OwnersIn(held, g))

\* An owner that renders has locked the executor of its own guard.
LockHeld == \A u \in Users : held[u] # Nobody /\ lock[u] # Nobody => lock[u] = guard[held[u]].exec

Base0 == Types /\ Own /\ Whole /\ Gone /\ Pins /\ LockHeld

LEMMA AliveIs ==
  ASSUME Types, NEW g \in Guards
  PROVE  Alive(g) <=> g \in LiveGuards(loaded, held)
BY NobodyIs DEF Alive, LiveGuards

LEMMA AliveNext ==
  ASSUME Types', NEW g \in Guards
  PROVE  Alive(g)' <=> g \in LiveGuards(loaded', held')
BY NobodyIs DEF Alive, LiveGuards, Types

\* The objects KeepGuards keeps are those that are referred to.
LEMMA KeepIs ==
  ASSUME NEW gs, NEW ld, NEW hd, NEW g \in Guards
  PROVE  KeepGuards(gs, ld, hd)[g] = IF g \in LiveGuards(ld, hd) THEN gs[g] ELSE NoGuard
BY DEF KeepGuards

LEMMA NoGuardIs ==
  /\ NoGuard \in GuardRecs /\ NoGuard.exec = Nobody /\ NoGuard.id = Absent /\ NoGuard.pins = 0
  /\ NoGuard.dirty = FALSE
  BY OwnersFinite DEF NoGuard, GuardRecs

LEMMA GuardIs ==
  ASSUME Types, NEW g \in Guards
  PROVE  /\ guard[g].id \in Ids \cup {Absent} /\ guard[g].exec \in Execs \cup {Nobody}
         /\ guard[g].dirty \in BOOLEAN /\ guard[g].pins \in 0..Cardinality(Users)
         /\ guard[g] = [id |-> guard[g].id, exec |-> guard[g].exec, dirty |-> guard[g].dirty,
                        pins |-> guard[g].pins]
<1>1. guard[g] \in GuardRecs
  BY DEF Types
<1> QED
  BY <1>1 DEF GuardRecs

LEMMA GuardRec ==
  ASSUME NEW a \in Ids \cup {Absent}, NEW e \in Execs \cup {Nobody}, NEW d \in BOOLEAN,
         NEW n \in 0..Cardinality(Users)
  PROVE  [id |-> a, exec |-> e, dirty |-> d, pins |-> n] \in GuardRecs
BY DEF GuardRecs

\* What is known of a guard somebody holds, and of one that is loaded.
LEMMA HeldIs ==
  ASSUME Base0, NEW u \in Users, held[u] # Nobody
  PROVE  /\ held[u] \in Guards /\ held[u][1] \in Ids /\ guard[held[u]].id = held[u][1]
         /\ guard[held[u]].exec \in Execs /\ guard[held[u]].exec[1] = held[u][1]
         /\ guard[held[u]].pins = Cardinality(OwnersIn(held, held[u]))
         /\ Cardinality(OwnersIn(held, held[u])) \in Nat \ {0}
         /\ guard[held[u]].pins \in 1..Cardinality(Users)
<1>1. held[u] \in Guards /\ Alive(held[u])
  BY DEF Base0, Types, Alive
<1>2. held[u][1] \in Ids
  BY <1>1 DEF Guards
<1>3. u \in OwnersIn(held, held[u])
  BY DEF OwnersIn
<1>4. Cardinality(OwnersIn(held, held[u])) # 0
  BY <1>3, OwnersFinite, FS_EmptySet
<1>5. guard[held[u]].pins = Cardinality(OwnersIn(held, held[u]))
  BY <1>1 DEF Base0, Pins
<1>6. /\ guard[held[u]].id = held[u][1] /\ guard[held[u]].exec \in Execs
      /\ guard[held[u]].exec[1] = held[u][1]
  BY <1>1 DEF Base0, Whole
<1>7. Cardinality(OwnersIn(held, held[u])) \in 0..Cardinality(Users)
  BY OwnersFinite
<1>8. /\ Cardinality(OwnersIn(held, held[u])) \in Nat \ {0}
      /\ guard[held[u]].pins \in 1..Cardinality(Users)
  BY <1>4, <1>5, <1>7, OwnersFinite
<1> QED
  BY <1>1, <1>2, <1>5, <1>6, <1>8

LEMMA LoadedIs ==
  ASSUME Base0, NEW id \in Ids, loaded[id] # Nobody
  PROVE  /\ loaded[id] \in Guards /\ loaded[id][1] = id /\ guard[loaded[id]].id = id
         /\ guard[loaded[id]].exec \in Execs /\ guard[loaded[id]].exec[1] = id
         /\ guard[loaded[id]].pins = Cardinality(OwnersIn(held, loaded[id]))
<1>1. loaded[id] \in Guards /\ Alive(loaded[id]) /\ loaded[id][1] = id
  BY DEF Base0, Types, Alive, Own
<1> QED
  BY <1>1 DEF Base0, Whole, Pins

LEMMA AdmitLoaded ==
  ASSUME Types, NEW gs, NEW id \in Ids, NEW g \in Guards,
         NEW ld, ld = Admit(gs, id, g).loaded
  PROVE  /\ ld \in [Ids -> Guards \cup {Nobody}] /\ ld[id] = g
         /\ \A i \in Ids \ {id} : ld[i] \in {Nobody, loaded[i]}
BY DEF Admit, Types

--------------------------------------------------------------------------------
(* The base holds at the start and is kept by every step.                         *)

LEMMA Base0Init == Init => Base0
<1> SUFFICES ASSUME Init PROVE Base0
  OBVIOUS
<1>1. \A g \in Guards : ~Alive(g)
  BY NobodyIs DEF Init, Alive
<1>2. Types
  BY NoGuardIs DEF Init, Types
<1>3. Own /\ LockHeld
  BY DEF Init, Own, LockHeld
<1>4. Whole /\ Gone /\ Pins
  BY <1>1 DEF Init, Whole, Gone, Pins
<1> QED
  BY <1>2, <1>3, <1>4 DEF Base0

\* A step that leaves the references and the owners alone and changes no
\* guard's element, executor or pins.
LEMMA BaseStill ==
  ASSUME Base0, UNCHANGED <<loaded, held, live>>, Types', LockHeld',
         \A g \in Guards : /\ guard'[g].id = guard[g].id /\ guard'[g].exec = guard[g].exec
                           /\ guard'[g].pins = guard[g].pins
                           /\ ~Alive(g) => guard'[g] = guard[g]
  PROVE  Base0'
<1>1. \A g \in Guards : Alive(g)' = Alive(g)
  BY DEF Alive
<1>2. Own'
  BY DEF Base0, Own
<1>3. \A g : OwnersIn(held', g) = OwnersIn(held, g)
  OBVIOUS
<1>4. Whole' /\ Gone' /\ Pins'
  BY <1>1, <1>3 DEF Base0, Whole, Gone, Pins
<1> QED
  BY <1>2, <1>4 DEF Base0

LEMMA BaseSame ==
  ASSUME Base0, UNCHANGED <<loaded, held, live, guard, lock, unsynced>>, deleted' \subseteq Ids
  PROVE  Base0'
<1>1. Types'
  BY DEF Base0, Types
<1>2. LockHeld'
  BY DEF Base0, LockHeld
<1> QED
  BY <1>1, <1>2, BaseStill

LEMMA BaseStutter == Base0 /\ UNCHANGED vars => Base0'
  BY BaseSame DEF vars, Base0, Types

LEMMA BaseSwitch == ASSUME Base0, NEW p, SetAcceleratorBackendPreference(p) PROVE Base0'
  BY BaseSame DEF SetAcceleratorBackendPreference, Base0, Types

LEMMA BaseRelease == ASSUME Base0, NEW u \in Users, ReleaseRenderLock(u) PROVE Base0'
<1>1. Types'
  BY DEF Base0, Types, ReleaseRenderLock
<1>2. LockHeld'
  BY DEF Base0, Types, LockHeld, ReleaseRenderLock
<1> QED
  BY <1>1, <1>2, BaseStill DEF ReleaseRenderLock

LEMMA BaseRender == ASSUME Base0, NEW u \in Users, StartRender(u) PROVE Base0'
<1>1. guard[held[u]].exec \in Execs
  BY HeldIs DEF StartRender
<1>2. Types'
  BY <1>1 DEF Base0, Types, StartRender
<1>3. LockHeld'
  BY DEF Base0, Types, LockHeld, StartRender
<1> QED
  BY <1>2, <1>3, BaseStill DEF StartRender

LEMMA BaseSnapshot == ASSUME Base0, NEW u \in Users, NEW id \in Ids, StartSnapshot(u, id) PROVE Base0'
<1>1. guard[loaded[id]].exec \in Execs
  BY LoadedIs DEF StartSnapshot
<1>2. Types'
  BY <1>1 DEF Base0, Types, StartSnapshot
<1>3. LockHeld'
  BY DEF Base0, Types, LockHeld, StartSnapshot
<1> QED
  BY <1>2, <1>3, BaseStill DEF StartSnapshot

LEMMA BaseEdit == ASSUME Base0, NEW u \in Users, NEW p, Edit(u, p) PROVE Base0'
<1> DEFINE g == held[u]
<1>0. g \in Guards /\ Alive(g) /\ held[u] # Nobody
  BY HeldIs DEF Edit, Alive
<1>1. guard' = [guard EXCEPT ![g].dirty = TRUE]
  BY DEF Edit
<1>2. \A h \in Guards : guard'[h] = IF h = g THEN [guard[g] EXCEPT !.dirty = TRUE] ELSE guard[h]
  BY <1>0, <1>1 DEF Base0, Types
<1>3. guard'[g] = [id |-> guard[g].id, exec |-> guard[g].exec, dirty |-> TRUE, pins |-> guard[g].pins]
  BY <1>0, <1>2, GuardIs DEF Base0
<1>4. guard'[g] \in GuardRecs
  <2>1. TRUE \in BOOLEAN
    OBVIOUS
  <2> QED
    BY ZenonT(30), <1>0, <1>3, <2>1, GuardIs, GuardRec DEF Base0
<1>5. guard' \in [Guards -> GuardRecs]
  BY <1>0, <1>1, <1>2, <1>4 DEF Base0, Types
<1>6. Types'
  BY <1>5 DEF Base0, Types, Edit
<1>7. \A h \in Guards : /\ guard'[h].id = guard[h].id /\ guard'[h].exec = guard[h].exec
                        /\ guard'[h].pins = guard[h].pins
                        /\ ~Alive(h) => guard'[h] = guard[h]
  BY <1>0, <1>2, <1>3
<1>8. LockHeld'
  BY <1>7 DEF Base0, Types, LockHeld, Edit
<1> QED
  BY <1>6, <1>7, <1>8, BaseStill DEF Edit

LEMMA BaseMark == ASSUME Base0, NEW u \in Users, MarkDirty(u) PROVE Base0'
<1> DEFINE g == held[u]
<1>0. g \in Guards /\ Alive(g) /\ held[u] # Nobody
  BY HeldIs DEF MarkDirty, Alive
<1>1. guard' = [guard EXCEPT ![g].dirty = TRUE]
  BY DEF MarkDirty
<1>2. \A h \in Guards : guard'[h] = IF h = g THEN [guard[g] EXCEPT !.dirty = TRUE] ELSE guard[h]
  BY <1>0, <1>1 DEF Base0, Types
<1>3. guard'[g] = [id |-> guard[g].id, exec |-> guard[g].exec, dirty |-> TRUE, pins |-> guard[g].pins]
  BY <1>0, <1>2, GuardIs DEF Base0
<1>4. guard'[g] \in GuardRecs
  <2>1. TRUE \in BOOLEAN
    OBVIOUS
  <2> QED
    BY ZenonT(30), <1>0, <1>3, <2>1, GuardIs, GuardRec DEF Base0
<1>5. guard' \in [Guards -> GuardRecs]
  BY <1>0, <1>1, <1>2, <1>4 DEF Base0, Types
<1>6. Types'
  BY <1>5 DEF Base0, Types, MarkDirty
<1>7. \A h \in Guards : /\ guard'[h].id = guard[h].id /\ guard'[h].exec = guard[h].exec
                        /\ guard'[h].pins = guard[h].pins
                        /\ ~Alive(h) => guard'[h] = guard[h]
  BY <1>0, <1>2, <1>3
<1>8. LockHeld'
  BY <1>7 DEF Base0, Types, LockHeld, MarkDirty
<1> QED
  BY <1>6, <1>7, <1>8, BaseStill DEF MarkDirty

LEMMA BaseFallBack == ASSUME Base0, NEW u \in Users, FallBackToCPU(u) PROVE Base0'
  BY BaseSame DEF FallBackToCPU, Base0, Types

LEMMA BaseSync == ASSUME Base0, NEW u \in Users, Sync(u) PROVE Base0'
<1> DEFINE P(h) == \E id \in {id \in LoadedIds(loaded) : guard[loaded[id]].dirty} : loaded[id] = h
<1>1. guard' = [h \in Guards |-> IF P(h) THEN [guard[h] EXCEPT !.dirty = FALSE] ELSE guard[h]]
  BY DEF Sync
<1>0. \A h \in Guards : P(h) => Alive(h)
  BY DEF Alive, LoadedIds
<1> HIDE DEF P
<1>2. \A h \in Guards : guard'[h] = IF P(h) THEN [guard[h] EXCEPT !.dirty = FALSE] ELSE guard[h]
  BY <1>1
<1>3. \A h \in Guards : P(h) => guard'[h] = [id |-> guard[h].id, exec |-> guard[h].exec,
                                             dirty |-> FALSE, pins |-> guard[h].pins]
  BY <1>2, GuardIs DEF Base0
<1>4. \A h \in Guards : guard'[h] \in GuardRecs
  <2> SUFFICES ASSUME NEW h \in Guards PROVE guard'[h] \in GuardRecs
    OBVIOUS
  <2>1. CASE P(h)
    <3>1. FALSE \in BOOLEAN
      OBVIOUS
    <3> QED
      BY ZenonT(30), <1>3, <2>1, <3>1, GuardIs, GuardRec DEF Base0
  <2>2. CASE ~P(h)
    BY <1>2, <2>2 DEF Base0, Types
  <2> QED
    BY <2>1, <2>2
<1>5. guard' \in [Guards -> GuardRecs]
  BY <1>1, <1>4
<1>6. Types'
  BY <1>5 DEF Base0, Types, Sync
<1>7. \A h \in Guards : /\ guard'[h].id = guard[h].id /\ guard'[h].exec = guard[h].exec
                        /\ guard'[h].pins = guard[h].pins
                        /\ ~Alive(h) => guard'[h] = guard[h]
  BY <1>0, <1>2, <1>3
<1>8. LockHeld'
  <2>1. held' = held /\ lock' = lock
    BY DEF Sync
  <2>2. \A v \in Users : held[v] # Nobody => held[v] \in Guards
    BY DEF Base0, Types
  <2> QED
    BY <1>7, <2>1, <2>2 DEF Base0, LockHeld
<1> QED
  BY <1>6, <1>7, <1>8, BaseStill DEF Sync

\* A step that gives back or takes guards, and drops what nobody refers to any
\* more: the guards that stay are described by gs.
LEMMA BaseKeep ==
  ASSUME Base0, Types', Own', LockHeld', NEW gs, guard' = KeepGuards(gs, loaded', held'),
         \A g \in Guards : Alive(g)' =>
            /\ gs[g].id = g[1] /\ gs[g].exec \in Execs /\ gs[g].exec[1] = g[1]
            /\ gs[g].pins = Cardinality(OwnersIn(held', g))
  PROVE  Base0'
<1>1. \A g \in Guards : guard'[g] = IF Alive(g)' THEN gs[g] ELSE NoGuard
  BY AliveNext, KeepIs
<1>2. Whole' /\ Gone' /\ Pins'
  BY <1>1 DEF Whole, Gone, Pins
<1> QED
  BY <1>2 DEF Base0

LEMMA KeepType ==
  ASSUME NEW gs, NEW ld, NEW hd,
         \A g \in Guards : g \in LiveGuards(ld, hd) => gs[g] \in GuardRecs
  PROVE  KeepGuards(gs, ld, hd) \in [Guards -> GuardRecs]
BY NoGuardIs DEF KeepGuards

LEMMA BaseHit == ASSUME Base0, NEW u \in Users, NEW id \in Ids, LoadHit(u, id) PROVE Base0'
<1> DEFINE g == loaded[id]
           e == guard[g].exec
<1>0. held[u] = Nobody /\ lock[u] = Nobody /\ g # Nobody
  BY DEF LoadHit, MayLoad
<1>1. /\ g \in Guards /\ g[1] = id /\ guard[g].id = id /\ e \in Execs /\ e[1] = id
      /\ guard[g].pins = Cardinality(OwnersIn(held, g)) /\ Alive(g)
  BY <1>0, LoadedIs DEF Alive
<1>2. /\ held' \in [Users -> Guards \cup {Nobody}] /\ held'[u] = g
      /\ \A v \in Users \ {u} : held'[v] = held[v]
  BY <1>1 DEF LoadHit, Base0, Types
<1>3. /\ Cardinality(OwnersIn(held', g)) = Cardinality(OwnersIn(held, g)) + 1
      /\ \A h : h # g /\ h # Nobody => OwnersIn(held', h) = OwnersIn(held, h)
  <2>1. held[u] # g
    BY <1>0
  <2> HIDE DEF g
  <2>2. /\ Cardinality(OwnersIn(held', g)) = Cardinality(OwnersIn(held, g)) + 1
        /\ \A h : h # g /\ h # held[u] => OwnersIn(held', h) = OwnersIn(held, h)
    BY SMTT(30), <1>2, <2>1, OwnersTake
  <2> QED
    BY <1>0, <2>2
<1>4. guard' = [guard EXCEPT ![g].pins = @ + 1]
  BY DEF LoadHit, Pin
<1>a. DOMAIN guard = Guards
  BY DEF Base0, Types
<1>b. loaded' = loaded
  BY DEF LoadHit
<1>c. live' = [live EXCEPT ![id] = e]
  BY DEF LoadHit
<1> HIDE DEF g
<1>5. \A h \in Guards : guard'[h] = IF h = g THEN [guard[g] EXCEPT !.pins = @ + 1] ELSE guard[h]
  BY <1>1, <1>4, <1>a
<1>6. guard'[g] = [id |-> guard[g].id, exec |-> guard[g].exec, dirty |-> guard[g].dirty,
                   pins |-> guard[g].pins + 1]
  BY <1>1, <1>5, GuardIs DEF Base0
<1>7. /\ guard[g].pins + 1 \in 0..Cardinality(Users)
      /\ guard[g].pins + 1 = Cardinality(OwnersIn(held', g))
  BY <1>1, <1>3, OwnersFinite
<1>8. guard' \in [Guards -> GuardRecs]
  <2>1. guard'[g] \in GuardRecs
    <3>1. /\ guard[g].id \in Ids \cup {Absent} /\ guard[g].exec \in Execs \cup {Nobody}
          /\ guard[g].dirty \in BOOLEAN
      BY <1>1, GuardIs DEF Base0
    <3> QED
      BY <1>6, <1>7, <3>1, GuardRec
  <2>2. \A h \in Guards : guard'[h] \in GuardRecs
    BY <1>5, <2>1 DEF Base0, Types
  <2>3. guard' = [h \in Guards |-> guard'[h]]
    BY <1>4, <1>a
  <2> QED
    BY <2>2, <2>3
<1> HIDE DEF e
<1>9. Types'
  BY <1>1, <1>2, <1>8, <1>b, <1>c DEF Base0, Types, LoadHit
<1>10. Own'
  BY <1>1, <1>b, <1>c DEF Base0, Own, Types
<1>11. \A h \in Guards : Alive(h)' = Alive(h)
  BY <1>0, <1>1, <1>2, <1>b, NobodyIs DEF Alive
<1>12. \A h \in Guards : /\ guard'[h].id = guard[h].id /\ guard'[h].exec = guard[h].exec
                         /\ h # g => guard'[h] = guard[h]
  BY <1>5, <1>6
<1>13. guard'[g].pins = Cardinality(OwnersIn(held', g))
  BY <1>6, <1>7
<1>14. Whole'
  BY <1>11, <1>12 DEF Base0, Whole
<1>15. Gone'
  BY <1>1, <1>11, <1>12 DEF Base0, Gone
<1>16. Pins'
  BY <1>3, <1>11, <1>12, <1>13, NobodyIs DEF Base0, Pins
<1>17. LockHeld'
  <2>1. lock' = lock
    BY DEF LoadHit
  <2> QED
    BY <1>0, <1>2, <1>12, <2>1 DEF Base0, LockHeld, Types
<1> QED
  BY <1>9, <1>10, <1>14, <1>15, <1>16, <1>17 DEF Base0

\* A free guard object and a free executor object for a load.
LEMMA FreshGuard ==
  ASSUME Base0, Cardinality(Users) < Objects, NEW u \in Users, NEW id \in Ids,
         held[u] = Nobody,
         NEW g, g = Fresh(id, LiveGuards(loaded, held))
  PROVE  g \in Guards /\ g[1] = id /\ ~Alive(g) /\ OwnersIn(held, g) = {}
<1> DEFINE w == [v \in Users |-> IF v = u THEN loaded[id] ELSE held[v]]
<1>1. Covers(w, id, LiveGuards(loaded, held))
  <2> SUFFICES ASSUME NEW n \in 1..Objects, <<id, n>> \in LiveGuards(loaded, held)
               PROVE  \E v \in Users : w[v] = <<id, n>>
    BY DEF Covers
  <2>1. <<id, n>> \in Guards /\ <<id, n>>[1] = id
    BY DEF Guards
  <2>2. CASE \E i \in Ids : loaded[i] = <<id, n>>
    <3>1. loaded[id] = <<id, n>>
      BY <2>1, <2>2, NobodyIs DEF Base0, Own
    <3> QED
      BY <3>1
  <2>3. CASE \E v \in Users : held[v] = <<id, n>>
    BY <2>1, <2>3, NobodyIs
  <2> QED
    BY <2>2, <2>3 DEF LiveGuards
<1> HIDE DEF w
<1>2. g \in Guards /\ g[1] = id /\ g \notin LiveGuards(loaded, held)
  BY <1>1, FreshIs
<1>3. ~Alive(g)
  BY <1>2, AliveIs DEF Base0
<1> QED
  BY <1>2, <1>3 DEF Alive, OwnersIn

LEMMA FreshExec ==
  ASSUME Base0, Cardinality(Users) < Objects, NEW u \in Users, NEW id \in Ids,
         held[u] = Nobody, lock[u] = Nobody, live[id] = Nobody,
         NEW e, e = Fresh(id, UsedExecs(guard, live, lock))
  PROVE  e \in Execs /\ e[1] = id /\ e \notin UsedExecs(guard, live, lock)
<1> DEFINE w == [v \in Users |-> IF v = u THEN guard[loaded[id]].exec
                                 ELSE IF held[v] # Nobody THEN guard[held[v]].exec ELSE lock[v]]
<1>1. Covers(w, id, UsedExecs(guard, live, lock))
  <2> SUFFICES ASSUME NEW n \in 1..Objects, <<id, n>> \in UsedExecs(guard, live, lock)
               PROVE  \E v \in Users : w[v] = <<id, n>>
    BY DEF Covers
  <2>1. <<id, n>> \in Execs /\ <<id, n>>[1] = id
    BY DEF Execs
  <2>2. ~\E i \in Ids : live[i] = <<id, n>>
    BY <2>1, NobodyIs DEF Base0, Own
  <2>3. ASSUME NEW g \in Guards, guard[g].exec = <<id, n>>
        PROVE  \E v \in Users : w[v] = <<id, n>>
    <3>1. Alive(g)
      BY <2>1, <2>3, NobodyIs, NoGuardIs DEF Base0, Gone
    <3>2. g[1] = id
      BY <2>1, <2>3, <3>1 DEF Base0, Whole
    <3>3. CASE \E i \in Ids : loaded[i] = g
      <4>1. loaded[id] = g
        BY <3>2, <3>3, NobodyIs DEF Base0, Own
      <4> QED
        BY <2>3, <4>1
    <3>4. CASE \E v \in Users : held[v] = g
      <4>1. PICK v \in Users : held[v] = g
        BY <3>4
      <4>2. held[v] # Nobody /\ v # u
        BY <4>1, NobodyIs
      <4> QED
        BY <2>3, <4>1, <4>2
    <3> QED
      BY <3>1, <3>3, <3>4 DEF Alive
  <2>4. ASSUME NEW v \in Users, lock[v] = <<id, n>>
        PROVE  \E y \in Users : w[y] = <<id, n>>
    <3>1. v # u /\ lock[v] # Nobody
      BY <2>1, <2>4, NobodyIs
    <3>2. w[v] = <<id, n>>
      BY <2>4, <3>1 DEF Base0, LockHeld
    <3> QED
      BY <3>2
  <2> QED
    BY <2>2, <2>3, <2>4 DEF UsedExecs
<1> HIDE DEF w
<1> QED
  BY <1>1, FreshIs

LEMMA BaseMiss ==
  ASSUME Base0, Cardinality(Users) < Objects, NEW u \in Users, NEW id \in Ids, LoadMiss(u, id)
  PROVE  Base0'
<1> DEFINE e  == IF live[id] # Nobody THEN live[id]
                 ELSE Fresh(id, UsedExecs(guard, live, lock))
           g  == Fresh(id, LiveGuards(loaded, held))
           gs == [guard EXCEPT ![g] = [id |-> id, exec |-> e, dirty |-> FALSE, pins |-> 1]]
<1>0. held[u] = Nobody /\ lock[u] = Nobody
  BY DEF LoadMiss, MayLoad
<1>1. /\ loaded' = Admit(guard, id, g).loaded /\ live' = [live EXCEPT ![id] = e]
      /\ held' = [held EXCEPT ![u] = g] /\ lock' = lock
      /\ unsynced' = unsynced /\ deleted' = deleted
  BY DEF LoadMiss
<1>2. guard' = KeepGuards(gs, loaded', held')
  BY DEF LoadMiss
<1>3. e \in Execs /\ e[1] = id
  <2>1. CASE live[id] # Nobody
    BY <2>1 DEF Base0, Types, Own
  <2>2. CASE live[id] = Nobody
    BY <1>0, <2>2, FreshExec
  <2> QED
    BY <2>1, <2>2
<1>4. g \in Guards /\ g[1] = id /\ ~Alive(g) /\ OwnersIn(held, g) = {}
  BY <1>0, FreshGuard
<1>5. \A h \in Guards : gs[h] = IF h = g THEN [id |-> id, exec |-> e, dirty |-> FALSE, pins |-> 1]
                                 ELSE guard[h]
  BY <1>4 DEF Base0, Types
<1> HIDE DEF e, g, gs
<1>6. /\ loaded' \in [Ids -> Guards \cup {Nobody}] /\ loaded'[id] = g
      /\ \A i \in Ids \ {id} : loaded'[i] \in {Nobody, loaded[i]}
  <2>1. loaded' = Admit(guard, id, g).loaded /\ Types
    BY <1>1 DEF Base0
  <2> QED
    BY <1>4, <2>1, AdmitLoaded
<1>7. /\ held' \in [Users -> Guards \cup {Nobody}] /\ held'[u] = g
      /\ \A v \in Users \ {u} : held'[v] = held[v]
  BY <1>1, <1>4 DEF Base0, Types
<1>8. /\ Cardinality(OwnersIn(held', g)) = 1
      /\ \A h : h # g /\ h # Nobody => OwnersIn(held', h) = OwnersIn(held, h)
  <2>1. held[u] # g
    BY <1>0, <1>4, NobodyIs
  <2>0. held'[u] = g /\ \A v \in Users \ {u} : held'[v] = held[v]
    BY <1>7
  <2>2. /\ Cardinality(OwnersIn(held', g)) = Cardinality(OwnersIn(held, g)) + 1
        /\ \A h : h # g /\ h # held[u] => OwnersIn(held', h) = OwnersIn(held, h)
    BY <2>0, <2>1, OwnersTake
  <2> QED
    BY <1>0, <1>4, <2>2, FS_EmptySet
<1>9. \A h \in Guards : gs[h] \in GuardRecs
  <2>1. 1 \in 0..Cardinality(Users) /\ FALSE \in BOOLEAN
    BY <1>8, OwnersFinite
  <2>2. [id |-> id, exec |-> e, dirty |-> FALSE, pins |-> 1] \in GuardRecs
    BY <1>3, <2>1, GuardRec
  <2> QED
    BY <1>5, <2>2 DEF Base0, Types
<1>10. guard' \in [Guards -> GuardRecs]
  BY <1>2, <1>9, KeepType
<1>11. Types'
  BY <1>1, <1>3, <1>6, <1>7, <1>10 DEF Base0, Types
<1>12. Own'
  BY <1>1, <1>3, <1>4, <1>6, <1>11 DEF Base0, Own, Types
<1>13. \A h \in Guards : h # g /\ Alive(h)' => Alive(h)
  BY <1>6, <1>7, NobodyIs DEF Alive
<1>14. \A h \in Guards : Alive(h)' =>
            /\ gs[h].id = h[1] /\ gs[h].exec \in Execs /\ gs[h].exec[1] = h[1]
            /\ gs[h].pins = Cardinality(OwnersIn(held', h))
  <2> SUFFICES ASSUME NEW h \in Guards, Alive(h)'
               PROVE  /\ gs[h].id = h[1] /\ gs[h].exec \in Execs /\ gs[h].exec[1] = h[1]
                      /\ gs[h].pins = Cardinality(OwnersIn(held', h))
    OBVIOUS
  <2>1. CASE h = g
    <3>1. /\ gs[h].id = id /\ gs[h].exec = e /\ gs[h].pins = 1
      BY <1>5, <2>1
    <3> QED
      BY <1>3, <1>4, <1>8, <2>1, <3>1
  <2>2. CASE h # g
    <3>1. Alive(h) /\ gs[h] = guard[h]
      BY <1>5, <1>13, <2>2
    <3>2. OwnersIn(held', h) = OwnersIn(held, h)
      BY <1>8, <2>2, NobodyIs
    <3> QED
      BY <3>1, <3>2 DEF Base0, Whole, Pins
  <2> QED
    BY <2>1, <2>2
<1>15. LockHeld'
  <2> SUFFICES ASSUME NEW v \in Users, held'[v] # Nobody, lock'[v] # Nobody
               PROVE  lock'[v] = guard'[held'[v]].exec
    BY DEF LockHeld
  <2>1. v # u /\ held'[v] = held[v] /\ held[v] # Nobody /\ lock'[v] = lock[v]
    BY <1>0, <1>1, <1>7
  <2>2. held[v] \in Guards /\ held[v] # g
    BY <1>4, <2>1 DEF Base0, Types, Alive
  <2>3. held[v] \in LiveGuards(loaded', held')
    BY <2>1, <2>2, NobodyIs DEF LiveGuards
  <2>4. guard'[held[v]] = guard[held[v]]
    BY <1>2, <1>5, <2>2, <2>3, KeepIs
  <2> QED
    BY <2>1, <2>4 DEF Base0, LockHeld
<1> QED
  BY <1>2, <1>11, <1>12, <1>14, <1>15, BaseKeep

LEMMA BaseSave == ASSUME Base0, NEW u \in Users, SavePipeline(u) PROVE Base0'
<1> DEFINE g  == held[u]
           id == guard[g].id
           e  == guard[g].exec
           gs == Unpin(guard, g)
           readmit == LastPin(gs, g) /\ guard[g].dirty
<1>0. held[u] # Nobody
  BY DEF SavePipeline
<1>1. /\ g \in Guards /\ id \in Ids /\ id = g[1] /\ e \in Execs /\ e[1] = id
      /\ guard[g].pins = Cardinality(OwnersIn(held, g)) /\ Alive(g)
      /\ guard[g].pins \in 1..Cardinality(Users)
  BY <1>0, HeldIs DEF Alive
<1>2. /\ loaded' = IF readmit THEN Admit(gs, id, g).loaded ELSE loaded
      /\ live' = [live EXCEPT ![id] = e] /\ held' = [held EXCEPT ![u] = Nobody]
      /\ lock' = lock /\ deleted' = deleted
      /\ unsynced' = IF u \in Editors THEN unsynced \cup {u} ELSE unsynced
  BY DEF SavePipeline
<1>3. guard' = KeepGuards(gs, loaded', held')
  BY DEF SavePipeline
<1> HIDE DEF readmit
<1>4. \A h \in Guards : gs[h] = IF h = g THEN [guard[g] EXCEPT !.pins = IF @ > 0 THEN @ - 1 ELSE 0]
                                 ELSE guard[h]
  <2> HIDE DEF g
  <2>1. DOMAIN guard = Guards
    BY DEF Base0, Types
  <2> QED
    BY <1>1, <2>1 DEF Unpin
<1> HIDE DEF g, gs
<1>5. gs[g] = [id |-> id, exec |-> e, dirty |-> guard[g].dirty, pins |-> guard[g].pins - 1]
  <2>1. guard[g].pins > 0
    BY <1>1, OwnersFinite
  <2>2. gs[g] = [guard[g] EXCEPT !.pins = guard[g].pins - 1]
    BY <1>1, <1>4, <2>1
  <2> QED
    BY <1>1, <2>2, GuardIs DEF Base0
<1> HIDE DEF id, e
<1>6. /\ loaded' \in [Ids -> Guards \cup {Nobody}]
      /\ \A i \in Ids : loaded'[i] \in {Nobody, loaded[i]} \/ (i = id /\ loaded'[i] = g)
  <2>1. CASE readmit
    <3>1. loaded' = Admit(gs, id, g).loaded /\ Types
      BY <1>2, <2>1 DEF Base0
    <3> QED
      BY <1>1, <3>1, AdmitLoaded
  <2>2. CASE ~readmit
    BY <1>2, <2>2 DEF Base0, Types
  <2> QED
    BY <2>1, <2>2
<1>7. /\ held' \in [Users -> Guards \cup {Nobody}] /\ held'[u] = Nobody
      /\ \A v \in Users \ {u} : held'[v] = held[v]
  BY <1>2 DEF Base0, Types
<1>8. /\ Cardinality(OwnersIn(held', g)) = Cardinality(OwnersIn(held, g)) - 1
      /\ \A h : h # g /\ h # Nobody => OwnersIn(held', h) = OwnersIn(held, h)
  <2>1. held'[u] # g /\ held[u] = g
    BY <1>1, <1>7, NobodyIs DEF g
  <2>2. /\ Cardinality(OwnersIn(held, g)) = Cardinality(OwnersIn(held', g)) + 1
        /\ \A h : h # g /\ h # held'[u] => OwnersIn(held, h) = OwnersIn(held', h)
    BY <1>7, <2>1, OwnersTake
  <2> QED
    BY <1>7, <2>2, OwnersFinite
<1>9. \A h \in Guards : gs[h] \in GuardRecs
  <2>1. guard[g].pins - 1 \in 0..Cardinality(Users) /\ guard[g].dirty \in BOOLEAN
    <3>1. guard[g].pins - 1 \in 0..Cardinality(Users)
      BY <1>1, OwnersFinite
    <3>2. guard[g].dirty \in BOOLEAN
      BY <1>1, GuardIs DEF Base0
    <3> QED
      BY <3>1, <3>2
  <2>2. gs[g] \in GuardRecs
    BY <1>1, <1>5, <2>1, GuardRec
  <2> QED
    BY <1>4, <2>2 DEF Base0, Types
<1>10. guard' \in [Guards -> GuardRecs]
  BY <1>3, <1>9, KeepType
<1>11. Types'
  BY <1>1, <1>2, <1>6, <1>7, <1>10 DEF Base0, Types
<1>12. Own'
  <2>1. \A i \in Ids : loaded'[i] # Nobody => loaded'[i][1] = i
    BY <1>1, <1>6 DEF Base0, Own
  <2>2. \A i \in Ids : live'[i] # Nobody => live'[i][1] = i
    BY <1>1, <1>2 DEF Base0, Own, Types
  <2> QED
    BY <2>1, <2>2 DEF Own
<1>13. \A h \in Guards : Alive(h)' => Alive(h)
  BY <1>1, <1>6, <1>7, NobodyIs DEF Alive
<1>14. \A h \in Guards : Alive(h)' =>
            /\ gs[h].id = h[1] /\ gs[h].exec \in Execs /\ gs[h].exec[1] = h[1]
            /\ gs[h].pins = Cardinality(OwnersIn(held', h))
  <2> SUFFICES ASSUME NEW h \in Guards, Alive(h)'
               PROVE  /\ gs[h].id = h[1] /\ gs[h].exec \in Execs /\ gs[h].exec[1] = h[1]
                      /\ gs[h].pins = Cardinality(OwnersIn(held', h))
    OBVIOUS
  <2>1. CASE h = g
    <3>1. /\ gs[h].id = id /\ gs[h].exec = e /\ gs[h].pins = guard[g].pins - 1
      BY <1>5, <2>1
    <3> QED
      BY <1>1, <1>8, <2>1, <3>1
  <2>2. CASE h # g
    <3>1. Alive(h) /\ gs[h] = guard[h]
      BY <1>4, <1>13, <2>2
    <3>2. OwnersIn(held', h) = OwnersIn(held, h)
      BY <1>8, <2>2, NobodyIs
    <3> QED
      BY <3>1, <3>2 DEF Base0, Whole, Pins
  <2> QED
    BY <2>1, <2>2
<1>15. LockHeld'
  <2> SUFFICES ASSUME NEW v \in Users, held'[v] # Nobody, lock'[v] # Nobody
               PROVE  lock'[v] = guard'[held'[v]].exec
    BY DEF LockHeld
  <2>1. v # u /\ held'[v] = held[v] /\ held[v] # Nobody /\ lock'[v] = lock[v]
    BY <1>2, <1>7
  <2>2. held[v] \in Guards
    BY <2>1 DEF Base0, Types
  <2>3. held[v] \in LiveGuards(loaded', held')
    BY <2>1, <2>2, NobodyIs DEF LiveGuards
  <2>4. guard'[held[v]].exec = guard[held[v]].exec
    <3>1. guard'[held[v]] = gs[held[v]]
      BY <1>3, <2>2, <2>3, KeepIs
    <3>2. gs[g].exec = guard[g].exec
      BY <1>5 DEF e
    <3> QED
      BY <1>4, <2>2, <3>1, <3>2
  <2> QED
    BY <2>1, <2>4 DEF Base0, LockHeld
<1> QED
  BY <1>3, <1>11, <1>12, <1>14, <1>15, BaseKeep

LEMMA BaseDelete == ASSUME Base0, NEW id \in Ids, DeletePipelines(id) PROVE Base0'
<1>1. /\ loaded' = [loaded EXCEPT ![id] = Nobody] /\ live' = [live EXCEPT ![id] = Nobody]
      /\ guard' = KeepGuards(guard, loaded', held') /\ held' = held /\ lock' = lock
      /\ unsynced' = unsynced /\ deleted' = deleted \cup {id}
  BY DEF DeletePipelines
<1>2. guard' \in [Guards -> GuardRecs]
  BY <1>1, KeepType DEF Base0, Types
<1>3. Types'
  BY <1>1, <1>2 DEF Base0, Types
<1>4. Own'
  BY <1>1 DEF Base0, Own, Types
<1>5. \A h \in Guards : Alive(h)' => Alive(h)
  BY <1>1, NobodyIs DEF Alive, Base0, Types
<1>6. \A h \in Guards : Alive(h)' =>
            /\ guard[h].id = h[1] /\ guard[h].exec \in Execs /\ guard[h].exec[1] = h[1]
            /\ guard[h].pins = Cardinality(OwnersIn(held', h))
  BY <1>1, <1>5 DEF Base0, Whole, Pins
<1>7. LockHeld'
  <2> SUFFICES ASSUME NEW v \in Users, held[v] # Nobody, lock[v] # Nobody
               PROVE  lock[v] = guard'[held[v]].exec
    BY <1>1 DEF LockHeld
  <2>2. held[v] \in Guards
    BY DEF Base0, Types
  <2>3. held[v] \in LiveGuards(loaded', held')
    BY <1>1, <2>2, NobodyIs DEF LiveGuards
  <2>4. guard'[held[v]] = guard[held[v]]
    BY <1>1, <2>2, <2>3, KeepIs
  <2> QED
    BY <2>4 DEF Base0, LockHeld
<1> QED
  BY <1>1, <1>3, <1>4, <1>6, <1>7, BaseKeep

LEMMA Base0Step ==
  ASSUME Base0, Cardinality(Users) < Objects, [Next]_vars
  PROVE  Base0'
<1>1. CASE UNCHANGED vars
  BY <1>1, BaseStutter
<1>2. CASE Next
  <2>1. ASSUME NEW u \in Users, NEW id \in Ids,
               LoadHit(u, id) \/ LoadMiss(u, id) \/ StartSnapshot(u, id)
        PROVE  Base0'
    BY <2>1, BaseHit, BaseMiss, BaseSnapshot
  <2>2. ASSUME NEW u \in Users, NEW p \in Params, Edit(u, p) PROVE Base0'
    BY <2>2, BaseEdit
  <2>3. ASSUME NEW u \in Users,
               StartRender(u) \/ ReleaseRenderLock(u) \/ SavePipeline(u) \/ Sync(u)
        PROVE  Base0'
    BY <2>3, BaseRender, BaseRelease, BaseSave, BaseSync
  <2>4. ASSUME NEW id \in Editable, DeletePipelines(id) PROVE Base0'
    BY <2>4, BaseDelete, PipelineAssumption
  <2>6. ASSUME NEW u \in Users, MarkDirty(u) \/ FallBackToCPU(u) PROVE Base0'
    BY <2>6, BaseMark, BaseFallBack
  <2>5. ASSUME NEW p \in Prefs, SetAcceleratorBackendPreference(p) PROVE Base0'
    BY <2>5, BaseSwitch
  <2> QED
    BY <1>2, <2>1, <2>2, <2>3, <2>4, <2>5, <2>6 DEF Next
<1> QED
  BY <1>1, <1>2

\* PinsMatchHolders: pin_count_ of a guard is the number of its owners, however
\* many of them load, edit, save, evict and delete at once, as long as an
\* element never runs out of objects (the bound Objects of the model).
THEOREM PinsAreOwners ==
  ASSUME Cardinality(Users) < Objects
  PROVE  Spec => []PinsMatchHolders
<1>1. Base0 => PinsMatchHolders
  <2> SUFFICES ASSUME Base0, NEW g \in LiveGuards(loaded, held)
               PROVE  guard[g].pins = Cardinality(Owners(g))
    BY DEF PinsMatchHolders
  <2>1. g \in Guards /\ Alive(g)
    BY DEF LiveGuards, Alive, Base0, Types
  <2> QED
    BY <2>1 DEF Base0, Pins, OwnersIn, Owners
<1>2. Base0 /\ [Next]_vars => Base0'
  BY Base0Step
<1> QED
  BY <1>1, <1>2, Base0Init, PTL DEF Spec

--------------------------------------------------------------------------------
(* The cache, the owners and the edits when a wait for a render lock never gives  *)
(* up and there are fewer owners than places.                                     *)

Enough ==
    /\ LockTimeouts = FALSE
    /\ Cardinality(Users) < Objects /\ Cardinality(Users) < Capacity

ExecRecs == [params : Params, stages : BOOLEAN, pref : Prefs]

MoreTypes ==
    /\ exec \in [Execs -> ExecRecs]
    /\ stored \in [Ids -> Params \cup {Absent}]
    /\ pref \in Prefs
    /\ late \subseteq deleted

\* The list holds what the map holds; a boosted or shrunk cache never has fewer
\* places than one less than it was built with, and at most one key too many.
CacheOk(c, ld) ==
    /\ Good(c) /\ KeysOf(c) = LoadedIds(ld)
    /\ Capacity - 1 <= c.cap /\ Len(c.keys) <= c.cap + 1
CacheInv == CacheOk(lru, loaded)

OwnerLoaded == \A u \in Users : held[u] # Nobody =>
                   held[u][1] \in deleted \/ loaded[held[u][1]] = held[u]

EditorsHold == \A u \in Editors : held[u] # Nobody => held[u][1] \notin deleted

\* A dirty guard is loaded; one of a deleted element is a worker's.
DirtyInv ==
    \A g \in Guards : Alive(g) /\ guard[g].dirty =>
        IF g[1] \in deleted THEN g[1] \in late ELSE loaded[g[1]] = g

ExecIsLive == \A id \in Ids \ deleted : loaded[id] # Nobody => guard[loaded[id]].exec = live[id]

OwnerStages == \A u \in Users : held[u] # Nobody =>
                   held[u][1] \in deleted \/ exec[guard[held[u]].exec].stages
OwnerPref   == \A u \in Users : held[u] # Nobody =>
                   held[u][1] \in deleted \/ exec[guard[held[u]].exec].pref \in {pref, CPU}

Known(id)  == IF stored[id] = Absent THEN Base ELSE stored[id]
Kept == \A id \in Ids \ deleted : live[id] # Nobody /\ exec[live[id]].params # Known(id) =>
            loaded[id] # Nobody /\ guard[loaded[id]].dirty

Edits == EditorsHold /\ DirtyInv /\ ExecIsLive /\ Kept /\ DeletedStaysDeleted
Rest  == MoreTypes /\ CacheInv /\ OwnerLoaded /\ OwnerStages /\ OwnerPref /\ Edits
IInv  == Base0 /\ Rest

LEMMA CardKeys ==
  ASSUME NEW c, Good(c)
  PROVE  IsFiniteSet(KeysOf(c)) /\ Cardinality(KeysOf(c)) = Len(c.keys)
<1> DEFINE f == [i \in 1..Len(c.keys) |-> c.keys[i]]
<1>0. Len(c.keys) \in Nat
  BY GoodFacts
<1>1. f \in Bijection(1..Len(c.keys), KeysOf(c))
  <2>1. \A i, j \in 1..Len(c.keys) : c.keys[i] = c.keys[j] => i = j
    BY GoodFacts
  <2>2. f \in [1..Len(c.keys) -> KeysOf(c)] /\ \A i, j \in 1..Len(c.keys) : f[i] = f[j] => i = j
    BY <2>1 DEF KeysOf
  <2>3. \A x \in KeysOf(c) : \E i \in 1..Len(c.keys) : f[i] = x
    BY DEF KeysOf
  <2> HIDE DEF f
  <2> QED
    BY <2>2, <2>3 DEF Bijection, Injection, Surjection, IsInjective
<1>2. IsFiniteSet(1..Len(c.keys)) /\ Cardinality(1..Len(c.keys)) = Len(c.keys)
  BY <1>0, FS_Interval
<1>3. ExistsBijection(1..Len(c.keys), KeysOf(c))
  BY <1>1 DEF ExistsBijection
<1> QED
  BY <1>2, <1>3, FS_Bijection

--------------------------------------------------------------------------------
(* The walk of HandleEviction along the list.                                     *)

LEMMA Greatest ==
  ASSUME NEW n \in Nat, NEW s \in SUBSET (1..n), s # {}
  PROVE  Max(s) \in s /\ \A y \in s : Max(s) >= y
<1> DEFINE T == {m \in Nat : \A y \in s : m >= y}
<1>1. \E m \in T : \A k \in T : m <= k
  <2>1. T \in SUBSET Nat /\ n \in T
    OBVIOUS
  <2> HIDE DEF T
  <2> QED
    BY <2>1, Least
<1>2. PICK m \in T : \A k \in T : m <= k
  BY <1>1
<1>3. m \in s
  <2> SUFFICES ASSUME m \notin s PROVE FALSE
    OBVIOUS
  <2>0. m \in Nat /\ \A y \in s : y \in Nat /\ y >= 1 /\ m >= y /\ m # y
    OBVIOUS
  <2>1. m # 0 /\ \A y \in s : m - 1 >= y
    <3>1. PICK x \in s : TRUE
      OBVIOUS
    <3>2. m > x /\ \A y \in s : m > y
      BY <2>0
    <3> QED
      BY <2>0, <3>1, <3>2
  <2>2. m - 1 \in T
    BY <2>1
  <2> QED
    BY <1>2, <2>2
<1>4. \E x \in s : \A y \in s : x >= y
  BY <1>3
<1> QED
  BY <1>4 DEF Max

\* The states FoldLeft goes through, for every part of 1..n.
Walks(w, gs, start, D) ==
    w = [s \in D |-> IF s = {} THEN start ELSE EvictionStep(gs, w[s \ {Max(s)}])]
Walk(gs, start, n) == CHOOSE w : Walks(w, gs, start, SUBSET (1..n))

LEMMA WalkIs ==
  ASSUME NEW gs, NEW start, NEW n \in Nat
  PROVE  FoldLeft(LAMBDA st, i : EvictionStep(gs, st), start, [i \in 1..n |-> i])
            = Walk(gs, start, n)[1..n]
BY DEF FoldLeft, MapThenFoldSet, Walk, Walks

Parts(n, k) == {s \in SUBSET (1..n) : Cardinality(s) <= k}

LEMMA WalkExists ==
  ASSUME NEW gs, NEW start, NEW n \in Nat
  PROVE  Walks(Walk(gs, start, n), gs, start, SUBSET (1..n))
<1> DEFINE Ns == {k \in Nat : \E w : Walks(w, gs, start, Parts(n, k))}
<1>0. /\ Cardinality(1..n) = n
      /\ \A s \in SUBSET (1..n) : IsFiniteSet(s) /\ Cardinality(s) \in Nat /\ Cardinality(s) <= n
  <2>1. IsFiniteSet(1..n) /\ Cardinality(1..n) = n
    BY FS_Interval
  <2> QED
    BY <2>1, FS_Subset, FS_CardinalityType
<1>1. 0 \in Ns
  <2> DEFINE w == [s \in Parts(n, 0) |-> start]
  <2>1. \A s \in Parts(n, 0) : s = {}
    BY <1>0, FS_EmptySet DEF Parts
  <2>2. Walks(w, gs, start, Parts(n, 0))
    BY <2>1 DEF Walks
  <2> QED
    BY <2>2
<1>2. ASSUME NEW k \in Ns PROVE k + 1 \in Ns
  <2>1. PICK w : Walks(w, gs, start, Parts(n, k))
    OBVIOUS
  <2> DEFINE h == [s \in Parts(n, k + 1) |->
                     IF s = {} THEN start ELSE EvictionStep(gs, w[s \ {Max(s)}])]
  <2>2. \A s \in Parts(n, k + 1) : s # {} => s \ {Max(s)} \in Parts(n, k)
    <3> SUFFICES ASSUME NEW s \in Parts(n, k + 1), s # {} PROVE s \ {Max(s)} \in Parts(n, k)
      OBVIOUS
    <3>1. Max(s) \in s /\ s \in SUBSET (1..n) /\ Cardinality(s) <= k + 1 /\ k \in Nat
      BY Greatest DEF Parts
    <3>2. Cardinality(s \ {Max(s)}) = Cardinality(s) - 1
      BY <1>0, <3>1, FS_RemoveElement
    <3>3. Cardinality(s) \in Nat /\ s \ {Max(s)} \in SUBSET (1..n)
      BY <1>0, <3>1
    <3>4. Cardinality(s \ {Max(s)}) <= k
      BY <3>1, <3>2, <3>3
    <3> QED
      BY <3>3, <3>4 DEF Parts
  <2>3. \A s \in Parts(n, k) : s \in Parts(n, k + 1)
    BY <1>0 DEF Parts
  <2>4. \A s \in Parts(n, k) : h[s] = w[s]
    BY <2>1, <2>3 DEF Walks
  <2>5. h = [s \in Parts(n, k + 1) |-> IF s = {} THEN start ELSE EvictionStep(gs, h[s \ {Max(s)}])]
    BY <2>2, <2>4
  <2>6. Walks(h, gs, start, Parts(n, k + 1))
    BY <2>5 DEF Walks
  <2> QED
    BY <2>6
<1>3. Ns = Nat
  <2> HIDE DEF Ns
  <2>1. Ns \in SUBSET Nat
    BY DEF Ns
  <2> QED
    BY <1>1, <1>2, <2>1, AllNaturals
<1>4. n \in Ns /\ Parts(n, n) = SUBSET (1..n)
  BY <1>0, <1>3 DEF Parts
<1>5. \E w : Walks(w, gs, start, SUBSET (1..n))
  BY <1>4
<1> QED
  BY <1>5 DEF Walk

LEMMA WalkSteps ==
  ASSUME NEW gs, NEW start, NEW n \in Nat, NEW w, w = Walk(gs, start, n)
  PROVE  /\ w[1..0] = start
         /\ \A k \in Nat : k < n => w[1..(k + 1)] = EvictionStep(gs, w[1..k])
<1>1. w = [s \in SUBSET (1..n) |-> IF s = {} THEN start ELSE EvictionStep(gs, w[s \ {Max(s)}])]
  <2>1. Walks(w, gs, start, SUBSET (1..n))
    BY WalkExists
  <2> QED
    BY <2>1 DEF Walks
<1>2. w[1..0] = start
  <2>1. 1..0 = {} /\ {} \in SUBSET (1..n)
    OBVIOUS
  <2> QED
    BY <1>1, <2>1
<1>3. ASSUME NEW k \in Nat, k < n PROVE w[1..(k + 1)] = EvictionStep(gs, w[1..k])
  <2> DEFINE s == 1..(k + 1)
  <2>1. s \in SUBSET (1..n) /\ s # {} /\ k + 1 \in s
    BY <1>3
  <2>2. Max(s) = k + 1
    <3>1. Max(s) \in s /\ Max(s) >= k + 1
      BY <2>1, Greatest
    <3> QED
      BY <3>1
  <2>3. s \ {k + 1} = 1..k
    OBVIOUS
  <2> HIDE DEF s
  <2>4. w[s] = EvictionStep(gs, w[s \ {Max(s)}])
    BY <1>1, <2>1
  <2> QED
    BY <2>2, <2>3, <2>4 DEF s
<1> QED
  BY <1>2, <1>3

\* One step of the walk.
IsStep(st) == st = [cache |-> st.cache, cand |-> st.cand, victim |-> st.victim,
                    done |-> st.done, blocked |-> st.blocked]

StepOk(gs, st, r, g) ==
    /\ IsStep(r)
    /\ st.blocked => r.blocked
    /\ st.done => r = st
    /\ ~st.done /\ g # Nobody /\ gs[g].pins = 0 =>
         \/ r.blocked
         \/ r.done /\ r.victim = st.cand /\ r.cache = st.cache
    /\ ~st.done /\ g # Nobody /\ gs[g].pins # 0 /\ EvictedBy(st.cache, st.cand) # None =>
         /\ r.cache = RecordAccess(st.cache, st.cand) /\ r.done = FALSE
         /\ r.cand = EvictedBy(st.cache, st.cand)

LEMMA StepIs ==
  ASSUME NEW gs, NEW st, IsStep(st), NEW r, r = EvictionStep(gs, st), NEW g, g = loaded[st.cand]
  PROVE  StepOk(gs, st, r, g)
<1> USE DEF StepOk
<1> DEFINE a == st.cache
           b == st.cand
           c == st.victim
           d == st.done
           e == st.blocked
<1>0. st = [cache |-> a, cand |-> b, victim |-> c, done |-> d, blocked |-> e]
  BY DEF IsStep
<1>1. CASE st.done
  <2>1. r = st
    BY <1>1 DEF EvictionStep
  <2> QED
    BY <1>1, <2>1
<1>2. CASE ~st.done /\ g = Nobody
  <2>1. r = [st EXCEPT !.done = TRUE]
    BY <1>2 DEF EvictionStep
  <2> HIDE DEF a, b, c, d, e
  <2>2. r = [cache |-> a, cand |-> b, victim |-> c, done |-> TRUE, blocked |-> e]
    BY <1>0, <2>1
  <2>3. IsStep(r) /\ r.blocked = e
    BY <2>2 DEF IsStep
  <2> QED
    BY <1>2, <2>3 DEF e
<1>3. CASE ~st.done /\ g # Nobody /\ gs[g].pins = 0 /\ gs[g].exec \in Locked
  <2>1. r = [st EXCEPT !.blocked = TRUE]
    BY <1>3 DEF EvictionStep, Evictable
  <2> HIDE DEF a, b, c, d, e
  <2>2. r = [cache |-> a, cand |-> b, victim |-> c, done |-> d, blocked |-> TRUE]
    BY <1>0, <2>1
  <2>3. IsStep(r) /\ r.blocked
    BY <2>2 DEF IsStep
  <2> QED
    BY <1>3, <2>3
<1>4. CASE ~st.done /\ g # Nobody /\ gs[g].pins = 0 /\ gs[g].exec \notin Locked
  <2>1. r = [st EXCEPT !.victim = b, !.done = TRUE]
    BY <1>4 DEF EvictionStep, Evictable
  <2> HIDE DEF a, b, c, d, e
  <2>2. r = [cache |-> a, cand |-> b, victim |-> b, done |-> TRUE, blocked |-> e]
    BY <1>0, <2>1
  <2>3. IsStep(r) /\ r.done /\ r.victim = b /\ r.cache = a /\ r.blocked = e
    BY <2>2 DEF IsStep
  <2> QED
    BY <1>4, <2>3 DEF a, b, e
<1>5. CASE ~st.done /\ g # Nobody /\ gs[g].pins # 0
  <2> DEFINE x == EvictedBy(a, b)
             y == RecordAccess(a, b)
             z == IF x = None THEN b ELSE x
             n == x = None
  <2>1. r = [st EXCEPT !.cache = y, !.done = n, !.cand = z]
    BY <1>5 DEF EvictionStep, Evictable
  <2>a. x # None => n = FALSE
    OBVIOUS
  <2> HIDE DEF a, b, c, d, e, y, z, n
  <2>2. r = [cache |-> y, cand |-> z, victim |-> c, done |-> n, blocked |-> e]
    BY <1>0, <2>1
  <2>3. IsStep(r) /\ r.cache = y /\ r.done = n /\ r.cand = z /\ r.blocked = e
    BY <2>2 DEF IsStep
  <2> QED
    BY <1>5, <2>3, <2>a DEF a, b, e, y, z
<1> QED
  BY <1>1, <1>2, <1>3, <1>4, <1>5

--------------------------------------------------------------------------------
(* HandleEviction, when fewer owners than places pin the loaded guards.           *)

\* After i pinned candidates the list is the old one turned by i, with the new
\* key after the candidates that went back to the front.
Turned(c, id, i) ==
    /\ Good(c) /\ c.cap = lru.cap /\ Len(c.keys) = Len(lru.keys)
    /\ \A j \in 1..Len(lru.keys) :
         c.keys[j] = IF j <= i THEN lru.keys[Len(lru.keys) - i + j]
                     ELSE IF j = i + 1 THEN id ELSE lru.keys[j - i - 1]

LEMMA TurnedKeys ==
  ASSUME Good(lru), NEW id \in Ids, NEW i \in 0..(Len(lru.keys) - 1), NEW c, Turned(c, id, i)
  PROVE  /\ KeysOf(c) = (KeysOf(lru) \ {lru.keys[Len(lru.keys) - i]}) \cup {id}
         /\ id \notin KeysOf(lru) => lru.keys[Len(lru.keys) - i] \notin KeysOf(c)
<1> DEFINE K == lru.keys
           L == Len(K)
           s == c.keys
<1>1. L \in Nat /\ L > 0 /\ L - i \in 1..L /\ \A a, b \in 1..L : K[a] = K[b] => a = b
  BY GoodFacts
<1>2. Len(s) = L /\ \A j \in 1..L : s[j] = IF j <= i THEN K[L - i + j]
                                          ELSE IF j = i + 1 THEN id ELSE K[j - i - 1]
  BY DEF Turned
<1> HIDE DEF K, L, s
<1>3. ASSUME NEW x
      PROVE  (\E j \in 1..L : s[j] = x) <=> (x = id \/ \E j \in 1..L : j # L - i /\ K[j] = x)
  <2>1. ASSUME NEW j \in 1..L, s[j] = x
        PROVE  x = id \/ \E k \in 1..L : k # L - i /\ K[k] = x
    <3>1. CASE j <= i
      <4>1. L - i + j \in 1..L /\ L - i + j # L - i /\ K[L - i + j] = x
        BY <1>1, <1>2, <2>1, <3>1
      <4> QED
        BY <4>1
    <3>2. CASE j = i + 1
      BY <1>2, <2>1, <3>2
    <3>3. CASE j > i + 1
      <4>1. j - i - 1 \in 1..L /\ j - i - 1 # L - i /\ K[j - i - 1] = x
        BY <1>1, <1>2, <2>1, <3>3
      <4> QED
        BY <4>1
    <3> QED
      BY <3>1, <3>2, <3>3
  <2>2. i + 1 \in 1..L /\ s[i + 1] = id
    BY <1>1, <1>2
  <2>3. ASSUME NEW j \in 1..L, j # L - i, K[j] = x PROVE \E k \in 1..L : s[k] = x
    <3>1. CASE j > L - i
      <4>1. j - (L - i) \in 1..L /\ j - (L - i) <= i /\ L - i + (j - (L - i)) = j
        BY <1>1, <3>1
      <4>2. s[j - (L - i)] = K[j]
        BY <1>2, <4>1
      <4> QED
        BY <2>3, <4>1, <4>2
    <3>2. CASE j < L - i
      <4>1. j + i + 1 \in 1..L /\ j + i + 1 > i + 1 /\ j + i + 1 - i - 1 = j
        BY <1>1, <3>2
      <4>2. s[j + i + 1] = K[j]
        BY <1>2, <4>1
      <4> QED
        BY <2>3, <4>1, <4>2
    <3> QED
      BY <1>1, <2>3, <3>1, <3>2
  <2> QED
    BY <2>1, <2>2, <2>3
<1>4. ASSUME NEW x
      PROVE  (\E j \in 1..L : j # L - i /\ K[j] = x) <=> ((\E j \in 1..L : K[j] = x) /\ x # K[L - i])
  BY <1>1
<1>5. KeysOf(c) = {s[j] : j \in 1..L} /\ KeysOf(lru) = {K[j] : j \in 1..L}
  BY <1>2 DEF KeysOf, s, K, L
<1>6. KeysOf(c) = (KeysOf(lru) \ {K[L - i]}) \cup {id}
  <2> DEFINE y == K[L - i]
  <2>1. \A x : x \in KeysOf(c) <=> x = id \/ \E j \in 1..L : j # L - i /\ K[j] = x
    BY <1>3, <1>5
  <2>2. \A x : x \in KeysOf(lru) <=> \E j \in 1..L : K[j] = x
    BY <1>5
  <2>3. \A x : (\E j \in 1..L : j # L - i /\ K[j] = x) <=> (x \in KeysOf(lru) /\ x # y)
    BY <1>4, <2>2
  <2> HIDE DEF y
  <2>4. \A x : x \in KeysOf(c) <=> x \in ((KeysOf(lru) \ {y}) \cup {id})
    BY <2>1, <2>3
  <2>5. KeysOf(c) = (KeysOf(lru) \ {y}) \cup {id}
    BY <2>4
  <2> QED
    BY <2>5 DEF y
<1>7. K[L - i] \in KeysOf(lru)
  BY <1>1, <1>5
<1> QED
  BY <1>6, <1>7 DEF K, L

\* A pinned candidate goes back to the front, and the key before it in the old
\* list, or the new one, falls out.
LEMMA Turn ==
  ASSUME Good(lru), NEW id \in Ids, id \notin KeysOf(lru), Len(lru.keys) >= lru.cap,
         NEW i \in 0..(Len(lru.keys) - 1), NEW c, Turned(c, id, i),
         NEW k, k = lru.keys[Len(lru.keys) - i], NEW d, d = RecordAccess(c, k)
  PROVE  /\ Turned(d, id, i + 1) /\ EvictedBy(c, k) # None
         /\ i < Len(lru.keys) - 1 => EvictedBy(c, k) = lru.keys[Len(lru.keys) - (i + 1)]
<1> DEFINE K == lru.keys
           L == Len(K)
           m == L - 1
<1>1. L \in Nat /\ L > 0 /\ L - i \in 1..L /\ lru.cap \in Nat /\ \A a \in 1..L : K[a] \in Ids
  BY GoodFacts
<1>2. /\ Good(c) /\ c.cap = lru.cap /\ Len(c.keys) = L
      /\ \A j \in 1..L : c.keys[j] = IF j <= i THEN K[L - i + j]
                                      ELSE IF j = i + 1 THEN id ELSE K[j - i - 1]
  BY DEF Turned
<1>3. k \in Ids /\ ~Cached(c, k)
  BY <1>1, TurnedKeys DEF Cached
<1>4. Full(c) /\ c.keys # <<>> /\ L - 1 \in Nat
  BY <1>1, <1>2 DEF Full
<1>5. m = IF Full(c) /\ c.keys # <<>> THEN Len(c.keys) - 1 ELSE Len(c.keys)
  BY <1>2, <1>4
<1>7. m + 1 = L
  BY <1>1
<1> HIDE DEF m, L, K
<1>6. /\ Good(d) /\ d.cap = c.cap /\ Len(d.keys) = L /\ d.keys[1] = k
      /\ \A j \in 2..L : d.keys[j] = c.keys[j - 1]
  <2>1. /\ Good(d) /\ d.cap = c.cap /\ Len(d.keys) = m + 1 /\ d.keys[1] = k
        /\ \A j \in 2..(m + 1) : d.keys[j] = c.keys[j - 1]
    BY SMTT(30), <1>2, <1>3, <1>5, RecordIs
  <2> QED
    BY <1>7, <2>1
<1>8. k = K[L - i]
  BY DEF K, L
<1>9. EvictedBy(c, k) = c.keys[L]
  BY <1>2, <1>3, <1>4 DEF EvictedBy, Oldest, Last
<1>10. \A j \in 1..L : d.keys[j] = IF j <= i + 1 THEN K[L - (i + 1) + j]
                                   ELSE IF j = (i + 1) + 1 THEN id ELSE K[j - (i + 1) - 1]
  <2> SUFFICES ASSUME NEW j \in 1..L
               PROVE  d.keys[j] = IF j <= i + 1 THEN K[L - (i + 1) + j]
                                  ELSE IF j = (i + 1) + 1 THEN id ELSE K[j - (i + 1) - 1]
    OBVIOUS
  <2>1. CASE j = 1
    <3>1. L - (i + 1) + j = L - i /\ j <= i + 1
      BY <1>1, <2>1
    <3>2. d.keys[j] = k
      BY <1>6, <2>1
    <3>3. k = K[L - (i + 1) + j]
      BY <1>8, <3>1
    <3> QED
      BY <3>1, <3>2, <3>3
  <2>2. CASE j > 1
    <3>1. d.keys[j] = c.keys[j - 1] /\ j - 1 \in 1..L
      BY SMTT(30), <1>1, <1>6, <2>2
    <3>2. /\ (j - 1 <= i) = (j <= i + 1) /\ L - i + (j - 1) = L - (i + 1) + j
          /\ (j - 1 = i + 1) = (j = (i + 1) + 1) /\ j - 1 - i - 1 = j - (i + 1) - 1
      BY <1>1
    <3> QED
      BY <1>2, <3>1, <3>2
  <2> QED
    BY <2>1, <2>2
<1>11. Turned(d, id, i + 1)
  BY <1>2, <1>6, <1>10 DEF Turned, K, L
<1>12. i < L - 1 => c.keys[L] = K[L - (i + 1)]
  <2> SUFFICES ASSUME i < L - 1 PROVE c.keys[L] = K[L - (i + 1)]
    OBVIOUS
  <2>1. L \in 1..L /\ ~(L <= i) /\ L # i + 1 /\ L - i - 1 = L - (i + 1)
    BY <1>1
  <2> QED
    BY <1>2, <2>1
<1>13. c.keys[L] \in Ids
  BY <1>1, <1>2, GoodFacts
<1> QED
  BY <1>9, <1>11, <1>12, <1>13, PipelineAssumption DEF K, L

\* A user without a guard, when pins are counted by gs and guards held by hd.
Spare(gs, hd, u) ==
    /\ hd[u] = Nobody
    /\ \A i \in Ids : loaded[i] # Nobody =>
           gs[loaded[i]].pins = Cardinality(OwnersIn(hd, loaded[i]))

\* Every user but one cannot pin all the guards of a full cache.
LEMMA SomeFree ==
  ASSUME Base0, CacheInv, Cardinality(Users) < Capacity,
         NEW gs, NEW hd, NEW u \in Users, Spare(gs, hd, u),
         Len(lru.keys) >= lru.cap,
         \A j \in 1..Len(lru.keys) : gs[loaded[lru.keys[j]]].pins # 0
  PROVE  FALSE
<1> DEFINE K == lru.keys
           L == Len(K)
           f == [j \in 1..L |-> CHOOSE v \in Users : hd[v] = loaded[K[j]]]
<1>1. /\ L \in Nat /\ lru.cap \in Nat /\ \A a \in 1..L : K[a] \in Ids
      /\ \A a, b \in 1..L : K[a] = K[b] => a = b
  BY GoodFacts DEF CacheInv, CacheOk
<1>2. \A j \in 1..L : loaded[K[j]] # Nobody
  BY DEF CacheInv, CacheOk, KeysOf, LoadedIds
<1>3. ASSUME NEW j \in 1..L
      PROVE  \E v \in Users : hd[v] = loaded[K[j]]
  <2>1. gs[loaded[K[j]]].pins = Cardinality(OwnersIn(hd, loaded[K[j]]))
    BY <1>1, <1>2 DEF Spare
  <2>2. OwnersIn(hd, loaded[K[j]]) # {}
    BY <2>1, FS_EmptySet
  <2> QED
    BY <2>2 DEF OwnersIn
<1>4. \A j \in 1..L : f[j] \in Users \ {u} /\ hd[f[j]] = loaded[K[j]]
  BY <1>2, <1>3 DEF Spare
<1>5. \A j \in 1..L : loaded[K[j]][1] = K[j]
  BY <1>1, <1>2, LoadedIs
<1>6. f \in Injection(1..L, Users \ {u})
  <2>1. f \in [1..L -> Users \ {u}]
    BY <1>4
  <2> HIDE DEF f, K
  <2>2. \A a, b \in 1..L : f[a] = f[b] => a = b
    <3> SUFFICES ASSUME NEW a \in 1..L, NEW b \in 1..L, f[a] = f[b] PROVE a = b
      OBVIOUS
    <3>1. loaded[K[a]] = loaded[K[b]]
      BY <1>4
    <3>2. K[a] = K[b]
      BY <1>5, <3>1
    <3> QED
      BY <1>1, <3>2
  <2> QED
    BY <2>1, <2>2 DEF Injection, IsInjective
<1>7. /\ IsFiniteSet(Users) /\ Cardinality(Users) \in Nat
      /\ IsFiniteSet(Users \ {u}) /\ Cardinality(Users \ {u}) = Cardinality(Users) - 1
  BY PipelineAssumption, FS_CardinalityType, FS_RemoveElement
<1>8. Cardinality(1..L) = L
  <2>1. L \in Nat /\ 0 \in Int /\ 1 \in Int /\ L \in Int
    BY <1>1
  <2> HIDE DEF L, f, K
  <2>2. Cardinality(1..L) = IF 1 > L THEN 0 ELSE L - 1 + 1
    BY <2>1, FS_Interval
  <2> QED
    BY <2>1, <2>2
<1> HIDE DEF f
<1>9. Cardinality(1..L) <= Cardinality(Users \ {u})
  BY <1>6, <1>7, FS_Injection
<1>10. Capacity - 1 <= lru.cap /\ Capacity \in Nat
  BY PipelineAssumption DEF CacheInv, CacheOk
<1> QED
  BY <1>1, <1>7, <1>8, <1>9, <1>10

\* What HandleEviction does to a full list: one key that no owner pins is gone,
\* the new one is there.
Replaced(gs, cache, victim, id) ==
    /\ Good(cache) /\ KeysOf(cache) = (KeysOf(lru) \ {victim}) \cup {id}
    /\ cache.cap = lru.cap /\ Len(cache.keys) = Len(lru.keys)
    /\ victim \in KeysOf(lru) /\ gs[loaded[victim]].pins = 0

LEMMA Evicting ==
  ASSUME Base0, CacheInv, Cardinality(Users) < Capacity,
         NEW gs, NEW hd, NEW u \in Users, Spare(gs, hd, u),
         NEW id \in Ids, id \notin KeysOf(lru), Full(lru), lru.keys # <<>>,
         NEW ev, ev = HandleEviction(gs, RecordAccess(lru, id), EvictedBy(lru, id)),
         ~ev.blocked
  PROVE  Replaced(gs, ev.cache, ev.victim, id)
<1> DEFINE K == lru.keys
           L == Len(K)
           n == Cardinality(LoadedIds(loaded)) + 1
           start == [cache |-> RecordAccess(lru, id), cand |-> EvictedBy(lru, id), victim |-> None,
                     done |-> FALSE, blocked |-> FALSE]
           w == Walk(gs, start, n)
<1>1. Good(lru) /\ KeysOf(lru) = LoadedIds(loaded)
  BY DEF CacheInv, CacheOk
<1>2. /\ L \in Nat /\ L > 0 /\ lru.cap \in Nat /\ L >= lru.cap /\ \A a \in 1..L : K[a] \in Ids
  BY <1>1, GoodFacts DEF Full
<1>3. n = L + 1 /\ n \in Nat
  BY <1>1, <1>2, CardKeys
<1> HIDE DEF n, L
<1>4. HandleEviction(gs, RecordAccess(lru, id), EvictedBy(lru, id)) =
        IF w[1..n].done THEN w[1..n]
        ELSE [w[1..n] EXCEPT !.cache = RecordAccess(Resize(@, Len(@.keys) + 5), EvictedBy(lru, id))]
  BY <1>3, WalkIs DEF HandleEviction, n
<1>5. /\ w[1..0] = start /\ \A k \in Nat : k < n => w[1..(k + 1)] = EvictionStep(gs, w[1..k])
  BY <1>3, WalkSteps
<1> HIDE DEF w
<1> DEFINE Found(st) == st.done /\ Replaced(gs, st.cache, st.victim, id)
           Going(st, i) == /\ i < L /\ st.done = FALSE /\ st.cand = K[L - i] /\ Turned(st.cache, id, i)
                           /\ \A j \in 1..L : j > L - i => gs[loaded[K[j]]].pins # 0
           At(st, i) == IsStep(st) /\ (st.blocked \/ Found(st) \/ Going(st, i))
           Ns == {i \in Nat : i <= n => At(w[1..i], i)}
<1> HIDE DEF Found, Going, At
<1>6. 0 \in Ns
  <2>1. Turned(start.cache, id, 0) /\ start.cand = K[L - 0]
    <3> DEFINE c == RecordAccess(lru, id)
               m == L - 1
    <3>1. m = IF Full(lru) /\ lru.keys # <<>> THEN Len(lru.keys) - 1 ELSE Len(lru.keys)
      BY DEF L
    <3>2. ~Cached(lru, id)
      BY DEF Cached
    <3>7. c = RecordAccess(lru, id) /\ m + 1 = L
      BY <1>2
    <3> HIDE DEF c, m
    <3>8. /\ Good(c) /\ c.cap = lru.cap /\ Len(c.keys) = m + 1 /\ c.keys[1] = id
          /\ \A j \in 2..(m + 1) : c.keys[j] = lru.keys[j - 1]
      BY <1>1, <3>1, <3>2, <3>7, RecordIs
    <3>3. /\ Good(c) /\ c.cap = lru.cap /\ Len(c.keys) = L /\ c.keys[1] = id
          /\ \A j \in 2..L : c.keys[j] = lru.keys[j - 1]
      BY <3>7, <3>8
    <3>4. Turned(c, id, 0)
      BY <1>2, <3>3 DEF Turned, L
    <3>5. EvictedBy(lru, id) = K[L]
      BY <3>2 DEF EvictedBy, Oldest, Last, L
    <3>6. L - 0 = L
      BY <1>2
    <3> QED
      BY <3>4, <3>5, <3>6, <3>7
  <2>2. start.done = FALSE /\ IsStep(start)
    BY DEF IsStep
  <2> HIDE DEF start
  <2>3. At(start, 0)
    BY <1>2, <2>1, <2>2 DEF At, Going
  <2> QED
    BY <1>5, <2>3
<1>7. ASSUME NEW i \in Ns PROVE i + 1 \in Ns
  <2> SUFFICES ASSUME i + 1 <= n PROVE At(w[1..(i + 1)], i + 1)
    OBVIOUS
  <2> DEFINE st == w[1..i]
             r  == w[1..(i + 1)]
             g  == loaded[st.cand]
  <2>0. i \in Nat /\ (i <= n => At(st, i))
    OBVIOUS
  <2>1. i \in Nat /\ i < n /\ At(st, i)
    BY <1>3, <2>0
  <2>2. r = EvictionStep(gs, st) /\ IsStep(st)
    BY <1>5, <2>1 DEF At
  <2>a. g = loaded[st.cand]
    OBVIOUS
  <2> HIDE DEF st, r, g
  <2>b. SUFFICES At(r, i + 1)
    BY DEF r
  <2>3. /\ IsStep(r)
        /\ st.blocked => r.blocked
        /\ st.done => r = st
        /\ ~st.done /\ g # Nobody /\ gs[g].pins = 0 =>
              \/ r.blocked
              \/ r.done /\ r.victim = st.cand /\ r.cache = st.cache
        /\ ~st.done /\ g # Nobody /\ gs[g].pins # 0 /\ EvictedBy(st.cache, st.cand) # None =>
              /\ r.cache = RecordAccess(st.cache, st.cand) /\ r.done = FALSE
              /\ r.cand = EvictedBy(st.cache, st.cand)
    <3>1. StepOk(gs, st, r, g)
      BY <2>2, <2>a, StepIs
    <3> QED
      BY <3>1 DEF StepOk
  <2>4. CASE st.blocked \/ Found(st)
    <3>1. CASE st.blocked
      BY <2>3, <3>1 DEF At
    <3>2. CASE Found(st)
      <4>1. r = st
        BY <2>3, <3>2 DEF Found
      <4>2. Found(r)
        BY <3>2, <4>1
      <4> QED
        BY <2>3, <4>2 DEF At
    <3> QED
      BY <2>4, <3>1, <3>2
  <2>5. CASE Going(st, i)
    <3>1. /\ i \in 0..(L - 1) /\ ~st.done /\ st.cand = K[L - i] /\ Turned(st.cache, id, i)
          /\ L - i \in 1..L
      BY <1>2, <2>1, <2>5 DEF Going
    <3>2. K[L - i] \in KeysOf(lru) /\ g # Nobody
      BY <1>1, <1>2, <2>a, <3>1 DEF KeysOf, LoadedIds, L
    <3>3. CASE gs[g].pins = 0
      <4>1. KeysOf(st.cache) = (KeysOf(lru) \ {st.cand}) \cup {id}
        BY <1>1, <3>1, TurnedKeys DEF L
      <4>2. Replaced(gs, st.cache, st.cand, id)
        BY <2>a, <3>1, <3>2, <3>3, <4>1 DEF Replaced, Turned, L
      <4>3. r.blocked \/ (r.done /\ r.victim = st.cand /\ r.cache = st.cache)
        BY <2>3, <3>1, <3>2, <3>3
      <4>4. r.blocked \/ Found(r)
        BY <4>2, <4>3 DEF Found
      <4> QED
        BY <2>3, <4>4 DEF At
    <3>4. CASE gs[g].pins # 0
      <4>1. /\ Turned(RecordAccess(st.cache, st.cand), id, i + 1)
            /\ EvictedBy(st.cache, st.cand) # None
            /\ i < L - 1 => EvictedBy(st.cache, st.cand) = K[L - (i + 1)]
        BY <1>1, <1>2, <3>1, Turn DEF L
      <4>2. /\ r.cache = RecordAccess(st.cache, st.cand) /\ r.done = FALSE
            /\ r.cand = EvictedBy(st.cache, st.cand)
        BY <2>3, <3>1, <3>2, <3>4, <4>1
      <4>3. \A j \in 1..L : j > L - (i + 1) => gs[loaded[K[j]]].pins # 0
        <5>1. \A j \in 1..L : j > L - (i + 1) => j = L - i \/ j > L - i
          BY <1>2, <2>1
        <5> QED
          BY <2>5, <2>a, <3>1, <3>4, <5>1 DEF Going
      <4>4. i + 1 < L
        <5> SUFFICES ASSUME ~(i + 1 < L) PROVE FALSE
          OBVIOUS
        <5>1. \A j \in 1..L : j > L - (i + 1)
          BY <1>2, <3>1
        <5>2. \A j \in 1..L : gs[loaded[K[j]]].pins # 0
          BY <4>3, <5>1
        <5> QED
          BY <1>2, <5>2, SomeFree DEF L
      <4>5. i < L - 1
        BY <1>2, <2>1, <4>4
      <4>6. Going(r, i + 1)
        BY <4>1, <4>2, <4>3, <4>4, <4>5 DEF Going
      <4> QED
        BY <2>3, <4>6 DEF At
    <3> QED
      BY <3>3, <3>4
  <2> QED
    BY <2>1, <2>4, <2>5 DEF At
<1>8. Ns = Nat
  <2> HIDE DEF Ns
  <2>1. Ns \in SUBSET Nat
    BY DEF Ns
  <2> QED
    BY <1>6, <1>7, <2>1, AllNaturals
<1>9. At(w[1..n], n)
  BY <1>3, <1>8
<1> DEFINE end == w[1..n]
<1>10. ~(n < L)
  BY <1>2, <1>3
<1> HIDE DEF end
<1>11. CASE end.done
  <2>1. ev = end
    BY <1>4, <1>11 DEF end
  <2> QED
    BY <1>9, <1>10, <2>1, <1>11 DEF end, At, Going, Found
<1>12. CASE ~end.done
  <2>1. end.blocked /\ IsStep(end)
    BY <1>9, <1>10, <1>12 DEF end, At, Going, Found
  <2> DEFINE x == RecordAccess(Resize(end.cache, Len(end.cache.keys) + 5), EvictedBy(lru, id))
  <2>2. ev = [end EXCEPT !.cache = x]
    BY <1>4, <1>12 DEF end
  <2> HIDE DEF x
  <2>3. ev.blocked = end.blocked
    <3> DEFINE a == end.cache
               b == end.cand
               c == end.victim
               d == end.done
               e == end.blocked
    <3>1. end = [cache |-> a, cand |-> b, victim |-> c, done |-> d, blocked |-> e]
      BY <2>1 DEF IsStep
    <3> HIDE DEF a, b, c, d, e
    <3>2. ev = [cache |-> x, cand |-> b, victim |-> c, done |-> d, blocked |-> e] /\ end.blocked = e
      BY <2>2, <3>1
    <3> QED
      BY <3>2
  <2> QED
    BY <2>1, <2>3
<1> QED
  BY <1>11, <1>12

--------------------------------------------------------------------------------
(* Admit.                                                                         *)

\* Fewer places than before do not touch the list.
LEMMA Shrink ==
  ASSUME NEW c, Good(c), NEW n \in Nat, n <= c.cap
  PROVE  /\ Good(Resize(c, n)) /\ KeysOf(Resize(c, n)) = KeysOf(c)
         /\ Resize(c, n).cap = n /\ Resize(c, n).keys = c.keys
<1> DEFINE a == c.keys
           b == c.cap
<1>1. c = [keys |-> a, cap |-> b] /\ a \in Seq(Ids) /\ b \in Nat /\ Distinct(a)
  BY GoodFacts DEF Good
<1>2. Resize(c, n) = [c EXCEPT !.cap = n]
  <2>1. ~(n > c.cap)
    BY <1>1
  <2> QED
    BY <2>1 DEF Resize
<1> HIDE DEF a, b
<1>3. Resize(c, n) = [keys |-> a, cap |-> n] /\ c.keys = a
  BY <1>1, <1>2
<1> QED
  BY <1>1, <1>3 DEF Good, Caches, KeysOf

\* The loaded pipelines are as many as the list is long.
LEMMA LoadedCount ==
  ASSUME NEW c, NEW ld, Good(c), KeysOf(c) = LoadedIds(ld)
  PROVE  Cardinality(LoadedIds(ld)) = Len(c.keys) /\ Len(c.keys) \in Nat
BY CardKeys, GoodFacts

\* The shrinking of a boosted cache.
LEMMA Boosted ==
  ASSUME NEW c, NEW ld, Good(c), KeysOf(c) = LoadedIds(ld), Capacity - 1 <= c.cap,
         Len(c.keys) <= c.cap + 1, NEW n, n = Cardinality(LoadedIds(ld)),
         NEW d, d = IF n + 1 > Capacity THEN Resize(c, n - 1) ELSE c
  PROVE  CacheOk(d, ld)
<1>1. n = Len(c.keys) /\ n \in Nat /\ c.cap \in Nat /\ Capacity \in Nat \ {0}
  BY LoadedCount, GoodFacts, PipelineAssumption
<1>2. CASE n + 1 > Capacity
  <2>1. n - 1 \in Nat /\ n - 1 <= c.cap /\ Capacity - 1 <= n - 1 /\ n <= n - 1 + 1
    BY <1>1, <1>2
  <2>2. /\ Good(d) /\ KeysOf(d) = KeysOf(c) /\ d.cap = n - 1 /\ d.keys = c.keys
    BY <1>2, <2>1, Shrink
  <2> QED
    BY <1>1, <2>1, <2>2 DEF CacheOk
<1>3. CASE ~(n + 1 > Capacity)
  BY <1>3 DEF CacheOk
<1> QED
  BY <1>2, <1>3

\* An element that is already loaded is recorded again and nothing leaves the cache.
LEMMA AdmitHit ==
  ASSUME Base0, CacheInv, NEW gs, NEW id \in Ids, loaded[id] # Nobody, NEW g \in Guards,
         NEW ad, ad = Admit(gs, id, g)
  PROVE  /\ ad.loaded = [loaded EXCEPT ![id] = g]
         /\ ad.stored = WriteBack(None) /\ CacheOk(ad.cache, ad.loaded)
<1> DEFINE c == RecordAccess(lru, id)
           rest == [i \in Ids |-> IF i = None THEN Nobody ELSE loaded[i]]
           ld == [rest EXCEPT ![id] = g]
           n  == Cardinality(LoadedIds(ld))
<1>1. Cached(lru, id) /\ Good(lru) /\ KeysOf(lru) = LoadedIds(loaded)
  BY DEF CacheInv, CacheOk, Cached, LoadedIds
<1>2. EvictedBy(lru, id) = None
  BY <1>1 DEF EvictedBy
<1>3. ld = [loaded EXCEPT ![id] = g]
  <2>1. \A i \in Ids : i # None
    BY PipelineAssumption
  <2>2. rest = loaded
    BY <2>1 DEF Base0, Types
  <2> HIDE DEF rest
  <2> QED
    BY <2>2
<1>4. /\ ad.loaded = ld /\ ad.stored = WriteBack(None)
      /\ ad.cache = IF n + 1 > Capacity THEN Resize(c, n - 1) ELSE c
  <2> HIDE DEF c
  <2> QED
    BY <1>2 DEF Admit, c
<1>5. /\ Good(c) /\ KeysOf(c) = KeysOf(lru) /\ c.cap = lru.cap /\ Len(c.keys) = Len(lru.keys)
  BY <1>1, MoveFacts DEF RecordAccess
<1> HIDE DEF c, ld
<1>6. LoadedIds(ld) = LoadedIds(loaded)
  BY <1>3, NobodyIs DEF LoadedIds, Base0, Types
<1>7. CacheOk(ad.cache, ld)
  BY <1>1, <1>4, <1>5, <1>6, Boosted DEF CacheInv, CacheOk
<1> QED
  BY <1>3, <1>4, <1>7

\* A guard that was not loaded: at most one other leaves, one that nobody pins.
Dropped(gs, ad, id, g, v) ==
    /\ ad.loaded = [i \in Ids |-> IF i = id THEN g ELSE IF i = v THEN Nobody ELSE loaded[i]]
    /\ v # id
    /\ v # None => v \in Ids /\ loaded[v] # Nobody /\ gs[loaded[v]].pins = 0
    /\ ad.stored = WriteBack(v)
    /\ CacheOk(ad.cache, ad.loaded)

LEMMA AdmitMiss ==
  ASSUME Base0, CacheInv, Cardinality(Users) < Capacity,
         NEW gs, NEW hd, NEW u \in Users, Spare(gs, hd, u),
         NEW id \in Ids, ~Cached(lru, id), NEW g \in Guards,
         NEW ad, ad = Admit(gs, id, g), ~ad.blocked
  PROVE  \E v : Dropped(gs, ad, id, g, v)
<1> DEFINE c == RecordAccess(lru, id)
<1>1. /\ Good(lru) /\ KeysOf(lru) = LoadedIds(loaded) /\ id \notin KeysOf(lru)
      /\ lru.cap \in Nat /\ Len(lru.keys) \in Nat /\ lru.keys \in Seq(Ids)
  BY GoodFacts DEF CacheInv, CacheOk, Cached
<1>2. g # Nobody /\ id # None
  BY NobodyIs, PipelineAssumption
<1>3. CASE ~Full(lru)
  <2> DEFINE rest == [i \in Ids |-> IF i = None THEN Nobody ELSE loaded[i]]
             ld == [rest EXCEPT ![id] = g]
             n  == Cardinality(LoadedIds(ld))
  <2>1. EvictedBy(lru, id) = None
    BY <1>3 DEF EvictedBy
  <2>2. /\ ad.loaded = ld /\ ad.stored = WriteBack(None)
        /\ ad.cache = IF n + 1 > Capacity THEN Resize(c, n - 1) ELSE c
    <3> HIDE DEF c
    <3> QED
      BY <2>1 DEF Admit, c
  <2>3. ld = [i \in Ids |-> IF i = id THEN g ELSE IF i = None THEN Nobody ELSE loaded[i]]
    OBVIOUS
  <2>4. /\ Good(c) /\ KeysOf(c) = KeysOf(lru) \cup {id}
        /\ c.cap = lru.cap /\ Len(c.keys) = Len(lru.keys) + 1
    BY <1>1, <1>3, RecordNew
  <2> HIDE DEF ld, c
  <2>5. LoadedIds(ld) = LoadedIds(loaded) \cup {id}
    <3>1. \A i \in Ids : i # None
      BY PipelineAssumption
    <3> QED
      BY <1>2, <2>3, <3>1 DEF LoadedIds
  <2>6. Len(c.keys) <= c.cap + 1
    BY <1>1, <1>3, <2>4 DEF Full
  <2>7. Capacity - 1 <= c.cap
    BY <2>4 DEF CacheInv, CacheOk
  <2>8. CacheOk(ad.cache, ld)
    BY <1>1, <2>2, <2>4, <2>5, <2>6, <2>7, Boosted
  <2>9. Dropped(gs, ad, id, g, None)
    BY <1>2, <2>2, <2>3, <2>8 DEF Dropped
  <2> QED
    BY <2>9
<1>4. CASE Full(lru)
  <2> DEFINE e  == EvictedBy(lru, id)
             ev == HandleEviction(gs, c, e)
             rest == [i \in Ids |-> IF i = ev.victim THEN Nobody ELSE loaded[i]]
             ld == [rest EXCEPT ![id] = g]
  <2>1. lru.keys # <<>>
    <3> SUFFICES ASSUME lru.keys = <<>> PROVE FALSE
      OBVIOUS
    <3>1. lru.cap <= 0 /\ Capacity - 1 <= lru.cap /\ Capacity \in Nat
      BY <1>1, <1>4, PipelineAssumption DEF Full, CacheInv, CacheOk
    <3>2. IsFiniteSet(Users) /\ Users # {}
      BY PipelineAssumption
    <3> HIDE DEF Users
    <3>3. Cardinality(Users) \in Nat /\ Cardinality(Users) # 0
      BY <3>2, FS_CardinalityType, FS_EmptySet
    <3> QED
      BY <1>1, <3>1, <3>3
  <2>2. e = lru.keys[Len(lru.keys)] /\ Len(lru.keys) \in 1..Len(lru.keys)
    BY <1>1, <1>4, <2>1 DEF EvictedBy, Oldest, Last
  <2>3. e # None
    <3> HIDE DEF e
    <3>1. lru.keys[Len(lru.keys)] \in Ids
      BY <1>1, <2>2
    <3> QED
      BY <2>2, <3>1, PipelineAssumption
  <2>4. /\ ad.loaded = ld /\ ad.stored = WriteBack(ev.victim) /\ ad.cache = ev.cache
        /\ ad.blocked = ev.blocked
    <3> HIDE DEF c, e, ev
    <3> QED
      BY <2>3 DEF Admit, c, e, ev
  <2> DEFINE v == ev.victim
  <2>5. Replaced(gs, ev.cache, v, id)
    <3>1. ~ev.blocked
      BY <2>4
    <3> HIDE DEF ev
    <3> QED
      BY <1>1, <1>4, <2>1, <3>1, Evicting DEF ev
  <2>6. ld = [i \in Ids |-> IF i = id THEN g ELSE IF i = v THEN Nobody ELSE loaded[i]]
    BY DEF v
  <2> HIDE DEF ev, v, ld
  <2>7. v \in Ids /\ loaded[v] # Nobody /\ gs[loaded[v]].pins = 0 /\ v # id
    BY <1>1, <2>5 DEF Replaced, LoadedIds
  <2>8. LoadedIds(ld) = (LoadedIds(loaded) \ {v}) \cup {id}
    BY <1>2, <2>6, <2>7 DEF LoadedIds
  <2>9. CacheOk(ev.cache, ld)
    BY <1>1, <2>5, <2>8 DEF Replaced, CacheInv, CacheOk
  <2>10. Dropped(gs, ad, id, g, v)
    BY <2>4, <2>6, <2>7, <2>9 DEF Dropped, v
  <2> QED
    BY <2>10
<1> QED
  BY <1>3, <1>4

--------------------------------------------------------------------------------
(* The steps keep the rest of the invariant.                                      *)

LEMMA KeptExec ==
  ASSUME NEW xs, NEW gs, NEW lv, NEW lk, NEW e \in Execs,
         (\E id \in Ids : lv[id] = e) \/ (\E g \in Guards : gs[g].exec = e)
  PROVE  KeepExecs(xs, gs, lv, lk)[e] = xs[e]
BY NobodyIs DEF KeepExecs, UsedExecs

LEMMA KeptExecType ==
  ASSUME NEW xs \in [Execs -> ExecRecs], NEW gs, NEW lv, NEW lk
  PROVE  KeepExecs(xs, gs, lv, lk) \in [Execs -> ExecRecs]
<1>1. NoExec \in ExecRecs
  BY PipelineAssumption DEF NoExec, ExecRecs
<1> QED
  BY <1>1 DEF KeepExecs

LEMMA ExecIs ==
  ASSUME MoreTypes, NEW e \in Execs
  PROVE  /\ exec[e].params \in Params /\ exec[e].stages \in BOOLEAN /\ exec[e].pref \in Prefs
         /\ exec[e] = [params |-> exec[e].params, stages |-> exec[e].stages, pref |-> exec[e].pref]
<1>1. exec[e] \in ExecRecs
  BY DEF MoreTypes
<1> QED
  BY <1>1 DEF ExecRecs

\* The executor of a live element is one of its own.
LEMMA LiveIs ==
  ASSUME Base0, NEW id \in Ids, live[id] # Nobody
  PROVE  live[id] \in Execs /\ live[id][1] = id
BY DEF Base0, Types, Own

\* A step that changes neither the cache, the owners, the edits nor the
\* executors they use.
LEMMA RestStill ==
  ASSUME IInv, MoreTypes',
         UNCHANGED <<lru, loaded, guard, live, stored, pref, held, deleted, late, unsynced>>,
         \A id \in Ids : live[id] # Nobody => exec'[live[id]] = exec[live[id]],
         \A u \in Users : held[u] # Nobody => exec'[guard[held[u]].exec] = exec[guard[held[u]].exec]
  PROVE  Rest'
<1>1. CacheInv' /\ OwnerLoaded' /\ EditorsHold' /\ ExecIsLive' /\ DeletedStaysDeleted'
  BY DEF IInv, Rest, Edits, CacheInv, OwnerLoaded, EditorsHold, ExecIsLive, DeletedStaysDeleted
<1>2. DirtyInv'
  BY DEF IInv, Rest, Edits, DirtyInv, Alive
<1>3. OwnerStages' /\ OwnerPref'
  BY DEF IInv, Rest, OwnerStages, OwnerPref
<1>4. Kept'
  BY DEF IInv, Rest, Edits, Kept, Known
<1> QED
  BY <1>1, <1>2, <1>3, <1>4 DEF Rest, Edits

LEMMA RestSame ==
  ASSUME IInv,
         UNCHANGED <<lru, loaded, guard, exec, live, stored, pref, held, deleted, late, unsynced>>
  PROVE  Rest'
<1>1. MoreTypes'
  BY DEF IInv, Rest, MoreTypes
<1> QED
  BY <1>1, RestStill

LEMMA RestStutter == IInv /\ UNCHANGED vars => Rest'
  BY RestSame DEF vars

LEMMA RestRender == ASSUME IInv, NEW u \in Users, StartRender(u) PROVE Rest'
  BY RestSame DEF StartRender

LEMMA RestSnapshot == ASSUME IInv, NEW u \in Users, NEW id \in Ids, StartSnapshot(u, id) PROVE Rest'
  BY RestSame DEF StartSnapshot

LEMMA RestRelease == ASSUME IInv, NEW u \in Users, ReleaseRenderLock(u) PROVE Rest'
<1> DEFINE lk == [lock EXCEPT ![u] = Nobody]
<1>1. exec' = KeepExecs(exec, guard, live, lk)
  BY DEF ReleaseRenderLock
<1> HIDE DEF lk
<1>2. MoreTypes'
  BY <1>1, KeptExecType DEF IInv, Rest, MoreTypes, ReleaseRenderLock
<1>3. \A id \in Ids : live[id] # Nobody => exec'[live[id]] = exec[live[id]]
  BY <1>1, KeptExec, LiveIs DEF IInv
<1>4. \A v \in Users : held[v] # Nobody => exec'[guard[held[v]].exec] = exec[guard[held[v]].exec]
  BY <1>1, KeptExec, HeldIs DEF IInv
<1> QED
  BY <1>2, <1>3, <1>4, RestStill DEF ReleaseRenderLock

LEMMA RestHit == ASSUME IInv, NEW u \in Users, NEW id \in Ids, LoadHit(u, id) PROVE Rest'
<1> DEFINE g == loaded[id]
           e == guard[g].exec
<1>0. /\ held[u] = Nobody /\ g # Nobody /\ Cached(lru, id)
      /\ u \in Editors => id \notin deleted
  BY DEF LoadHit, MayLoad
<1>1. /\ lru' = AccessElement(lru, id) /\ loaded' = loaded /\ stored' = stored /\ pref' = pref
      /\ unsynced' = unsynced /\ deleted' = deleted /\ late' = late
      /\ live' = [live EXCEPT ![id] = e]
      /\ held' = [held EXCEPT ![u] = g] /\ guard' = [guard EXCEPT ![g].pins = @ + 1]
      /\ exec' = IF guard[g].pins = 0 THEN [exec EXCEPT ![e] = Ready(e)] ELSE exec
  BY DEF LoadHit, Pin
<1>2. /\ g \in Guards /\ g[1] = id /\ guard[g].id = id /\ e \in Execs /\ e[1] = id
      /\ guard[g].pins = Cardinality(OwnersIn(held, g)) /\ Alive(g)
  BY <1>0, LoadedIs DEF IInv, Alive
<1> HIDE DEF g
<1>3. \A h \in Guards : /\ guard'[h].dirty = guard[h].dirty /\ guard'[h].exec = guard[h].exec
  <2>1. DOMAIN guard = Guards
    BY DEF IInv, Base0, Types
  <2>2. guard[g] = [id |-> guard[g].id, exec |-> guard[g].exec, dirty |-> guard[g].dirty,
                    pins |-> guard[g].pins]
    BY <1>2, GuardIs DEF IInv, Base0
  <2>3. \A h \in Guards : guard'[h] = IF h = g THEN [guard[g] EXCEPT !.pins = @ + 1] ELSE guard[h]
    BY <1>1, <1>2, <2>1
  <2> QED
    BY <2>2, <2>3
<1> HIDE DEF e
<1>4. held'[u] = g /\ \A v \in Users \ {u} : held'[v] = held[v]
  BY <1>1 DEF IInv, Base0, Types
<1>5. Ready(e) = [params |-> exec[e].params, stages |-> TRUE, pref |-> pref]
  <2>1. exec[e] = [params |-> exec[e].params, stages |-> exec[e].stages, pref |-> exec[e].pref]
    BY <1>2, ExecIs DEF IInv, Rest
  <2>2. Ready(e) = [exec[e] EXCEPT !.stages = TRUE, !.pref = pref]
    BY DEF Ready
  <2> QED
    BY <2>1, <2>2
<1>6. \A x \in Execs : exec'[x] = IF guard[g].pins = 0 /\ x = e THEN Ready(e) ELSE exec[x]
  BY <1>1, <1>2 DEF IInv, Rest, MoreTypes
<1>7. /\ \A x \in Execs : exec'[x].params = exec[x].params
      /\ \A x \in Execs : exec[x].stages => exec'[x].stages
      /\ \A x \in Execs : exec'[x].pref \in {exec[x].pref, pref}
      /\ guard[g].pins = 0 => exec'[e].stages /\ exec'[e].pref = pref
  BY <1>2, <1>5, <1>6
<1>8. MoreTypes'
  <2>1. Ready(e) \in ExecRecs
    BY <1>2, <1>5, ExecIs DEF IInv, Rest, MoreTypes, ExecRecs
  <2>2. exec' \in [Execs -> ExecRecs]
    BY <1>1, <2>1 DEF IInv, Rest, MoreTypes
  <2> QED
    BY <1>1, <2>2 DEF IInv, Rest, MoreTypes
<1>9. CacheInv'
  <2>1. Good(lru) /\ lru' = MoveToFront(lru, id)
    BY <1>0, <1>1 DEF IInv, Rest, CacheInv, CacheOk, AccessElement
  <2>2. /\ Good(lru') /\ KeysOf(lru') = KeysOf(lru) /\ lru'.cap = lru.cap
        /\ Len(lru'.keys) = Len(lru.keys)
    BY <1>0, <2>1, MoveFacts
  <2> QED
    BY <1>1, <2>2 DEF IInv, Rest, CacheInv, CacheOk
<1>10. OwnerLoaded'
  BY <1>1, <1>2, <1>4 DEF IInv, Rest, OwnerLoaded, g
<1>11. EditorsHold'
  BY <1>0, <1>1, <1>2, <1>4 DEF IInv, Rest, Edits, EditorsHold, Users
<1>12. \A h \in Guards : Alive(h)' => Alive(h)
  BY <1>1, <1>2, <1>4, NobodyIs DEF Alive
<1>13. DirtyInv'
  <2> SUFFICES ASSUME NEW h \in Guards, Alive(h)', guard'[h].dirty
               PROVE  IF h[1] \in deleted THEN h[1] \in late ELSE loaded[h[1]] = h
    BY <1>1 DEF DirtyInv
  <2> QED
    BY <1>3, <1>12 DEF IInv, Rest, Edits, DirtyInv
<1>14. \A i \in Ids \ deleted : live'[i] = live[i]
  <2>1. id \notin deleted => live[id] = e
    BY <1>0 DEF IInv, Rest, Edits, ExecIsLive, g, e
  <2> QED
    BY <1>1, <2>1 DEF IInv, Base0, Types
<1>15. ExecIsLive'
  BY <1>1, <1>3, <1>14 DEF IInv, Base0, Types, Rest, Edits, ExecIsLive
<1>16. Kept'
  <2> SUFFICES ASSUME NEW i \in Ids \ deleted, live'[i] # Nobody, exec'[live'[i]].params # Known(i)'
               PROVE  loaded[i] # Nobody /\ guard'[loaded[i]].dirty
    BY <1>1 DEF Kept
  <2>1. live[i] # Nobody /\ exec[live[i]].params # Known(i)
    BY <1>1, <1>7, <1>14, LiveIs DEF Known, IInv
  <2> QED
    BY <1>3, <2>1 DEF IInv, Base0, Types, Rest, Edits, Kept
\* Another owner has prepared the executor of a pinned guard.
<1>17. id \notin deleted => exec'[e].stages /\ exec'[e].pref \in {pref, CPU}
  <2> SUFFICES ASSUME id \notin deleted, guard[g].pins # 0 PROVE exec'[e].stages /\ exec'[e].pref \in {pref, CPU}
    BY <1>7
  <2>1. OwnersIn(held, g) # {}
    BY <1>2, FS_EmptySet
  <2>2. PICK v \in Users : held[v] = g
    BY <2>1 DEF OwnersIn
  <2>3. exec[e].stages /\ exec[e].pref \in {pref, CPU}
    BY <1>0, <1>2, <2>2 DEF IInv, Rest, OwnerStages, OwnerPref, e, g
  <2> QED
    BY <1>2, <1>7, <2>3
<1>18. ASSUME NEW v \in Users, held'[v] # Nobody, held'[v][1] \notin deleted
       PROVE  exec'[guard'[held'[v]].exec].stages /\ exec'[guard'[held'[v]].exec].pref \in {pref, CPU}
  <2>1. CASE v = u
    BY <1>2, <1>3, <1>4, <1>17, <1>18, <2>1 DEF e
  <2>2. CASE v # u
    <3>1. held'[v] = held[v] /\ held[v] # Nobody /\ held[v][1] \notin deleted
      BY <1>4, <1>18, <2>2
    <3>2. held[v] \in Guards /\ guard[held[v]].exec \in Execs
      BY <3>1, HeldIs DEF IInv
    <3>3. exec[guard[held[v]].exec].stages /\ exec[guard[held[v]].exec].pref \in {pref, CPU}
      BY <3>1 DEF IInv, Rest, OwnerStages, OwnerPref
    <3> QED
      BY <1>3, <1>7, <3>1, <3>2, <3>3
  <2> QED
    BY <2>1, <2>2
<1>19. OwnerStages' /\ OwnerPref'
  BY <1>1, <1>18 DEF OwnerStages, OwnerPref
<1>20. DeletedStaysDeleted'
  BY <1>1 DEF IInv, Rest, Edits, DeletedStaysDeleted
<1> QED
  BY <1>8, <1>9, <1>10, <1>11, <1>13, <1>15, <1>16, <1>19, <1>20 DEF Rest, Edits

LEMMA RestEdit == ASSUME IInv, NEW u \in Users, NEW p \in Params, Edit(u, p) PROVE Rest'
<1> DEFINE g == held[u]
           e == guard[g].exec
<1>0. u \in Editors /\ g # Nobody
  BY DEF Edit
<1>1. /\ exec' = [exec EXCEPT ![e].params = p] /\ guard' = [guard EXCEPT ![g].dirty = TRUE]
      /\ UNCHANGED <<lru, loaded, live, stored, pref, held, unsynced, deleted, late>>
  BY DEF Edit
<1>2. g \in Guards /\ g[1] \in Ids /\ e \in Execs /\ e[1] = g[1] /\ Alive(g)
  BY <1>0, HeldIs DEF IInv, Alive
<1>3. g[1] \notin deleted /\ loaded[g[1]] = g
  BY <1>0 DEF IInv, Rest, Edits, OwnerLoaded, EditorsHold
<1>4. held[u] = g
  OBVIOUS
<1> HIDE DEF g
<1>5. \A h \in Guards : /\ guard'[h].exec = guard[h].exec
                        /\ guard'[h].dirty = IF h = g THEN TRUE ELSE guard[h].dirty
  <2>1. DOMAIN guard = Guards
    BY DEF IInv, Base0, Types
  <2>2. guard[g] = [id |-> guard[g].id, exec |-> guard[g].exec, dirty |-> guard[g].dirty,
                    pins |-> guard[g].pins]
    BY <1>2, GuardIs DEF IInv, Base0
  <2>3. \A h \in Guards : guard'[h] = IF h = g THEN [guard[g] EXCEPT !.dirty = TRUE] ELSE guard[h]
    BY <1>1, <1>2, <2>1
  <2> QED
    BY <2>2, <2>3
<1> HIDE DEF e
<1>6. \A x \in Execs : exec'[x] = IF x = e THEN [params |-> p, stages |-> exec[e].stages,
                                                pref |-> exec[e].pref]
                                 ELSE exec[x]
  <2>1. \A x \in Execs : exec'[x] = IF x = e THEN [exec[e] EXCEPT !.params = p] ELSE exec[x]
    BY <1>1, <1>2 DEF IInv, Rest, MoreTypes
  <2> QED
    BY <1>2, <2>1, ExecIs DEF IInv, Rest
<1>7. MoreTypes'
  <2>1. exec'[e] \in ExecRecs
    <3>1. exec[e].stages \in BOOLEAN /\ exec[e].pref \in Prefs
      BY <1>2, ExecIs DEF IInv, Rest
    <3> QED
      BY <1>2, <1>6, <3>1 DEF ExecRecs
  <2>2. exec' = [x \in Execs |-> exec'[x]]
    BY <1>1 DEF IInv, Rest, MoreTypes
  <2>3. \A x \in Execs : exec'[x] \in ExecRecs
    BY <1>6, <2>1 DEF IInv, Rest, MoreTypes
  <2>4. exec' \in [Execs -> ExecRecs]
    BY <2>2, <2>3
  <2> QED
    BY <1>1, <2>4 DEF IInv, Rest, MoreTypes
<1>8. \A x \in Execs : exec'[x].stages = exec[x].stages /\ exec'[x].pref = exec[x].pref
  BY <1>6
<1>9. OwnerStages' /\ OwnerPref'
  <2> SUFFICES ASSUME NEW v \in Users, held[v] # Nobody, held[v][1] \notin deleted
               PROVE  exec'[guard'[held[v]].exec].stages /\ exec'[guard'[held[v]].exec].pref \in {pref, CPU}
    BY <1>1 DEF OwnerStages, OwnerPref
  <2>1. held[v] \in Guards /\ guard[held[v]].exec \in Execs
    BY HeldIs DEF IInv
  <2>2. exec[guard[held[v]].exec].stages /\ exec[guard[held[v]].exec].pref \in {pref, CPU}
    BY DEF IInv, Rest, OwnerStages, OwnerPref
  <2> QED
    BY <1>5, <1>8, <2>1, <2>2
<1>10. CacheInv' /\ OwnerLoaded' /\ EditorsHold' /\ DeletedStaysDeleted'
  BY <1>1 DEF IInv, Rest, Edits, CacheInv, OwnerLoaded, EditorsHold, DeletedStaysDeleted
<1>11. DirtyInv'
  BY <1>0, <1>1, <1>3, <1>4, <1>5 DEF IInv, Rest, Edits, DirtyInv, Alive
<1>12. ExecIsLive'
  BY <1>1, <1>5 DEF IInv, Base0, Types, Rest, Edits, ExecIsLive
<1>13. Kept'
  <2> SUFFICES ASSUME NEW i \in Ids \ deleted, live[i] # Nobody, exec'[live[i]].params # Known(i)
               PROVE  loaded[i] # Nobody /\ guard'[loaded[i]].dirty
    BY <1>1 DEF Kept, Known
  <2>1. CASE i = g[1]
    BY <1>2, <1>3, <1>5, <2>1, NobodyIs
  <2>2. CASE i # g[1]
    <3>1. live[i] \in Execs /\ live[i] # e
      BY <1>2, <2>2, LiveIs DEF IInv
    <3>2. loaded[i] # Nobody /\ guard[loaded[i]].dirty
      BY <1>6, <3>1 DEF IInv, Rest, Edits, Kept
    <3> QED
      BY <1>5, <3>2 DEF IInv, Base0, Types
  <2> QED
    BY <2>1, <2>2
<1> QED
  BY <1>7, <1>9, <1>10, <1>11, <1>12, <1>13 DEF Rest, Edits

LEMMA KeptGuard ==
  ASSUME Base0', NEW gs, guard' = KeepGuards(gs, loaded', held'), NEW h \in Guards, Alive(h)'
  PROVE  guard'[h] = gs[h]
BY AliveNext, KeepIs DEF Base0

LEMMA RestMiss ==
  ASSUME IInv, Enough, Base0', NEW u \in Users, NEW id \in Ids, LoadMiss(u, id)
  PROVE  Rest'
<1> DEFINE e  == IF live[id] # Nobody THEN live[id]
                 ELSE Fresh(id, UsedExecs(guard, live, lock))
           g  == Fresh(id, LiveGuards(loaded, held))
           ad == Admit(guard, id, g)
           gs == [guard EXCEPT ![g] = [id |-> id, exec |-> e, dirty |-> FALSE, pins |-> 1]]
           params == IF live[id] # Nobody THEN exec[e].params
                     ELSE IF stored[id] = Absent THEN Base ELSE stored[id]
           x0 == [params |-> params, stages |-> TRUE, pref |-> pref]
<1>0. /\ held[u] = Nobody /\ lock[u] = Nobody /\ ~Cached(lru, id) /\ ~ad.blocked
      /\ u \in Editors => id \notin deleted
  BY DEF LoadMiss, MayLoad, Enough
<1>1. /\ loaded' = ad.loaded /\ live' = [live EXCEPT ![id] = e]
      /\ held' = [held EXCEPT ![u] = g]
      /\ unsynced' = unsynced /\ deleted' = deleted /\ late' = late
      /\ lru' = ad.cache /\ stored' = ad.stored
      /\ exec' = [exec EXCEPT ![e] = x0] /\ pref' = pref
      /\ guard' = KeepGuards(gs, loaded', held')
  BY DEF LoadMiss
<1>2. e \in Execs /\ e[1] = id
  <2>1. CASE live[id] # Nobody
    BY <2>1 DEF IInv, Base0, Types, Own
  <2>2. CASE live[id] = Nobody
    BY <1>0, <2>2, FreshExec DEF IInv, Enough
  <2> QED
    BY <2>1, <2>2
<1>3. g \in Guards /\ g[1] = id /\ ~Alive(g)
  BY <1>0, FreshGuard DEF IInv, Enough
<1>4. \A h \in Guards : gs[h] = IF h = g THEN [id |-> id, exec |-> e, dirty |-> FALSE, pins |-> 1]
                                 ELSE guard[h]
  BY <1>3 DEF IInv, Base0, Types
<1>5. loaded[id] = Nobody
  BY <1>0 DEF IInv, Rest, CacheInv, CacheOk, Cached, LoadedIds
<1>6. params \in Params /\ (id \notin deleted => params = Known(id))
  <2>1. CASE live[id] # Nobody
    <3>1. params = exec[live[id]].params /\ live[id] \in Execs
      BY <2>1, LiveIs DEF IInv
    <3>2. params \in Params
      BY <3>1, ExecIs DEF IInv, Rest
    <3>3. id \notin deleted => exec[live[id]].params = Known(id)
      BY <1>5, <2>1 DEF IInv, Rest, Edits, Kept
    <3> QED
      BY <3>1, <3>2, <3>3
  <2>2. CASE live[id] = Nobody
    BY <2>2, PipelineAssumption DEF Known, IInv, Rest, MoreTypes
  <2> QED
    BY <2>1, <2>2
<1>7. x0 \in ExecRecs /\ x0.stages = TRUE /\ x0.pref = pref /\ x0.params = params
  <2> HIDE DEF params
  <2> QED
    BY <1>6 DEF IInv, Rest, MoreTypes, ExecRecs
<1> HIDE DEF params, x0
<1>8. exec' \in [Execs -> ExecRecs] /\ \A x \in Execs : exec'[x] = IF x = e THEN x0 ELSE exec[x]
  BY <1>1, <1>2, <1>7 DEF IInv, Rest, MoreTypes
<1>9. PICK v : Dropped(guard, ad, id, g, v)
  <2> HIDE DEF g, ad
  <2>1. ad = Admit(guard, id, g)
    BY DEF ad
  <2>2. Spare(guard, held, u)
    BY <1>0, LoadedIs DEF Spare, IInv
  <2> QED
    BY <1>0, <1>3, <2>1, <2>2, AdmitMiss DEF IInv, Rest, Enough
<1> HIDE DEF e, g, ad, gs
<1>10. /\ loaded' = [i \in Ids |-> IF i = id THEN g ELSE IF i = v THEN Nobody ELSE loaded[i]]
       /\ v # id
       /\ v # None => v \in Ids /\ loaded[v] # Nobody /\ guard[loaded[v]].pins = 0
       /\ stored' = WriteBack(v)
       /\ CacheOk(lru', loaded')
  BY <1>1, <1>9 DEF Dropped
<1>11. held'[u] = g /\ \A y \in Users \ {u} : held'[y] = held[y]
  BY <1>1 DEF IInv, Base0, Types
<1>12. /\ live'[id] = e /\ \A i \in Ids \ {id} : live'[i] = live[i]
  BY <1>1 DEF IInv, Base0, Types
\* Guards that stay are as they were.
<1>13. \A h \in Guards : h # g /\ Alive(h)' => Alive(h) /\ guard'[h] = guard[h]
  <2> SUFFICES ASSUME NEW h \in Guards, h # g, Alive(h)' PROVE Alive(h) /\ guard'[h] = guard[h]
    OBVIOUS
  <2>1. Alive(h)
    BY <1>10, <1>11, NobodyIs DEF Alive
  <2>2. guard'[h] = gs[h]
    BY <1>1, KeptGuard
  <2> QED
    BY <1>4, <2>1, <2>2
<1>14. guard'[g] = [id |-> id, exec |-> e, dirty |-> FALSE, pins |-> 1]
  <2> SUFFICES ASSUME NEW h \in Guards, h = g
               PROVE  guard'[h] = [id |-> id, exec |-> e, dirty |-> FALSE, pins |-> 1]
    BY <1>3
  <2>1. Alive(h)'
    BY <1>11 DEF Alive
  <2>2. guard'[h] = gs[h]
    BY <1>1, <2>1, KeptGuard
  <2> QED
    BY <1>4, <2>2
\* The victim has no owner.
<1>15. \A y \in Users : held[y] # Nobody => v = None \/ held[y] # loaded[v]
  <2> SUFFICES ASSUME NEW y \in Users, held[y] # Nobody, v # None, held[y] = loaded[v] PROVE FALSE
    OBVIOUS
  <2>1. guard[held[y]].pins \in 1..Cardinality(Users)
    BY HeldIs DEF IInv
  <2>2. guard[held[y]].pins = 0
    BY <1>10
  <2> QED
    BY <2>1, <2>2
<1>16. MoreTypes'
  <2>1. stored' \in [Ids -> Params \cup {Absent}]
    <3>1. CASE v # None /\ guard[loaded[v]].dirty
      <4>1. guard[loaded[v]].exec \in Execs
        BY <1>10, <3>1, LoadedIs DEF IInv
      <4>2. exec[guard[loaded[v]].exec].params \in Params
        BY <4>1, ExecIs DEF IInv, Rest
      <4> QED
        BY <1>10, <3>1, <4>2 DEF WriteBack, IInv, Rest, MoreTypes
    <3>2. CASE ~(v # None /\ guard[loaded[v]].dirty)
      BY <1>10, <3>2 DEF WriteBack, IInv, Rest, MoreTypes
    <3> QED
      BY <3>1, <3>2
  <2> QED
    BY <1>1, <1>8, <2>1 DEF IInv, Rest, MoreTypes
<1>17. CacheInv'
  BY <1>10 DEF CacheInv
<1>18. OwnerLoaded'
  <2> SUFFICES ASSUME NEW y \in Users, held'[y] # Nobody, held'[y][1] \notin deleted
               PROVE  loaded'[held'[y][1]] = held'[y]
    BY <1>1 DEF OwnerLoaded
  <2>1. CASE y = u
    BY <1>3, <1>10, <1>11, <2>1
  <2>2. CASE y # u
    <3>1. held'[y] = held[y] /\ held[y] # Nobody
      BY <1>11, <2>2
    <3>2. loaded[held[y][1]] = held[y] /\ held[y][1] \in Ids
      BY <3>1, HeldIs DEF IInv, Rest, OwnerLoaded
    <3>3. held[y][1] # id
      BY <1>5, <3>1, <3>2
    <3>4. held[y][1] # v
      BY <1>10, <1>15, <3>1, <3>2, PipelineAssumption
    <3> QED
      BY <1>10, <3>1, <3>2, <3>3, <3>4
  <2> QED
    BY <2>1, <2>2
<1>19. EditorsHold'
  BY <1>0, <1>1, <1>3, <1>11 DEF IInv, Rest, Edits, EditorsHold, Users
<1>20. DirtyInv'
  <2> SUFFICES ASSUME NEW h \in Guards, Alive(h)', guard'[h].dirty
               PROVE  IF h[1] \in deleted THEN h[1] \in late ELSE loaded'[h[1]] = h
    BY <1>1 DEF DirtyInv
  <2>1. h # g
    BY <1>14
  <2>2. Alive(h) /\ guard[h].dirty
    BY <1>13, <2>1
  <2>3. IF h[1] \in deleted THEN h[1] \in late ELSE loaded[h[1]] = h
    BY <2>2 DEF IInv, Rest, Edits, DirtyInv
  <2>4. SUFFICES ASSUME h[1] \notin deleted PROVE loaded'[h[1]] = h
    BY <2>3
  <2>5. h[1] \in Ids /\ h # Nobody
    BY NobodyIs DEF Guards
  <2>6. h[1] # id
    BY <1>5, <2>3, <2>4, <2>5
  \* A guard that is no longer loaded and has no owner is gone.
  <2>7. h[1] # v
    <3> SUFFICES ASSUME h[1] = v PROVE FALSE
      OBVIOUS
    <3>1. v # None /\ h = loaded[v]
      BY <2>3, <2>4, <2>5, PipelineAssumption
    <3>2. \A i \in Ids : loaded'[i] # h
      <4> SUFFICES ASSUME NEW i \in Ids, loaded'[i] = h PROVE FALSE
        OBVIOUS
      <4>1. i # id /\ i # v /\ loaded[i] = h
        BY <1>10, <2>1, <2>5
      <4>2. loaded[i][1] = i
        BY <2>5, <4>1 DEF IInv, Base0, Own
      <4> QED
        BY <4>1, <4>2
    <3>3. \A y \in Users : held'[y] # h
      BY <1>11, <1>15, <2>1, <2>5, <3>1
    <3> QED
      BY <3>2, <3>3 DEF Alive
  <2> QED
    BY <1>10, <2>3, <2>4, <2>5, <2>6, <2>7
<1>21. ExecIsLive'
  <2> SUFFICES ASSUME NEW i \in Ids \ deleted, loaded'[i] # Nobody
               PROVE  guard'[loaded'[i]].exec = live'[i]
    BY <1>1 DEF ExecIsLive
  <2>1. CASE i = id
    BY <1>10, <1>12, <1>14, <2>1
  <2>2. CASE i # id
    <3>1. loaded'[i] = loaded[i] /\ loaded[i] # Nobody /\ live'[i] = live[i]
      BY <1>10, <1>12, <2>2
    <3>2. loaded[i] \in Guards /\ loaded[i] # g /\ Alive(loaded[i])'
      BY <1>3, <3>1, LoadedIs DEF IInv, Alive
    <3> QED
      BY <1>13, <3>1, <3>2 DEF IInv, Rest, Edits, ExecIsLive
  <2> QED
    BY <2>1, <2>2
<1>22. ASSUME NEW y \in Users, held'[y] # Nobody, held'[y][1] \notin deleted
       PROVE  exec'[guard'[held'[y]].exec].stages /\ exec'[guard'[held'[y]].exec].pref \in {pref, CPU}
  <2>1. CASE y = u
    <3>1. guard'[held'[y]].exec = e
      BY <1>11, <1>14, <2>1
    <3> QED
      BY <1>2, <1>7, <1>8, <3>1
  <2>2. CASE y # u
    <3>1. held'[y] = held[y] /\ held[y] # Nobody /\ held[y][1] \notin deleted
      BY <1>11, <1>22, <2>2
    <3>2. /\ held[y] \in Guards /\ Alive(held[y])' /\ Alive(held[y])
          /\ guard[held[y]].exec \in Execs /\ guard[held[y]].exec[1] = held[y][1]
      BY <3>1, HeldIs DEF IInv, Alive
    <3>3. held[y] # g /\ loaded[held[y][1]] = held[y]
      BY <1>3, <3>1, <3>2 DEF IInv, Rest, OwnerLoaded
    <3>4. guard[held[y]].exec # e
      BY <1>2, <1>5, <3>1, <3>2, <3>3
    <3>5. exec'[guard'[held'[y]].exec] = exec[guard[held[y]].exec]
      BY <1>8, <1>13, <3>1, <3>2, <3>3, <3>4
    <3>6. exec[guard[held[y]].exec].stages /\ exec[guard[held[y]].exec].pref \in {pref, CPU}
      BY <3>1 DEF IInv, Rest, OwnerStages, OwnerPref
    <3> QED
      BY <3>5, <3>6
  <2> QED
    BY <2>1, <2>2
<1>23. OwnerStages' /\ OwnerPref'
  BY <1>1, <1>22 DEF OwnerStages, OwnerPref
<1>24. Kept'
  <2> SUFFICES ASSUME NEW i \in Ids \ deleted, live'[i] # Nobody, exec'[live'[i]].params # Known(i)'
               PROVE  loaded'[i] # Nobody /\ guard'[loaded'[i]].dirty
    BY <1>1 DEF Kept
  <2>1. CASE i = id
    <3>1. stored'[id] = stored[id]
      BY <1>10 DEF WriteBack, IInv, Rest, MoreTypes
    <3>2. exec'[live'[i]].params = Known(id)
      BY <1>2, <1>6, <1>7, <1>8, <1>12, <2>1
    <3> QED
      BY <2>1, <3>1, <3>2 DEF Known
  <2>2. CASE i # id
    <3>1. /\ live'[i] = live[i] /\ live[i] \in Execs /\ live[i] # e
          /\ exec'[live[i]] = exec[live[i]]
      BY <1>2, <1>8, <1>12, <2>2, LiveIs DEF IInv
    <3>2. CASE i = v
      <4>0. v # None /\ loaded[v] # Nobody
        BY <1>10, <3>2, PipelineAssumption
      <4>1. CASE guard[loaded[v]].dirty
        <5>1. stored'[v] = exec[guard[loaded[v]].exec].params
          BY <1>10, <4>0, <4>1 DEF WriteBack, IInv, Rest, MoreTypes
        <5>2. guard[loaded[v]].exec = live[i]
          BY <3>2, <4>0 DEF IInv, Rest, Edits, ExecIsLive
        <5>3. stored'[v] \in Params /\ stored'[v] # Absent
          BY <3>1, <5>1, <5>2, ExecIs, PipelineAssumption DEF IInv, Rest, Absent
        <5> QED
          BY <3>1, <3>2, <5>1, <5>2, <5>3 DEF Known
      <4>2. CASE ~guard[loaded[v]].dirty
        <5>1. stored' = stored
          BY <1>10, <4>2 DEF WriteBack
        <5>2. exec[live[i]].params # Known(i)
          BY <3>1, <5>1 DEF Known
        <5> QED
          BY <3>1, <3>2, <4>2, <5>2 DEF IInv, Rest, Edits, Kept
      <4> QED
        BY <4>1, <4>2
    <3>3. CASE i # v
      <4>1. stored'[i] = stored[i]
        BY <1>10, <3>3 DEF WriteBack, IInv, Rest, MoreTypes
      <4>2. exec[live[i]].params # Known(i)
        BY <3>1, <4>1 DEF Known
      <4>3. loaded[i] # Nobody /\ guard[loaded[i]].dirty
        BY <3>1, <4>2 DEF IInv, Rest, Edits, Kept
      <4>4. loaded'[i] = loaded[i]
        BY <1>10, <2>2, <3>3
      <4>5. loaded[i] \in Guards /\ loaded[i] # g /\ Alive(loaded[i])'
        BY <1>3, <4>3, <4>4, LoadedIs DEF IInv, Alive
      <4> QED
        BY <1>13, <4>3, <4>4, <4>5
    <3> QED
      BY <3>2, <3>3
  <2> QED
    BY <2>1, <2>2
<1>25. DeletedStaysDeleted'
  <2> SUFFICES ASSUME NEW i \in deleted, i \notin late PROVE stored'[i] = Absent
    BY <1>1 DEF DeletedStaysDeleted
  <2>0. stored[i] = Absent
    BY DEF IInv, Rest, Edits, DeletedStaysDeleted
  <2>1. CASE v = None \/ ~guard[loaded[v]].dirty \/ i # v
    BY <1>10, <2>0, <2>1 DEF WriteBack, IInv, Rest, MoreTypes, Base0, Types
  <2>2. CASE v # None /\ guard[loaded[v]].dirty /\ i = v
    <3>1. loaded[v] \in Guards /\ loaded[v][1] = v /\ Alive(loaded[v])
      BY <1>10, <2>2, LoadedIs DEF IInv, Alive
    <3> QED
      BY <2>2, <3>1 DEF IInv, Rest, Edits, DirtyInv
  <2> QED
    BY <2>1, <2>2
<1> QED
  BY <1>16, <1>17, <1>18, <1>19, <1>20, <1>21, <1>23, <1>24, <1>25 DEF Rest, Edits

LEMMA RecStages ==
  ASSUME NEW a, NEW b, NEW c, NEW t, NEW x, x = [params |-> a, stages |-> b, pref |-> c]
  PROVE  [x EXCEPT !.stages = t] = [params |-> a, stages |-> t, pref |-> c]
OBVIOUS

LEMMA RecFields ==
  ASSUME NEW a, NEW b, NEW c, NEW x, x = [params |-> a, stages |-> b, pref |-> c]
  PROVE  x.params = a /\ x.stages = b /\ x.pref = c
OBVIOUS

LEMMA RecBackend ==
  ASSUME NEW a, NEW b, NEW c, NEW t, NEW p, NEW x, x = [params |-> a, stages |-> b, pref |-> c]
  PROVE  [x EXCEPT !.pref = p, !.stages = t] = [params |-> a, stages |-> t, pref |-> p]
<1>1. [x EXCEPT !.pref = p] = [params |-> a, stages |-> b, pref |-> p]
  OBVIOUS
<1> DEFINE y == [x EXCEPT !.pref = p]
<1>2. y = [params |-> a, stages |-> b, pref |-> p] /\ [x EXCEPT !.pref = p, !.stages = t] = [y EXCEPT !.stages = t]
  BY <1>1
<1> HIDE DEF y
<1> QED
  BY <1>2, RecStages

LEMMA ReleasedExec ==
  ASSUME MoreTypes, NEW e \in Execs, NEW r, r = [exec[e] EXCEPT !.stages = FALSE]
  PROVE  r \in ExecRecs /\ r.params = exec[e].params /\ r.pref = exec[e].pref
<1> DEFINE x == exec[e]
           a == exec[e].params
           b == exec[e].stages
           c == exec[e].pref
           no == FALSE
<1>1. /\ x = [params |-> a, stages |-> b, pref |-> c] /\ a = exec[e].params /\ c = exec[e].pref
      /\ a \in Params /\ c \in Prefs /\ no \in BOOLEAN
  BY ExecIs
<1>2. r = [x EXCEPT !.stages = no]
  OBVIOUS
<1> HIDE DEF x, a, b, c, no
<1>3. r = [params |-> a, stages |-> no, pref |-> c]
  BY <1>1, <1>2, RecStages
<1>4. r.params = a /\ r.pref = c
  BY <1>3
<1>5. r \in ExecRecs
  BY <1>1, <1>3 DEF ExecRecs
<1> QED
  BY <1>1, <1>4, <1>5

OnBackend(x, p) == [x EXCEPT !.pref = p, !.stages = TRUE]

LEMMA SwitchedExec ==
  ASSUME MoreTypes, NEW e \in Execs, NEW p \in Prefs, NEW r, r = OnBackend(exec[e], p)
  PROVE  r \in ExecRecs /\ r.params = exec[e].params /\ r.pref = p /\ r.stages
<1> DEFINE x == exec[e]
           a == exec[e].params
           b == exec[e].stages
           c == exec[e].pref
           yes == TRUE
<1>1. /\ x = [params |-> a, stages |-> b, pref |-> c] /\ a = exec[e].params
      /\ a \in Params /\ yes \in BOOLEAN /\ yes
  BY ExecIs
<1>2. r = [x EXCEPT !.pref = p, !.stages = yes]
  BY DEF OnBackend
<1> HIDE DEF x, a, b, c, yes
<1>3. r = [params |-> a, stages |-> yes, pref |-> p]
  BY <1>1, <1>2, RecBackend
<1>4. r.params = a /\ r.stages = yes /\ r.pref = p
  BY <1>3, RecFields
<1>5. r \in ExecRecs
  BY <1>1, <1>3 DEF ExecRecs
<1> QED
  BY <1>1, <1>4, <1>5

\* A guard that comes back: it is loaded again, and at most one other element
\* leaves, one that nobody pins, which happens only for a deleted element.
Back(g, id, again, v) ==
    /\ loaded' = [i \in Ids |-> IF i = id /\ again THEN g ELSE IF i = v THEN Nobody ELSE loaded[i]]
    /\ v # None => v \in Ids \ {id} /\ id \in deleted /\ loaded[v] # Nobody /\ guard[loaded[v]].pins = 0
    /\ stored' = WriteBack(v)
    /\ CacheOk(lru', loaded')

LEMMA RestSave ==
  ASSUME IInv, Enough, Base0', NEW u \in Users, SavePipeline(u)
  PROVE  Rest'
<1> DEFINE g  == held[u]
           id == guard[g].id
           e  == guard[g].exec
           gs == Unpin(guard, g)
           last == LastPin(gs, g)
           free == e \notin Locked
           readmit == last /\ guard[g].dirty
           ad == Admit(gs, id, g)
           lv == [live EXCEPT ![id] = e]
           xs == IF last /\ free THEN [exec EXCEPT ![e].stages = FALSE] ELSE exec
           kg == KeepGuards(gs, loaded', held')
<1>0. held[u] # Nobody /\ (readmit => ~ad.blocked)
  BY DEF SavePipeline, Enough
<1>1. /\ g \in Guards /\ id \in Ids /\ id = g[1] /\ e \in Execs /\ e[1] = id /\ Alive(g)
      /\ guard[g].pins \in 1..Cardinality(Users)
  BY <1>0, HeldIs DEF IInv, Alive
<1>2. /\ loaded' = IF readmit THEN ad.loaded ELSE loaded
      /\ live' = lv /\ held' = [held EXCEPT ![u] = Nobody] /\ deleted' = deleted /\ late' = late
      /\ pref' = pref
      /\ unsynced' = IF u \in Editors THEN unsynced \cup {u} ELSE unsynced
      /\ lru' = IF readmit THEN ad.cache ELSE lru
      /\ stored' = IF readmit THEN ad.stored ELSE stored
      /\ guard' = KeepGuards(gs, loaded', held')
  BY DEF SavePipeline
<1>3. exec' = KeepExecs(xs, guard', live', lock)
  BY DEF SavePipeline
<1>p. held'[u] = Nobody /\ \A v \in Users \ {u} : held'[v] = held[v]
  BY <1>2 DEF IInv, Base0, Types
<1>r. \A i \in Ids : loaded[i] # Nobody /\ loaded[i] # g => gs[loaded[i]] = guard[loaded[i]]
  <2>1. \A h \in Guards : h # g => gs[h] = guard[h]
    BY <1>1 DEF Unpin, IInv, Base0, Types
  <2> HIDE DEF gs, g
  <2> QED
    BY <2>1, LoadedIs DEF IInv
\* A dirty guard that comes back is loaded already, unless the element was
\* deleted: then it is admitted like a new one and another may have to go.
<1>q. \E v : Back(g, id, readmit, v)
  <2>1. CASE readmit /\ loaded[id] # Nobody
    <3>1. loaded' = ad.loaded /\ stored' = ad.stored /\ lru' = ad.cache /\ ad = Admit(gs, id, g)
      BY <1>2, <2>1
    <3>2. g \in Guards /\ id \in Ids /\ loaded[id] # Nobody /\ readmit
      BY <1>1, <2>1
    <3> HIDE DEF gs, g, id, ad, readmit
    <3>3. /\ ad.loaded = [loaded EXCEPT ![id] = g]
          /\ ad.stored = WriteBack(None) /\ CacheOk(ad.cache, ad.loaded)
      <4>1. Base0 /\ CacheInv
        BY DEF IInv, Rest
      <4> QED
        BY <3>1, <3>2, <4>1, AdmitHit
    <3>4. None \notin Ids /\ loaded = [i \in Ids |-> loaded[i]]
      BY PipelineAssumption DEF IInv, Base0, Types
    <3>5. [loaded EXCEPT ![id] = g] = [i \in Ids |-> IF i = id /\ readmit THEN g ELSE IF i = None THEN Nobody ELSE loaded[i]]
      BY <3>2, <3>4
    <3>6. Back(g, id, readmit, None)
      BY <3>1, <3>3, <3>5 DEF Back
    <3> QED
      BY <3>6
  <2>2. CASE readmit /\ loaded[id] = Nobody
    <3>1. /\ loaded' = ad.loaded /\ stored' = ad.stored /\ lru' = ad.cache
          /\ ad = Admit(gs, id, g) /\ ~ad.blocked /\ held[u] = g /\ g # Nobody
      BY <1>0, <1>2, <2>2
    <3>2. g \in Guards /\ id \in Ids /\ id = g[1] /\ loaded[id] = Nobody /\ readmit
      BY <1>1, <2>2
    <3> HIDE DEF gs, g, id, ad, readmit
    <3>3. id \in deleted
      BY <3>1, <3>2 DEF IInv, Rest, OwnerLoaded
    <3>4. ~Cached(lru, id)
      BY <3>2 DEF IInv, Rest, CacheInv, CacheOk, Cached, LoadedIds
    <3>5. \A i \in Ids : loaded[i] # Nobody => loaded[i] # g
      BY <3>2 DEF IInv, Base0, Own
    <3>6. Spare(gs, held', u)
      <4> SUFFICES ASSUME NEW i \in Ids, loaded[i] # Nobody
                   PROVE  gs[loaded[i]].pins = Cardinality(OwnersIn(held', loaded[i]))
        BY <1>p DEF Spare
      <4>1. OwnersIn(held', loaded[i]) = OwnersIn(held, loaded[i])
        BY <1>p, <3>1, <3>5 DEF OwnersIn
      <4>2. gs[loaded[i]] = guard[loaded[i]]
        BY <1>r, <3>5
      <4> QED
        BY <4>1, <4>2, LoadedIs DEF IInv
    <3>7. PICK v : Dropped(gs, ad, id, g, v)
      BY <3>1, <3>2, <3>4, <3>6, AdmitMiss DEF IInv, Rest, Enough
    <3>8. v # None => v \in Ids \ {id} /\ loaded[v] # Nobody /\ guard[loaded[v]].pins = 0
      BY <1>r, <3>5, <3>7 DEF Dropped
    <3>9. ad.loaded = [i \in Ids |-> IF i = id /\ readmit THEN g ELSE IF i = v THEN Nobody ELSE loaded[i]]
      BY <3>2, <3>7 DEF Dropped
    <3>10. Back(g, id, readmit, v)
      BY <3>1, <3>3, <3>7, <3>8, <3>9 DEF Back, Dropped
    <3> QED
      BY <3>10
  <2>3. CASE ~readmit
    <3>1. None \notin Ids /\ loaded = [i \in Ids |-> loaded[i]]
      BY PipelineAssumption DEF IInv, Base0, Types
    <3> HIDE DEF readmit, g, id
    <3>2. loaded = [i \in Ids |-> IF i = id /\ readmit THEN g ELSE IF i = None THEN Nobody ELSE loaded[i]]
      BY <2>3, <3>1
    <3>3. stored' = WriteBack(None)
      BY <1>2, <2>3 DEF WriteBack
    <3>4. Back(g, id, readmit, None)
      BY <1>2, <2>3, <3>2, <3>3 DEF Back, IInv, Rest, CacheInv
    <3> QED
      BY <3>4
  <2> QED
    BY <2>1, <2>2, <2>3
<1>v. PICK v : Back(g, id, readmit, v)
  BY <1>q
<1>4. /\ loaded' = [i \in Ids |-> IF i = id /\ readmit THEN g ELSE IF i = v THEN Nobody ELSE loaded[i]]
      /\ v # None => v \in Ids \ {id} /\ id \in deleted /\ loaded[v] # Nobody /\ guard[loaded[v]].pins = 0
      /\ stored' = WriteBack(v)
      /\ CacheOk(lru', loaded')
  BY <1>v DEF Back
<1>5. held[u] = g
  OBVIOUS
<1>6. last => gs[g].pins = 0
  BY DEF LastPin
<1> HIDE DEF readmit, ad, last, free, g
<1>7. \A h \in Guards : /\ gs[h].exec = guard[h].exec /\ gs[h].dirty = guard[h].dirty
  <2>1. DOMAIN guard = Guards
    BY DEF IInv, Base0, Types
  <2>2. guard[g] = [id |-> guard[g].id, exec |-> guard[g].exec, dirty |-> guard[g].dirty,
                    pins |-> guard[g].pins]
    BY <1>1, GuardIs DEF IInv, Base0
  <2>3. \A h \in Guards : gs[h] = IF h = g THEN [guard[g] EXCEPT !.pins = IF @ > 0 THEN @ - 1 ELSE 0]
                                   ELSE guard[h]
    BY <1>1, <2>1 DEF Unpin
  <2> DEFINE n == IF guard[g].pins > 0 THEN guard[g].pins - 1 ELSE 0
  <2>4. \A h \in Guards : gs[h] = IF h = g THEN [guard[g] EXCEPT !.pins = n] ELSE guard[h]
    BY <2>3
  <2> HIDE DEF n, gs
  <2> QED
    BY <2>2, <2>4
<1> HIDE DEF gs, id, e
<1>8. held'[u] = Nobody /\ \A y \in Users \ {u} : held'[y] = held[y]
  BY <1>p
\* Nothing changes for an element that was neither deleted nor evicted.
<1>s. \A i \in Ids \ deleted : i # v => loaded'[i] = loaded[i] /\ stored'[i] = stored[i]
  <2> SUFFICES ASSUME NEW i \in Ids \ deleted, i # v
               PROVE  loaded'[i] = loaded[i] /\ stored'[i] = stored[i]
    OBVIOUS
  <2>1. i = id => loaded[i] = g
    BY <1>0, <1>1, <1>5 DEF IInv, Rest, OwnerLoaded
  <2> QED
    BY <1>4, <2>1 DEF WriteBack, IInv, Rest, MoreTypes
<1>t. \A y \in Users : held[y] # Nobody => v = None \/ held[y] # loaded[v]
  <2> SUFFICES ASSUME NEW y \in Users, held[y] # Nobody, v # None, held[y] = loaded[v] PROVE FALSE
    OBVIOUS
  <2>1. guard[held[y]].pins \in 1..Cardinality(Users)
    BY HeldIs DEF IInv
  <2>2. guard[held[y]].pins = 0
    BY <1>4
  <2> QED
    BY <2>1, <2>2
<1>9. \A h \in Guards : Alive(h)' => Alive(h) /\ guard'[h] = gs[h]
  <2> SUFFICES ASSUME NEW h \in Guards, Alive(h)' PROVE Alive(h) /\ guard'[h] = gs[h]
    OBVIOUS
  <2>1. Alive(h)
    BY <1>1, <1>4, <1>8, NobodyIs DEF Alive
  <2>2. guard'[h] = gs[h]
    BY <1>2, KeptGuard
  <2> QED
    BY <2>1, <2>2
<1>10. xs \in [Execs -> ExecRecs] /\ \A x \in Execs :
         /\ xs[x].params = exec[x].params /\ xs[x].pref = exec[x].pref
         /\ xs[x].stages = exec[x].stages \/ (x = e /\ last)
  <2>1. CASE last /\ free
    <3> DEFINE r == [exec[e] EXCEPT !.stages = FALSE]
    <3>1. \A x \in Execs : xs[x] = IF x = e THEN r ELSE exec[x]
      BY <1>1, <2>1 DEF IInv, Rest, MoreTypes
    <3>2. r = [exec[e] EXCEPT !.stages = FALSE] /\ xs = [exec EXCEPT ![e] = r]
      BY <2>1
    <3> HIDE DEF r
    <3>3. r \in ExecRecs /\ r.params = exec[e].params /\ r.pref = exec[e].pref
      BY <1>1, <3>2, ReleasedExec DEF IInv, Rest
    <3>4. xs \in [Execs -> ExecRecs]
      BY <1>1, <3>2, <3>3 DEF IInv, Rest, MoreTypes
    <3> HIDE DEF xs
    <3> QED
      BY <2>1, <3>1, <3>3, <3>4
  <2>2. CASE ~(last /\ free)
    BY <2>2 DEF IInv, Rest, MoreTypes
  <2> QED
    BY <2>1, <2>2
<1> HIDE DEF xs
<1>11. MoreTypes'
  <2>1. stored' \in [Ids -> Params \cup {Absent}]
    <3>1. CASE v # None /\ guard[loaded[v]].dirty
      <4>1. guard[loaded[v]].exec \in Execs
        BY <1>4, <3>1, LoadedIs DEF IInv
      <4>2. exec[guard[loaded[v]].exec].params \in Params
        BY <4>1, ExecIs DEF IInv, Rest
      <4> QED
        BY <1>4, <3>1, <4>2 DEF WriteBack, IInv, Rest, MoreTypes
    <3>2. CASE ~(v # None /\ guard[loaded[v]].dirty)
      BY <1>4, <3>2 DEF WriteBack, IInv, Rest, MoreTypes
    <3> QED
      BY <3>1, <3>2
  <2> QED
    BY <1>2, <1>3, <1>10, <2>1, KeptExecType DEF IInv, Rest, MoreTypes
<1>12. CacheInv'
  BY <1>4 DEF CacheInv
<1>13. OwnerLoaded'
  <2> SUFFICES ASSUME NEW y \in Users, held'[y] # Nobody, held'[y][1] \notin deleted
               PROVE  loaded'[held'[y][1]] = held'[y]
    BY <1>2 DEF OwnerLoaded
  <2>1. y # u /\ held'[y] = held[y] /\ held[y] # Nobody /\ held[y][1] \in Ids
    BY <1>8, HeldIs DEF IInv
  <2>2. loaded[held[y][1]] = held[y]
    BY <2>1 DEF IInv, Rest, OwnerLoaded
  <2>3. held[y][1] # v
    BY <1>t, <2>1, <2>2, PipelineAssumption
  <2> QED
    BY <1>s, <2>1, <2>2, <2>3
<1>14. EditorsHold'
  BY <1>2, <1>8 DEF IInv, Rest, Edits, EditorsHold, Users
<1>15. DirtyInv'
  <2> SUFFICES ASSUME NEW h \in Guards, Alive(h)', guard'[h].dirty
               PROVE  IF h[1] \in deleted THEN h[1] \in late ELSE loaded'[h[1]] = h
    BY <1>2 DEF DirtyInv
  <2>1. IF h[1] \in deleted THEN h[1] \in late ELSE loaded[h[1]] = h
    BY <1>7, <1>9 DEF IInv, Rest, Edits, DirtyInv
  <2>2. SUFFICES ASSUME h[1] \notin deleted PROVE loaded'[h[1]] = h
    BY <2>1
  <2>3. h[1] \in Ids /\ h # Nobody
    BY NobodyIs DEF Guards
  \* A guard that is no longer loaded and has no owner is gone.
  <2>4. h[1] # v
    <3> SUFFICES ASSUME h[1] = v PROVE FALSE
      OBVIOUS
    <3>1. v # None /\ h = loaded[v] /\ v # id /\ h # g
      BY <1>1, <1>4, <2>1, <2>2, <2>3, PipelineAssumption
    <3>2. \A i \in Ids : loaded'[i] # h
      <4> SUFFICES ASSUME NEW i \in Ids, loaded'[i] = h PROVE FALSE
        OBVIOUS
      <4>1. i # v /\ loaded[i] = h
        BY <1>4, <2>3, <3>1
      <4>2. loaded[i][1] = i
        BY <2>3, <4>1 DEF IInv, Base0, Own
      <4> QED
        BY <4>1, <4>2
    <3>3. \A y \in Users : held'[y] # h
      BY <1>8, <1>t, <2>3, <3>1
    <3> QED
      BY <3>2, <3>3 DEF Alive
  <2> QED
    BY <1>s, <2>1, <2>2, <2>3, <2>4
<1>16. \A i \in Ids \ deleted : live'[i] = live[i]
  <2>1. id \notin deleted => loaded[id] = g
    BY <1>0, <1>1, <1>5 DEF IInv, Rest, OwnerLoaded
  <2>2. id \notin deleted => live[id] = e
    BY <1>1, <2>1, NobodyIs DEF IInv, Rest, Edits, ExecIsLive, e
  <2> QED
    BY <1>2, <2>2 DEF IInv, Base0, Types
<1>17. ExecIsLive'
  <2> SUFFICES ASSUME NEW i \in Ids \ deleted, loaded'[i] # Nobody
               PROVE  guard'[loaded'[i]].exec = live'[i]
    BY <1>2 DEF ExecIsLive
  <2>0. i # v
    BY <1>4, PipelineAssumption
  <2>1. loaded'[i] = loaded[i] /\ loaded[i] \in Guards
    BY <1>s, <2>0, LoadedIs DEF IInv
  <2>2. Alive(loaded[i])'
    BY <2>1 DEF Alive
  <2>3. guard'[loaded[i]].exec = guard[loaded[i]].exec
    BY <1>7, <1>9, <2>1, <2>2
  <2> QED
    BY <1>16, <2>1, <2>3 DEF IInv, Rest, Edits, ExecIsLive
<1>18. \A x \in Execs : (\E i \in Ids : live'[i] = x) \/ (\E h \in Guards : guard'[h].exec = x)
                           => exec'[x] = xs[x]
  BY <1>3, KeptExec
<1>19. ASSUME NEW y \in Users, held'[y] # Nobody, held'[y][1] \notin deleted
       PROVE  exec'[guard'[held'[y]].exec].stages /\ exec'[guard'[held'[y]].exec].pref \in {pref, CPU}
  <2> DEFINE h == held[y]
             x == guard[h].exec
  <2>1. y # u /\ held'[y] = h /\ h # Nobody /\ h[1] \notin deleted
    BY <1>8, <1>19
  <2>2. h \in Guards /\ x \in Execs /\ x[1] = h[1] /\ h[1] \in Ids
    BY <2>1, HeldIs DEF IInv
  <2>3. \A k \in Guards : k = h => Alive(k)'
    BY <2>1 DEF Alive
  <2>4. guard'[h] = gs[h] /\ guard'[h].exec = x
    BY <1>7, <1>9, <2>2, <2>3
  <2>5. exec[x].stages /\ exec[x].pref \in {pref, CPU}
    BY <2>1 DEF IInv, Rest, OwnerStages, OwnerPref
  \* The last owner is the only one to clear the stages.
  <2>6. ~(x = e /\ last)
    <3> SUFFICES ASSUME x = e, last PROVE FALSE
      OBVIOUS
    <3>1. h[1] = id /\ id \notin deleted
      BY <1>1, <2>1, <2>2
    <3>2. loaded[id] = h /\ loaded[id] = g
      BY <1>0, <1>1, <1>5, <2>1, <3>1 DEF IInv, Rest, OwnerLoaded
    <3>3. guard'[g].pins = 0 /\ held'[y] = g
      BY <1>6, <2>1, <2>4, <3>2
    <3>4. guard'[held'[y]].pins \in 1..Cardinality(Users)
      <4>1. ASSUME Base0, NEW q \in Users, held[q] # Nobody
            PROVE  guard[held[q]].pins \in 1..Cardinality(Users)
        BY <4>1, HeldIs
      <4>2. \A q \in Users : held'[q] # Nobody => guard'[held'[q]].pins = Cardinality(OwnersIn(held', held'[q]))
        BY DEF Base0, Types, Pins, Alive
      <4>3. guard'[held'[y]].pins = Cardinality(OwnersIn(held', held'[y]))
        BY <1>19, <4>2
      <4>4. y \in OwnersIn(held', held'[y])
        BY DEF OwnersIn
      <4> QED
        BY <4>3, <4>4, OwnersFinite, FS_EmptySet
    <3> QED
      BY <3>3, <3>4
  <2> HIDE DEF h, x
  <2>7. exec'[x] = xs[x]
    BY <1>18, <2>2, <2>4
  <2>8. exec'[x].stages = exec[x].stages /\ exec'[x].pref = exec[x].pref
    BY <1>10, <2>2, <2>6, <2>7
  <2> QED
    BY <2>1, <2>4, <2>5, <2>8
<1>20. OwnerStages' /\ OwnerPref'
  BY <1>2, <1>19 DEF OwnerStages, OwnerPref
<1>21. Kept'
  <2> SUFFICES ASSUME NEW i \in Ids \ deleted, live'[i] # Nobody, exec'[live'[i]].params # Known(i)'
               PROVE  loaded'[i] # Nobody /\ guard'[loaded'[i]].dirty
    BY <1>2 DEF Kept
  <2>1. live'[i] = live[i] /\ live[i] \in Execs
    BY <1>16, LiveIs DEF IInv
  <2>2. exec'[live[i]].params = exec[live[i]].params
    BY <1>10, <1>18, <2>1
  <2>3. CASE i = v
    <3>0. v # None /\ loaded[v] # Nobody
      BY <1>4, <2>3, PipelineAssumption
    <3>1. CASE guard[loaded[v]].dirty
      <4>1. stored'[v] = exec[guard[loaded[v]].exec].params
        BY <1>4, <3>0, <3>1 DEF WriteBack, IInv, Rest, MoreTypes
      <4>2. guard[loaded[v]].exec = live[i]
        BY <2>3, <3>0 DEF IInv, Rest, Edits, ExecIsLive
      <4>3. stored'[v] \in Params /\ stored'[v] # Absent
        BY <2>1, <4>1, <4>2, ExecIs, PipelineAssumption DEF IInv, Rest, Absent
      <4> QED
        BY <2>1, <2>2, <2>3, <4>1, <4>2, <4>3 DEF Known
    <3>2. CASE ~guard[loaded[v]].dirty
      <4>1. stored' = stored
        BY <1>4, <3>2 DEF WriteBack
      <4>2. exec[live[i]].params # Known(i)
        BY <2>1, <2>2, <4>1 DEF Known
      <4> QED
        BY <2>1, <2>3, <3>2, <4>2 DEF IInv, Rest, Edits, Kept
    <3> QED
      BY <3>1, <3>2
  <2>4. CASE i # v
    <3>1. loaded'[i] = loaded[i] /\ stored'[i] = stored[i]
      BY <1>s, <2>4
    <3>2. exec[live[i]].params # Known(i)
      BY <2>1, <2>2, <3>1 DEF Known
    <3>3. loaded[i] # Nobody /\ guard[loaded[i]].dirty
      BY <2>1, <3>2 DEF IInv, Rest, Edits, Kept
    <3>4. loaded[i] \in Guards /\ Alive(loaded[i])'
      BY <3>1, <3>3, LoadedIs DEF IInv, Alive
    <3> QED
      BY <1>7, <1>9, <3>1, <3>3, <3>4
  <2> QED
    BY <2>3, <2>4
<1>22. DeletedStaysDeleted'
  <2> SUFFICES ASSUME NEW i \in deleted, i \notin late PROVE stored'[i] = Absent
    BY <1>2 DEF DeletedStaysDeleted
  <2>0. stored[i] = Absent
    BY DEF IInv, Rest, Edits, DeletedStaysDeleted
  <2>1. CASE v = None \/ ~guard[loaded[v]].dirty \/ i # v
    BY <1>4, <2>0, <2>1 DEF WriteBack, IInv, Rest, MoreTypes, Base0, Types
  <2>2. CASE v # None /\ guard[loaded[v]].dirty /\ i = v
    <3>1. loaded[v] \in Guards /\ loaded[v][1] = v /\ Alive(loaded[v])
      BY <1>4, <2>2, LoadedIs DEF IInv, Alive
    <3> QED
      BY <2>2, <3>1 DEF IInv, Rest, Edits, DirtyInv
  <2> QED
    BY <2>1, <2>2
<1> QED
  BY <1>11, <1>12, <1>13, <1>14, <1>15, <1>17, <1>20, <1>21, <1>22 DEF Rest, Edits

LEMMA RestSync == ASSUME IInv, Base0', NEW u \in Users, Sync(u) PROVE Rest'
<1> DEFINE dirtyIds == {i \in LoadedIds(loaded) : guard[loaded[i]].dirty}
           written(i) == {j \in dirtyIds : guard[loaded[j]].id = i}
           P(h) == \E i \in dirtyIds : loaded[i] = h
<1>1. /\ UNCHANGED <<lru, loaded, exec, live, pref, held, deleted, late>>
      /\ stored' = [i \in Ids |->
           IF written(i) = {} THEN stored[i]
           ELSE exec[guard[loaded[CHOOSE j \in written(i) : TRUE]].exec].params]
      /\ guard' = [h \in Guards |-> IF P(h) THEN [guard[h] EXCEPT !.dirty = FALSE] ELSE guard[h]]
  BY DEF Sync
<1>2. \A i \in Ids : /\ i \in dirtyIds => written(i) = {i}
                     /\ i \notin dirtyIds => written(i) = {}
  <2>1. \A j \in dirtyIds : j \in Ids /\ guard[loaded[j]].id = j
    BY LoadedIs DEF IInv, LoadedIds
  <2> HIDE DEF dirtyIds
  <2> QED
    BY <2>1
<1>3. \A i \in Ids : stored'[i] = IF i \in dirtyIds THEN exec[guard[loaded[i]].exec].params
                                  ELSE stored[i]
  <2> HIDE DEF dirtyIds, written, P
  <2> SUFFICES ASSUME NEW i \in Ids
               PROVE  stored'[i] = IF i \in dirtyIds THEN exec[guard[loaded[i]].exec].params
                                   ELSE stored[i]
    OBVIOUS
  <2>1. CASE i \in dirtyIds
    <3>1. written(i) = {i} /\ (CHOOSE j \in written(i) : TRUE) = i
      BY <1>2, <2>1
    <3> QED
      BY <1>1, <2>1, <3>1
  <2>2. CASE i \notin dirtyIds
    BY <1>1, <1>2, <2>2
  <2> QED
    BY <2>1, <2>2
<1>4. \A i \in dirtyIds : /\ i \in Ids /\ loaded[i] # Nobody /\ guard[loaded[i]].dirty
                          /\ loaded[i] \in Guards /\ Alive(loaded[i])
                          /\ guard[loaded[i]].exec \in Execs
                          /\ loaded[i][1] = i
  BY LoadedIs DEF IInv, LoadedIds, Alive
<1>a. \A i \in Ids : loaded[i] # Nobody /\ guard[loaded[i]].dirty => i \in dirtyIds
  BY DEF LoadedIds
<1> HIDE DEF dirtyIds, written
<1>5. \A h \in Guards : guard'[h].exec = guard[h].exec /\ (guard'[h].dirty => guard[h].dirty /\ ~P(h))
  <2> SUFFICES ASSUME NEW h \in Guards
               PROVE  guard'[h].exec = guard[h].exec /\ (guard'[h].dirty => guard[h].dirty /\ ~P(h))
    OBVIOUS
  <2>1. guard'[h] = IF P(h) THEN [guard[h] EXCEPT !.dirty = FALSE] ELSE guard[h]
    BY <1>1
  <2>2. guard[h] = [id |-> guard[h].id, exec |-> guard[h].exec, dirty |-> guard[h].dirty,
                    pins |-> guard[h].pins]
    BY GuardIs DEF IInv, Base0
  <2> HIDE DEF P
  <2>3. CASE P(h)
    <3> DEFINE a == guard[h].id
               b == guard[h].exec
               c == guard[h].dirty
               d == guard[h].pins
               no == FALSE
    <3>1. guard[h] = [id |-> a, exec |-> b, dirty |-> c, pins |-> d]
      BY <2>2
    <3>2. guard'[h] = [guard[h] EXCEPT !.dirty = no] /\ ~no
      BY <2>1, <2>3
    <3> HIDE DEF a, b, c, d, no
    <3>3. guard'[h] = [id |-> a, exec |-> b, dirty |-> no, pins |-> d]
      BY <3>1, <3>2
    <3>4. guard'[h].exec = b /\ guard'[h].dirty = no
      BY <3>3
    <3> QED
      BY <3>2, <3>4 DEF b
  <2>4. CASE ~P(h)
    BY <2>1, <2>4
  <2> QED
    BY <2>3, <2>4
<1>6. \A i \in dirtyIds : stored'[i] \in Params /\ stored'[i] # Absent
  <2> SUFFICES ASSUME NEW i \in dirtyIds PROVE stored'[i] \in Params /\ stored'[i] # Absent
    OBVIOUS
  <2>1. i \in Ids /\ guard[loaded[i]].exec \in Execs
    BY <1>4
  <2>2. stored'[i] = exec[guard[loaded[i]].exec].params
    BY <1>3, <2>1
  <2>3. exec[guard[loaded[i]].exec].params \in Params
    BY <2>1, ExecIs DEF IInv, Rest
  <2>4. Absent \notin Params
    BY PipelineAssumption DEF Absent
  <2> QED
    BY <2>2, <2>3, <2>4
<1>7. MoreTypes'
  <2>1. \A i \in Ids : stored'[i] \in Params \cup {Absent}
    BY <1>3, <1>6 DEF IInv, Rest, MoreTypes
  <2>2. stored' = [i \in Ids |-> stored'[i]]
    BY <1>1
  <2>3. stored' \in [Ids -> Params \cup {Absent}]
    BY <2>1, <2>2
  <2> QED
    BY <1>1, <2>3 DEF IInv, Rest, MoreTypes
<1>8. CacheInv' /\ OwnerLoaded' /\ EditorsHold'
  BY <1>1 DEF IInv, Rest, Edits, CacheInv, OwnerLoaded, EditorsHold
<1>9. DirtyInv'
  <2> SUFFICES ASSUME NEW h \in Guards, Alive(h)', guard'[h].dirty
               PROVE  h[1] \in deleted /\ h[1] \in late
    BY <1>1 DEF DirtyInv
  <2>1. Alive(h) /\ guard[h].dirty /\ ~P(h)
    BY <1>1, <1>5 DEF Alive
  <2>2. h[1] \in Ids /\ h # Nobody /\ (IF h[1] \in deleted THEN h[1] \in late ELSE loaded[h[1]] = h)
    BY <2>1, NobodyIs DEF IInv, Rest, Edits, DirtyInv, Guards
  <2> QED
    BY <1>a, <2>1, <2>2
<1>10. ExecIsLive'
  BY <1>1, <1>5 DEF IInv, Base0, Types, Rest, Edits, ExecIsLive
<1>11. OwnerStages' /\ OwnerPref'
  <2> SUFFICES ASSUME NEW v \in Users, held[v] # Nobody, held[v][1] \notin deleted
               PROVE  exec[guard'[held[v]].exec].stages /\ exec[guard'[held[v]].exec].pref \in {pref, CPU}
    BY <1>1 DEF OwnerStages, OwnerPref
  <2>1. held[v] \in Guards
    BY HeldIs DEF IInv
  <2>2. exec[guard[held[v]].exec].stages /\ exec[guard[held[v]].exec].pref \in {pref, CPU}
    BY DEF IInv, Rest, OwnerStages, OwnerPref
  <2> QED
    BY <1>5, <2>1, <2>2
\* What was dirty has just been written.
<1>12. Kept'
  <2> SUFFICES ASSUME NEW i \in Ids \ deleted, live[i] # Nobody, exec[live[i]].params # Known(i)'
               PROVE  FALSE
    BY <1>1 DEF Kept
  <2>1. CASE i \in dirtyIds
    <3>1. guard[loaded[i]].exec = live[i]
      BY <1>4, <2>1 DEF IInv, Rest, Edits, ExecIsLive
    <3> QED
      BY <1>3, <1>6, <2>1, <3>1 DEF Known
  <2>2. CASE i \notin dirtyIds
    <3>1. exec[live[i]].params # Known(i)
      BY <1>3, <2>2 DEF Known
    <3> QED
      BY <1>a, <2>2, <3>1 DEF IInv, Rest, Edits, Kept
  <2> QED
    BY <2>1, <2>2
<1>13. DeletedStaysDeleted'
  <2> SUFFICES ASSUME NEW i \in deleted, i \notin late PROVE stored'[i] = Absent
    BY <1>1 DEF DeletedStaysDeleted
  <2>1. i \in Ids /\ stored[i] = Absent
    BY DEF IInv, Base0, Types, Rest, Edits, DeletedStaysDeleted
  <2>2. i \notin dirtyIds
    BY <1>4 DEF IInv, Rest, Edits, DirtyInv
  <2> QED
    BY <1>3, <2>1, <2>2
<1> QED
  BY <1>7, <1>8, <1>9, <1>10, <1>11, <1>12, <1>13 DEF Rest, Edits

LEMMA RestDelete == ASSUME IInv, Base0', NEW id \in Ids, DeletePipelines(id) PROVE Rest'
<1>1. /\ loaded' = [loaded EXCEPT ![id] = Nobody] /\ live' = [live EXCEPT ![id] = Nobody]
      /\ guard' = KeepGuards(guard, loaded', held') /\ held' = held /\ pref' = pref
      /\ unsynced' = unsynced /\ deleted' = deleted \cup {id} /\ lru' = RemoveRecord(lru, id)
      /\ late' = IF \E y \in Workers : held[y] # Nobody /\ guard[held[y]].id = id /\ guard[held[y]].dirty
                 THEN late \cup {id} ELSE late
      /\ exec' = KeepExecs(exec, guard', live', lock)
      /\ stored' = [stored EXCEPT ![id] = Absent]
  BY DEF DeletePipelines
<1>0. unsynced = {} /\ \A v \in Editors : held[v] # Nobody => held[v][1] # id
  <2>1. unsynced = {} /\ \A v \in Editors : held[v] # Nobody => guard[held[v]].id # id
    BY DEF DeletePipelines, Finalised
  <2> QED
    BY <2>1, HeldIs DEF IInv, Users
<1>2. \A i \in Ids : /\ loaded'[i] = IF i = id THEN Nobody ELSE loaded[i]
                     /\ live'[i] = IF i = id THEN Nobody ELSE live[i]
                     /\ stored'[i] = IF i = id THEN Absent ELSE stored[i]
  BY <1>1 DEF IInv, Base0, Types, Rest, MoreTypes
<1>3. \A h \in Guards : Alive(h)' => Alive(h) /\ guard'[h] = guard[h]
  <2> SUFFICES ASSUME NEW h \in Guards, Alive(h)' PROVE Alive(h) /\ guard'[h] = guard[h]
    OBVIOUS
  <2>1. Alive(h)
    BY <1>1, <1>2, NobodyIs DEF Alive
  <2> QED
    BY <1>1, <2>1, KeptGuard
<1>4. MoreTypes'
  <2>1. exec' \in [Execs -> ExecRecs]
    BY <1>1, KeptExecType DEF IInv, Rest, MoreTypes
  <2> QED
    BY <1>1, <2>1 DEF IInv, Rest, MoreTypes
<1>5. CacheInv'
  <2>1. Good(lru) /\ Capacity - 1 <= lru.cap /\ Len(lru.keys) <= lru.cap + 1
        /\ KeysOf(lru) = LoadedIds(loaded)
    BY DEF IInv, Rest, CacheInv, CacheOk
  <2>2. /\ Good(lru') /\ KeysOf(lru') = KeysOf(lru) \ {id}
        /\ lru'.cap = lru.cap /\ Len(lru'.keys) <= Len(lru.keys)
    BY <1>1, <2>1, RemoveFacts
  <2>3. LoadedIds(loaded') = LoadedIds(loaded) \ {id}
    BY <1>2 DEF LoadedIds
  <2>4. Len(lru'.keys) <= lru'.cap + 1
    <3>1. Len(lru'.keys) \in Nat /\ Len(lru.keys) \in Nat /\ lru.cap \in Nat
      BY <2>1, <2>2, GoodFacts
    <3> QED
      BY <2>1, <2>2, <3>1
  <2> QED
    BY <2>1, <2>2, <2>3, <2>4 DEF CacheInv, CacheOk
<1>6. OwnerLoaded'
  <2> SUFFICES ASSUME NEW v \in Users, held[v] # Nobody, held[v][1] \notin deleted, held[v][1] # id
               PROVE  loaded'[held[v][1]] = held[v]
    BY <1>1 DEF OwnerLoaded
  <2>1. held[v][1] \in Ids /\ loaded[held[v][1]] = held[v]
    BY HeldIs DEF IInv, Rest, OwnerLoaded
  <2> QED
    BY <1>2, <2>1
<1>7. EditorsHold'
  BY <1>0, <1>1 DEF IInv, Rest, Edits, EditorsHold
<1>8. DirtyInv'
  <2> SUFFICES ASSUME NEW h \in Guards, Alive(h)', guard'[h].dirty
               PROVE  IF h[1] \in deleted \cup {id} THEN h[1] \in late' ELSE loaded'[h[1]] = h
    BY <1>1 DEF DirtyInv
  <2>1. Alive(h) /\ guard[h].dirty /\ (IF h[1] \in deleted THEN h[1] \in late ELSE loaded[h[1]] = h)
    BY <1>3 DEF IInv, Rest, Edits, DirtyInv
  <2>2. h[1] \in Ids /\ h # Nobody /\ late \subseteq late'
    BY <1>1, NobodyIs DEF Guards
  <2>3. CASE h[1] = id /\ id \notin deleted
    <3>1. \A i \in Ids : loaded'[i] # h
      <4> SUFFICES ASSUME NEW i \in Ids, loaded'[i] = h PROVE FALSE
        OBVIOUS
      <4>1. i # id /\ loaded[i] = h
        BY <1>2, <2>2
      <4> QED
        BY <2>2, <2>3, <4>1 DEF IInv, Base0, Own
    <3>2. PICK y \in Users : held[y] = h
      BY <1>1, <3>1 DEF Alive
    <3>3. y \in Workers /\ guard[held[y]].id = id
      BY <1>0, <2>2, <2>3, <3>2, HeldIs DEF IInv, Users
    <3> QED
      BY <1>1, <2>1, <2>2, <2>3, <3>2, <3>3
  <2> QED
    BY <1>2, <2>1, <2>2, <2>3
<1>9. ExecIsLive'
  <2> SUFFICES ASSUME NEW i \in Ids \ deleted, i # id, loaded[i] # Nobody
               PROVE  guard'[loaded[i]].exec = live[i]
    <3>1. \A i \in Ids \ deleted' : i \in Ids \ deleted /\ i # id
      BY <1>1
    <3>2. \A i \in Ids : i # id => loaded'[i] = loaded[i] /\ live'[i] = live[i]
      BY <1>2
    <3> QED
      BY <3>1, <3>2 DEF ExecIsLive
  <2>1. loaded[i] \in Guards /\ loaded'[i] = loaded[i]
    BY <1>2, LoadedIs DEF IInv
  <2>2. Alive(loaded[i])'
    BY <1>2, <2>1 DEF Alive
  <2>3. guard'[loaded[i]] = guard[loaded[i]]
    BY <1>3, <2>1, <2>2
  <2> QED
    BY <2>3 DEF IInv, Rest, Edits, ExecIsLive
<1>10. \A x \in Execs : (\E i \in Ids : live'[i] = x) \/ (\E h \in Guards : guard'[h].exec = x)
                           => exec'[x] = exec[x]
  <2>1. exec' = KeepExecs(exec, guard', live', lock)
    BY <1>1
  <2> SUFFICES ASSUME NEW x \in Execs,
                      (\E i \in Ids : live'[i] = x) \/ (\E h \in Guards : guard'[h].exec = x)
               PROVE  exec'[x] = exec[x]
    OBVIOUS
  <2>2. KeepExecs(exec, guard', live', lock)[x] = exec[x]
    BY KeptExec
  <2> QED
    BY <2>1, <2>2
<1>11. OwnerStages' /\ OwnerPref'
  <2> SUFFICES ASSUME NEW v \in Users, held[v] # Nobody, held[v][1] \notin deleted
               PROVE  exec'[guard'[held[v]].exec].stages /\ exec'[guard'[held[v]].exec].pref \in {pref, CPU}
    BY <1>1 DEF OwnerStages, OwnerPref
  <2>1. held[v] \in Guards /\ guard[held[v]].exec \in Execs
    BY HeldIs DEF IInv
  <2>2. Alive(held[v])'
    BY <1>1 DEF Alive
  <2>3. guard'[held[v]] = guard[held[v]]
    BY <1>1, <1>3, <2>1, <2>2
  <2>4. exec'[guard[held[v]].exec] = exec[guard[held[v]].exec]
    BY <1>10, <2>1, <2>3
  <2>5. exec[guard[held[v]].exec].stages /\ exec[guard[held[v]].exec].pref \in {pref, CPU}
    BY DEF IInv, Rest, OwnerStages, OwnerPref
  <2> QED
    BY <2>3, <2>4, <2>5
<1>12. Kept'
  <2> SUFFICES ASSUME NEW i \in Ids \ deleted, i # id, live[i] # Nobody, exec'[live[i]].params # Known(i)
               PROVE  loaded[i] # Nobody /\ guard'[loaded[i]].dirty
    <3>1. \A i \in Ids \ deleted' : i \in Ids \ deleted /\ i # id
      BY <1>1
    <3>2. \A i \in Ids : i # id => /\ loaded'[i] = loaded[i] /\ live'[i] = live[i]
                                   /\ Known(i)' = Known(i)
      BY <1>2 DEF Known
    <3> QED
      BY <3>1, <3>2 DEF Kept
  <2>1. live[i] \in Execs /\ live'[i] = live[i]
    BY <1>2, LiveIs DEF IInv
  <2>2. exec'[live[i]] = exec[live[i]]
    BY <1>10, <2>1
  <2>3. loaded[i] # Nobody /\ guard[loaded[i]].dirty
    BY <2>2 DEF IInv, Rest, Edits, Kept
  <2>4. loaded[i] \in Guards /\ loaded'[i] = loaded[i]
    BY <1>2, <2>3, LoadedIs DEF IInv
  <2>5. Alive(loaded[i])'
    BY <1>2, <2>4 DEF Alive
  <2> QED
    BY <1>2, <1>3, <2>3, <2>4, <2>5
<1>13. DeletedStaysDeleted'
  <2> SUFFICES ASSUME NEW i \in deleted \cup {id}, i \notin late' PROVE stored'[i] = Absent
    BY <1>1 DEF DeletedStaysDeleted
  <2>1. i \in Ids /\ i \notin late
    BY <1>1 DEF IInv, Base0, Types
  <2> QED
    BY <1>2, <2>1 DEF IInv, Rest, Edits, DeletedStaysDeleted
<1> QED
  BY <1>4, <1>5, <1>6, <1>7, <1>8, <1>9, <1>11, <1>12, <1>13 DEF Rest, Edits

LEMMA RestSwitch ==
  ASSUME IInv, NEW p \in Prefs, SetAcceleratorBackendPreference(p)
  PROVE  Rest'
<1> DEFINE mine == Reached(loaded)
<1>1. /\ pref' = p /\ UNCHANGED <<lru, loaded, guard, live, stored, held, unsynced, deleted, late>>
      /\ exec' = [x \in Execs |-> IF x \in mine /\ exec[x].pref # p
                                 THEN [exec[x] EXCEPT !.pref = p, !.stages = TRUE] ELSE exec[x]]
  BY DEF SetAcceleratorBackendPreference
<1>0. \A i \in Ids : loaded[i] # Nobody => guard[loaded[i]].exec \in mine
  BY DEF Reached, LoadedIds
<1> HIDE DEF mine
<1>2. \A x \in Execs : /\ exec'[x] \in ExecRecs /\ exec'[x].params = exec[x].params
                       /\ exec[x].stages => exec'[x].stages
                       /\ x \in mine => exec'[x].pref = p
  <2> SUFFICES ASSUME NEW x \in Execs
               PROVE  /\ exec'[x] \in ExecRecs /\ exec'[x].params = exec[x].params
                      /\ exec[x].stages => exec'[x].stages
                      /\ x \in mine => exec'[x].pref = p
    OBVIOUS
  <2>1. exec'[x] = IF x \in mine /\ exec[x].pref # p
                   THEN [exec[x] EXCEPT !.pref = p, !.stages = TRUE] ELSE exec[x]
    BY <1>1
  <2>2. CASE x \in mine /\ exec[x].pref # p
    <3> DEFINE r == [exec[x] EXCEPT !.pref = p, !.stages = TRUE]
    <3>1. exec'[x] = r /\ r = OnBackend(exec[x], p)
      BY <2>1, <2>2 DEF OnBackend
    <3> HIDE DEF r
    <3>2. r \in ExecRecs /\ r.params = exec[x].params /\ r.pref = p /\ r.stages
      BY <3>1, SwitchedExec DEF IInv, Rest
    <3> QED
      BY <3>1, <3>2
  <2>3. CASE ~(x \in mine /\ exec[x].pref # p)
    BY <2>1, <2>3 DEF IInv, Rest, MoreTypes
  <2> QED
    BY <2>2, <2>3
<1>3. MoreTypes'
  <2>1. exec' \in [Execs -> ExecRecs]
    <3>1. exec' = [x \in Execs |-> exec'[x]]
      BY <1>1
    <3> QED
      BY <1>2, <3>1
  <2> QED
    BY <1>1, <2>1 DEF IInv, Rest, MoreTypes
<1>4. CacheInv' /\ OwnerLoaded' /\ EditorsHold' /\ ExecIsLive' /\ DeletedStaysDeleted'
  BY <1>1 DEF IInv, Rest, Edits, CacheInv, OwnerLoaded, EditorsHold, ExecIsLive,
    DeletedStaysDeleted
<1>5. DirtyInv'
  BY <1>1 DEF IInv, Rest, Edits, DirtyInv, Alive
<1>6. OwnerStages' /\ OwnerPref'
  <2> SUFFICES ASSUME NEW v \in Users, held[v] # Nobody, held[v][1] \notin deleted
               PROVE  exec'[guard[held[v]].exec].stages /\ exec'[guard[held[v]].exec].pref = p
    BY <1>1 DEF OwnerStages, OwnerPref
  <2>1. held[v] \in Guards /\ held[v][1] \in Ids /\ guard[held[v]].exec \in Execs
    BY HeldIs DEF IInv
  <2>2. exec[guard[held[v]].exec].stages /\ loaded[held[v][1]] = held[v]
    BY DEF IInv, Rest, OwnerStages, OwnerLoaded
  <2>3. guard[held[v]].exec \in mine
    BY <1>0, <2>1, <2>2
  <2> QED
    BY <1>2, <2>1, <2>2, <2>3
<1>7. Kept'
  <2> SUFFICES ASSUME NEW i \in Ids \ deleted, live[i] # Nobody, exec'[live[i]].params # Known(i)
               PROVE  loaded[i] # Nobody /\ guard[loaded[i]].dirty
    BY <1>1 DEF Kept, Known
  <2>1. exec[live[i]].params # Known(i)
    BY <1>2, LiveIs DEF IInv
  <2> QED
    BY <2>1 DEF IInv, Rest, Edits, Kept
<1> QED
  BY <1>3, <1>4, <1>5, <1>6, <1>7 DEF Rest, Edits

\* The worker holds its guard, so unless the element was deleted it is loaded.
LEMMA RestMark == ASSUME IInv, NEW u \in Users, MarkDirty(u) PROVE Rest'
<1> DEFINE g == held[u]
<1>0. g # Nobody
  BY DEF MarkDirty
<1>1. /\ guard' = [guard EXCEPT ![g].dirty = TRUE] /\ late' = late \cup ({guard[g].id} \cap deleted)
      /\ UNCHANGED <<lru, loaded, exec, live, stored, pref, held, unsynced, deleted>>
  BY DEF MarkDirty
<1>2. g \in Guards /\ g[1] \in Ids /\ guard[g].id = g[1]
  BY <1>0, HeldIs DEF IInv
<1>3. g[1] \in deleted \/ loaded[g[1]] = g
  BY <1>0 DEF IInv, Rest, OwnerLoaded
<1> HIDE DEF g
<1>4. \A h \in Guards : /\ guard'[h].exec = guard[h].exec
                        /\ guard'[h].dirty = IF h = g THEN TRUE ELSE guard[h].dirty
  <2>1. DOMAIN guard = Guards
    BY DEF IInv, Base0, Types
  <2>2. guard[g] = [id |-> guard[g].id, exec |-> guard[g].exec, dirty |-> guard[g].dirty,
                    pins |-> guard[g].pins]
    BY <1>2, GuardIs DEF IInv, Base0
  <2>3. \A h \in Guards : guard'[h] = IF h = g THEN [guard[g] EXCEPT !.dirty = TRUE] ELSE guard[h]
    BY <1>1, <1>2, <2>1
  <2> QED
    BY <2>2, <2>3
<1>5. MoreTypes' /\ CacheInv' /\ OwnerLoaded' /\ EditorsHold'
  BY <1>1 DEF IInv, Rest, Edits, MoreTypes, CacheInv, OwnerLoaded, EditorsHold
<1>6. DirtyInv'
  BY <1>1, <1>2, <1>3, <1>4 DEF IInv, Rest, Edits, DirtyInv, Alive
<1>7. ExecIsLive'
  BY <1>1, <1>4 DEF IInv, Base0, Types, Rest, Edits, ExecIsLive
<1>8. OwnerStages' /\ OwnerPref'
  BY <1>1, <1>4, HeldIs DEF IInv, Rest, OwnerStages, OwnerPref
<1>9. Kept'
  BY <1>1, <1>4, LoadedIs DEF IInv, Rest, Edits, Kept, Known
<1>10. DeletedStaysDeleted'
  BY <1>1 DEF IInv, Rest, Edits, DeletedStaysDeleted
<1> QED
  BY <1>5, <1>6, <1>7, <1>8, <1>9, <1>10 DEF Rest, Edits

LEMMA RestFallBack == ASSUME IInv, NEW u \in Users, FallBackToCPU(u) PROVE Rest'
<1> DEFINE e == lock[u]
           r == OnBackend(exec[e], CPU)
<1>1. /\ exec' = [exec EXCEPT ![e].pref = CPU, ![e].stages = TRUE]
      /\ UNCHANGED <<lru, loaded, guard, live, stored, pref, held, unsynced, deleted, late>>
  BY DEF FallBackToCPU
<1>2. e \in Execs
  BY DEF FallBackToCPU, IInv, Base0, Types
<1>3. \A x \in Execs : exec'[x] = IF x = e THEN r ELSE exec[x]
  BY <1>1, <1>2 DEF OnBackend, IInv, Rest, MoreTypes
<1>4. r \in ExecRecs /\ r.params = exec[e].params /\ r.pref = CPU /\ r.stages
  <2>1. r = OnBackend(exec[e], CPU) /\ CPU \in Prefs
    BY PipelineAssumption
  <2> HIDE DEF r, e
  <2> QED
    BY <1>2, <2>1, SwitchedExec DEF IInv, Rest
<1>5. exec' = [x \in Execs |-> exec'[x]]
  BY <1>1 DEF IInv, Rest, MoreTypes
<1> HIDE DEF r, e
<1>6. \A x \in Execs : /\ exec'[x] \in ExecRecs /\ exec'[x].params = exec[x].params
                       /\ exec[x].stages => exec'[x].stages
                       /\ exec'[x].pref \in {exec[x].pref, CPU}
  BY <1>3, <1>4 DEF IInv, Rest, MoreTypes
<1>7. MoreTypes'
  <2>1. exec' \in [Execs -> ExecRecs]
    BY <1>5, <1>6
  <2> QED
    BY <1>1, <2>1 DEF IInv, Rest, MoreTypes
<1>8. CacheInv' /\ OwnerLoaded' /\ EditorsHold' /\ ExecIsLive' /\ DeletedStaysDeleted'
  BY <1>1 DEF IInv, Rest, Edits, CacheInv, OwnerLoaded, EditorsHold, ExecIsLive,
    DeletedStaysDeleted
<1>9. DirtyInv'
  BY <1>1 DEF IInv, Rest, Edits, DirtyInv, Alive
<1>10. OwnerStages' /\ OwnerPref'
  BY <1>1, <1>6, HeldIs DEF IInv, Rest, OwnerStages, OwnerPref
<1>11. Kept'
  <2> SUFFICES ASSUME NEW i \in Ids \ deleted, live[i] # Nobody, exec'[live[i]].params # Known(i)
               PROVE  loaded[i] # Nobody /\ guard[loaded[i]].dirty
    BY <1>1 DEF Kept, Known
  <2>1. exec[live[i]].params # Known(i)
    BY <1>6, LiveIs DEF IInv
  <2> QED
    BY <2>1 DEF IInv, Rest, Edits, Kept
<1> QED
  BY <1>7, <1>8, <1>9, <1>10, <1>11 DEF Rest, Edits

--------------------------------------------------------------------------------
(* The theorems.                                                                  *)

LEMMA InvInit == Init => IInv
<1> SUFFICES ASSUME Init PROVE IInv
  OBVIOUS
<1>1. Base0
  BY Base0Init
<1>2. \A g \in Guards : ~Alive(g)
  BY NobodyIs DEF Init, Alive
<1>3. MoreTypes
  <2>1. NoExec \in ExecRecs
    BY PipelineAssumption DEF NoExec, ExecRecs
  <2>2. pref \in Prefs
    BY PipelineAssumption DEF Init
  <2> QED
    BY <2>1, <2>2 DEF Init, MoreTypes
<1>4. CacheInv
  <2>1. lru = [keys |-> <<>>, cap |-> Capacity] /\ Capacity \in Nat \ {0} /\ <<>> \in Seq(Ids)
    BY PipelineAssumption DEF Init, EmptyCache
  <2>2. Good(lru)
    BY <2>1 DEF Good, Caches, Distinct
  <2>3. KeysOf(lru) = {} /\ LoadedIds(loaded) = {}
    BY <2>1 DEF KeysOf, LoadedIds, Init
  <2>4. Capacity - 1 <= lru.cap /\ Len(lru.keys) <= lru.cap + 1
    BY <2>1
  <2> QED
    BY <2>2, <2>3, <2>4 DEF CacheInv, CacheOk
<1>5. OwnerLoaded /\ OwnerStages /\ OwnerPref /\ EditorsHold
  BY DEF Init, OwnerLoaded, OwnerStages, OwnerPref, EditorsHold, Users
<1>6. DirtyInv
  BY <1>2 DEF DirtyInv
<1>7. ExecIsLive /\ Kept /\ DeletedStaysDeleted
  BY DEF Init, ExecIsLive, Kept, DeletedStaysDeleted
<1> QED
  BY <1>1, <1>3, <1>4, <1>5, <1>6, <1>7 DEF IInv, Rest, Edits

LEMMA InvStep ==
  ASSUME IInv, Enough, [Next]_vars
  PROVE  IInv'
<1>0. Base0'
  BY Base0Step DEF IInv, Enough
<1>1. CASE UNCHANGED vars
  BY <1>0, <1>1, RestStutter DEF IInv
<1>2. CASE Next
  <2>1. ASSUME NEW u \in Users, NEW id \in Ids,
               LoadHit(u, id) \/ LoadMiss(u, id) \/ StartSnapshot(u, id)
        PROVE  Rest'
    BY <1>0, <2>1, RestHit, RestMiss, RestSnapshot
  <2>2. ASSUME NEW u \in Users, NEW p \in Params, Edit(u, p) PROVE Rest'
    BY <2>2, RestEdit
  <2>3. ASSUME NEW u \in Users,
               StartRender(u) \/ ReleaseRenderLock(u) \/ SavePipeline(u) \/ Sync(u)
        PROVE  Rest'
    BY <1>0, <2>3, RestRender, RestRelease, RestSave, RestSync
  <2>4. ASSUME NEW id \in Editable, DeletePipelines(id) PROVE Rest'
    BY <1>0, <2>4, RestDelete, PipelineAssumption
  <2>6. ASSUME NEW u \in Users, MarkDirty(u) \/ FallBackToCPU(u) PROVE Rest'
    BY <2>6, RestMark, RestFallBack
  <2>5. ASSUME NEW p \in Prefs, SetAcceleratorBackendPreference(p) PROVE Rest'
    BY <2>5, RestSwitch
  <2> QED
    BY <1>0, <1>2, <2>1, <2>2, <2>3, <2>4, <2>5, <2>6 DEF Next, IInv
<1> QED
  BY <1>1, <1>2

LEMMA Invariance == ASSUME Enough PROVE Spec => []IInv
<1>1. IInv /\ [Next]_vars => IInv'
  BY InvStep
<1> QED
  BY <1>1, InvInit, PTL DEF Spec

\* CacheConsistent: every variable keeps its type, and the list of the cache
\* and the map of loaded pipelines have the same keys after any sequence of
\* loads, saves, evictions and deletions, so LoadPipeline never throws on a key
\* it recorded and every loaded pipeline can be chosen for eviction.
THEOREM ListMatchesMap == ASSUME Enough PROVE Spec => []CacheConsistent
<1>1. IInv => CacheConsistent
  <2> SUFFICES ASSUME IInv PROVE CacheConsistent
    OBVIOUS
  <2>1. lru.keys \in Seq(Ids) /\ lru.cap \in Nat
    BY GoodFacts DEF IInv, Rest, CacheInv, CacheOk
  <2>2. TypeOK
    BY <2>1 DEF TypeOK, IInv, Base0, Types, GuardRecs, Rest, MoreTypes, ExecRecs
  <2> QED
    BY <2>2 DEF CacheConsistent, LruMatchesLoaded, IInv, Rest, CacheInv, CacheOk
<1> QED
  BY <1>1, Invariance, PTL

\* HeldUsable: from LoadPipeline to SavePipeline an owner's guard is the one the
\* cache hands out, its executor has its stages and is on the selected backend, or
\* on the CPU where the scheduler put it when a render failed.
THEOREM OwnersCanRender == ASSUME Enough PROVE Spec => []HeldUsable
<1>1. IInv => HeldUsable
  <2> SUFFICES ASSUME IInv PROVE HeldUsable
    OBVIOUS
  <2>1. \A u \in Users : held[u] # Nobody => guard[held[u]].id = held[u][1]
    BY HeldIs DEF IInv
  <2>2. HeldStaysLoaded
    BY <2>1 DEF HeldStaysLoaded, IInv, Rest, OwnerLoaded
  <2>3. HeldHasStages
    BY <2>1 DEF HeldHasStages, IInv, Rest, OwnerStages
  <2>4. HeldOnCurrentBackend
    BY <2>1 DEF HeldOnCurrentBackend, IInv, Rest, OwnerPref
  <2> QED
    BY <2>2, <2>3, <2>4 DEF HeldUsable
<1> QED
  BY <1>1, Invariance, PTL

\* NoLostEdit: parameters that differ from the pipeline table are those of a
\* guard the cache still has and knows to be dirty.
THEOREM EditsAreKept == ASSUME Enough PROVE Spec => []NoLostEdit
<1>1. IInv => NoLostEdit
  <2> SUFFICES ASSUME IInv, NEW id \in Ids \ deleted, live[id] # Nobody,
                      exec[live[id]].params # IF stored[id] = Absent THEN Base ELSE stored[id]
               PROVE  /\ loaded[id] # Nobody
                      /\ guard[loaded[id]].exec = live[id]
                      /\ guard[loaded[id]].dirty
    BY DEF NoLostEdit
  <2>1. loaded[id] # Nobody /\ guard[loaded[id]].dirty
    BY DEF IInv, Rest, Edits, Kept, Known
  <2> QED
    BY <2>1 DEF IInv, Rest, Edits, ExecIsLive
<1> QED
  BY <1>1, Invariance, PTL

\* DeletedStaysDeleted: a later SavePipeline, Sync or eviction writes a row for an
\* element that DeletePipelines removed only when a thumbnail's render changed a
\* guard of it that a worker still had; an editor's guard never does.
THEOREM DeletedForGood == ASSUME Enough PROVE Spec => []DeletedStaysDeleted
<1>1. IInv => DeletedStaysDeleted
  BY DEF IInv, Rest, Edits
<1> QED
  BY <1>1, Invariance, PTL

================================================================================
