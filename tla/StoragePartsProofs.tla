-------------------------- MODULE StoragePartsProofs --------------------------
(***************************************************************************)
(* Proofs about four parts of the storage engine, for any sizes.           *)
(*                                                                         *)
(* The skip list: its lists are sorted and contained in each other in the  *)
(* middle of an insertion too, no reader meets memory that has not been    *)
(* written, and every search answers by what was in the list when it began.*)
(* The environment: work runs in its order, and the limits on maps and on  *)
(* descriptors hold.  The lock: the table keeps the threads of one process *)
(* apart, the kernel keeps processes of one thread apart, and nobody       *)
(* leaves the database locked.                                             *)
(* The table cache: a handle counts its users and is deleted once, what is *)
(* cached is in one list and found by the hash table, through every resize *)
(* and eviction.                                                           *)
(***************************************************************************)
EXTENDS SkipList, NaturalsBySets, FiniteSetTheorems, SequenceTheorems, TLAPS

Nodes == Keys \union {head_}
Insertions ==
  [key : Keys, height : 1..MaxHeight, level : Levels, set : BOOLEAN,
   prev : UNION {[0..h - 1 -> Nodes] : h \in 1..MaxHeight}]

\* The null pointer is no node, no memory and no insertion.
NilAssumption == Nil \notin Nodes \union {Garbage} \union Insertions

Written(n, l) == next[n][l] # Garbage
Beyond(n, k) == n = Nil \/ (n \in Keys /\ n > k)

ListTypes ==
  /\ next \in [Nodes -> [Levels -> Keys \union {Nil, Garbage}]]
  /\ maxHeight \in 1 .. MaxHeight /\ inserted \in SUBSET Keys
  /\ inserting \in Insertions \union {Nil}
  /\ inserting # Nil => /\ inserting.prev \in [0..inserting.height - 1 -> Nodes]
                        /\ inserting.level < inserting.height

AbsentIsUnwritten ==
  \A n \in Keys \ inserted, l \in Levels : (inserting # Nil => n # inserting.key) => ~Written(n, l)

\* How far the insertion under way has come: written up to its level, linked below it,
\* and its predecessors are still the last nodes before the key.
InsertionIsRight ==
  inserting # Nil =>
    LET k == inserting.key
        prev == inserting.prev
    IN  /\ k \notin inserted /\ inserting.height <= maxHeight
        /\ \A l \in Levels :
             Written(k, l) <=> l < inserting.level \/ (l = inserting.level /\ inserting.set)
        /\ \A l \in 0..inserting.height - 1 :
             prev[l] \in inserted \union {head_} /\ prev[l] < k /\ Written(prev[l], l)
        /\ \A l \in inserting.level..inserting.height - 1 : Beyond(next[prev[l]][l], k)
        /\ inserting.set => next[k][inserting.level] = next[prev[inserting.level]][inserting.level]
        /\ \A l \in 0..inserting.level - 1 : k \in Linked(l)

HeadIsWritten == \A l \in Levels : Written(head_, l)
AboveIsEmpty == \A l \in Levels : l >= maxHeight => next[head_][l] = Nil
LinkedIsWritten == \A m \in Nodes, l \in Levels : next[m][l] \in Keys => Written(next[m][l], l)
WrittenBelow == \A n \in Nodes, l \in Levels : l > 0 /\ Written(n, l) => Written(n, l - 1)
Ascending == \A n \in Nodes, l \in Levels : next[n][l] \in Keys => next[n][l] > n
Sublists == \A l \in Levels : l > 0 => Linked(l) \subseteq Linked(l - 1)
InsertedIsLinked == inserted \subseteq Linked(0)
NoGaps ==
  \A m \in Nodes, b \in Linked(0) :
    Written(m, 0) /\ b > m => next[m][0] \in Keys /\ next[m][0] <= b

ListInv ==
  /\ ListTypes /\ AbsentIsUnwritten /\ InsertionIsRight /\ HeadIsWritten /\ AboveIsEmpty
  /\ LinkedIsWritten /\ WrittenBelow /\ Ascending /\ Sublists /\ InsertedIsLinked /\ NoGaps

------------------------
(* The greatest element of a set of naturals.  The induction is that there is no infinite *)
(* descent in the naturals.                                                               *)

Less == OpToRel(<, Nat)

LEMMA LessIsLess == \A a, b \in Nat : a < b => <<a, b>> \in Less
BY DEF Less, OpToRel

LEMMA LeastExists ==
  ASSUME NEW T, T \subseteq Nat, T # {} PROVE \E x \in T : \A y \in T : x <= y
<1>1. PICK x \in T : \A y \in T : ~(<<y, x>> \in Less)
  BY NatLessThanWellFounded, WFMin DEF Less
<1>2. ASSUME NEW y \in T, y < x PROVE FALSE
  <2>1. y \in Nat /\ x \in Nat OBVIOUS
  <2> QED BY <1>1, <1>2, <2>1, LessIsLess
<1> QED BY <1>2

LEMMA MaxIsGreatest ==
  ASSUME NEW n \in Nat, NEW T, T \subseteq 0..n, T # {}
  PROVE  Max(T) \in T /\ \A y \in T : Max(T) >= y
<1> DEFINE U == {m \in Nat : n - m \in T}
<1>1. U # {} /\ U \subseteq Nat
  <2>1. PICK y \in T : TRUE OBVIOUS
  <2>2. y \in 0 .. n /\ n - y \in Nat /\ n - (n - y) = y
    BY <2>1
  <2> QED BY <2>2
<1>2. PICK u \in U : \A v \in U : u <= v
  BY <1>1, LeastExists
<1>3. ASSUME NEW y \in T PROVE n - u >= y
  <2>1. y \in 0 .. n /\ n - y \in Nat /\ n - (n - y) = y OBVIOUS
  <2>2. n - y \in U
    BY <2>1
  <2> QED BY <1>2, <2>1, <2>2
<1> QED BY <1>2, <1>3 DEF Max

LEMMA FiniteIsBounded ==
  ASSUME NEW S, S \subseteq Nat, IsFiniteSet(S) PROVE \E m \in Nat : \A x \in S : x <= m
<1> DEFINE Bounded(f, n) == \E m \in Nat : \A i \in 1..n : f[i] <= m
           Bad == {n \in Nat : \E f \in [1..n -> Nat] : ~Bounded(f, n)}
<1>1. Bad = {}
  <2> SUFFICES ASSUME Bad # {} PROVE FALSE OBVIOUS
  <2>1. PICK n \in Nat : n \in Bad /\ \A k \in Bad : n <= k
    <3>1. Bad \subseteq Nat OBVIOUS
    <3> QED BY <3>1, LeastExists
  <2>2. PICK f \in [1..n -> Nat] : ~Bounded(f, n)
    BY <2>1
  <2>3. n # 0
    <3>1. ASSUME n = 0 PROVE \A i \in 1..n : f[i] <= 0 BY <3>1
    <3> QED BY <2>2, <3>1
  <2>4. n - 1 \in Nat /\ n - 1 \notin Bad
    <3>1. n - 1 \in Nat /\ ~(n <= n - 1)
      BY <2>3
    <3> QED BY <2>1, <3>1
  <2> DEFINE g == [i \in 1..n - 1 |-> f[i]]
  <2>5. g \in [1..n - 1 -> Nat]
    <3>1. \A i \in 1..n - 1 : i \in 1..n BY <2>4
    <3> QED BY <3>1
  <2>6. PICK m \in Nat : \A i \in 1..n - 1 : f[i] <= m
    <3>1. Bounded(g, n - 1) BY <2>4, <2>5
    <3>2. PICK m \in Nat : \A i \in 1..n - 1 : g[i] <= m BY <3>1
    <3>3. \A i \in 1..n - 1 : f[i] <= m BY <3>2
    <3> QED BY <3>3
  <2>7. f[n] \in Nat
    BY <2>3
  <2> HIDE DEF Bad, Bounded, g
  <2>8. ASSUME NEW i \in 1..n PROVE f[i] <= m + f[n]
    <3>1. CASE i = n
      BY <2>7, <3>1
    <3>2. CASE i # n
      <4>1. i \in 1 .. n - 1 /\ f[i] \in Nat
        BY <3>2
      <4> QED BY <2>6, <2>7, <4>1
    <3> QED BY <3>1, <3>2
  <2>9. m + f[n] \in Nat
    BY <2>7
  <2> QED BY <2>2, <2>8, <2>9 DEF Bounded
<1>2. Cardinality(S) \in Nat
  BY FS_CardinalityType
<1>3. PICK f \in Bijection(1..Cardinality(S), S) : TRUE
  BY FS_CardinalityType DEF ExistsBijection
<1>4. f \in [1 .. Cardinality(S) -> S] /\ \A x \in S : \E i \in 1..Cardinality(S) : f[i] = x
  BY <1>3 DEF Bijection, Surjection, Injection
<1>5. Bounded(f, Cardinality(S))
  <2>1. f \in [1..Cardinality(S) -> Nat]
    BY <1>4
  <2> QED BY <1>1, <1>2, <2>1
<1> QED BY <1>4, <1>5

LEMMA InfiniteIsGreatest ==
  ASSUME SkipListAssumption PROVE Infinite \in Nat /\ \A n \in Nodes : n \in Nat /\ n < Infinite
<1>1. Nodes \subseteq Nat /\ IsFiniteSet(Nodes)
  BY FS_AddElement DEF SkipListAssumption, Nodes, head_
<1>2. PICK m \in Nat : \A n \in Nodes : n <= m
  BY <1>1, FiniteIsBounded
<1>3. Max(Nodes) \in Nodes /\ \A n \in Nodes : Max(Nodes) >= n
  <2>1. Nodes \subseteq 0 .. m /\ Nodes # {}
    BY <1>1, <1>2 DEF Nodes
  <2> QED BY <2>1, MaxIsGreatest
<1> QED BY <1>1, <1>3 DEF Infinite, Nodes, head_

LEMMA MaxOfTwo ==
  ASSUME NEW a \in 1..MaxHeight, NEW b \in 1..MaxHeight, MaxHeight \in Nat
  PROVE  Max({a, b}) \in 1 .. MaxHeight /\ Max({a, b}) >= a /\ Max({a, b}) >= b
<1>1. {a, b} \subseteq 0 .. MaxHeight /\ {a, b} # {} OBVIOUS
<1> QED BY <1>1, MaxIsGreatest

------------------------
(* The lists. *)

LEMMA ListInit == ASSUME SkipListAssumption, NilAssumption, Init PROVE ListInv
<1> USE DEF SkipListAssumption, NilAssumption, Init, Nodes, Levels, head_, Garbage
<1>1. /\ \A n \in Keys, l \in Levels : next[n][l] = Garbage
      /\ \A l \in Levels : next[head_][l] = Nil
  OBVIOUS
<1>2. \A l \in Levels : Linked(l) = {}
  BY <1>1 DEF Linked
<1>3. ListTypes
  BY DEF ListTypes
<1> QED
  BY <1>1, <1>2, <1>3
  DEF ListInv, AbsentIsUnwritten, InsertionIsRight, HeadIsWritten, AboveIsEmpty, LinkedIsWritten,
      WrittenBelow, Ascending, Sublists, InsertedIsLinked, NoGaps, Written

\* While nothing is being inserted, the nodes that are written are those inserted.
LEMMA LinkedIsInserted ==
  ASSUME ListInv, inserting = Nil, NEW m \in Nodes, NEW l \in Levels, next[m][l] \in Keys
  PROVE  next[m][l] \in inserted
BY DEF ListInv, LinkedIsWritten, AbsentIsUnwritten

\* The search of an insertion finds the last node before the key.
LEMMA PrevAtIsRight ==
  ASSUME SkipListAssumption, NilAssumption, ListInv, inserting = Nil,
         NEW k \in Keys \ inserted, NEW l \in Levels
  PROVE  LET p == PrevAt(k, l) IN
         /\ p \in inserted \union {head_} /\ p < k /\ Written(p, l)
         /\ Beyond(next[p][l], k)
<1> DEFINE S == {n \in inserted \union {head_} : n < k /\ (n = head_ \/ next[n][l] # Garbage)}
           p == Max(S)
<1>0. k \in Nat \ {0} /\ inserted \subseteq Nat
  BY DEF SkipListAssumption, ListInv, ListTypes
<1>1. S \subseteq 0 .. k /\ S # {} /\ k \in Nat
  <2>1. head_ \in S
    BY <1>0 DEF head_
  <2>2. \A n \in S : n \in 0..k
    BY <1>0 DEF head_
  <2> QED BY <1>0, <2>1, <2>2
<1>2. p \in S /\ \A n \in S : p >= n
  BY <1>1, MaxIsGreatest
<1>3. /\ p \in inserted \union {head_} /\ p < k /\ p \in Nat
      /\ p = head_ \/ Written(p, l)
      /\ \A n \in inserted : n < k /\ Written(n, l) => p >= n
  BY <1>0, <1>1, <1>2 DEF Written
<1>5. PrevAt(k, l) = p
  BY DEF PrevAt
<1> HIDE DEF S, p
<1>6. Written(p, l)
  BY <1>3 DEF Written, ListInv, HeadIsWritten
<1>4. Beyond(next[p][l], k)
  <2>1. p \in Nodes /\ next[p][l] \in Keys \union {Nil}
    BY <1>3, <1>6 DEF Written, ListInv, ListTypes, Nodes
  <2>2. SUFFICES ASSUME next[p][l] \in Keys PROVE next[p][l] > k
    BY <2>1 DEF Beyond
  <2>3. next[p][l] \in inserted /\ next[p][l] # k /\ next[p][l] > p
    BY <2>1, <2>2, LinkedIsInserted DEF ListInv, Ascending
  <2>4. Written(next[p][l], l)
    BY <2>1, <2>2 DEF ListInv, LinkedIsWritten
  <2>5. next[p][l] \in Nat
    BY <1>0, <2>3
  <2>6. ~(next[p][l] < k)
    BY <1>3, <2>3, <2>4, <2>5
  <2> QED BY <1>1, <2>3, <2>5, <2>6
<1> QED BY <1>3, <1>4, <1>5, <1>6

\* What depends on the links alone.
LinkInv == HeadIsWritten /\ LinkedIsWritten /\ WrittenBelow /\ Ascending /\ Sublists /\ NoGaps

LEMMA SameLinks == ASSUME LinkInv, next' = next PROVE LinkInv' /\ \A l \in Levels : Linked(l)' = Linked(l)
BY DEF LinkInv, HeadIsWritten, LinkedIsWritten, WrittenBelow, Ascending, Sublists, NoGaps, Written, Linked

LEMMA BeginInsertStep ==
  ASSUME SkipListAssumption, NilAssumption, ListInv,
         NEW k \in Keys, NEW h \in 1..MaxHeight, BeginInsert(k, h)
  PROVE  ListInv'
<1>1. /\ inserting = Nil /\ k \notin inserted
      /\ inserting' = [key |-> k, height |-> h, level |-> 0, set |-> FALSE,
                       prev |-> [l \in 0..h - 1 |-> IF l < maxHeight THEN PrevAt(k, l) ELSE head_]]
      /\ maxHeight' = Max({maxHeight, h}) /\ next' = next /\ inserted' = inserted
  BY DEF BeginInsert
<1>2. /\ MaxHeight \in Nat /\ maxHeight \in 1 .. MaxHeight /\ maxHeight' \in 1..MaxHeight
      /\ maxHeight' >= maxHeight /\ maxHeight' >= h
  BY <1>1, MaxOfTwo DEF SkipListAssumption, ListInv, ListTypes
<1>3. \A l \in 0..h - 1 : l \in Levels
  BY <1>2 DEF Levels
<1>4. \A l \in 0..h - 1 :
        /\ inserting'.prev[l] \in inserted \union {head_} /\ inserting'.prev[l] < k
        /\ Written(inserting'.prev[l], l) /\ Beyond(next[inserting'.prev[l]][l], k)
  <2> SUFFICES ASSUME NEW l \in 0..h - 1
               PROVE  LET p == IF l < maxHeight THEN PrevAt(k, l) ELSE head_ IN
                      /\ p \in inserted \union {head_} /\ p < k
                      /\ Written(p, l) /\ Beyond(next[p][l], k)
    BY <1>1
  <2>1. CASE l < maxHeight
    BY <1>1, <1>3, <2>1, PrevAtIsRight
  <2>2. CASE ~(l < maxHeight)
    <3>1. next[head_][l] = Nil /\ Written(head_, l)
      BY <1>2, <1>3, <2>2 DEF ListInv, AboveIsEmpty, HeadIsWritten
    <3>2. head_ < k BY DEF SkipListAssumption, head_
    <3> QED BY <2>2, <3>1, <3>2 DEF Beyond
  <2> QED BY <2>1, <2>2
<1>5. \A l \in 0..h - 1 : inserting'.prev[l] \in Nodes
  BY <1>4 DEF ListInv, ListTypes, Nodes
<1>6. inserting' \in Insertions /\ inserting'.prev \in [0 .. h - 1 -> Nodes] /\ inserting' # Nil
  <2>1. inserting'.prev \in [0..h - 1 -> Nodes]
    BY <1>1, <1>5
  <2>2. inserting' \in Insertions
    BY <1>1, <1>2, <2>1 DEF Insertions, Levels
  <2> QED BY <2>1, <2>2 DEF NilAssumption
<1>7. ListTypes'
  BY <1>1, <1>2, <1>6 DEF ListInv, ListTypes
<1>8. AbsentIsUnwritten' /\ \A l \in Levels : ~Written(k, l)
  BY <1>1 DEF ListInv, AbsentIsUnwritten, Written
<1>9. InsertionIsRight'
  <2>1. /\ inserting'.key = k /\ inserting'.height = h /\ inserting'.level = 0 /\ ~inserting'.set
    BY <1>1
  <2>2. \A l \in Levels : ~Written(k, l)' /\ ~(l < 0)
    BY <1>1, <1>2, <1>8 DEF Written, Levels
  <2>3. k \notin inserted' /\ h <= maxHeight'
    BY <1>1, <1>2
  <2>4. \A l \in 0..h - 1 :
          /\ inserting'.prev[l] \in inserted' \union {head_} /\ inserting'.prev[l] < k
          /\ next'[inserting'.prev[l]][l] # Garbage /\ Beyond(next'[inserting'.prev[l]][l], k)
    BY <1>1, <1>4 DEF Written
  <2>5. \A l \in 0..inserting'.level - 1 : FALSE
    BY <2>1
  <2> QED BY <2>1, <2>2, <2>3, <2>4, <2>5 DEF InsertionIsRight, Written, Beyond
<1>10. LinkInv' /\ \A l \in Levels : Linked(l)' = Linked(l)
  BY <1>1, SameLinks DEF ListInv, LinkInv
<1>11. AboveIsEmpty'
  BY <1>1, <1>2 DEF ListInv, AboveIsEmpty, Levels
<1>12. InsertedIsLinked'
  BY <1>1, <1>10, <1>2 DEF ListInv, InsertedIsLinked, Levels
<1> QED BY <1>7, <1>8, <1>9, <1>10, <1>11, <1>12 DEF ListInv, LinkInv

\* What an insertion under way is about, for the two steps that go on with it.
LEMMA Underway ==
  ASSUME SkipListAssumption, NilAssumption, ListInv, inserting # Nil
  PROVE  LET k == inserting.key
             l == inserting.level
             p == inserting.prev[l]
         IN  /\ k \in Keys /\ k \notin inserted /\ l \in Levels /\ l \in 0..inserting.height - 1
             /\ inserting.height \in 1 .. maxHeight /\ maxHeight \in 1..MaxHeight
             /\ p \in inserted \union {head_} /\ p \in Nodes /\ p < k /\ p # k
             /\ Written(p, l) /\ Beyond(next[p][l], k)
             /\ inserting \in Insertions
             /\ k \in Nat /\ p \in Nat
<1>1. inserting \in Insertions /\ inserting.level < inserting.height /\ MaxHeight \in Nat
  BY DEF ListInv, ListTypes, SkipListAssumption
<1>2. /\ inserting.key \in Keys /\ inserting.height \in 1 .. MaxHeight /\ inserting.level \in Levels
      /\ inserting.level \in 0..inserting.height - 1
  BY <1>1 DEF Insertions, Levels
<1>3. inserting.prev[inserting.level] \in inserted \union {head_} /\ inserted \subseteq Keys
  BY <1>2, inserting # Nil DEF ListInv, InsertionIsRight, ListTypes
<1>4. inserting.key \in Nat /\ inserting.prev[inserting.level] \in Nat
  <2>1. Keys \subseteq Nat /\ head_ \in Nat
    BY DEF SkipListAssumption, head_
  <2> QED BY <1>2, <1>3, <2>1
<1>5. /\ inserting.height <= maxHeight /\ maxHeight \in 1..MaxHeight
      /\ inserting.level \in inserting.level..inserting.height - 1
  BY <1>1, <1>2 DEF ListInv, ListTypes, InsertionIsRight, Levels
<1> QED BY <1>1, <1>2, <1>3, <1>4, <1>5 DEF ListInv, InsertionIsRight, Nodes

LEMMA SetLinkStep ==
  ASSUME SkipListAssumption, NilAssumption, ListInv, SetLink PROVE ListInv'
<1> DEFINE k == inserting.key
           l == inserting.level
           p == inserting.prev[l]
           x == next[p][l]
<1>1. /\ inserting # Nil /\ ~inserting.set
      /\ next' = [next EXCEPT ![k][l] = x] /\ inserting' = [inserting EXCEPT !.set = TRUE]
      /\ maxHeight' = maxHeight /\ inserted' = inserted
  BY DEF SetLink
<1>2. /\ k \in Keys /\ k \notin inserted /\ l \in Levels /\ l \in 0..inserting.height - 1
      /\ p \in Nodes /\ p < k /\ p # k /\ Written(p, l) /\ Beyond(x, k)
      /\ inserting \in Insertions /\ k \in Nat /\ p \in Nat /\ p \in inserted \union {head_}
  BY <1>1, Underway
<1>3. /\ inserting'.key = k /\ inserting'.level = l /\ inserting'.set = TRUE
      /\ inserting'.prev = inserting.prev /\ inserting'.height = inserting.height
      /\ inserting' \in Insertions /\ inserting' # Nil
  BY <1>1, <1>2 DEF Insertions, NilAssumption
<1>7. Garbage \notin Keys /\ Nil \notin Keys /\ head_ \notin Keys /\ Nil # Garbage
  BY DEF SkipListAssumption, NilAssumption, Nodes, Garbage, head_
<1>4. x \in Keys \union {Nil} /\ x # Garbage /\ x # k
  BY <1>2, <1>7 DEF Beyond, Written
<1>5. /\ next \in [Nodes -> [Levels -> Keys \union {Nil, Garbage}]] /\ k \in Nodes
      /\ next' \in [Nodes -> [Levels -> Keys \union {Nil, Garbage}]]
      /\ \A n \in Nodes, j \in Levels :
           next'[n][j] = IF n = k /\ j = l THEN x ELSE next[n][j]
  BY <1>1, <1>2, <1>4 DEF ListInv, ListTypes, Nodes
<1>6. next[k][l] = Garbage
  <2>1. ~(l < l) /\ inserting.set = FALSE
    BY <1>1, <1>2 DEF Insertions, Levels
  <2> QED BY <1>1, <1>2, <2>1 DEF ListInv, InsertionIsRight, Written
<1> HIDE DEF k, l, p, x
<1>8. \A j \in Levels : Linked(j)' = Linked(j)
  <2>1. ASSUME NEW j \in Levels, NEW n \in Linked(j)' PROVE n \in Linked(j)
    <3>1. PICK m \in Nodes : next'[m][j] = n /\ n \in Keys
      BY <2>1 DEF Linked, Nodes
    <3>2. CASE m = k /\ j = l
      BY <1>2, <1>5, <3>1, <3>2 DEF Linked, Nodes, x
    <3>3. CASE ~(m = k /\ j = l)
      BY <1>5, <3>1, <3>3 DEF Linked, Nodes
    <3> QED BY <3>2, <3>3
  <2>2. ASSUME NEW j \in Levels, NEW n \in Linked(j) PROVE n \in Linked(j)'
    <3>1. PICK m \in Nodes : next[m][j] = n /\ n \in Keys
      BY <2>2 DEF Linked, Nodes
    <3>2. next'[m][j] = n BY <1>5, <1>6, <1>7, <3>1
    <3> QED BY <3>1, <3>2 DEF Linked, Nodes
  <2> QED BY <2>1, <2>2
<1>9. ListTypes'
  BY <1>1, <1>3, <1>5 DEF ListInv, ListTypes
<1>10. \A n \in Nodes, j \in Levels : Written(n, j)' <=> Written(n, j) \/ (n = k /\ j = l)
  BY <1>4, <1>5 DEF Written
<1>11. AbsentIsUnwritten'
  BY <1>1, <1>3, <1>10, <1>2 DEF ListInv, AbsentIsUnwritten, Nodes, k
<1>12. InsertionIsRight'
  <2>1. /\ k \notin inserted' /\ inserting.height <= maxHeight'
        /\ \A j \in Levels : Written(k, j) <=> j < l
        /\ \A j \in 0..inserting.height - 1 :
             inserting.prev[j] \in inserted \union {head_} /\ inserting.prev[j] < k /\ Written(inserting.prev[j], j)
        /\ \A j \in l..inserting.height - 1 : Beyond(next[inserting.prev[j]][j], k)
        /\ \A j \in 0..l - 1 : k \in Linked(j)
    BY <1>1 DEF ListInv, InsertionIsRight, k, l
  <2>2. inserting.height \in 1 .. MaxHeight /\ MaxHeight \in Nat /\ l \in 0..MaxHeight - 1
    BY <1>2 DEF Insertions, SkipListAssumption, Levels
  <2>3. \A j \in 0..inserting.height - 1 : j \in Levels
    BY <2>2 DEF Levels
  <2>4. \A j \in 0 .. inserting.height - 1 : inserting.prev[j] \in Nodes /\ inserting.prev[j] # k
    BY <1>2, <1>7, <2>1, <1>9 DEF ListInv, ListTypes, Nodes
  <2>5. \A j \in 0..inserting.height - 1 : next'[inserting.prev[j]][j] = next[inserting.prev[j]][j]
    BY <1>5, <2>3, <2>4
  <2>6. \A j \in Levels : next'[k][j] # Garbage <=> j < l \/ j = l
    BY <1>4, <1>5, <2>1 DEF Written
  <2>7. next'[k][l] = next'[p][l]
    BY <1>2, <1>5 DEF x
  <2>8. \A j \in l..inserting.height - 1 : j \in 0..inserting.height - 1
    BY <2>2
  <2>9. \A j \in l..inserting.height - 1 : Beyond(next'[inserting.prev[j]][j], k)
    BY <2>1, <2>5, <2>8
  <2>10. \A j \in 0..inserting.height - 1 : next'[inserting.prev[j]][j] # Garbage
    BY <2>1, <2>3, <2>5 DEF Written
  <2>11. \A j \in 0..l - 1 : k \in Linked(j)'
    BY <2>1, <2>2, <1>8 DEF Levels
  <2> QED
    BY <1>1, <1>3, <2>1, <2>6, <2>7, <2>9, <2>10, <2>11 DEF InsertionIsRight, Written, Beyond, p
<1>13. HeadIsWritten' /\ AboveIsEmpty'
  BY <1>1, <1>2, <1>5, <1>7 DEF ListInv, HeadIsWritten, AboveIsEmpty, Written, Nodes
<1>14. LinkedIsWritten'
  BY <1>2, <1>5, <1>10 DEF ListInv, LinkedIsWritten, Nodes, x
<1>15. WrittenBelow'
  <2>1. ASSUME l > 0 PROVE Written(k, l - 1)
    BY <1>1, <1>2, <2>1 DEF ListInv, InsertionIsRight, Levels, SkipListAssumption, k, l
  <2>2. \A j \in Levels : j > 0 => j - 1 \in Levels
    BY DEF Levels, SkipListAssumption
  <2> QED BY <1>5, <1>10, <2>1, <2>2 DEF ListInv, WrittenBelow
<1>16. Ascending'
  BY <1>2, <1>4, <1>5, <1>7 DEF ListInv, Ascending, Beyond
<1>17. Sublists' /\ InsertedIsLinked'
  <2>1. \A j \in Levels : j > 0 => j - 1 \in Levels
    BY DEF Levels, SkipListAssumption
  <2>2. 0 \in Levels
    BY DEF Levels, SkipListAssumption
  <2> QED BY <1>1, <1>8, <2>1, <2>2 DEF ListInv, Sublists, InsertedIsLinked
<1>18. NoGaps'
  <2> SUFFICES ASSUME NEW m \in Nodes, NEW b \in Linked(0)', Written(m, 0)', b > m
               PROVE  next'[m][0] \in Keys /\ next'[m][0] <= b
    BY DEF NoGaps
  <2>1. 0 \in Levels /\ b \in Linked(0) /\ b \in Nat
    BY <1>8 DEF Levels, SkipListAssumption, Linked
  <2>2. CASE m = k /\ l = 0
    \* What is beyond the key is beyond its predecessor, whose link it has now.
    <3>1. b > p /\ Written(p, 0)
      BY <1>2, <2>1, <2>2
    <3> QED BY <1>2, <1>5, <2>1, <2>2, <3>1 DEF ListInv, NoGaps, x
  <2>3. CASE ~(m = k /\ l = 0)
    BY <1>5, <1>10, <2>1, <2>3 DEF ListInv, NoGaps
  <2> QED BY <2>2, <2>3
<1> QED BY <1>9, <1>11, <1>12, <1>13, <1>14, <1>15, <1>16, <1>17, <1>18 DEF ListInv

LEMMA PublishStep ==
  ASSUME SkipListAssumption, NilAssumption, ListInv, Publish
  PROVE  ListInv' /\ \A n \in Nodes, j \in Levels : Written(n, j) => Written(n, j)'
<1> DEFINE k == inserting.key
           l == inserting.level
           p == inserting.prev[l]
           x == next[p][l]
<1>1. /\ inserting # Nil /\ inserting.set
      /\ next' = [next EXCEPT ![p][l] = k] /\ maxHeight' = maxHeight
      /\ \/ l + 1 = inserting.height /\ inserting' = Nil /\ inserted' = inserted \union {k}
         \/ /\ l + 1 # inserting.height /\ inserted' = inserted
            /\ inserting' = [inserting EXCEPT !.level = l + 1, !.set = FALSE]
  BY DEF Publish
<1>2. /\ k \in Keys /\ k \notin inserted /\ l \in Levels /\ l \in 0..inserting.height - 1
      /\ inserting.height \in 1 .. maxHeight /\ maxHeight \in 1..MaxHeight
      /\ p \in Nodes /\ p < k /\ p # k /\ Written(p, l) /\ Beyond(x, k)
      /\ inserting \in Insertions /\ k \in Nat /\ p \in Nat /\ p \in inserted \union {head_}
  BY <1>1, Underway
<1>3. Garbage \notin Keys /\ Nil \notin Keys /\ head_ \notin Keys /\ Nil # Garbage
  BY DEF SkipListAssumption, NilAssumption, Nodes, Garbage, head_
<1>4. /\ next \in [Nodes -> [Levels -> Keys \union {Nil, Garbage}]] /\ k \in Nodes
      /\ next' \in [Nodes -> [Levels -> Keys \union {Nil, Garbage}]]
      /\ \A n \in Nodes, j \in Levels :
           next'[n][j] = IF n = p /\ j = l THEN k ELSE next[n][j]
  BY <1>1, <1>2 DEF ListInv, ListTypes, Nodes
<1>5. /\ inserting.height <= maxHeight /\ next[k][l] = x
      /\ \A j \in Levels : Written(k, j) <=> j < l \/ j = l
      /\ \A j \in 0..inserting.height - 1 :
           inserting.prev[j] \in inserted \union {head_} /\ inserting.prev[j] < k /\ Written(inserting.prev[j], j)
      /\ \A j \in l..inserting.height - 1 : Beyond(next[inserting.prev[j]][j], k)
      /\ \A j \in 0..l - 1 : k \in Linked(j)
  BY <1>1 DEF ListInv, InsertionIsRight
<1>6. /\ MaxHeight \in Nat /\ 0 \in Levels /\ l \in Nat
      /\ \A j \in 0..inserting.height - 1 : j \in Levels
      /\ \A j \in Levels : j \in Nat /\ (j > 0 => j - 1 \in Levels)
  BY <1>2 DEF Levels, SkipListAssumption
<1>7. /\ inserting' # Nil =>
           /\ inserting'.key = k /\ inserting'.level = l + 1 /\ ~inserting'.set
           /\ inserting'.prev = inserting.prev /\ inserting'.height = inserting.height
           /\ inserting' \in Insertions /\ l + 1 < inserting.height /\ inserted' = inserted
      /\ inserting' = Nil => inserted' = inserted \union {k}
  <2>1. CASE inserting' = Nil /\ inserted' = inserted \union {k}
    BY <2>1
  <2>2. CASE /\ l + 1 # inserting.height /\ inserted' = inserted
             /\ inserting' = [inserting EXCEPT !.level = l + 1, !.set = FALSE]
    <3>1. l + 1 < inserting.height /\ l + 1 \in Levels
      BY <1>2, <1>6, <2>2 DEF Levels
    <3>2. inserting' \in Insertions BY <1>2, <2>2, <3>1 DEF Insertions
    <3> QED BY <1>2, <2>2, <3>1, <3>2 DEF NilAssumption, Insertions
  <2> QED BY <1>1, <2>1, <2>2
<1> HIDE DEF k, l, p, x
<1>8. \A n \in Nodes, j \in Levels : Written(n, j)' <=> Written(n, j)
  BY <1>2, <1>3, <1>4 DEF Written
<1>9. \A j \in Levels : Linked(j)' = Linked(j) \union IF j = l THEN {k} ELSE {}
  <2>1. ASSUME NEW j \in Levels, NEW n \in Linked(j)'
        PROVE  n \in Linked(j) \/ (j = l /\ n = k)
    <3>1. PICK m \in Nodes : next'[m][j] = n /\ n \in Keys
      BY <2>1 DEF Linked, Nodes
    <3> QED BY <1>4, <3>1 DEF Linked, Nodes
  <2>2. ASSUME NEW j \in Levels, NEW n \in Linked(j) PROVE n \in Linked(j)'
    <3>1. PICK m \in Nodes : next[m][j] = n /\ n \in Keys
      BY <2>2 DEF Linked, Nodes
    <3>2. CASE m = p /\ j = l
      \* The key's node has taken the link over.
      <4>1. next'[k][l] = n BY <1>2, <1>4, <1>5, <3>1, <3>2 DEF x
      <4> QED BY <1>4, <3>1, <3>2, <4>1 DEF Linked, Nodes
    <3>3. CASE ~(m = p /\ j = l)
      BY <1>4, <3>1, <3>3 DEF Linked, Nodes
    <3> QED BY <3>2, <3>3
  <2>3. ASSUME NEW j \in Levels, j = l PROVE k \in Linked(j)'
    <3>1. next'[p][j] = k BY <1>2, <1>4, <2>3
    <3> QED BY <1>2, <3>1 DEF Linked, Nodes
  <2> QED BY <2>1, <2>2, <2>3
<1>10. ListTypes'
  <2>1. inserted' \in SUBSET Keys
    BY <1>2, <1>7 DEF ListInv, ListTypes
  <2>2. inserting' # Nil => inserting.prev \in [0..inserting.height - 1 -> Nodes]
    BY <1>1 DEF ListInv, ListTypes
  <2> QED BY <1>1, <1>2, <1>4, <1>7, <2>1, <2>2 DEF ListTypes
<1>11. AbsentIsUnwritten'
  <2>1. \A n \in Keys \ inserted, j \in Levels : n # k => ~Written(n, j)
    BY <1>1 DEF ListInv, AbsentIsUnwritten, k
  <2> QED BY <1>7, <1>8, <2>1 DEF AbsentIsUnwritten, Nodes
<1>12. InsertionIsRight'
  <2> SUFFICES ASSUME inserting' # Nil PROVE InsertionIsRight'
    BY DEF InsertionIsRight
  <2>1. \A j \in l + 1 .. inserting.height - 1 : j \in 0 .. inserting.height - 1 /\ j \in l..inserting.height - 1
    BY <1>2
  <2>2. \A j \in 0..inserting.height - 1 : inserting.prev[j] \in Nodes
    BY <1>10, <1>7 DEF ListTypes
  <2>3. \A j \in 0..inserting.height - 1 : next'[inserting.prev[j]][j] # Garbage
    <3> TAKE j \in 0..inserting.height - 1
    <3>1. j \in Levels /\ inserting.prev[j] \in Nodes /\ next[inserting.prev[j]][j] # Garbage
      BY <1>5, <1>6, <2>2 DEF Written
    <3>2. k # Garbage BY <1>2, <1>3
    <3> QED BY <1>4, <3>1, <3>2
  <2>4. \A j \in l + 1..inserting.height - 1 : j # l
    BY <1>6
  <2>5. \A j \in l + 1..inserting.height - 1 : Beyond(next'[inserting.prev[j]][j], k)
    BY <1>4, <1>5, <1>6, <2>1, <2>2, <2>4
  <2>6. \A j \in Levels : next'[k][j] # Garbage <=> j < l + 1
    <3>1. \A j \in Levels : next'[k][j] # Garbage <=> j < l \/ j = l
      BY <1>2, <1>4, <1>5 DEF Written
    <3>2. \A j \in Levels : j < l + 1 <=> j < l \/ j = l
      BY <1>6
    <3> QED BY <3>1, <3>2
  <2>7. \A j \in 0..l : k \in Linked(j)'
    <3> SUFFICES ASSUME NEW j \in 0..l PROVE k \in Linked(j)' OBVIOUS
    <3>1. j \in Levels BY <1>2, <1>6
    <3>2. j = l \/ j \in 0..l - 1
      BY <1>6
    <3> QED BY <1>5, <1>9, <3>1, <3>2
  <2>8. (l + 1) - 1 = l
    BY <1>6
  <2> QED
    BY <1>1, <1>2, <1>5, <1>7, <2>3, <2>5, <2>6, <2>7, <2>8 DEF InsertionIsRight, Written, Beyond
<1>13. HeadIsWritten'
  BY <1>8 DEF ListInv, HeadIsWritten, Nodes
<1>14. AboveIsEmpty'
  <2>1. l < maxHeight
    BY <1>2, <1>6
  <2> QED BY <1>1, <1>2, <1>4, <1>6, <2>1 DEF ListInv, AboveIsEmpty, Nodes
<1>15. LinkedIsWritten'
  <2>1. Written(k, l)
    BY <1>2, <1>5
  <2>2. \A m \in Nodes, j \in Levels : next'[m][j] \in Keys => Written(next'[m][j], j)
    BY <1>4, <2>1 DEF ListInv, LinkedIsWritten
  <2>3. \A n \in Nodes, j \in Levels : Written(n, j) => next'[n][j] # Garbage
    BY <1>8 DEF Written
  <2> QED BY <2>2, <2>3 DEF LinkedIsWritten, Nodes, Written
<1>16. WrittenBelow'
  BY <1>6, <1>8 DEF ListInv, WrittenBelow
<1>17. Ascending'
  BY <1>2, <1>4 DEF ListInv, Ascending
<1>18. Sublists'
  <2>1. l > 0 => k \in Linked(l - 1)
    <3>1. l > 0 => l - 1 \in 0..l - 1 BY <1>6
    <3> QED BY <1>5, <3>1
  <2> QED BY <1>2, <1>6, <1>9, <2>1 DEF ListInv, Sublists
<1>19. InsertedIsLinked'
  <2>1. k \in Linked(0)'
    <3>1. l = 0 \/ 0 \in 0..l - 1
      BY <1>6
    <3> QED BY <1>5, <1>6, <1>9, <3>1
  <2> QED BY <1>6, <1>7, <1>9, <2>1 DEF ListInv, InsertedIsLinked
<1>20. NoGaps'
  <2> SUFFICES ASSUME NEW m \in Nodes, NEW b \in Linked(0)', Written(m, 0)', b > m
               PROVE  next'[m][0] \in Keys /\ next'[m][0] <= b
    BY DEF NoGaps
  <2>1. Written(m, 0) /\ (b \in Linked(0) \/ (l = 0 /\ b = k))
    BY <1>6, <1>8, <1>9
  <2>2. b \in Nat /\ m \in Nat /\ head_ = 0
    BY <2>1, <1>2 DEF Linked, SkipListAssumption, Nodes, head_
  <2>3. CASE m = p /\ l = 0
    <3>1. next'[m][0] = k BY <1>4, <1>6, <2>3
    <3>2. CASE b = k
      BY <1>2, <3>1, <3>2
    <3>3. CASE b \in Linked(0)
      <4>1. x \in Keys /\ x <= b
        BY <1>6, <2>1, <2>3, <3>3 DEF ListInv, NoGaps, x
      <4>2. x > k /\ x \in Nat
        BY <1>2, <1>3, <4>1 DEF Beyond, SkipListAssumption
      <4> QED BY <1>2, <2>2, <3>1, <4>1, <4>2
    <3> QED BY <2>1, <3>2, <3>3
  <2>4. CASE ~(m = p /\ l = 0) /\ b \in Linked(0)
    BY <1>4, <1>6, <2>1, <2>4 DEF ListInv, NoGaps
  <2>5. CASE m # p /\ l = 0 /\ b = k
    \* A node below the new key and not its predecessor lies below its predecessor.
    <3>1. next'[m][0] = next[m][0] BY <1>4, <1>6, <2>5
    <3>2. m = head_ \/ m \in inserted
      <4>1. m # k BY <2>2, <2>5
      <4> QED BY <1>1, <1>6, <2>1, <4>1 DEF ListInv, AbsentIsUnwritten, Nodes, k
    <3>3. CASE m < p
      <4>1. p \in Linked(0) BY <1>2, <2>2, <3>3 DEF ListInv, InsertedIsLinked
      <4>2. next[m][0] \in Keys /\ next[m][0] <= p
        BY <1>2, <2>1, <3>3, <4>1 DEF ListInv, NoGaps
      <4>3. next[m][0] \in Nat BY <4>2 DEF SkipListAssumption
      <4> QED BY <1>2, <2>5, <3>1, <4>2, <4>3
    <3>4. CASE m > p
      <4>1. m \in Linked(0) BY <1>2, <2>2, <3>2, <3>4 DEF ListInv, InsertedIsLinked
      <4>2. x \in Keys /\ x <= m
        BY <1>2, <1>6, <2>5, <3>4, <4>1 DEF ListInv, NoGaps, x
      <4>3. x > k /\ x \in Nat
        BY <1>2, <1>3, <4>2 DEF Beyond, SkipListAssumption
      <4> QED BY <1>2, <2>2, <2>5, <4>2, <4>3
    <3> QED BY <1>2, <2>2, <2>5, <3>3, <3>4
  <2> QED BY <2>1, <2>3, <2>4, <2>5
<1> QED
  BY <1>8, <1>10, <1>11, <1>12, <1>13, <1>14, <1>15, <1>16, <1>17, <1>18, <1>19, <1>20 DEF ListInv

\* A step of a reader leaves the list alone, and no step of the writer unwrites a link.
LEMMA ListStep ==
  ASSUME SkipListAssumption, NilAssumption, ListInv, [Next]_vars
  PROVE  /\ ListInv' /\ inserted \subseteq inserted'
         /\ \A n \in Nodes, l \in Levels : Written(n, l) => Written(n, l)'
<1>1. ASSUME NEW k \in Keys, NEW h \in 1..MaxHeight, BeginInsert(k, h)
      PROVE  /\ ListInv' /\ inserted \subseteq inserted'
             /\ \A n \in Nodes, l \in Levels : Written(n, l) => Written(n, l)'
  BY <1>1, BeginInsertStep DEF BeginInsert, Written
<1>2. ASSUME SetLink
      PROVE  /\ ListInv' /\ inserted \subseteq inserted'
             /\ \A n \in Nodes, l \in Levels : Written(n, l) => Written(n, l)'
  <2>1. ListInv' /\ inserted' = inserted
    BY <1>2, SetLinkStep DEF SetLink
  <2>2. /\ inserting # Nil /\ ~inserting.set
        /\ next' = [next EXCEPT ![inserting.key][inserting.level] =
                      next[inserting.prev[inserting.level]][inserting.level]]
    BY <1>2 DEF SetLink
  <2>3. ~Written(inserting.key, inserting.level)
    BY <2>2, Underway DEF ListInv, InsertionIsRight
  <2>4. \A n \in Nodes, l \in Levels :
          ~(n = inserting.key /\ l = inserting.level) => next'[n][l] = next[n][l]
    BY <2>2 DEF ListInv, ListTypes
  <2> QED BY <2>1, <2>3, <2>4 DEF Written
<1>3. ASSUME Publish
      PROVE  /\ ListInv' /\ inserted \subseteq inserted'
             /\ \A n \in Nodes, l \in Levels : Written(n, l) => Written(n, l)'
  BY <1>3, PublishStep DEF Publish
<1>4. ASSUME UNCHANGED <<next, maxHeight, inserting, inserted>>
      PROVE  /\ ListInv' /\ inserted \subseteq inserted'
             /\ \A n \in Nodes, l \in Levels : Written(n, l) => Written(n, l)'
  BY <1>4 DEF ListInv, ListTypes, AbsentIsUnwritten, InsertionIsRight, HeadIsWritten, AboveIsEmpty,
              LinkedIsWritten, WrittenBelow, Ascending, Sublists, InsertedIsLinked, NoGaps,
              Written, Linked, Beyond
<1>5. ASSUME NEW r \in Readers, NEW kind, NEW k, BeginSearch(r, kind, k)
      PROVE  UNCHANGED <<next, maxHeight, inserting, inserted>>
  BY <1>5 DEF BeginSearch
<1>6. ASSUME NEW r \in Readers, Step(r) PROVE UNCHANGED <<next, maxHeight, inserting, inserted>>
  BY <1>6 DEF Step
<1> QED BY <1>1, <1>2, <1>3, <1>4, <1>5, <1>6 DEF Next, vars

LEMMA ListInvariant ==
  ASSUME SkipListAssumption, NilAssumption PROVE Spec => []ListInv
<1>1. Init => ListInv
  BY ListInit
<1>2. ListInv /\ [Next]_vars => ListInv'
  BY ListStep
<1> QED BY <1>1, <1>2, PTL DEF Spec

\* Whatever the writer has done to an insertion, every list is sorted, ends, and is part of
\* the list below (SkipList::Insert).
THEOREM ListsStaySorted ==
  ASSUME SkipListAssumption, NilAssumption PROVE Spec => []ListsAreSorted
<1>1. ListInv => ListsAreSorted
  <2> SUFFICES ASSUME ListInv, NEW l \in Levels
               PROVE  /\ \A n \in Linked(l) \union {head_} :
                           next[n][l] # Garbage /\ Order(next[n][l]) > n
                      /\ l > 0 => Linked(l) \subseteq Linked(l - 1)
    BY DEF ListsAreSorted
  <2>1. ASSUME NEW n \in Linked(l) \union {head_}
        PROVE  next[n][l] # Garbage /\ Order(next[n][l]) > n
    <3>1. n \in Nodes /\ Written(n, l)
      BY DEF ListInv, LinkedIsWritten, HeadIsWritten, Linked, Nodes
    <3>2. next[n][l] \in Keys \union {Nil} BY <3>1 DEF Written, ListInv, ListTypes
    <3>3. CASE next[n][l] = Nil
      BY <3>1, <3>3, InfiniteIsGreatest DEF Order, Written
    <3>4. CASE next[n][l] \in Keys
      BY <3>1, <3>4 DEF Order, ListInv, Ascending, Written, NilAssumption, Nodes
    <3> QED BY <3>1, <3>2, <3>3, <3>4 DEF Written
  <2> QED BY <2>1 DEF ListInv, Sublists
<1> QED BY <1>1, ListInvariant, PTL

------------------------
(* The searches. *)

Searches ==
  [kind : {Nil, "atLeast", "before", "last"}, target : Nat, node : Nodes, level : Levels,
   busy : BOOLEAN, found : Keys \union {Nil}, before : SUBSET Keys]

\* A search stands at a node before its target whose link it can follow.
Underneath(s) ==
  /\ Written(s.node, s.level) /\ s.node < s.target /\ s.target <= Infinite
  /\ s.kind = "last" => s.target = Infinite

\* What the answer of a search promises.
Answered(s) ==
  IF s.kind = "atLeast"
  THEN /\ Order(s.found) >= s.target
       /\ \A b \in s.before : b >= s.target => Order(s.found) <= b
  ELSE LET at == IF s.found = Nil THEN head_ ELSE s.found IN
       at < s.target /\ \A b \in s.before : b < s.target => b <= at

SearchInv ==
  /\ reader \in [Readers -> Searches]
  /\ \A r \in Readers :
       /\ reader[r].before \subseteq inserted
       /\ reader[r].busy => Underneath(reader[r])
       /\ reader[r].kind # Nil /\ ~reader[r].busy => Answered(reader[r])

\* The numbers of it: a link that is not followed ends at or behind the target.
LEMMA LinkPassesTarget ==
  ASSUME SkipListAssumption, NilAssumption, NEW node \in Nat, NEW target \in Nat,
         NEW n \in Keys \union {Nil}, NEW before \in SUBSET Keys,
         node < target, target <= Infinite, n = Nil \/ ~(n < target),
         \A b \in before : b > node => n \in Keys /\ n <= b
  PROVE  /\ Order(n) >= target
         /\ \A b \in before : b >= target => Order(n) <= b
         /\ \A b \in before : b < target => b <= node
<1>1. Keys \subseteq Nat /\ Nil \notin Keys /\ Infinite \in Nat
  BY InfiniteIsGreatest DEF SkipListAssumption, NilAssumption, Nodes
<1>2. ASSUME NEW b \in before, b > node PROVE n \in Nat /\ n # Nil /\ n <= b /\ b >= target
  <2>1. n \in Keys /\ n <= b
    BY <1>2
  <2>2. n \in Nat /\ n # Nil /\ b \in Nat
    BY <1>1, <2>1
  <2>3. ~(n < target)
    BY <2>2
  <2> QED BY <2>1, <2>2, <2>3
<1>3. Order(n) >= target
  <2>1. CASE n = Nil
    BY <1>1, <2>1 DEF Order
  <2>2. CASE n # Nil
    <3>1. n \in Nat /\ ~(n < target)
      BY <1>1, <2>2
    <3> QED BY <2>2, <3>1 DEF Order
  <2> QED BY <2>1, <2>2
<1>4. ASSUME NEW b \in before, b >= target PROVE Order(n) <= b
  <2>1. b \in Nat
    BY <1>1
  <2>2. b > node
    BY <1>4, <2>1
  <2> QED BY <1>2, <2>2 DEF Order
<1>5. ASSUME NEW b \in before, b < target PROVE b <= node
  <2>1. b \in Nat
    BY <1>1
  <2>2. ~(b >= target)
    BY <1>5, <2>1
  <2>3. ~(b > node)
    BY <1>2, <2>2
  <2> QED BY <2>1, <2>3
<1> QED BY <1>3, <1>4, <1>5

\* The last step of a search.
LEMMA AnswerIsRight ==
  ASSUME SkipListAssumption, NilAssumption, ListInv, NEW s \in Searches,
         s.before \subseteq inserted, Underneath(s), s.level = 0, s.kind # Nil,
         ~GoesOn(s, next[s.node][0])
  PROVE  LET t == [s EXCEPT !.busy = FALSE, !.found = Answer(s, next[s.node][0])] IN
         t \in Searches /\ Answered(t)
<1> DEFINE n == next[s.node][0]
           t == [s EXCEPT !.busy = FALSE, !.found = Answer(s, n)]
<1> SUFFICES t \in Searches /\ Answered(t) OBVIOUS
<1>1. /\ s.node \in Nodes /\ s.target \in Nat /\ s.before \in SUBSET Keys
      /\ s.kind \in {Nil, "atLeast", "before", "last"}
  BY DEF Searches
<1>2. n \in Keys \union {Nil}
  BY <1>1 DEF Underneath, Written, ListInv, ListTypes, Levels, SkipListAssumption
<1>3. /\ Keys \subseteq Nat /\ Nil \notin Keys /\ Nil # head_ /\ head_ = 0 /\ head_ \notin Keys
      /\ Nodes = Keys \union {head_} /\ Infinite \in Nat /\ \A m \in Nodes : m < Infinite
  BY InfiniteIsGreatest DEF SkipListAssumption, NilAssumption, Nodes, head_
<1>4. \A b \in s.before : b > s.node => n \in Keys /\ n <= b
  BY <1>1 DEF Underneath, ListInv, InsertedIsLinked, NoGaps
<1>5. n = Nil \/ ~(n < s.target)
  BY DEF GoesOn
<1>6. s.node \in Nat /\ s.node < s.target /\ s.target <= Infinite
  <2>1. s.node \in Nat
    <3>1. Nodes \subseteq Nat BY <1>3
    <3> QED BY <1>1, <3>1
  <2>2. s.node < s.target /\ s.target <= Infinite
    BY DEF Underneath
  <2> QED BY <2>1, <2>2
<1> HIDE DEF n
<1>7. /\ Order(n) >= s.target
      /\ \A b \in s.before : b >= s.target => Order(n) <= b
      /\ \A b \in s.before : b < s.target => b <= s.node
  BY <1>1, <1>2, <1>4, <1>5, <1>6, LinkPassesTarget
<1>8. Answer(s, n) \in Keys \union {Nil}
  BY <1>1, <1>2, <1>3 DEF Answer
<1>9. /\ t \in Searches /\ t.found = Answer(s, n) /\ t.kind = s.kind /\ t.target = s.target
      /\ t.before = s.before
  BY <1>8 DEF Searches
<1> HIDE DEF t
<1>10. CASE s.kind = "atLeast"
  <2>1. t.found = n
    BY <1>9, <1>10 DEF Answer
  <2> QED BY <1>7, <1>9, <1>10, <2>1 DEF Answered
<1>11. CASE s.kind # "atLeast"
  <2>1. (IF t.found = Nil THEN head_ ELSE t.found) = s.node
    BY <1>1, <1>3, <1>9, <1>11 DEF Answer
  <2> QED BY <1>6, <1>7, <1>9, <1>11, <2>1 DEF Answered
<1> QED BY <1>9, <1>10, <1>11 DEF n

LEMMA StepKeepsSearch ==
  ASSUME SkipListAssumption, NilAssumption, ListInv, SearchInv, NEW r \in Readers, Step(r)
  PROVE  SearchInv'
<1> DEFINE s == reader[r]
           n == next[s.node][s.level]
<1>1. /\ s \in Searches /\ s.busy /\ s.before \subseteq inserted /\ Underneath(s)
      /\ s.node \in Nodes /\ s.level \in Levels
  BY DEF Step, SearchInv, Searches
<1>2. PICK t : reader' = [reader EXCEPT ![r] = t]
               /\ t = IF GoesOn(s, n) THEN [s EXCEPT !.node = n]
                      ELSE IF s.level > 0 THEN [s EXCEPT !.level = @ - 1]
                      ELSE [s EXCEPT !.busy = FALSE, !.found = Answer(s, n)]
  BY DEF Step
<1>3. UNCHANGED <<next, inserted>>
  BY DEF Step
<1>4. /\ t \in Searches /\ t.before \subseteq inserted
      /\ t.busy => Underneath(t)
      /\ t.kind # Nil /\ ~t.busy => Answered(t)
  <2>1. CASE GoesOn(s, n)
    <3>1. n \in Keys \union {Nil, Garbage} /\ n # Nil /\ n # Garbage
      BY <1>1, <2>1 DEF GoesOn, Underneath, Written, ListInv, ListTypes
    <3>2. n \in Keys /\ n \in Nodes /\ Written(n, s.level)
      BY <1>1, <3>1 DEF ListInv, LinkedIsWritten, Nodes
    <3>3. n < s.target
      BY <1>1, <2>1, <3>2, InfiniteIsGreatest DEF GoesOn, Underneath
    <3>4. t = [s EXCEPT !.node = n] BY <1>2, <2>1
    <3> HIDE DEF n, s
    <3>5. /\ t \in Searches /\ t.node = n /\ t.level = s.level /\ t.target = s.target
          /\ t.kind = s.kind /\ t.busy = s.busy /\ t.before = s.before
      BY <1>1, <3>2, <3>4 DEF Searches
    <3> QED BY <1>1, <3>2, <3>3, <3>5 DEF Underneath
  <2>2. CASE ~GoesOn(s, n) /\ s.level > 0
    <3>1. s.level - 1 \in Levels /\ Written(s.node, s.level - 1)
      BY <1>1, <2>2 DEF Underneath, ListInv, WrittenBelow, Levels, SkipListAssumption
    <3>2. t = [s EXCEPT !.level = s.level - 1] BY <1>2, <2>2
    <3> HIDE DEF n, s
    <3>3. /\ t \in Searches /\ t.node = s.node /\ t.level = s.level - 1 /\ t.target = s.target
          /\ t.kind = s.kind /\ t.busy = s.busy /\ t.before = s.before
      BY <1>1, <3>1, <3>2 DEF Searches
    <3> QED BY <1>1, <3>1, <3>3 DEF Underneath
  <2>3. CASE ~GoesOn(s, n) /\ ~(s.level > 0)
    <3>1. s.level = 0 BY <1>1, <2>3 DEF Levels, SkipListAssumption
    <3>2. t = [s EXCEPT !.busy = FALSE, !.found = Answer(s, next[s.node][0])]
      BY <1>2, <2>3, <3>1
    <3>3. CASE s.kind # Nil
      <4>1. t \in Searches /\ Answered(t)
        BY <1>1, <2>3, <3>1, <3>2, <3>3, AnswerIsRight
      <4>2. t.before = s.before /\ ~t.busy
        BY <1>1, <3>2 DEF Searches
      <4> QED BY <1>1, <4>1, <4>2
    <3>4. CASE s.kind = Nil
      <4>1. Answer(s, next[s.node][0]) \in Keys \union {Nil}
        BY <1>1, <3>1
        DEF Answer, Underneath, Written, ListInv, ListTypes, Nodes
      <4> HIDE DEF n, s
      <4>2. t \in Searches /\ t.before = s.before /\ ~t.busy /\ t.kind = Nil
        BY <1>1, <3>2, <3>4, <4>1 DEF Searches
      <4> QED BY <1>1, <4>2
    <3> QED BY <3>3, <3>4
  <2> QED BY <2>1, <2>2, <2>3
<1>5. reader' \in [Readers -> Searches]
  BY <1>2, <1>4 DEF SearchInv
<1>6. \A q \in Readers : reader'[q] = IF q = r THEN t ELSE reader[q]
  BY <1>2 DEF SearchInv
<1> HIDE DEF n, s
<1>7. \A q \in Readers :
        /\ reader'[q].before \subseteq inserted
        /\ reader'[q].busy =>
             /\ next[reader'[q].node][reader'[q].level] # Garbage
             /\ reader'[q].node < reader'[q].target /\ reader'[q].target <= Infinite
             /\ reader'[q].kind = "last" => reader'[q].target = Infinite
        /\ reader'[q].kind # Nil /\ ~reader'[q].busy => Answered(reader'[q])
  <2> TAKE q \in Readers
  <2>1. CASE q = r
    BY <1>4, <1>6, <2>1 DEF Underneath, Written
  <2>2. CASE q # r
    BY <1>6, <2>2 DEF SearchInv, Underneath, Written
  <2> QED BY <2>1, <2>2
<1> QED BY <1>3, <1>5, <1>7 DEF SearchInv, Underneath, Written, Answered, Order

\* A search begins at the head, whose links are written at every level.
LEMMA BeginKeepsSearch ==
  ASSUME SkipListAssumption, NilAssumption, ListInv, SearchInv,
         NEW r \in Readers, NEW kind \in {"atLeast", "before", "last"}, NEW k \in Nat,
         0 < k, k <= Infinite, kind = "last" => k = Infinite, BeginSearch(r, kind, k)
  PROVE  SearchInv'
<1>1. PICK h \in 1..maxHeight :
        reader' = [reader EXCEPT ![r] =
          [kind |-> kind, target |-> k, node |-> head_, level |-> h - 1,
           busy |-> TRUE, found |-> Nil, before |-> inserted]]
  BY DEF BeginSearch
<1>2. UNCHANGED <<next, inserted>>
  BY DEF BeginSearch
<1>3. h - 1 \in Levels
  BY DEF ListInv, ListTypes, Levels, SkipListAssumption
<1> DEFINE t == [kind |-> kind, target |-> k, node |-> head_, level |-> h - 1,
                 busy |-> TRUE, found |-> Nil, before |-> inserted]
<1>4. t \in Searches
  BY <1>3 DEF Searches, ListInv, ListTypes, Nodes
<1>5. /\ t.kind = kind /\ t.target = k /\ t.node = head_ /\ t.level = h - 1 /\ t.busy
      /\ t.before = inserted
  OBVIOUS
<1>6. reader' = [reader EXCEPT ![r] = t]
  BY <1>1
<1> HIDE DEF t
<1>7. Underneath(t)
  <2>1. Written(head_, h - 1)
    BY <1>3 DEF ListInv, HeadIsWritten
  <2>2. head_ < k
    BY DEF head_
  <2> QED BY <1>5, <2>1, <2>2 DEF Underneath
<1>8. reader' \in [Readers -> Searches]
  BY <1>4, <1>6 DEF SearchInv
<1>9. \A q \in Readers : reader'[q] = IF q = r THEN t ELSE reader[q]
  BY <1>6 DEF SearchInv
<1>10. \A q \in Readers :
        /\ reader'[q].before \subseteq inserted
        /\ reader'[q].busy =>
             /\ next[reader'[q].node][reader'[q].level] # Garbage
             /\ reader'[q].node < reader'[q].target /\ reader'[q].target <= Infinite
             /\ reader'[q].kind = "last" => reader'[q].target = Infinite
        /\ reader'[q].kind # Nil /\ ~reader'[q].busy => Answered(reader'[q])
  <2> TAKE q \in Readers
  <2>1. CASE q = r
    BY <1>5, <1>7, <1>9, <2>1 DEF Underneath, Written
  <2>2. CASE q # r
    BY <1>9, <2>2 DEF SearchInv, Underneath, Written
  <2> QED BY <2>1, <2>2
<1> QED BY <1>2, <1>8, <1>10 DEF SearchInv, Underneath, Written, Answered, Order

\* The writer disturbs no search: it unwrites no link and removes no key.
LEMMA WriterKeepsSearch ==
  ASSUME SearchInv, reader' = reader, inserted \subseteq inserted',
         \A n \in Nodes, l \in Levels : Written(n, l) => Written(n, l)'
  PROVE  SearchInv'
<1>1. ASSUME NEW q \in Readers
      PROVE  /\ reader[q].before \subseteq inserted'
             /\ reader[q].busy =>
                  /\ next'[reader[q].node][reader[q].level] # Garbage
                  /\ reader[q].node < reader[q].target /\ reader[q].target <= Infinite
                  /\ reader[q].kind = "last" => reader[q].target = Infinite
             /\ reader[q].kind # Nil /\ ~reader[q].busy => Answered(reader[q])
  <2>1. reader[q].node \in Nodes /\ reader[q].level \in Levels
    BY DEF SearchInv, Searches
  <2>2. Written(reader[q].node, reader[q].level)
          => next'[reader[q].node][reader[q].level] # Garbage
    BY <2>1 DEF Written
  <2> QED BY <2>2 DEF SearchInv, Underneath
<1> QED BY <1>1 DEF SearchInv, Underneath, Written, Answered, Order

LEMMA SearchInit == ASSUME SkipListAssumption, NilAssumption, Init PROVE SearchInv
<1>1. 0 \in Levels /\ head_ \in Nodes /\ 0 \in Nat
  BY DEF Levels, SkipListAssumption, Nodes, head_
<1> QED BY <1>1 DEF Init, SearchInv, Searches

LEMMA SearchStep ==
  ASSUME SkipListAssumption, NilAssumption, ListInv, SearchInv, [Next]_vars
  PROVE  SearchInv'
<1>1. /\ inserted \subseteq inserted'
      /\ \A n \in Nodes, l \in Levels : Written(n, l) => Written(n, l)'
  BY ListStep
<1>2. ASSUME reader' = reader PROVE SearchInv'
  BY <1>1, <1>2, WriterKeepsSearch
<1>3. Infinite \in Nat /\ Keys \subseteq Nat \ {0} /\ \A n \in Nodes : n < Infinite
  BY InfiniteIsGreatest DEF SkipListAssumption
<1>4. 0 < Infinite
  BY <1>3 DEF Nodes, head_
<1>5. ASSUME NEW r \in Readers, NEW k \in Keys,
             BeginSearch(r, "atLeast", k) \/ BeginSearch(r, "before", k)
      PROVE  SearchInv'
  <2>1. k \in Nat /\ 0 < k /\ k <= Infinite
    BY <1>3 DEF Nodes
  <2> QED BY <1>5, <2>1, BeginKeepsSearch
<1>6. ASSUME NEW r \in Readers, BeginSearch(r, "last", Infinite) PROVE SearchInv'
  <2>1. Infinite <= Infinite
    BY <1>3
  <2> QED BY <1>3, <1>4, <1>6, <2>1, BeginKeepsSearch
<1>7. ASSUME NEW r \in Readers, Step(r) PROVE SearchInv'
  BY <1>7, StepKeepsSearch
<1>8. ASSUME NEW k \in Keys, NEW h \in 1..MaxHeight, BeginInsert(k, h) PROVE SearchInv'
  BY <1>2, <1>8 DEF BeginInsert
<1>9. ASSUME SetLink PROVE SearchInv'
  BY <1>2, <1>9 DEF SetLink
<1>10. ASSUME Publish PROVE SearchInv'
  BY <1>2, <1>10 DEF Publish
<1>11. ASSUME UNCHANGED vars PROVE SearchInv'
  BY <1>2, <1>11 DEF vars
<1> QED BY <1>5, <1>6, <1>7, <1>8, <1>9, <1>10, <1>11 DEF Next

LEMMA SearchInvariant ==
  ASSUME SkipListAssumption, NilAssumption PROVE Spec => [](ListInv /\ SearchInv)
<1>1. Init => ListInv /\ SearchInv
  BY ListInit, SearchInit
<1>2. ListInv /\ SearchInv /\ [Next]_vars => (ListInv /\ SearchInv)'
  BY ListStep, SearchStep
<1> QED BY <1>1, <1>2, PTL DEF Spec

\* Every link is a node, the null pointer or unwritten memory, and a reader stands at a node.
THEOREM ListTypeCorrect ==
  ASSUME SkipListAssumption, NilAssumption PROVE Spec => []TypeOK
<1>1. ListInv /\ SearchInv => TypeOK
  <2> SUFFICES ASSUME ListInv, SearchInv PROVE TypeOK OBVIOUS
  <2>1. \A n \in Keys \union {head_}, l \in Levels : next[n][l] \in Keys \union {Nil, Garbage}
    BY DEF ListInv, ListTypes, Nodes
  <2>2. \A r \in Readers : reader[r].node \in Keys \union {head_}
    BY DEF SearchInv, Searches, Nodes
  <2> QED BY <2>1, <2>2 DEF TypeOK, ListInv, ListTypes
<1> QED BY <1>1, SearchInvariant, PTL

\* However far the writer has come, and whatever the height a search started from, a reader
\* follows no link that has not been written (FindGreaterOrEqual, FindLessThan, FindLast).
THEOREM ReadersSeeNoGarbage ==
  ASSUME SkipListAssumption, NilAssumption PROVE Spec => []NoReaderSeesGarbage
<1>1. SearchInv => NoReaderSeesGarbage
  BY DEF SearchInv, Underneath, Written, NoReaderSeesGarbage
<1> QED BY <1>1, SearchInvariant, PTL

\* A search that ended answers by every key that was in the list when it began, with whatever
\* the writer has inserted since (Seek, Prev and SeekToLast of the iterator, Contains).
THEOREM SearchesAreRight ==
  ASSUME SkipListAssumption, NilAssumption PROVE Spec => []SearchesSeeWhatWasThere
<1>1. SearchInv => SearchesSeeWhatWasThere
  BY DEF SearchInv, Answered, SearchesSeeWhatWasThere
<1> QED BY <1>1, SearchInvariant, PTL

\* The three together: a reader without a lock sees written links and sorted lists, and
\* misses nothing that was there before.
THEOREM ListStaysConsistent ==
  ASSUME SkipListAssumption, NilAssumption PROVE Spec => []ListIsConsistent
<1>1. NoReaderSeesGarbage /\ ListsAreSorted /\ SearchesSeeWhatWasThere => ListIsConsistent
  BY DEF ListIsConsistent
<1> QED BY <1>1, ReadersSeeNoGarbage, ListsStaySorted, SearchesAreRight, PTL

------------------------
(* The environment: an instance with constants and variables of its own.   *)

CONSTANTS Users, MaxMmaps, MaxOpenFiles, MaxItems, MaxOpens
VARIABLES queue_, background, scheduled, ran, file, descriptors, allowed, opens

Env == INSTANCE PosixEnv

Places == {"none", "opened", "mapTried", "notMapped", "mapping", "mapped", "fdTried",
           "descriptor", "unlimited", "temporary", "reading"}

\* The items that ran and the items that wait, position by position.
InOrder(r, q, n) ==
  /\ r \in Seq(Nat) /\ q \in Seq(Nat) /\ n \in Nat
  /\ Len(r) + Len(q) = n
  /\ \A i \in 1..Len(r) : r[i] = i
  /\ \A i \in 1..Len(q) : q[i] = Len(r) + i

WorkInv == InOrder(ran, queue_, scheduled)

FileInv ==
  /\ file \in [Users -> Places]
  /\ allowed \in [map : Int, fd : Int]
  /\ descriptors \subseteq Users
  /\ Env!LimitsHold

------------------------
(* The background thread. *)

LEMMA OrderAfterSchedule ==
  ASSUME NEW r, NEW q, NEW n, InOrder(r, q, n)
  PROVE  InOrder(r, Append(q, n + 1), n + 1)
<1> USE DEF InOrder
<1>1. Len(Append(q, n + 1)) = Len(q) + 1 /\ Append(q, n + 1) \in Seq(Nat) OBVIOUS
<1>2. Len(r) \in Nat /\ Len(q) \in Nat
  BY LenProperties
<1>3. n + 1 = Len(r) + (Len(q) + 1)
  BY <1>2
<1>4. Append(q, n + 1)[Len(q) + 1] = n + 1 OBVIOUS
<1>5. ASSUME NEW i \in 1..Len(q) + 1 PROVE Append(q, n + 1)[i] = Len(r) + i
  <2>1. CASE i = Len(q) + 1
    BY <1>3, <1>4, <2>1, Zenon
  <2>2. CASE i # Len(q) + 1
    <3>1. i \in 1..Len(q) BY <1>2, <2>2
    <3> QED BY <3>1
  <2> QED BY <2>1, <2>2
<1> QED BY <1>1, <1>2, <1>5

LEMMA OrderAfterTake ==
  ASSUME NEW r, NEW q, NEW n, InOrder(r, q, n), q # << >>
  PROVE  InOrder(Append(r, Head(q)), Tail(q), n)
<1> USE DEF InOrder
<1>1. /\ Head(q) \in Nat /\ Tail(q) \in Seq(Nat) /\ Len(Tail(q)) = Len(q) - 1
      /\ \A i \in 1..Len(Tail(q)) : Tail(q)[i] = q[i + 1]
  BY HeadTailProperties
<1>2. Len(r) \in Nat /\ Len(q) \in Nat /\ Len(q) > 0
  BY LenProperties, EmptySeq
<1>3. Head(q) = Len(r) + 1
  BY <1>2
<1>4. Len(Append(r, Head(q))) = Len(r) + 1 /\ Append(r, Head(q)) \in Seq(Nat)
  BY <1>1
<1>5. ASSUME NEW i \in 1..Len(r) + 1 PROVE Append(r, Head(q))[i] = i
  <2>1. CASE i = Len(r) + 1
    BY <1>2, <1>3, <2>1
  <2>2. CASE i # Len(r) + 1
    <3>1. i \in 1..Len(r) BY <1>2, <2>2
    <3> QED BY <3>1
  <2> QED BY <2>1, <2>2
<1>6. ASSUME NEW i \in 1..Len(q) - 1 PROVE Tail(q)[i] = Len(r) + 1 + i
  <2>1. i + 1 \in 1 .. Len(q) /\ i \in 1..Len(Tail(q))
    BY <1>1, <1>2
  <2> QED BY <1>1, <1>2, <2>1
<1>7. Len(r) + Len(q) = n /\ n \in Nat OBVIOUS
<1>8. PICK after, left : after = Append(r, Head(q)) /\ left = Tail(q) OBVIOUS
<1>9. after \in Seq(Nat) /\ Len(after) = Len(r) + 1
  BY <1>4, <1>8, Zenon
<1>10. left \in Seq(Nat) /\ Len(left) = Len(q) - 1
  BY <1>1, <1>8, Zenon
<1>11. \A i \in 1..Len(r) + 1 : after[i] = i
  BY <1>5, <1>8, Zenon
<1>12. \A i \in 1..Len(q) - 1 : left[i] = Len(r) + 1 + i
  BY <1>6, <1>8, Zenon
<1> HIDE DEF InOrder
<1>13. Len(after) + Len(left) = n
  <2>1. \A a, b, c \in Nat : a + b = c => (a + 1) + (b - 1) = c OBVIOUS
  <2>2. (Len(r) + 1) + (Len(q) - 1) = n
    BY <1>2, <1>7, <2>1, Zenon
  <2> QED BY <1>9, <1>10, <2>2, Zenon
<1>14. \A i \in 1..Len(after) : after[i] = i
  BY <1>9, <1>11
<1>15. \A i \in 1..Len(left) : left[i] = Len(after) + i
  BY <1>9, <1>10, <1>12
<1>16. InOrder(after, left, n)
  BY <1>7, <1>13, <1>14, <1>15, <1>9, <1>10 DEF InOrder
<1> QED BY <1>8, <1>16

LEMMA WorkStep == ASSUME Env!EnvAssumption, WorkInv, [Env!Next]_Env!vars PROVE WorkInv'
<1> USE DEF WorkInv
<1>1. CASE Env!Schedule
  BY <1>1, OrderAfterSchedule DEF Env!Schedule
<1>2. CASE Env!TakeItem
  BY <1>2, OrderAfterTake DEF Env!TakeItem
<1>3. CASE Env!Wait \/ Env!WakeUp \/ Env!ItemReturns
  BY <1>3 DEF Env!Wait, Env!WakeUp, Env!ItemReturns
<1>4. ASSUME NEW u \in Users, Env!Open(u) \/ Env!Opening(u) \/ Env!BeginRead(u) \/ Env!EndRead(u) \/ Env!Destroy(u)
      PROVE  WorkInv'
  BY <1>4 DEF Env!Open, Env!Opening, Env!Try, Env!AcquireMap, Env!AcquireDescriptor, Env!Map, Env!CloseUnlimited,
              Env!BeginRead, Env!EndRead, Env!Destroy, Env!work
<1>5. CASE UNCHANGED Env!vars
  BY <1>5 DEF Env!vars, Env!work
<1> QED BY <1>1, <1>2, <1>3, <1>4, <1>5 DEF Env!Next

\* What the background thread ran and what waits for it are the scheduled items in
\* their order, each once (PosixEnv::Schedule, BackgroundThreadMain).
THEOREM WorkRunsInOrder == ASSUME Env!EnvAssumption PROVE Env!Spec => []Env!WorkInOrder
<1>1. Env!Init => WorkInv
  BY DEF Env!Init, WorkInv, InOrder
<1>2. WorkInv /\ [Env!Next]_Env!vars => WorkInv'
  BY WorkStep
<1>3. WorkInv => Env!WorkInOrder
  <2> SUFFICES ASSUME WorkInv PROVE ran \o queue_ = [i \in 1..scheduled |-> i]
    BY DEF Env!WorkInOrder
  <2>1. ran \o queue_ \in Seq(Nat) /\ Len(ran \o queue_) = scheduled
    BY DEF WorkInv, InOrder
  <2>2. \A i \in 1..scheduled : (ran \o queue_)[i] = i
    BY <2>1 DEF WorkInv, InOrder
  <2>3. ran \o queue_ = [i \in 1..Len(ran \o queue_) |-> (ran \o queue_)[i]]
    BY <2>1, LenProperties
  <2> QED BY <2>1, <2>2, <2>3
<1> QED BY <1>1, <1>2, <1>3, PTL DEF Env!Spec

------------------------
(* The limits. *)

\* The instance counts as this module does.
LEMMA SameCardinality == \A S : Env!Cardinality(S) = Cardinality(S)
BY DEF Env!Cardinality, Cardinality

LEMMA InIsNat == ASSUME IsFiniteSet(Users), NEW P PROVE Env!In(P) \in Nat
BY SameCardinality, FS_Subset, FS_CardinalityType, {u \in Users : file[u] \in P} \subseteq Users DEF Env!In

\* One user's move changes the number of users at the places P by at most one.
LEMMA InAfterMove ==
  ASSUME IsFiniteSet(Users), file \in [Users -> Places],
         NEW u \in Users, NEW P, NEW place \in Places, Env!Goto(u, place)
  PROVE  Env!In(P)' = Env!In(P) + (IF place \in P THEN 1 ELSE 0) - (IF file[u] \in P THEN 1 ELSE 0)
<1> DEFINE at == {q \in Users : file[q] \in P}
           after == {q \in Users : file'[q] \in P}
<1>1. IsFiniteSet(at) /\ Cardinality(at) \in Nat
  BY FS_Subset, FS_CardinalityType, at \subseteq Users
<1>2. after = IF place \in P THEN at \union {u} ELSE at \ {u}
  BY DEF Env!Goto
<1>3. Cardinality(at \union {u}) = IF u \in at THEN Cardinality(at) ELSE Cardinality(at) + 1
  BY <1>1, FS_AddElement
<1>4. Cardinality(at \ {u}) = IF u \in at THEN Cardinality(at) - 1 ELSE Cardinality(at)
  BY <1>1, FS_RemoveElement
<1>5. u \in at <=> file[u] \in P OBVIOUS
<1>6. Env!In(P) = Cardinality(at) /\ Env!In(P)' = Cardinality(after)
  BY SameCardinality DEF Env!In
<1> HIDE DEF at, after
<1> QED BY <1>1, <1>2, <1>3, <1>4, <1>5, <1>6

\* Destroy in two facts, for the steps that count.
LEMMA AfterDestroy ==
  ASSUME FileInv, NEW u \in Users, Env!Destroy(u)
  PROVE  /\ file[u] = "mapped" => allowed' = [allowed EXCEPT !.map = @ + 1]
         /\ file[u] = "descriptor" => allowed' = [allowed EXCEPT !.fd = @ + 1]
         /\ file[u] = "temporary" => allowed' = allowed
<1>1. /\ "mapped" # "descriptor" /\ "mapped" # "temporary" /\ "descriptor" # "temporary"
  OBVIOUS
<1> QED BY <1>1, Zenon DEF Env!Destroy

LEMMA AfterTry ==
  ASSUME NEW u \in Users, Env!Try(u)
  PROVE  /\ file[u] \in {"opened", "notMapped"}
         /\ \E place \in {"mapTried", "notMapped", "fdTried", "unlimited"} : Env!Goto(u, place)
         /\ UNCHANGED <<descriptors, allowed>>
BY Zenon DEF Env!Try

LEMMA FileStep ==
  ASSUME Env!EnvAssumption, IsFiniteSet(Users), FileInv, [Env!Next]_Env!vars
  PROVE  FileInv'
<1> USE DEF Env!EnvAssumption, FileInv, Env!LimitsHold, Places
<1>0. \A P : Env!In(P) \in Nat
  BY InIsNat
<1>1. CASE Env!Schedule \/ Env!TakeItem \/ Env!Wait \/ Env!WakeUp \/ Env!ItemReturns
  BY <1>1 DEF Env!Schedule, Env!TakeItem, Env!Wait, Env!WakeUp, Env!ItemReturns, Env!files, Env!In
<1>2. ASSUME NEW u \in Users, NEW place \in Places, Env!Goto(u, place),
             allowed' \in [map : Int, fd : Int], allowed'.map >= 0, allowed'.fd >= 0,
             allowed'.map + (IF place \in {"mapping", "mapped"} THEN 1 ELSE 0)
               = allowed.map + (IF file[u] \in {"mapping", "mapped"} THEN 1 ELSE 0),
             allowed'.fd + (IF place \in {"descriptor"} THEN 1 ELSE 0)
               = allowed.fd + (IF file[u] \in {"descriptor"} THEN 1 ELSE 0),
             \/ descriptors' = descriptors \ {u}
             \/ /\ descriptors' \subseteq descriptors \union {u}
                /\ place \notin {"none", "mapped", "temporary"}
      PROVE  FileInv'
  \* Whatever moves a user keeps the limits when the units follow the moves.
  <2>1. Env!In({"mapping", "mapped"})' = Env!In({"mapping", "mapped"})
          + (IF place \in {"mapping", "mapped"} THEN 1 ELSE 0)
          - (IF file[u] \in {"mapping", "mapped"} THEN 1 ELSE 0)
    BY <1>2, InAfterMove
  <2>2. Env!In({"descriptor"})' = Env!In({"descriptor"})
          + (IF place \in {"descriptor"} THEN 1 ELSE 0)
          - (IF file[u] \in {"descriptor"} THEN 1 ELSE 0)
    BY <1>2, InAfterMove
  <2>3. /\ allowed'.map + Env!In({"mapping", "mapped"})' = MaxMmaps
        /\ allowed'.fd + Env!In({"descriptor"})' = MaxOpenFiles
    BY <1>0, <1>2, <2>1, <2>2
  <2>4. file' \in [Users -> Places] /\ descriptors' \subseteq Users
    BY <1>2 DEF Env!Goto
  <2>5. \A q \in descriptors' : file'[q] \notin {"none", "mapped", "temporary"}
    BY <1>2, <2>4 DEF Env!Goto
  <2> QED BY <1>2, <2>3, <2>4, <2>5
<1>3. ASSUME NEW u \in Users, Env!Open(u) PROVE FileInv'
  <2>1. CASE Env!Goto(u, "opened") /\ descriptors' = descriptors \union {u}
    BY <1>2, <1>3, <2>1 DEF Env!Open
  <2>2. CASE UNCHANGED <<file, descriptors>>
    BY <1>3, <2>2 DEF Env!Open, Env!In
  <2> QED BY <1>3, <2>1, <2>2 DEF Env!Open
<1>4. ASSUME NEW u \in Users, Env!Try(u) PROVE FileInv'
  BY <1>2, <1>4, AfterTry
<1>5. ASSUME NEW u \in Users, Env!AcquireMap(u) PROVE FileInv'
  BY <1>2, <1>5 DEF Env!AcquireMap
<1>6. ASSUME NEW u \in Users, Env!AcquireDescriptor(u) PROVE FileInv'
  BY <1>2, <1>6 DEF Env!AcquireDescriptor
<1>7. ASSUME NEW u \in Users, Env!Map(u) PROVE FileInv'
  BY <1>2, <1>7 DEF Env!Map
<1>8. ASSUME NEW u \in Users, Env!CloseUnlimited(u) \/ Env!BeginRead(u) \/ Env!EndRead(u) PROVE FileInv'
  BY <1>2, <1>8 DEF Env!CloseUnlimited, Env!BeginRead, Env!EndRead
<1>9. ASSUME NEW u \in Users, Env!Destroy(u) PROVE FileInv'
  <2>1. /\ file[u] \in {"mapped", "descriptor", "temporary"}
        /\ Env!Goto(u, "none") /\ descriptors' = descriptors \ {u}
    BY <1>9, Zenon DEF Env!Destroy
  <2> QED BY <1>2, <1>9, <2>1, AfterDestroy
<1>10. CASE UNCHANGED Env!vars
  BY <1>10 DEF Env!vars, Env!files, Env!In
<1> QED BY <1>1, <1>3, <1>4, <1>5, <1>6, <1>7, <1>8, <1>9, <1>10 DEF Env!Next, Env!Opening

\* However many users race through the unlocked loads of Limiter::Acquire, no more maps
\* and descriptors are out than the limits, every unit comes back, and a descriptor
\* beyond them lasts only as long as a call.
THEOREM LimitsAlwaysHold ==
  ASSUME Env!EnvAssumption, IsFiniteSet(Users) PROVE Env!Spec => []Env!LimitsHold
<1>1. Env!Init => FileInv
  <2> SUFFICES ASSUME Env!Init PROVE FileInv OBVIOUS
  <2>1. {u \in Users : file[u] \in {"mapping", "mapped"}} = {}
    BY DEF Env!Init
  <2>2. {u \in Users : file[u] \in {"descriptor"}} = {}
    BY DEF Env!Init
  <2>3. Env!In({"mapping", "mapped"}) = 0 /\ Env!In({"descriptor"}) = 0
    BY <2>1, <2>2, FS_EmptySet, SameCardinality DEF Env!In
  <2> QED BY <2>3 DEF Env!Init, Env!EnvAssumption, FileInv, Env!LimitsHold, Places
<1>2. FileInv /\ [Env!Next]_Env!vars => FileInv'
  BY FileStep
<1>3. FileInv => Env!LimitsHold
  BY DEF FileInv
<1> QED BY <1>1, <1>2, <1>3, PTL DEF Env!Spec

------------------------
(* The lock: an instance with variables of its own, the descriptors of the *)
(* lock file among them.                                                   *)

CONSTANTS Openers, Processes, Homes, MaxCalls
VARIABLES home, pc, locked, locked_files_, kernel, calls

Lock == INSTANCE FileLock WITH descriptors <- locked

\* From the insertion to the removal an opener owns its process's entry of the table.
InTable(o) == pc[o] \in {"inserted", "holding", "refused", "closed", "unlocked"}

EntryIsThere == \A o \in Openers : InTable(o) => home[o] \in locked_files_
EntryIsOwned ==
  \A o, q \in Openers : InTable(o) /\ InTable(q) /\ home[o] = home[q] => o = q

TableInv == Lock!TypeOK /\ EntryIsThere /\ EntryIsOwned

\* A holder's process has the kernel's lock, as long as no two openers share a process.
Alone == \A o, q \in Openers : home[o] = home[q] => o = q
HolderHasKernel == Alone => \A o \in Lock!Holders : kernel = home[o]
KernelInv == TableInv /\ HolderHasKernel

\* Nothing is taken without a call under way or a holder that gives it back: the kernel's
\* lock has a holder in its process, the entry of the table an owner, the descriptor an
\* opener that has still to close it.
KernelHasHolder == kernel # Nil => \E o \in Lock!Holders : home[o] = kernel
EntryHasOwner == \A p \in locked_files_ : \E o \in Openers : InTable(o) /\ home[o] = p
DescriptorIsInUse == \A o \in locked : pc[o] \notin {"idle", "closed"}
OwnedInv == KernelHasHolder /\ EntryHasOwner /\ DescriptorIsInUse

------------------------
LEMMA LockTypeInit == ASSUME Lock!LockAssumption PROVE Lock!Init => Lock!TypeOK
BY DEF Lock!LockAssumption, Lock!Init, Lock!TypeOK

LEMMA LockTypeStep ==
  ASSUME Lock!LockAssumption, Lock!TypeOK, [Lock!Next]_Lock!vars PROVE Lock!TypeOK'
<1> USE DEF Lock!LockAssumption, Lock!TypeOK, Lock!Goto
<1>1. ASSUME NEW o \in Openers, Lock!Open(o) PROVE Lock!TypeOK'
  BY <1>1 DEF Lock!Open
<1>2. ASSUME NEW o \in Openers, Lock!Unlock(o) PROVE Lock!TypeOK'
  BY <1>2 DEF Lock!Unlock
<1>3. ASSUME NEW o \in Openers, Lock!InsertInTable(o) PROVE Lock!TypeOK'
  BY <1>3 DEF Lock!InsertInTable
<1>4. ASSUME NEW o \in Openers, Lock!Lock(o) PROVE Lock!TypeOK'
  BY <1>4 DEF Lock!Lock
<1>5. ASSUME NEW o \in Openers, Lock!Close(o) PROVE Lock!TypeOK'
  BY <1>5 DEF Lock!Close
<1>6. ASSUME NEW o \in Openers, Lock!Remove(o) PROVE Lock!TypeOK'
  BY <1>6 DEF Lock!Remove
<1>7. ASSUME NEW p \in Processes, Lock!ProcessDies(p) PROVE Lock!TypeOK'
  BY <1>7 DEF Lock!ProcessDies
<1>8. CASE UNCHANGED Lock!vars
  BY <1>8 DEF Lock!vars
<1> QED BY <1>1, <1>2, <1>3, <1>4, <1>5, <1>6, <1>7, <1>8 DEF Lock!Next, Lock!Step

LEMMA TableStep ==
  ASSUME Lock!LockAssumption, TableInv, [Lock!Next]_Lock!vars
  PROVE  EntryIsThere' /\ EntryIsOwned'
<1> USE DEF Lock!LockAssumption, TableInv, Lock!TypeOK, EntryIsThere, EntryIsOwned, InTable,
            Lock!Goto
<1>1. ASSUME NEW o \in Openers, Lock!Open(o) PROVE EntryIsThere' /\ EntryIsOwned'
  BY <1>1 DEF Lock!Open
<1>2. ASSUME NEW o \in Openers, Lock!Unlock(o) PROVE EntryIsThere' /\ EntryIsOwned'
  BY <1>2 DEF Lock!Unlock
<1>3. ASSUME NEW o \in Openers, Lock!InsertInTable(o) PROVE EntryIsThere' /\ EntryIsOwned'
  BY <1>3 DEF Lock!InsertInTable
<1>4. ASSUME NEW o \in Openers, Lock!Lock(o) PROVE EntryIsThere' /\ EntryIsOwned'
  BY <1>4 DEF Lock!Lock
<1>5. ASSUME NEW o \in Openers, Lock!Close(o) PROVE EntryIsThere' /\ EntryIsOwned'
  BY <1>5 DEF Lock!Close
<1>6. ASSUME NEW o \in Openers, Lock!Remove(o) PROVE EntryIsThere' /\ EntryIsOwned'
  \* The entry goes with the only opener that owned it.
  BY <1>6 DEF Lock!Remove
<1>7. ASSUME NEW p \in Processes, Lock!ProcessDies(p) PROVE EntryIsThere' /\ EntryIsOwned'
  BY <1>7 DEF Lock!ProcessDies
<1>8. CASE UNCHANGED Lock!vars
  BY <1>8 DEF Lock!vars
<1> QED BY <1>1, <1>2, <1>3, <1>4, <1>5, <1>6, <1>7, <1>8 DEF Lock!Next, Lock!Step

LEMMA TableInvariant == ASSUME Lock!LockAssumption PROVE Lock!Spec => []TableInv
<1>1. Lock!Init => TableInv
  BY LockTypeInit DEF Lock!Init, TableInv, EntryIsThere, EntryIsOwned, InTable
<1>2. TableInv /\ [Lock!Next]_Lock!vars => TableInv'
  BY LockTypeStep, TableStep DEF TableInv
<1> QED BY <1>1, <1>2, PTL DEF Lock!Spec

LEMMA KernelStep ==
  ASSUME Lock!LockAssumption, Nil \notin Processes, KernelInv, [Lock!Next]_Lock!vars
  PROVE  HolderHasKernel'
<1> USE DEF Lock!LockAssumption, KernelInv, TableInv, Lock!TypeOK, HolderHasKernel,
            Lock!Holders, Alone, Lock!Goto
<1>1. ASSUME NEW o \in Openers, Lock!Open(o) PROVE HolderHasKernel'
  BY <1>1 DEF Lock!Open
<1>2. ASSUME NEW o \in Openers, Lock!Unlock(o) PROVE HolderHasKernel'
  BY <1>2 DEF Lock!Unlock
<1>3. ASSUME NEW o \in Openers, Lock!InsertInTable(o) PROVE HolderHasKernel'
  BY <1>3 DEF Lock!InsertInTable
<1>4. ASSUME NEW o \in Openers, Lock!Lock(o) PROVE HolderHasKernel'
  \* Another holder's process has the kernel's lock, so this call is refused.
  BY <1>4 DEF Lock!Lock
<1>5. ASSUME NEW o \in Openers, Lock!Close(o) PROVE HolderHasKernel'
  BY <1>5 DEF Lock!Close
<1>6. ASSUME NEW o \in Openers, Lock!Remove(o) PROVE HolderHasKernel'
  BY <1>6 DEF Lock!Remove
<1>7. ASSUME NEW p \in Processes, Lock!ProcessDies(p) PROVE HolderHasKernel'
  BY <1>7 DEF Lock!ProcessDies
<1>8. CASE UNCHANGED Lock!vars
  BY <1>8 DEF Lock!vars
<1> QED BY <1>1, <1>2, <1>3, <1>4, <1>5, <1>6, <1>7, <1>8 DEF Lock!Next, Lock!Step

\* Who gives the lock, the entry or the descriptor back is the one who had it.
LEMMA OwnedStep ==
  ASSUME Lock!LockAssumption, TableInv, OwnedInv, [Lock!Next]_Lock!vars PROVE OwnedInv'
<1> USE DEF Lock!LockAssumption, TableInv, Lock!TypeOK, EntryIsThere, EntryIsOwned, InTable,
            OwnedInv, KernelHasHolder, EntryHasOwner, DescriptorIsInUse, Lock!Holders,
            Lock!Goto
<1>1. ASSUME NEW o \in Openers, Lock!Open(o) PROVE OwnedInv'
  BY <1>1 DEF Lock!Open
<1>2. ASSUME NEW o \in Openers, Lock!Unlock(o) PROVE OwnedInv'
  BY <1>2 DEF Lock!Unlock
<1>3. ASSUME NEW o \in Openers, Lock!InsertInTable(o) PROVE OwnedInv'
  BY <1>3 DEF Lock!InsertInTable
<1>4. ASSUME NEW o \in Openers, Lock!Lock(o) PROVE OwnedInv'
  BY <1>4 DEF Lock!Lock
<1>5. ASSUME NEW o \in Openers, Lock!Close(o) PROVE OwnedInv'
  BY <1>5 DEF Lock!Close
<1>6. ASSUME NEW o \in Openers, Lock!Remove(o) PROVE OwnedInv'
  BY <1>6 DEF Lock!Remove
<1>7. ASSUME NEW p \in Processes, Lock!ProcessDies(p) PROVE OwnedInv'
  BY <1>7 DEF Lock!ProcessDies
<1>8. CASE UNCHANGED Lock!vars
  BY <1>8 DEF Lock!vars
<1> QED BY <1>1, <1>2, <1>3, <1>4, <1>5, <1>6, <1>7, <1>8 DEF Lock!Next, Lock!Step

------------------------
\* LockFile, UnlockFile and the death of a process leave every variable within its type.
THEOREM LockTypeCorrect == ASSUME Lock!LockAssumption PROVE Lock!Spec => []Lock!TypeOK
<1>1. TableInv => Lock!TypeOK
  BY DEF TableInv
<1> QED BY <1>1, TableInvariant, PTL

\* Two threads of one process never hold the database together, in whatever order they
\* lock, are refused, unlock and close (PosixLockTable).
THEOREM TableKeepsThreadsApart ==
  ASSUME Lock!LockAssumption PROVE Lock!Spec => []Lock!OneHolderPerProcess
<1>1. TableInv => Lock!OneHolderPerProcess
  BY DEF TableInv, EntryIsOwned, InTable, Lock!OneHolderPerProcess, Lock!Holders
<1> QED BY <1>1, TableInvariant, PTL

\* Processes that use the file from one thread each never hold it together (fcntl).
THEOREM KernelKeepsProcessesApart ==
  ASSUME Lock!LockAssumption, Nil \notin Processes PROVE Lock!Spec => []Lock!OneHolderAmongProcesses
<1>1. Lock!Init => HolderHasKernel
  BY DEF Lock!Init, HolderHasKernel, Lock!Holders
<1>2. KernelInv /\ [Lock!Next]_Lock!vars => HolderHasKernel'
  BY KernelStep
<1>3. KernelInv => Lock!OneHolderAmongProcesses
  BY DEF KernelInv, HolderHasKernel, Alone, Lock!Holders, Lock!OneHolderAmongProcesses
<1>4. Lock!Spec => []HolderHasKernel
  BY <1>1, <1>2, TableInvariant, PTL DEF Lock!Spec, KernelInv
<1> QED BY <1>3, <1>4, TableInvariant, PTL DEF KernelInv

\* Whatever call failed and whichever process died, once every opener is out of LockFile
\* and UnlockFile and holds nothing the file is free in the table, in the kernel and of
\* descriptors: a database is never left locked by nobody.
THEOREM LockIsFreeWhenIdle == ASSUME Lock!LockAssumption PROVE Lock!Spec => []Lock!FreeWhenIdle
<1>1. Lock!Init => OwnedInv
  BY DEF Lock!Init, OwnedInv, KernelHasHolder, EntryHasOwner, DescriptorIsInUse
<1>2. TableInv /\ OwnedInv /\ [Lock!Next]_Lock!vars => OwnedInv'
  BY OwnedStep
<1>3. TableInv /\ OwnedInv => Lock!FreeWhenIdle
  BY DEF TableInv, Lock!TypeOK, OwnedInv, KernelHasHolder, EntryHasOwner, DescriptorIsInUse,
         InTable, Lock!Holders, Lock!FreeWhenIdle
<1> QED BY <1>1, <1>2, <1>3, TableInvariant, PTL DEF Lock!Spec

------------------------
(* The table cache: an instance with constants and variables of its own.   *)

CONSTANTS Threads, Files, Capacity, MinBuckets, MaxInserts
VARIABLES cache, phase, wanted, held

Cache == INSTANCE TableCache WITH pc <- phase


\* The sequence s has every element of S once.
Lists(s, S) ==
  /\ s \in Seq(S)
  /\ \A x \in S : \E i \in 1..Len(s) : s[i] = x
  /\ \A i, j \in 1..Len(s) : s[i] = s[j] => i = j

LEMMA ListsNothing == Lists(<< >>, {})
BY DEF Lists

LEMMA ListsAppended ==
  ASSUME NEW S, NEW s, Lists(s, S), NEW x, x \notin S
  PROVE  Lists(Append(s, x), S \union {x})
<1> DEFINE t == Append(s, x)
<1>1. s \in Seq(S \union {x}) /\ s \in Seq(S)
  BY DEF Lists
<1>2. t \in Seq(S \union {x}) /\ Len(t) = Len(s) + 1 /\ t[Len(s) + 1] = x
      /\ \A i \in 1 .. Len(s) : t[i] = s[i] /\ s[i] \in S
  BY <1>1
<1>3. Len(s) \in Nat
  BY <1>1
<1> HIDE DEF t
<1>4. ASSUME NEW y \in S \union {x} PROVE \E i \in 1..Len(t) : t[i] = y
  <2>1. CASE y = x
    <3>1. Len(s) + 1 \in 1..Len(t) BY <1>2, <1>3
    <3> QED BY <3>1, <1>2, <2>1
  <2>2. CASE y \in S
    <3>1. PICK i \in 1..Len(s) : s[i] = y BY <2>2 DEF Lists
    <3> QED BY <3>1, <1>2, <1>3
  <2> QED BY <2>1, <2>2
<1>5. ASSUME NEW i \in 1..Len(t), NEW j \in 1..Len(t), t[i] = t[j] PROVE i = j
  <2>1. CASE i \in 1 .. Len(s) /\ j \in 1..Len(s)
    BY <2>1, <1>2, <1>5 DEF Lists
  <2>2. CASE i = Len(s) + 1 \/ j = Len(s) + 1
    BY <2>2, <1>2, <1>3, <1>5
  <2> QED BY <2>1, <2>2, <1>2, <1>3
<1> QED BY <1>2, <1>4, <1>5 DEF Lists, t

LEMMA ListsPrepended ==
  ASSUME NEW S, NEW s, Lists(s, S), NEW x, x \notin S
  PROVE  Lists(<<x>> \o s, S \union {x})
<1> DEFINE t == <<x>> \o s
<1>1. s \in Seq(S \union {x}) /\ s \in Seq(S) /\ <<x>> \in Seq(S \union {x})
  BY DEF Lists
<1>2. t \in Seq(S \union {x}) /\ Len(t) = Len(s) + 1 /\ t[1] = x
      /\ \A i \in 1 .. Len(s) : t[i + 1] = s[i] /\ s[i] \in S
  BY <1>1
<1>3. Len(s) \in Nat
  BY <1>1
<1> HIDE DEF t
<1>4. ASSUME NEW y \in S \union {x} PROVE \E i \in 1..Len(t) : t[i] = y
  <2>1. CASE y = x
    <3>1. 1 \in 1..Len(t) BY <1>2, <1>3
    <3> QED BY <3>1, <1>2, <2>1
  <2>2. CASE y \in S
    <3>1. PICK i \in 1..Len(s) : s[i] = y BY <2>2 DEF Lists
    <3>2. i + 1 \in 1..Len(t) BY <1>2, <1>3
    <3> QED BY <3>1, <3>2, <1>2
  <2> QED BY <2>1, <2>2
<1>5. ASSUME NEW i \in 1..Len(t), NEW j \in 1..Len(t), t[i] = t[j] PROVE i = j
  <2>1. CASE i # 1 /\ j # 1
    <3>1. i - 1 \in 1 .. Len(s) /\ j - 1 \in 1 .. Len(s) /\ (i - 1) + 1 = i /\ (j - 1) + 1 = j
      BY <2>1, <1>2, <1>3
    <3>2. s[i - 1] = s[j - 1]
      <4>1. t[(i - 1) + 1] = s[i - 1] /\ t[(j - 1) + 1] = s[j - 1]
        BY <1>2, <3>1
      <4> QED BY <4>1, <3>1, <1>5
    <3>3. i - 1 = j - 1 BY <3>1, <3>2 DEF Lists
    <3> QED BY <3>3
  <2>2. CASE i = 1 /\ j # 1
    <3>1. j - 1 \in 1 .. Len(s) /\ (j - 1) + 1 = j
      BY <2>2, <1>2, <1>3
    <3> QED BY <3>1, <1>2, <2>2, <1>5
  <2>3. CASE j = 1 /\ i # 1
    <3>1. i - 1 \in 1 .. Len(s) /\ (i - 1) + 1 = i
      BY <2>3, <1>2, <1>3
    <3> QED BY <3>1, <1>2, <2>3, <1>5
  <2> QED BY <2>1, <2>2, <2>3
<1> QED BY <1>2, <1>4, <1>5 DEF Lists, t

LEMMA ListsRemovedAt ==
  ASSUME NEW S, NEW s, Lists(s, S), NEW k \in 1..Len(s)
  PROVE  Lists(Cache!RemoveAt(s, k), S \ {s[k]})
<1> DEFINE t == Cache!RemoveAt(s, k)
           from(i) == IF i < k THEN i ELSE i + 1
<1>1. s \in Seq(S) /\ Len(s) \in Nat
  BY DEF Lists
<1>2. Len(t) = Len(s) - 1 /\ \A i \in 1 .. Len(t) : t[i] = s[from(i)] /\ from(i) \in 1..Len(s)
  <2> DEFINE a == SubSeq(s, 1, k - 1)
             b == SubSeq(s, k + 1, Len(s))
  <2>1. a \in Seq(S) /\ Len(a) = k - 1 /\ \A i \in 1..k - 1 : a[i] = s[i]
    BY <1>1
  <2>2. b \in Seq(S) /\ Len(b) = Len(s) - k /\ \A i \in 1..Len(s) - k : b[i] = s[k + i]
    BY <1>1
  <2>3. t = a \o b
    BY DEF Cache!RemoveAt
  <2> HIDE DEF a, b, t
  <2>4. Len(t) = Len(s) - 1
    BY <2>1, <2>2, <2>3, <1>1
  <2>5. ASSUME NEW i \in 1 .. Len(t) PROVE t[i] = s[from(i)] /\ from(i) \in 1..Len(s)
    <3>1. CASE i < k
      BY <2>1, <2>2, <2>3, <2>4, <1>1, <3>1
    <3>2. CASE ~(i < k)
      <4>1. i - (k - 1) \in 1 .. Len(s) - k /\ k + (i - (k - 1)) = i + 1 /\ i + 1 \in 1..Len(s)
        BY <3>2, <2>4, <1>1
      <4>2. t[i] = b[i - (k - 1)] BY <2>1, <2>2, <2>3, <2>4, <1>1, <3>2, <4>1
      <4>3. b[i - (k - 1)] = s[k + (i - (k - 1))] BY <2>2, <4>1
      <4> QED BY <4>1, <4>2, <4>3, <3>2
    <3> QED BY <3>1, <3>2
  <2> QED BY <2>4, <2>5
<1>3. t \in Seq(S)
  <2>1. SubSeq(s, 1, k - 1) \in Seq(S) /\ SubSeq(s, k + 1, Len(s)) \in Seq(S)
    BY <1>1
  <2> QED BY <2>1 DEF Cache!RemoveAt
<1> HIDE DEF t
<1>4. \A i \in 1..Len(t) : from(i) # k
  BY <1>1, <1>2
<1>5. \A i \in 1..Len(t) : t[i] \in S \ {s[k]}
  <2> TAKE i \in 1..Len(t)
  <2>1. t[i] = s[from(i)] /\ from(i) \in 1 .. Len(s) /\ from(i) # k
    BY <1>2, <1>4
  <2>2. PICK j \in 1 .. Len(s) : t[i] = s[j] /\ j # k
    BY <2>1, Zenon
  <2>3. s[j] \in S /\ s[j] # s[k]
    BY <2>2, <1>1 DEF Lists
  <2> QED BY <2>2, <2>3
<1>6. t \in Seq(S \ {s[k]})
  <2>1. t = [i \in 1 .. Len(t) |-> t[i]] /\ Len(t) \in Nat
    BY <1>3
  <2>2. t \in [1..Len(t) -> S \ {s[k]}]
    BY <2>1, <1>5
  <2> QED BY <2>1, <2>2, SeqDef
<1>7. ASSUME NEW y \in S \ {s[k]} PROVE \E i \in 1..Len(t) : t[i] = y
  <2>1. PICK i \in 1..Len(s) : s[i] = y
    BY DEF Lists
  <2>2. i # k
    BY <2>1
  <2>3. CASE i < k
    <3>1. i \in 1 .. Len(t) /\ from(i) = i
      BY <2>3, <1>2, <1>1
    <3> QED BY <3>1, <1>2, <2>1
  <2>4. CASE i > k
    <3>1. i - 1 \in 1 .. Len(t) /\ from(i - 1) = i
      BY <2>4, <1>2, <1>1
    <3>2. t[i - 1] = s[from(i - 1)] BY <3>1, <1>2
    <3> QED BY <3>1, <3>2, <2>1
  <2> QED BY <2>2, <2>3, <2>4, <1>1
<1>8. ASSUME NEW i \in 1..Len(t), NEW j \in 1..Len(t), t[i] = t[j] PROVE i = j
  <2>1. s[from(i)] = s[from(j)] /\ from(i) \in 1 .. Len(s) /\ from(j) \in 1..Len(s)
    BY <1>2, <1>8
  <2>2. from(i) = from(j)
    <3> HIDE DEF from
    <3> QED BY <2>1 DEF Lists
  <2> QED BY <2>2, <1>1, <1>2
<1> QED BY <1>6, <1>7, <1>8 DEF Lists, t

LEMMA ListsRemoved ==
  ASSUME NEW S, NEW s, Lists(s, S), NEW x
  PROVE  Lists(Cache!RemoveFirst(s, x), S \ {x})
<1>1. CASE \E i \in 1..Len(s) : s[i] = x
  <2> DEFINE I == {i \in 1..Len(s) : s[i] = x}
  <2>1. PICK k \in I : \A y \in I : k <= y
    <3>1. Len(s) \in Nat BY DEF Lists
    <3>2. I \subseteq Nat /\ I # {}
      BY <1>1, <3>1
    <3> HIDE DEF I
    <3> QED BY <3>2, LeastNatural
  <2>2. Cache!Min(I) \in I
    BY <2>1 DEF Cache!Min
  <2>3. Cache!SelectInSeq(s, LAMBDA v : v = x) = Cache!Min(I)
    BY <2>1 DEF Cache!SelectInSeq
  <2>4. Cache!RemoveFirst(s, x) = Cache!RemoveAt(s, Cache!Min(I))
    BY <1>1, <2>3 DEF Cache!RemoveFirst
  <2>5. Cache!Min(I) \in 1 .. Len(s) /\ s[Cache!Min(I)] = x
    BY <2>2
  <2> QED BY <2>4, <2>5, ListsRemovedAt
<1>2. CASE ~ \E i \in 1..Len(s) : s[i] = x
  <2>1. S \ {x} = S
    BY <1>2 DEF Lists
  <2> QED BY <2>1, <1>2 DEF Cache!RemoveFirst
<1> QED BY <1>1, <1>2

LEMMA ListsReplaced ==
  ASSUME NEW S, NEW s, Lists(s, S), NEW k \in 1..Len(s), NEW x, x \notin S
  PROVE  Lists([s EXCEPT ![k] = x], (S \ {s[k]}) \union {x})
<1> DEFINE t == [s EXCEPT ![k] = x]
<1>1. s \in Seq(S) /\ Len(s) \in Nat /\ s \in [1..Len(s) -> S]
  BY DEF Lists
<1>2. t \in [1 .. Len(s) -> (S \ {s[k]}) \union {x}] /\ t[k] = x
      /\ \A i \in 1..Len(s) : i # k => t[i] = s[i]
  BY <1>1 DEF Lists
<1>3. t \in Seq((S \ {s[k]}) \union {x}) /\ Len(t) = Len(s)
  <2>1. t \in Seq((S \ {s[k]}) \union {x})
    <3> DEFINE X == (S \ {s[k]}) \union {x}
    <3>1. t \in [1..Len(s) -> X] BY <1>2
    <3>2. Len(s) \in Nat BY <1>1
    <3> HIDE DEF X, t
    <3>3. t \in Seq(X) BY ONLY <3>1, <3>2, SeqDef
    <3> QED BY <3>3 DEF X, t
  <2> QED BY <2>1, <1>1, <1>2
<1> HIDE DEF t
<1>4. ASSUME NEW y \in (S \ {s[k]}) \union {x} PROVE \E i \in 1..Len(t) : t[i] = y
  <2>1. CASE y = x
    BY <2>1, <1>2, <1>3
  <2>2. CASE y # x
    <3>1. PICK i \in 1..Len(s) : s[i] = y BY <2>2 DEF Lists
    <3> QED BY <3>1, <1>2, <1>3, <2>2
  <2> QED BY <2>1, <2>2
<1>5. ASSUME NEW i \in 1..Len(t), NEW j \in 1..Len(t), t[i] = t[j] PROVE i = j
  BY <1>1, <1>2, <1>3, <1>5 DEF Lists
<1> QED BY <1>3, <1>4, <1>5 DEF Lists, t

LEMMA ListsJoined ==
  ASSUME NEW S, NEW T, NEW s, NEW t, Lists(s, S), Lists(t, T), S \cap T = {}
  PROVE  Lists(s \o t, S \union T)
<1> DEFINE u == s \o t
<1>1. s \in Seq(S \union T) /\ t \in Seq(S \union T) /\ Len(s) \in Nat /\ Len(t) \in Nat
      /\ s \in Seq(S) /\ t \in Seq(T)
  BY DEF Lists
<1>2. u \in Seq(S \union T) /\ Len(u) = Len(s) + Len(t)
      /\ (\A i \in 1 .. Len(s) : u[i] = s[i] /\ s[i] \in S)
      /\ \A i \in 1 .. Len(t) : u[Len(s) + i] = t[i] /\ t[i] \in T
  BY <1>1
<1> HIDE DEF u
<1>3. ASSUME NEW y \in S \union T PROVE \E i \in 1..Len(u) : u[i] = y
  <2>1. CASE y \in S
    <3>1. PICK i \in 1..Len(s) : s[i] = y BY <2>1 DEF Lists
    <3> QED BY <3>1, <1>1, <1>2
  <2>2. CASE y \in T
    <3>1. PICK i \in 1..Len(t) : t[i] = y BY <2>2 DEF Lists
    <3>2. Len(s) + i \in 1..Len(u) BY <1>1, <1>2
    <3> QED BY <3>1, <3>2, <1>2
  <2> QED BY <2>1, <2>2
<1>4. ASSUME NEW i \in 1..Len(u), NEW j \in 1..Len(u), u[i] = u[j] PROVE i = j
  <2>1. \A k \in 1..Len(u) : k > Len(s) =>
          k - Len(s) \in 1 .. Len(t) /\ u[k] = t[k - Len(s)] /\ u[k] \in T
    <3> TAKE k \in 1..Len(u)
    <3> HAVE k > Len(s)
    <3>1. k - Len(s) \in 1 .. Len(t) /\ Len(s) + (k - Len(s)) = k
      BY <1>1, <1>2
    <3>2. u[Len(s) + (k - Len(s))] = t[k - Len(s)] /\ t[k - Len(s)] \in T
      BY <1>2, <3>1
    <3> QED BY <3>1, <3>2
  <2>2. \A k \in 1 .. Len(u) : ~(k > Len(s)) => k \in 1 .. Len(s) /\ u[k] = s[k] /\ u[k] \in S
    BY <1>1, <1>2
  <2>3. CASE i > Len(s) /\ j > Len(s)
    <3>1. t[i - Len(s)] = t[j - Len(s)] /\ i - Len(s) \in 1 .. Len(t) /\ j - Len(s) \in 1..Len(t)
      BY <2>1, <2>3, <1>4
    <3>2. i - Len(s) = j - Len(s) BY <3>1 DEF Lists
    <3> QED BY <3>2, <1>1, <1>2
  <2>4. CASE ~(i > Len(s)) /\ ~(j > Len(s))
    BY <2>2, <2>4, <1>4 DEF Lists
  <2>5. CASE (i > Len(s)) # (j > Len(s))
    BY <2>1, <2>2, <2>5, <1>4
  <2> QED BY <2>3, <2>4, <2>5
<1> QED BY <1>2, <1>3, <1>4 DEF Lists, u

LEMMA ListsCount ==
  ASSUME NEW S, NEW s, Lists(s, S)
  PROVE  IsFiniteSet(S) /\ Cardinality(S) = Len(s) /\ Cache!ToSet(s) = S
<1>1. s \in Seq(S) /\ Len(s) \in Nat /\ DOMAIN s = 1..Len(s)
  BY DEF Lists
<1>2. s \in Bijection(1..Len(s), S)
  <2>1. s \in [1..Len(s) -> S]
    BY <1>1
  <2> QED BY <2>1, <1>1 DEF Lists, Bijection, Injection, Surjection, IsInjective
<1>3. ExistsBijection(1..Len(s), S)
  BY <1>2 DEF ExistsBijection
<1>4. IsFiniteSet(S) /\ Cardinality(S) = Len(s)
  BY <1>1, <1>3, FS_CountingElements, FS_NatBijection
<1>5. Cache!ToSet(s) = S
  BY <1>1 DEF Cache!ToSet, Lists
<1> QED BY <1>4, <1>5

------------------------
Entry == [key : Files, refs : Nat, inCache : BOOLEAN, deletions : Nat]
Shards ==
  [entries : Seq(Entry), lru : Seq(Nat), inUse : Seq(Nat),
   buckets : Seq(Seq(Nat)), elems : Int, usage : Int]

HandlesOf(c) == 1..Len(c.entries)
Cached(c) == {e \in HandlesOf(c) : c.entries[e].inCache}
Chain(c, S, b) == {e \in S : Cache!Bucket(c, Cache!KeyOf(c, e)) = b}

\* The hash table of the shard c has the handles of S, each in the chain of its key.
TableHas(c, S) ==
  /\ Len(c.buckets) > 0 /\ S \subseteq HandlesOf(c)
  /\ \A b \in 1..Len(c.buckets) : Lists(c.buckets[b], Chain(c, S, b))
  /\ \A d, e \in S : Cache!KeyOf(c, d) = Cache!KeyOf(c, e) => d = e
  /\ c.elems = Cardinality(S)

\* The shard d differs from c in the hash table alone.
SameButTable(c, d) ==
  /\ d \in Shards /\ d.entries = c.entries
  /\ d.lru = c.lru /\ d.inUse = c.inUse /\ d.usage = c.usage

LEMMA KeyTypes ==
  ASSUME Cache!CacheAssumption, NEW c \in Shards, NEW e \in HandlesOf(c)
  PROVE  /\ Len(c.entries) \in Nat /\ e \in Nat /\ c.entries[e] \in Entry
         /\ Cache!KeyOf(c, e) \in Files /\ Cache!KeyOf(c, e) \in Nat
<1>1. c.entries \in Seq(Entry)
  BY DEF Shards
<1>2. Len(c.entries) \in Nat /\ e \in 1 .. Len(c.entries) /\ c.entries[e] \in Entry
  BY <1>1 DEF HandlesOf
<1>3. Cache!KeyOf(c, e) \in Files
  BY <1>2 DEF Cache!KeyOf, Entry
<1>4. e \in Nat
  BY <1>2
<1> QED BY <1>2, <1>3, <1>4 DEF Cache!CacheAssumption

LEMMA Remainder == ASSUME NEW a \in Nat, NEW n \in Nat, n > 0 PROVE (a % n) + 1 \in 1..n
OBVIOUS

LEMMA BucketTypes ==
  ASSUME Cache!CacheAssumption, NEW c \in Shards, NEW S, TableHas(c, S), NEW key \in Nat
  PROVE  /\ Len(c.buckets) \in Nat /\ Cache!Bucket(c, key) \in 1..Len(c.buckets)
         /\ c.buckets[Cache!Bucket(c, key)] \in Seq(Nat)
<1>1. c.buckets \in Seq(Seq(Nat)) /\ Len(c.buckets) > 0
  BY DEF Shards, TableHas
<1>2. Len(c.buckets) \in Nat
  BY <1>1
<1>3. (key % Len(c.buckets)) + 1 \in 1..Len(c.buckets)
  BY <1>1, <1>2, Remainder
<1>4. Cache!Bucket(c, key) \in 1..Len(c.buckets)
  BY <1>3 DEF Cache!Bucket
<1> QED BY <1>1, <1>2, <1>4

\* The table finds the handle it has for a key, at its place in the chain.
LEMMA LookupFinds ==
  ASSUME Cache!CacheAssumption, NEW c \in Shards, NEW S, TableHas(c, S), NEW e \in S
  PROVE  LET key == Cache!KeyOf(c, e)
             chain == c.buckets[Cache!Bucket(c, key)]
         IN  /\ Cache!Place(c, key) \in 1 .. Len(chain) /\ chain[Cache!Place(c, key)] = e
             /\ Cache!TableLookup(c, key) = e
<1> DEFINE key == Cache!KeyOf(c, e)
           b == Cache!Bucket(c, key)
           chain == c.buckets[b]
           at == {i \in 1..Len(chain) : Cache!KeyOf(c, chain[i]) = key}
<1>1. e \in HandlesOf(c)
  BY DEF TableHas
<1>2. key \in Nat
  BY <1>1, KeyTypes
<1>3. b \in 1 .. Len(c.buckets) /\ chain \in Seq(Nat)
  <2> HIDE DEF key
  <2> QED BY <1>2, BucketTypes
<1>4. Lists(chain, Chain(c, S, b))
  <2> HIDE DEF b
  <2> QED BY <1>3 DEF TableHas
<1>5. e \in Chain(c, S, b)
  BY DEF Chain
<1>6. PICK k \in 1..Len(chain) : chain[k] = e
  <2> HIDE DEF chain, b
  <2> QED BY <1>4, <1>5 DEF Lists
<1>7. \A i \in at : i = k
  <2> TAKE i \in at
  <2>1. chain[i] \in Chain(c, S, b)
    <3>1. chain \in Seq(Chain(c, S, b)) /\ i \in 1..Len(chain)
      BY <1>4 DEF Lists
    <3> HIDE DEF chain, b
    <3> QED BY <3>1
  <2>2. chain[i] \in S /\ Cache!KeyOf(c, chain[i]) = Cache!KeyOf(c, e)
    BY <2>1 DEF Chain
  <2>3. chain[i] = e
    <3> HIDE DEF chain, b
    <3> QED BY <2>2 DEF TableHas
  <2> HIDE DEF chain, b
  <2> QED BY <1>4, <1>6, <2>3 DEF Lists
<1>8. k \in at
  BY <1>6
<1>9. at = {k}
  <2> HIDE DEF at
  <2> QED BY <1>7, <1>8
<1>10. Cache!Place(c, key) = k
  <2>1. Cache!Place(c, key) = IF at = {} THEN Len(chain) + 1 ELSE Cache!Min(at)
    BY DEF Cache!Place
  <2>2. Cache!Min({k}) = k
    <3>1. k \in Nat
      <4>1. Len(chain) \in Nat BY <1>3
      <4> QED BY <4>1
    <3> HIDE DEF chain
    <3> QED BY <3>1 DEF Cache!Min
  <2> HIDE DEF at, chain, key, b
  <2> QED BY <2>1, <2>2, <1>9
<1>11. Cache!TableLookup(c, key) = IF Cache!Place(c, key) > Len(chain) THEN Nil ELSE chain[Cache!Place(c, key)]
  BY DEF Cache!TableLookup
<1>12. Len(chain) \in Nat
  BY <1>3
<1> HIDE DEF chain, at, key, b
<1>13. Cache!Place(c, key) \in 1 .. Len(chain) /\ chain[Cache!Place(c, key)] = e /\ Cache!TableLookup(c, key) = e
  BY <1>6, <1>10, <1>11, <1>12
<1> QED BY <1>13 DEF chain, key, b

\* For a key the table has no handle of there is nothing to be found, at the end of the chain.
LEMMA LookupMisses ==
  ASSUME Cache!CacheAssumption, NEW c \in Shards, NEW S, TableHas(c, S), NEW key \in Nat,
         \A e \in S : Cache!KeyOf(c, e) # key
  PROVE  Cache!TableLookup(c, key) = Nil
<1> DEFINE b == Cache!Bucket(c, key)
           chain == c.buckets[b]
           at == {i \in 1..Len(chain) : Cache!KeyOf(c, chain[i]) = key}
<1>1. b \in 1 .. Len(c.buckets) /\ chain \in Seq(Nat)
  BY BucketTypes
<1>2. Lists(chain, Chain(c, S, b))
  <2> HIDE DEF b
  <2> QED BY <1>1 DEF TableHas
<1>3. at = {}
  <2> SUFFICES ASSUME NEW i \in at PROVE FALSE OBVIOUS
  <2>1. chain \in Seq(Chain(c, S, b)) /\ i \in 1..Len(chain)
    BY <1>2 DEF Lists
  <2>2. Cache!KeyOf(c, chain[i]) = key OBVIOUS
  <2> HIDE DEF chain, b, at
  <2>3. chain[i] \in S
    BY <2>1 DEF Chain
  <2> QED BY <2>2, <2>3
<1>4. Cache!Place(c, key) = Len(chain) + 1
  <2>1. Cache!Place(c, key) = IF at = {} THEN Len(chain) + 1 ELSE Cache!Min(at)
    BY DEF Cache!Place
  <2> QED BY <2>1, <1>3, Zenon
<1>5. Len(chain) \in Nat
  BY <1>1
<1>6. Cache!TableLookup(c, key) = IF Cache!Place(c, key) > Len(chain) THEN Nil ELSE chain[Cache!Place(c, key)]
  BY DEF Cache!TableLookup
<1> HIDE DEF chain, b, at
<1> QED BY <1>4, <1>5, <1>6

\* What a lookup gives is Nil, or the handle of that key.
LEMMA LookupIs ==
  ASSUME Cache!CacheAssumption, NEW c \in Shards, NEW S, TableHas(c, S), NEW key \in Nat
  PROVE  \/ Cache!TableLookup(c, key) = Nil /\ \A e \in S : Cache!KeyOf(c, e) # key
         \/ Cache!TableLookup(c, key) \in S /\ Cache!KeyOf(c, Cache!TableLookup(c, key)) = key
<1>1. CASE \A e \in S : Cache!KeyOf(c, e) # key
  BY <1>1, LookupMisses
<1>2. ASSUME NEW e \in S, Cache!KeyOf(c, e) = key PROVE Cache!TableLookup(c, key) = e
  BY <1>2, LookupFinds
<1> QED BY <1>1, <1>2

\* What the hash table has depends on the chains and the keys alone.
LEMMA TableHasKept ==
  ASSUME NEW c, NEW d, NEW S, TableHas(c, S),
         d.buckets = c.buckets, d.elems = c.elems, HandlesOf(c) \subseteq HandlesOf(d),
         \A e \in S : Cache!KeyOf(d, e) = Cache!KeyOf(c, e)
  PROVE  TableHas(d, S)
<1>1. ASSUME NEW b \in 1..Len(d.buckets) PROVE Lists(d.buckets[b], Chain(d, S, b))
  <2>1. Chain(d, S, b) = Chain(c, S, b)
    BY DEF Chain, Cache!Bucket
  <2> QED BY <2>1 DEF TableHas
<1>2. Len(d.buckets) > 0 /\ S \subseteq HandlesOf(d) /\ d.elems = Cardinality(S)
  BY DEF TableHas
<1>3. \A x, y \in S : Cache!KeyOf(d, x) = Cache!KeyOf(d, y) => x = y
  BY DEF TableHas
<1> QED BY <1>1, <1>2, <1>3 DEF TableHas

LEMMA HandlesAreFinite ==
  ASSUME Cache!CacheAssumption, NEW c \in Shards, NEW S, S \subseteq HandlesOf(c)
  PROVE  IsFiniteSet(S) /\ Cardinality(S) \in Nat
<1>1. Len(c.entries) \in Nat
  BY DEF Shards
<1>2. IsFiniteSet(HandlesOf(c))
  BY <1>1, FS_Interval DEF HandlesOf
<1> QED BY <1>2, FS_Subset, FS_CardinalityType

\* A table with one chain changed.
LEMMA ChainChanged ==
  ASSUME Cache!CacheAssumption, NEW c \in Shards, NEW S, TableHas(c, S), NEW b \in 1..Len(c.buckets),
         NEW T, T \subseteq HandlesOf(c), NEW chain, Lists(chain, Chain(c, T, b)),
         \A a \in 1..Len(c.buckets) : a # b => Chain(c, T, a) = Chain(c, S, a),
         \A x, y \in T : Cache!KeyOf(c, x) = Cache!KeyOf(c, y) => x = y
  PROVE  LET d == [c EXCEPT !.buckets[b] = chain, !.elems = Cardinality(T)]
         IN  TableHas(d, T) /\ SameButTable(c, d)
<1> DEFINE k == Cardinality(T)
           d == [c EXCEPT !.buckets[b] = chain, !.elems = k]
<1>1. k \in Int
  BY HandlesAreFinite
<1>2. chain \in Seq(Nat)
  <2>1. Chain(c, T, b) \subseteq Nat
    <3>1. HandlesOf(c) \subseteq Nat BY KeyTypes
    <3> QED BY <3>1 DEF Chain
  <2> QED BY <2>1, SeqMonotonic DEF Lists
<1> HIDE DEF k
<1>3. /\ d.buckets = [c.buckets EXCEPT ![b] = chain] /\ d.elems = k
      /\ d.entries = c.entries /\ d.lru = c.lru /\ d.inUse = c.inUse /\ d.usage = c.usage
  BY DEF Shards
<1>4. c.buckets \in Seq(Seq(Nat))
  BY DEF Shards
<1>5. /\ d.buckets \in Seq(Seq(Nat)) /\ Len(d.buckets) = Len(c.buckets)
      /\ d.buckets[b] = chain /\ \A a \in 1..Len(c.buckets) : a # b => d.buckets[a] = c.buckets[a]
  <2> HIDE DEF d
  <2> QED BY <1>2, <1>3, <1>4
<1>6. d \in Shards
  <2>1. d = [c EXCEPT !.buckets = [c.buckets EXCEPT ![b] = chain], !.elems = k]
    BY DEF Shards
  <2>2. [c.buckets EXCEPT ![b] = chain] \in Seq(Seq(Nat))
    <3> HIDE DEF d
    <3> QED BY <1>3, <1>5
  <2> HIDE DEF d
  <2> QED BY <2>1, <2>2, <1>1 DEF Shards
<1> HIDE DEF d
<1>7. ASSUME NEW a \in 1..Len(d.buckets) PROVE Lists(d.buckets[a], Chain(d, T, a))
  <2>1. Chain(d, T, a) = Chain(c, T, a)
    BY <1>3, <1>5 DEF Chain, Cache!Bucket, Cache!KeyOf
  <2>2. CASE a = b
    BY <1>5, <2>1, <2>2
  <2>3. CASE a # b
    BY <2>1, <2>3, <1>5 DEF TableHas
  <2> QED BY <2>2, <2>3
<1>8. Len(d.buckets) > 0 /\ T \subseteq HandlesOf(d)
  BY <1>3, <1>5 DEF TableHas, HandlesOf
<1>9. \A x, y \in T : Cache!KeyOf(d, x) = Cache!KeyOf(d, y) => x = y
  BY <1>3 DEF Cache!KeyOf
<1>10. TableHas(d, T)
  BY <1>3, <1>7, <1>8, <1>9 DEF TableHas, k
<1>11. SameButTable(c, d)
  BY <1>3, <1>6 DEF SameButTable
<1> QED BY <1>10, <1>11 DEF d, k

\* Remove takes the handle of a key out.
LEMMA TableRemoveHas ==
  ASSUME Cache!CacheAssumption, NEW c \in Shards, NEW S, TableHas(c, S), NEW e \in S
  PROVE  LET d == Cache!TableRemove(c, Cache!KeyOf(c, e))
         IN  TableHas(d, S \ {e}) /\ SameButTable(c, d)
<1> DEFINE key == Cache!KeyOf(c, e)
           b == Cache!Bucket(c, key)
           k == Cache!Place(c, key)
           T == S \ {e}
           d == Cache!TableRemove(c, key)
           chain == c.buckets[b]
           shorter == Cache!RemoveAt(chain, k)
<1>1. e \in HandlesOf(c) /\ key \in Nat
  <2>1. e \in HandlesOf(c)
    BY DEF TableHas
  <2> QED BY <2>1, KeyTypes
<1>2. b \in 1..Len(c.buckets)
  <2> HIDE DEF key
  <2> QED BY <1>1, BucketTypes
<1>3. k \in 1 .. Len(chain) /\ chain[k] = e /\ Cache!TableLookup(c, key) = e
  BY LookupFinds
<1>4. e # Nil
  BY <1>1, KeyTypes DEF Cache!CacheAssumption
<1>5. c.elems - 1 = Cardinality(T)
  <2>1. IsFiniteSet(S) /\ c.elems = Cardinality(S)
    BY HandlesAreFinite DEF TableHas
  <2> QED BY <2>1, FS_RemoveElement
<1>6. d = [c EXCEPT !.buckets[b] = shorter, !.elems = Cardinality(T)]
  <2>1. d = [c EXCEPT !.buckets[b] = Cache!RemoveAt(@, k), !.elems = @ - 1]
    BY <1>3, <1>4 DEF Cache!TableRemove
  <2> HIDE DEF d, b, k, T
  <2> QED BY <2>1, <1>2, <1>5 DEF Shards
<1> HIDE DEF k, d
<1>7. Lists(shorter, Chain(c, T, b))
  <2>1. Chain(c, T, b) = Chain(c, S, b) \ {e}
    BY DEF Chain
  <2>2. Lists(chain, Chain(c, S, b))
    BY <1>2 DEF TableHas
  <2> HIDE DEF chain, T, b
  <2> QED BY <2>1, <2>2, <1>3, ListsRemovedAt
<1>8. \A a \in 1..Len(c.buckets) : a # b => Chain(c, T, a) = Chain(c, S, a)
  BY DEF Chain
<1>9. T \subseteq HandlesOf(c) /\ \A x, y \in T : Cache!KeyOf(c, x) = Cache!KeyOf(c, y) => x = y
  BY DEF TableHas
<1>10. TableHas(d, T) /\ SameButTable(c, d)
  <2> HIDE DEF T, b, shorter
  <2> QED BY <1>2, <1>6, <1>7, <1>8, <1>9, ChainChanged
<1> QED BY <1>10 DEF d, key

\* The sequences of a sequence one after the other.
LEMMA FlattenLists ==
  ASSUME NEW seqs \in Seq(Seq(Nat)), Len(seqs) > 0, NEW P,
         \A b \in 1..Len(seqs) : Lists(seqs[b], P[b]),
         \A a, b \in 1..Len(seqs) : a # b => P[a] \cap P[b] = {}
  PROVE  /\ Cache!FlattenSeq(seqs) \in Seq(Nat)
         /\ Lists(Cache!FlattenSeq(seqs), UNION {P[b] : b \in 1..Len(seqs)})
<1> DEFINE n == Len(seqs)
           step == [p \in (1..n) \X Seq(Nat) |-> p[2] \o seqs[p[1]]]
           IsFlat(f) == f = [i \in 1..n |-> IF i = 1 THEN seqs[i] ELSE f[i - 1] \o seqs[i]]
           flat == CHOOSE f : IsFlat(f)
<1>1. n \in Nat /\ n > 0 /\ \A i \in 1..n : seqs[i] \in Seq(Nat) OBVIOUS
<1>2. step \in [(1..n) \X Seq(Nat) -> Seq(Nat)]
  BY <1>1
<1>3. PICK g \in [0 .. n -> Seq(Nat)] : g[0] = << >> /\ \A i \in 1..n : g[i] = step[<<i, g[i - 1]>>]
  <2> HIDE DEF step, n
  <2>1. \E f : IsRecursion(f, n, Seq(Nat), << >>, step)
    <3>1. << >> \in Seq(Nat) OBVIOUS
    <3> QED BY <1>1, <1>2, <3>1, RecursionOnInterval
  <2> QED BY <2>1 DEF IsRecursion
<1>4. \A i \in 1 .. n : g[i] = g[i - 1] \o seqs[i] /\ g[i - 1] \in Seq(Nat) /\ g[i] \in Seq(Nat)
  <2> TAKE i \in 1..n
  <2>1. i - 1 \in 0 .. n /\ i \in 0..n
    BY <1>1
  <2> QED BY <2>1, <1>3
<1>5. IsFlat([i \in 1..n |-> g[i]])
  <2> DEFINE f == [i \in 1..n |-> g[i]]
  <2>1. ASSUME NEW i \in 1..n PROVE f[i] = IF i = 1 THEN seqs[i] ELSE f[i - 1] \o seqs[i]
    <3>1. CASE i = 1
      <4>1. g[1] = << >> \o seqs[1]
        <5>1. 1 \in 1 .. n /\ 1 - 1 = 0
          BY <1>1
        <5>2. g[1] = g[1 - 1] \o seqs[1]
          <6> HIDE DEF n
          <6> QED BY <5>1, <1>4
        <5> QED BY ONLY <5>1, <5>2, <1>3
      <4>2. << >> \o seqs[1] = seqs[1] BY <1>1
      <4> QED BY <3>1, <4>1, <4>2
    <3>2. CASE i # 1
      <4>1. i - 1 \in 1..n BY <3>2, <1>1
      <4> QED BY <3>2, <4>1, <1>4
    <3> QED BY <3>1, <3>2
  <2>2. f = [i \in 1..n |-> f[i]] OBVIOUS
  <2> HIDE DEF f, n
  <2>3. f = [i \in 1..n |-> IF i = 1 THEN seqs[i] ELSE f[i - 1] \o seqs[i]]
    BY <2>1, <2>2
  <2>4. IsFlat(f)
    BY <2>3
  <2> QED BY <2>4 DEF f
<1>6. IsFlat(flat)
  BY <1>5, Zenon
<1>7. Cache!FlattenSeq(seqs) = flat[n]
  BY <1>1 DEF Cache!FlattenSeq
<1>8. \A i \in 1..n : flat[i] = IF i = 1 THEN seqs[i] ELSE flat[i - 1] \o seqs[i]
  <2> HIDE DEF flat
  <2> QED BY <1>6
<1> HIDE DEF flat, IsFlat, step
<1> DEFINE Upto(i) == UNION {P[b] : b \in 1..i}
           Good == {i \in Nat : i \in 1 .. n => flat[i] \in Seq(Nat) /\ Lists(flat[i], Upto(i))}
<1>9. 0 \in Good OBVIOUS
<1>10. ASSUME NEW i \in Good PROVE i + 1 \in Good
  <2> SUFFICES ASSUME i + 1 \in 1..n
               PROVE  flat[i + 1] \in Seq(Nat) /\ Lists(flat[i + 1], Upto(i + 1))
    OBVIOUS
  <2>1. i \in Nat OBVIOUS
  <2>2. CASE i = 0
    <3>1. flat[1] = seqs[1] BY <1>8, <1>1
    <3>2. Upto(1) = P[1] OBVIOUS
    <3> HIDE DEF Upto
    <3> QED BY <2>2, <3>1, <3>2, <1>1
  <2>3. CASE i # 0
    <3>1. i \in 1 .. n /\ (i + 1) - 1 = i /\ i + 1 # 1
      BY <2>1, <2>3, <1>1
    <3>2. flat[i] \in Seq(Nat) /\ Lists(flat[i], Upto(i))
      BY <3>1
    <3>3. flat[i + 1] = flat[i] \o seqs[i + 1] BY <3>1, <1>8
    <3>4. Upto(i + 1) = Upto(i) \union P[i + 1]
      <4>1. 1..i + 1 = (1..i) \union {i + 1} BY <2>1
      <4> QED BY <4>1
    <3>5. Upto(i) \cap P[i + 1] = {}
      <4>1. \A b \in 1 .. i : b \in 1 .. n /\ b # i + 1
        BY <3>1, <1>1
      <4> QED BY <4>1
    <3>6. Lists(seqs[i + 1], P[i + 1]) /\ seqs[i + 1] \in Seq(Nat)
      BY <1>1
    <3> HIDE DEF Upto
    <3>7. Lists(flat[i] \o seqs[i + 1], Upto(i) \union P[i + 1])
      BY <3>2, <3>5, <3>6, ListsJoined
    <3>8. flat[i + 1] \in Seq(Nat) BY <3>2, <3>3, <3>6
    <3> QED BY <3>3, <3>4, <3>7, <3>8
  <2> QED BY <2>2, <2>3
<1>11. Good = Nat
  <2>1. Good \subseteq Nat OBVIOUS
  <2> HIDE DEF Good
  <2> QED BY <1>9, <1>10, <2>1, InductionBySet
<1>12. flat[n] \in Seq(Nat) /\ Lists(flat[n], Upto(n))
  <2>1. n \in Good /\ n \in 1..n
    <3> HIDE DEF Good
    <3> QED BY <1>1, <1>11
  <2> QED BY <2>1
<1> QED BY <1>7, <1>12

LEMMA NewLengthIsPositive ==
  ASSUME Cache!CacheAssumption, NEW n \in Nat
  PROVE  Cache!NewLength(n) \in Nat /\ Cache!NewLength(n) > 0
<1> DEFINE Good == Nat \ {0}
           body(x) == IF x < n THEN 2 * x ELSE x
           step == [p \in (1..n) \X Good |-> body(p[2])]
           IsDoubled(f) == f = [i \in 0..n |-> IF i = 0 THEN MinBuckets ELSE body(f[i - 1])]
           doubled == CHOOSE f : IsDoubled(f)
<1>1. MinBuckets \in Good
  BY DEF Cache!CacheAssumption
<1>2. \A x \in Good : body(x) \in Good OBVIOUS
<1>3. step \in [(1..n) \X Good -> Good]
  <2> HIDE DEF body, Good
  <2> QED BY <1>2
<1>4. PICK g \in [0 .. n -> Good] : g[0] = MinBuckets /\ \A i \in 1..n : g[i] = step[<<i, g[i - 1]>>]
  <2> HIDE DEF step, Good
  <2>1. \E f : IsRecursion(f, n, Good, MinBuckets, step)
    BY <1>1, <1>3, RecursionOnInterval
  <2> QED BY <2>1 DEF IsRecursion
<1>5. IsDoubled(g)
  <2>1. ASSUME NEW i \in 0..n PROVE g[i] = IF i = 0 THEN MinBuckets ELSE body(g[i - 1])
    <3>1. CASE i # 0
      <4>1. i \in 1 .. n /\ i - 1 \in 0..n
        BY <3>1
      <4> HIDE DEF body, Good
      <4> QED BY <3>1, <4>1, <1>4
    <3> QED BY <3>1, <1>4
  <2> HIDE DEF body, Good
  <2>2. g = [i \in 0..n |-> g[i]]
    BY <1>4
  <2> QED BY <2>1, <2>2
<1>6. IsDoubled(doubled)
  BY <1>5, Zenon
<1>7. Cache!NewLength(n) = doubled[n]
  BY DEF Cache!NewLength
<1> HIDE DEF doubled
<1>8. \A i \in 0..n : doubled[i] \in Good
  <2>1. doubled[0] \in Good
    BY <1>1, <1>6
  <2>2. ASSUME NEW i \in 1..n, doubled[i - 1] \in Good PROVE doubled[i] \in Good
    <3>1. doubled[i] = body(doubled[i - 1]) BY <1>6
    <3> HIDE DEF body
    <3> QED BY <1>2, <2>2, <3>1
  <2> HIDE DEF Good, IsDoubled
  <2> QED BY <2>1, <2>2, StaysInSet
<1> QED BY <1>7, <1>8

\* Resize loses no handle and puts each into the chain of its key.
LEMMA ResizeHas ==
  ASSUME Cache!CacheAssumption, NEW c \in Shards, NEW S, TableHas(c, S)
  PROVE  TableHas(Cache!Resize(c), S) /\ SameButTable(c, Cache!Resize(c))
<1> DEFINE length == Cache!NewLength(c.elems)
           all == Cache!FlattenSeq(c.buckets)
           n == Len(all)
           slot(x) == (Cache!KeyOf(c, x) % length) + 1
           Tables == [1..length -> Seq(Nat)]
           body(i, t) == [t EXCEPT ![slot(all[i])] = <<all[i]>> \o @]
           first == [i \in 1..length |-> << >>]
           step == [p \in (1..n) \X Tables |-> body(p[1], p[2])]
           IsMoved(f) == f = [i \in 0..n |-> IF i = 0 THEN first ELSE body(i, f[i - 1])]
           moved == CHOOSE f : IsMoved(f)
           d == Cache!Resize(c)
<1>1. c.elems \in Nat /\ c.elems = Cardinality(S)
  BY HandlesAreFinite DEF TableHas
<1>2. length \in Nat /\ length > 0
  BY <1>1, NewLengthIsPositive
<1>3. all \in Seq(Nat) /\ Lists(all, S)
  <2> DEFINE P == [b \in 1..Len(c.buckets) |-> Chain(c, S, b)]
  <2>1. c.buckets \in Seq(Seq(Nat)) /\ Len(c.buckets) > 0
    BY DEF Shards, TableHas
  <2>2. \A b \in 1..Len(c.buckets) : Lists(c.buckets[b], P[b])
    BY DEF TableHas
  <2>3. \A a, b \in 1..Len(c.buckets) : a # b => P[a] \cap P[b] = {}
    BY DEF Chain
  <2>4. UNION {P[b] : b \in 1..Len(c.buckets)} = S
    <3>1. \A e \in S : Cache!Bucket(c, Cache!KeyOf(c, e)) \in 1..Len(c.buckets)
      <4> TAKE e \in S
      <4>1. e \in HandlesOf(c) BY DEF TableHas
      <4> QED BY <4>1, KeyTypes, BucketTypes
    <3>2. \A e \in S : \E b \in 1..Len(c.buckets) : e \in P[b] BY <3>1 DEF Chain
    <3>3. \A b \in 1..Len(c.buckets) : P[b] \subseteq S BY DEF Chain
    <3> HIDE DEF P
    <3> QED BY <3>2, <3>3
  <2> HIDE DEF P
  <2>5. Cache!FlattenSeq(c.buckets) \in Seq(Nat) /\ Lists(Cache!FlattenSeq(c.buckets), UNION {P[b] : b \in 1..Len(c.buckets)})
    BY <2>1, <2>2, <2>3, FlattenLists
  <2> QED BY <2>4, <2>5
<1>4. n \in Nat /\ \A i \in 1 .. n : all[i] \in S /\ all[i] \in Nat
  <2> HIDE DEF all
  <2>1. all \in Seq(S) /\ all \in Seq(Nat)
    BY <1>3 DEF Lists
  <2>2. Len(all) \in Nat /\ (\A i \in 1 .. Len(all) : all[i] \in S) /\ \A i \in 1..Len(all) : all[i] \in Nat
    BY <2>1, ElementOfSeq, LenProperties
  <2> QED BY <2>2
<1>5. \A x \in S : slot(x) \in 1..length
  <2> TAKE x \in S
  <2>1. Cache!KeyOf(c, x) \in Nat
    BY KeyTypes DEF TableHas
  <2> HIDE DEF length
  <2> QED BY <2>1, <1>2, Remainder
<1>6. Cache!Resize(c) = [c EXCEPT !.buckets = moved[n]]
  BY DEF Cache!Resize
<1> HIDE DEF length, all, slot
<1>7. \A i \in 1..n, t \in Tables : body(i, t) \in Tables
  <2> TAKE i \in 1..n, t \in Tables
  <2>1. slot(all[i]) \in 1 .. length /\ <<all[i]>> \in Seq(Nat)
    BY <1>4, <1>5
  <2>2. <<all[i]>> \o t[slot(all[i])] \in Seq(Nat)
    BY <2>1
  <2> QED BY <2>1, <2>2
<1>8. step \in [(1..n) \X Tables -> Tables]
  <2> HIDE DEF body, Tables, n
  <2> QED BY <1>7
<1>9. first \in Tables OBVIOUS
<1>10. PICK g \in [0 .. n -> Tables] : g[0] = first /\ \A i \in 1..n : g[i] = step[<<i, g[i - 1]>>]
  <2> HIDE DEF step, Tables, n, first
  <2>1. \E f : IsRecursion(f, n, Tables, first, step)
    BY <1>4, <1>8, <1>9, RecursionOnInterval
  <2> QED BY <2>1 DEF IsRecursion
<1>11. IsMoved(g)
  <2> HIDE DEF n
  <2>1. ASSUME NEW i \in 0..n PROVE g[i] = IF i = 0 THEN first ELSE body(i, g[i - 1])
    <3>1. CASE i # 0
      <4>1. i \in 1 .. n /\ i - 1 \in 0..n
        BY <3>1, <1>4
      <4> HIDE DEF body, Tables, first
      <4> QED BY <3>1, <4>1, <1>10
    <3> QED BY <3>1, <1>10
  <2> HIDE DEF body, Tables, first
  <2>2. g = [i \in 0..n |-> g[i]]
    BY <1>10
  <2> QED BY <2>1, <2>2
<1>12. IsMoved(moved)
  BY <1>11, Zenon
<1>13. moved[0] = first /\ \A i \in 1..n : moved[i] = body(i, moved[i - 1])
  <2> HIDE DEF moved, body, first, n
  <2>1. moved[0] = first
    <3>1. 0 \in 0..n BY <1>4
    <3> QED BY <3>1, <1>12
  <2>2. ASSUME NEW i \in 1..n PROVE moved[i] = body(i, moved[i - 1])
    <3>1. i \in 0 .. n /\ i # 0
      BY <1>4
    <3> QED BY <3>1, <1>12
  <2> QED BY <2>1, <2>2
<1> HIDE DEF moved, IsMoved, step
<1> DEFINE From(m, i) == {x \in {all[k] : k \in 1..m} : slot(x) = i}
           Right(m) == moved[m] \in Tables /\ \A i \in 1..length : Lists(moved[m][i], From(m, i))
           Good == {m \in Nat : m <= n => Right(m)}
<1>14. 0 \in Good
  <2>1. \A i \in 1..length : From(0, i) = {} OBVIOUS
  <2>2. \A i \in 1..length : moved[0][i] = << >>
    BY <1>13
  <2>3. Right(0)
    <3> HIDE DEF From
    <3> QED BY <2>1, <2>2, <1>9, <1>13, ListsNothing
  <2> QED BY <2>3
<1>15. ASSUME NEW m \in Good PROVE m + 1 \in Good
  <2>0. m \in Nat /\ (m <= n => Right(m)) OBVIOUS
  <2> SUFFICES ASSUME m + 1 <= n PROVE Right(m + 1)
    <3> HIDE DEF Right, n
    <3> QED BY <2>0
  <2>1. m \in Nat /\ Right(m) /\ m + 1 \in 1 .. n /\ (m + 1) - 1 = m
    <3> HIDE DEF Right, n
    <3> QED BY <1>4, <2>0
  <2> DEFINE x == all[m + 1]
  <2>2. moved[m + 1] = [moved[m] EXCEPT ![slot(x)] = <<x>> \o @] /\ moved[m + 1] \in Tables
    <3>1. moved[m + 1] = body(m + 1, moved[m]) BY <2>1, <1>13
    <3> QED BY <3>1, <2>1, <1>7
  <2>3. x \in S /\ slot(x) \in 1..length
    BY <2>1, <1>4, <1>5
  <2>4. \A k \in 1..m : all[k] # x
    <3>1. \A k \in 1 .. m : k \in 1 .. n /\ k # m + 1
      BY <2>1, <1>4
    <3> QED BY <3>1, <2>1, <1>3 DEF Lists
  <2>5. 1..m + 1 = (1..m) \union {m + 1}
    BY <2>1
  <2>6. ASSUME NEW i \in 1..length PROVE Lists(moved[m + 1][i], From(m + 1, i))
    <3>1. CASE i = slot(x)
      <4>1. moved[m + 1][i] = <<x>> \o moved[m][i] BY <2>1, <2>2, <3>1
      <4>2. From(m + 1, i) = From(m, i) \union {x} BY <2>5, <3>1
      <4>3. x \notin From(m, i) BY <2>4
      <4>4. Lists(moved[m][i], From(m, i)) BY <2>1
      <4> HIDE DEF From, x
      <4>5. Lists(<<x>> \o moved[m][i], From(m, i) \union {x})
        BY <4>3, <4>4, ListsPrepended
      <4> QED BY <4>1, <4>2, <4>5
    <3>2. CASE i # slot(x)
      <4>1. moved[m + 1][i] = moved[m][i] BY <2>1, <2>2, <3>2
      <4>2. From(m + 1, i) = From(m, i) BY <2>5, <3>2
      <4>3. Lists(moved[m][i], From(m, i)) BY <2>1
      <4> HIDE DEF From, x
      <4> QED BY <4>1, <4>2, <4>3
    <3> QED BY <3>1, <3>2
  <2> QED BY <2>2, <2>6
<1>16. Good = Nat
  <2>1. Good \subseteq Nat OBVIOUS
  <2> HIDE DEF Good
  <2> QED BY <1>14, <1>15, <2>1, InductionBySet
<1>17. Right(n)
  <2>1. n \in Good
    <3> HIDE DEF Good
    <3> QED BY <1>4, <1>16
  <2> HIDE DEF n, Right
  <2> QED BY <2>1, <1>4
<1>18. \A i \in 1..length : From(n, i) = {x \in S : slot(x) = i}
  <2>1. {all[k] : k \in 1..n} = S
    <3>1. \A x \in S : \E k \in 1..n : all[k] = x BY <1>3 DEF Lists
    <3> HIDE DEF n
    <3> QED BY <1>4, <3>1
  <2> QED BY <2>1
<1>19. /\ d.buckets = moved[n] /\ d.entries = c.entries /\ d.elems = c.elems
       /\ d.lru = c.lru /\ d.inUse = c.inUse /\ d.usage = c.usage
  <2> HIDE DEF d, n
  <2>1. d = [c EXCEPT !.buckets = moved[n]]
    BY <1>6 DEF d
  <2> QED BY <2>1 DEF Shards
<1>20. d.buckets \in Seq(Seq(Nat)) /\ Len(d.buckets) = length
  <2>1. moved[n] \in [1..length -> Seq(Nat)]
    BY <1>17
  <2> HIDE DEF n, d
  <2>2. moved[n] \in Seq(Seq(Nat))
    BY <2>1, <1>2, SeqDef
  <2> QED BY <2>1, <2>2, <1>2, <1>19
<1>21. SameButTable(c, d)
  <2>1. d = [c EXCEPT !.buckets = d.buckets]
    <3> HIDE DEF n, d
    <3>1. d = [c EXCEPT !.buckets = moved[n]] BY <1>6 DEF d
    <3> QED BY <3>1, <1>19
  <2> HIDE DEF d
  <2>2. d \in Shards
    BY <2>1, <1>20 DEF Shards
  <2> QED BY <2>2, <1>19 DEF SameButTable
<1>22. ASSUME NEW b \in 1..Len(d.buckets) PROVE Lists(d.buckets[b], Chain(d, S, b))
  <2>1. Chain(d, S, b) = {x \in S : slot(x) = b}
    <3> HIDE DEF d
    <3> QED BY <1>19, <1>20 DEF Chain, Cache!Bucket, Cache!KeyOf, slot
  <2>2. Lists(moved[n][b], From(n, b))
    BY <1>17, <1>20
  <2> HIDE DEF d, From, n
  <2> QED BY <2>1, <2>2, <1>18, <1>19, <1>20
<1>23. TableHas(d, S)
  <2> HIDE DEF d
  <2>1. Len(d.buckets) > 0 /\ S \subseteq HandlesOf(d) /\ d.elems = Cardinality(S)
    BY <1>2, <1>19, <1>20 DEF TableHas, HandlesOf
  <2>2. \A x, y \in S : Cache!KeyOf(d, x) = Cache!KeyOf(d, y) => x = y
    BY <1>19 DEF TableHas, Cache!KeyOf
  <2> QED BY <1>22, <2>1, <2>2 DEF TableHas
<1> QED BY <1>21, <1>23

\* Insert puts the handle in, in the place of the one with its key if there is one.
LEMMA TableInsertHas ==
  ASSUME Cache!CacheAssumption, NEW c \in Shards, NEW S, TableHas(c, S), NEW e \in HandlesOf(c), e \notin S
  PROVE  LET old == Cache!TableLookup(c, Cache!KeyOf(c, e))
             d == Cache!TableInsert(c, e)
         IN  TableHas(d, (S \ {old}) \union {e}) /\ SameButTable(c, d)
<1> DEFINE key == Cache!KeyOf(c, e)
           b == Cache!Bucket(c, key)
           k == Cache!Place(c, key)
           old == Cache!TableLookup(c, key)
           T == (S \ {old}) \union {e}
           put == [c EXCEPT !.buckets[b] = IF old = Nil THEN Append(@, e) ELSE [@ EXCEPT ![k] = e],
                            !.elems = IF old = Nil THEN @ + 1 ELSE @]
           d == Cache!TableInsert(c, e)
           chain == c.buckets[b]
<1>1. key \in Nat /\ e \in Nat
  BY KeyTypes
<1>2. b \in 1..Len(c.buckets)
  <2> HIDE DEF key
  <2> QED BY <1>1, BucketTypes
<1>3. Lists(chain, Chain(c, S, b))
  BY <1>2 DEF TableHas
<1>4. S \subseteq HandlesOf(c) /\ S \subseteq Nat /\ IsFiniteSet(S) /\ c.elems = Cardinality(S)
      /\ \A x, y \in S : Cache!KeyOf(c, x) = Cache!KeyOf(c, y) => x = y
  <2>1. S \subseteq HandlesOf(c) /\ HandlesOf(c) \subseteq Nat
    BY KeyTypes DEF TableHas
  <2> QED BY <2>1, HandlesAreFinite DEF TableHas
<1>5. Nil \notin S /\ T \subseteq HandlesOf(c)
  BY <1>4 DEF Cache!CacheAssumption
<1>6. d = put \/ d = Cache!Resize(put)
  BY DEF Cache!TableInsert
<1>7. TableHas(put, T) /\ SameButTable(c, put)
  <2>1. CASE old = Nil
    <3>1. \A x \in S : Cache!KeyOf(c, x) # key
      <4> HIDE DEF key
      <4> QED BY <2>1, <1>1, <1>5, LookupIs
    <3>2. T = S \union {e} BY <2>1, <1>5
    <3>3. c.elems + 1 = Cardinality(T) BY <3>2, <1>4, FS_AddElement
    <3>4. put = [c EXCEPT !.buckets[b] = Append(chain, e), !.elems = Cardinality(T)]
      <4> HIDE DEF b, T, old
      <4> QED BY <2>1, <3>3, <1>2 DEF Shards
    <3>5. Chain(c, T, b) = Chain(c, S, b) \union {e} /\ e \notin Chain(c, S, b)
      BY <3>2 DEF Chain
    <3>6. Lists(Append(chain, e), Chain(c, T, b))
      <4> HIDE DEF chain, T, b
      <4> QED BY <3>5, <1>3, ListsAppended
    <3>7. \A a \in 1..Len(c.buckets) : a # b => Chain(c, T, a) = Chain(c, S, a)
      BY <3>2 DEF Chain
    <3>8. \A x, y \in T : Cache!KeyOf(c, x) = Cache!KeyOf(c, y) => x = y
      BY <3>1, <3>2, <1>4
    <3> DEFINE longer == Append(chain, e)
    <3> HIDE DEF longer, T, b, put
    <3>9. Lists(longer, Chain(c, T, b)) /\ put = [c EXCEPT !.buckets[b] = longer, !.elems = Cardinality(T)]
      BY <3>4, <3>6 DEF longer
    <3> QED BY <3>9, <3>7, <3>8, <1>2, <1>5, ChainChanged
  <2>2. CASE old # Nil
    <3>1. old \in S /\ Cache!KeyOf(c, old) = key
      <4> HIDE DEF key
      <4> QED BY <2>2, <1>1, LookupIs
    <3>2. k \in 1 .. Len(chain) /\ chain[k] = old
      <4> DEFINE o == old
      <4>1. o \in S /\ Cache!KeyOf(c, o) = key
        BY <3>1
      <4> HIDE DEF o
      <4>2. Cache!Place(c, Cache!KeyOf(c, o)) \in 1..Len(c.buckets[Cache!Bucket(c, Cache!KeyOf(c, o))])
            /\ c.buckets[Cache!Bucket(c, Cache!KeyOf(c, o))][Cache!Place(c, Cache!KeyOf(c, o))] = o
        BY <4>1, LookupFinds
      <4>3. Cache!Place(c, key) \in 1 .. Len(c.buckets[Cache!Bucket(c, key)]) /\ c.buckets[Cache!Bucket(c, key)][Cache!Place(c, key)] = o
        <5> HIDE DEF key
        <5> QED BY <4>1, <4>2
      <4> QED BY <4>3 DEF o
    <3> DEFINE longer == [chain EXCEPT ![k] = e]
    <3>3. c.elems = Cardinality(T)
      <4> HIDE DEF old
      <4>1. IsFiniteSet(S \ {old}) /\ Cardinality(S \ {old}) = Cardinality(S) - 1 /\ Cardinality(S) \in Nat
        BY <3>1, <1>4, FS_RemoveElement, FS_CardinalityType
      <4>2. Cardinality(T) = Cardinality(S \ {old}) + 1 BY <4>1, FS_AddElement
      <4> QED BY <4>1, <4>2, <1>4
    <3>4. put = [c EXCEPT !.buckets[b] = longer, !.elems = Cardinality(T)]
      <4> HIDE DEF b, T, old, k
      <4> QED BY <2>2, <3>3, <1>2 DEF Shards
    <3>5. Chain(c, T, b) = (Chain(c, S, b) \ {old}) \union {e} /\ e \notin Chain(c, S, b)
      BY DEF Chain
    <3>6. Lists(longer, Chain(c, T, b))
      <4> HIDE DEF chain, T, b, old, k
      <4> QED BY <3>2, <3>5, <1>3, ListsReplaced
    <3>7. \A a \in 1..Len(c.buckets) : a # b => Chain(c, T, a) = Chain(c, S, a)
      <4>1. Cache!Bucket(c, Cache!KeyOf(c, old)) = b BY <3>1
      <4> HIDE DEF old
      <4> QED BY <4>1 DEF Chain
    <3>8. \A x, y \in T : Cache!KeyOf(c, x) = Cache!KeyOf(c, y) => x = y
      <4> HIDE DEF old
      <4> QED BY <3>1, <1>4
    <3> HIDE DEF longer, T, b, put
    <3> QED BY <3>4, <3>6, <3>7, <3>8, <1>2, <1>5, ChainChanged
  <2> QED BY <2>1, <2>2
<1> HIDE DEF put, T, d
<1>8. TableHas(Cache!Resize(put), T) /\ SameButTable(c, Cache!Resize(put))
  <2>1. put \in Shards
    BY <1>7 DEF SameButTable
  <2>2. TableHas(Cache!Resize(put), T) /\ SameButTable(put, Cache!Resize(put))
    BY <2>1, <1>7, ResizeHas
  <2> QED BY <2>2, <1>7 DEF SameButTable
<1>9. TableHas(d, T) /\ SameButTable(c, d)
  BY <1>6, <1>7, <1>8
<1> QED BY <1>9 DEF d, T, old, key

------------------------
\* The lists of a shard whose handles have u users each.
Shelved(c, u) ==
  /\ Lists(c.lru, {e \in Cached(c) : u[e] = 0})
  /\ Lists(c.inUse, {e \in Cached(c) : u[e] > 0})

\* A handle counts its users and the cache and is deleted when nobody is left.
Counted(c, u) ==
  \A e \in HandlesOf(c) : LET h == c.entries[e] IN
    /\ h.refs = u[e] + (IF h.inCache THEN 1 ELSE 0)
    /\ h.deletions = (IF h.refs = 0 THEN 1 ELSE 0)

\* A shard as every operation leaves it.
Whole(c, u) ==
  /\ c \in Shards /\ u \in [HandlesOf(c) -> Nat]
  /\ TableHas(c, Cached(c)) /\ Shelved(c, u) /\ Counted(c, u)
  /\ c.usage = Cardinality(Cached(c))

SameHandles(c, d) ==
  /\ Len(d.entries) = Len(c.entries)
  /\ \A e \in HandlesOf(c) : d.entries[e].key = c.entries[e].key

\* The entries of d are those of c but for e, which is h.
OneIsNew(c, d, e, h) ==
  /\ SameHandles(c, d) /\ d.entries \in Seq(Entry) /\ HandlesOf(d) = HandlesOf(c)
  /\ d.entries[e] = h /\ \A x \in HandlesOf(c) : x # e => d.entries[x] = c.entries[x]
  /\ \A x \in HandlesOf(c) : Cache!KeyOf(d, x) = Cache!KeyOf(c, x)
  /\ Cached(d) = IF h.inCache THEN Cached(c) \union {e} ELSE Cached(c) \ {e}

LEMMA OneHandleChanged ==
  ASSUME NEW c \in Shards, NEW e \in HandlesOf(c), NEW d, NEW h \in Entry,
         d.entries = [c.entries EXCEPT ![e] = h], h.key = c.entries[e].key
  PROVE  OneIsNew(c, d, e, h)
<1>1. c.entries \in Seq(Entry) /\ e \in 1..Len(c.entries)
  BY DEF Shards, HandlesOf
<1>2. /\ d.entries \in Seq(Entry) /\ Len(d.entries) = Len(c.entries) /\ d.entries[e] = h
      /\ \A x \in 1..Len(c.entries) : x # e => d.entries[x] = c.entries[x]
  BY <1>1
<1>3. HandlesOf(d) = HandlesOf(c)
  BY <1>2 DEF HandlesOf
<1>4. \A x \in HandlesOf(c) : d.entries[x].key = c.entries[x].key
  BY <1>2 DEF HandlesOf
<1>5. Cached(d) = IF h.inCache THEN Cached(c) \union {e} ELSE Cached(c) \ {e}
  BY <1>2, <1>3 DEF Cached, HandlesOf
<1> QED BY <1>2, <1>3, <1>4, <1>5 DEF SameHandles, Cache!KeyOf, HandlesOf, OneIsNew

LEMMA UnlinkedLists ==
  ASSUME Cache!CacheAssumption, NEW c \in Shards, NEW u, Shelved(c, u), NEW e
  PROVE  /\ Cache!RemoveFirst(c.lru, e) \in Seq(Nat) /\ Cache!RemoveFirst(c.inUse, e) \in Seq(Nat)
         /\ Lists(Cache!RemoveFirst(c.lru, e), {x \in Cached(c) : u[x] = 0} \ {e})
         /\ Lists(Cache!RemoveFirst(c.inUse, e), {x \in Cached(c) : u[x] > 0} \ {e})
<1>1. /\ Lists(Cache!RemoveFirst(c.lru, e), {x \in Cached(c) : u[x] = 0} \ {e})
      /\ Lists(Cache!RemoveFirst(c.inUse, e), {x \in Cached(c) : u[x] > 0} \ {e})
  BY ListsRemoved DEF Shelved
<1>2. Cached(c) \subseteq Nat
  BY KeyTypes DEF Cached
<1>3. Cache!RemoveFirst(c.lru, e) \in Seq(Nat) /\ Cache!RemoveFirst(c.inUse, e) \in Seq(Nat)
  BY <1>1, <1>2, SeqMonotonic DEF Lists
<1> QED BY <1>1, <1>3

\* A new user of a cached handle.
LEMMA RefIsWhole ==
  ASSUME Cache!CacheAssumption, NEW c, NEW u, Whole(c, u), NEW e \in Cached(c)
  PROVE  LET d == Cache!Ref(c, e)
         IN  /\ Whole(d, [u EXCEPT ![e] = @ + 1]) /\ SameHandles(c, d) /\ Cached(d) = Cached(c)
<1> DEFINE d == Cache!Ref(c, e)
           v == [u EXCEPT ![e] = @ + 1]
           h == [c.entries[e] EXCEPT !.refs = @ + 1]
<1>1. /\ c \in Shards /\ u \in [HandlesOf(c) -> Nat] /\ e \in HandlesOf(c)
      /\ c.entries[e] \in Entry /\ c.entries[e].inCache
      /\ c.entries[e].refs = u[e] + 1 /\ c.entries[e].deletions = 0 /\ u[e] \in Nat
  <2>1. c \in Shards /\ u \in [HandlesOf(c) -> Nat] /\ e \in HandlesOf(c) /\ c.entries[e].inCache
    BY DEF Whole, Cached
  <2>2. c.entries[e] \in Entry /\ u[e] \in Nat
    BY <2>1, KeyTypes
  <2>3. c.entries[e].refs = u[e] + 1
    BY <2>1 DEF Whole, Counted
  <2>4. c.entries[e].deletions = 0
    BY <2>1, <2>2, <2>3 DEF Whole, Counted
  <2> QED BY <2>1, <2>2, <2>3, <2>4
<1>2. /\ d \in Shards /\ d.entries = [c.entries EXCEPT ![e] = h]
      /\ d.buckets = c.buckets /\ d.elems = c.elems /\ d.usage = c.usage
      /\ d.lru = IF u[e] = 0 THEN Cache!RemoveFirst(c.lru, e) ELSE c.lru
      /\ d.inUse = IF u[e] = 0 THEN Append(Cache!RemoveFirst(c.inUse, e), e) ELSE c.inUse
  <2>1. h \in Entry
    BY <1>1 DEF Entry
  <2>2. [c.entries EXCEPT ![e] = h] \in Seq(Entry)
    BY <2>1, <1>1 DEF Shards, HandlesOf
  <2>3. Cache!RemoveFirst(c.lru, e) \in Seq(Nat) /\ Append(Cache!RemoveFirst(c.inUse, e), e) \in Seq(Nat)
    <3>1. Cache!RemoveFirst(c.lru, e) \in Seq(Nat) /\ Cache!RemoveFirst(c.inUse, e) \in Seq(Nat)
      BY <1>1, UnlinkedLists DEF Whole
    <3> QED BY <3>1, <1>1, KeyTypes, AppendProperties
  <2>4. CASE u[e] = 0
    <3>1. d = [c EXCEPT !.lru = Cache!RemoveFirst(@, e), !.inUse = Append(Cache!RemoveFirst(@, e), e),
                        !.entries = [@ EXCEPT ![e] = h]]
      <4> DEFINE m == [Cache!Unlink(c, e) EXCEPT !.inUse = Append(@, e)]
      <4>1. d = [m EXCEPT !.entries[e].refs = @ + 1] BY <2>4, <1>1 DEF Cache!Ref
      <4>2. m = [c EXCEPT !.lru = Cache!RemoveFirst(@, e), !.inUse = Append(Cache!RemoveFirst(@, e), e)]
        BY <1>1 DEF Cache!Unlink, Shards
      <4> HIDE DEF m, d
      <4>3. m.entries = c.entries BY <4>2, <1>1 DEF Shards
      <4>4. d = [m EXCEPT !.entries = [c.entries EXCEPT ![e] = h]] BY <4>1, <4>3
      <4> HIDE DEF h
      <4> QED BY <4>2, <4>4, <1>1 DEF Shards
    <3> HIDE DEF d, h
    <3> QED BY <3>1, <2>2, <2>3, <2>4, <1>1 DEF Shards
  <2>5. CASE u[e] # 0
    <3>1. d = [c EXCEPT !.entries = [@ EXCEPT ![e] = h]]
      <4>1. d = [c EXCEPT !.entries[e].refs = @ + 1] BY <2>5, <1>1 DEF Cache!Ref
      <4> QED BY <4>1
    <3> HIDE DEF d, h
    <3> QED BY <3>1, <2>2, <2>5, <1>1 DEF Shards
  <2> QED BY <2>4, <2>5
<1>3. h \in Entry /\ h.key = c.entries[e].key /\ h.inCache /\ h.refs = u[e] + 2 /\ h.deletions = 0
  BY <1>1 DEF Entry
<1> HIDE DEF d, h
<1>4. /\ SameHandles(c, d) /\ HandlesOf(d) = HandlesOf(c)
      /\ d.entries[e] = h /\ \A x \in HandlesOf(c) : x # e => d.entries[x] = c.entries[x]
      /\ \A x \in HandlesOf(c) : Cache!KeyOf(d, x) = Cache!KeyOf(c, x)
      /\ Cached(d) = Cached(c)
  <2>1. Cached(c) \union {e} = Cached(c) OBVIOUS
  <2>2. OneIsNew(c, d, e, h)
    BY <1>1, <1>2, <1>3, OneHandleChanged
  <2> QED BY <1>3, <2>1, <2>2 DEF OneIsNew
<1>5. v \in [HandlesOf(d) -> Nat] /\ v[e] = u[e] + 1 /\ \A x \in HandlesOf(c) : x # e => v[x] = u[x]
  BY <1>1, <1>4
<1> HIDE DEF v
<1>6. TableHas(d, Cached(d))
  <2>1. TableHas(c, Cached(c)) /\ HandlesOf(c) \subseteq HandlesOf(d) /\ Cached(c) \subseteq HandlesOf(c)
    BY <1>4 DEF Whole, Cached
  <2>2. TableHas(d, Cached(c))
    BY <2>1, <1>2, <1>4, TableHasKept
  <2> QED BY <2>2, <1>4
<1>7. Shelved(d, v)
  <2>1. Lists(c.lru, {x \in Cached(c) : u[x] = 0}) /\ Lists(c.inUse, {x \in Cached(c) : u[x] > 0})
    BY DEF Whole, Shelved
  <2>2. Cached(c) \subseteq HandlesOf(c)
    BY DEF Cached
  <2>3. CASE u[e] = 0
    <3>1. /\ {x \in Cached(d) : v[x] = 0} = {x \in Cached(c) : u[x] = 0} \ {e}
          /\ {x \in Cached(d) : v[x] > 0} = ({x \in Cached(c) : u[x] > 0} \ {e}) \union {e}
      BY <1>1, <1>4, <1>5, <2>2, <2>3
    <3>2. Lists(d.lru, {x \in Cached(d) : v[x] = 0})
      BY <3>1, <2>1, <2>3, <1>2, ListsRemoved
    <3>3. Lists(Cache!RemoveFirst(c.inUse, e), {x \in Cached(c) : u[x] > 0} \ {e})
      BY <2>1, ListsRemoved
    <3>4. Lists(d.inUse, {x \in Cached(d) : v[x] > 0})
      BY <3>1, <3>3, <2>3, <1>2, ListsAppended
    <3> QED BY <3>2, <3>4 DEF Shelved
  <2>4. CASE u[e] # 0
    <3>1. /\ {x \in Cached(d) : v[x] = 0} = {x \in Cached(c) : u[x] = 0}
          /\ {x \in Cached(d) : v[x] > 0} = {x \in Cached(c) : u[x] > 0}
      BY <1>1, <1>4, <1>5, <2>2, <2>4
    <3> QED BY <3>1, <2>1, <2>4, <1>2 DEF Shelved
  <2> QED BY <2>3, <2>4
<1>8. Counted(d, v)
  <2> SUFFICES ASSUME NEW x \in HandlesOf(c)
               PROVE  /\ d.entries[x].refs = v[x] + (IF d.entries[x].inCache THEN 1 ELSE 0)
                      /\ d.entries[x].deletions = (IF d.entries[x].refs = 0 THEN 1 ELSE 0)
    BY <1>4 DEF Counted
  <2>1. CASE x = e
    BY <2>1, <1>1, <1>3, <1>4, <1>5
  <2>2. CASE x # e
    <3>1. d.entries[x] = c.entries[x] /\ v[x] = u[x]
      BY <2>2, <1>4, <1>5
    <3> QED BY <3>1 DEF Whole, Counted
  <2> QED BY <2>1, <2>2
<1>9. Whole(d, v)
  <2>1. d.usage = Cardinality(Cached(d))
    BY <1>2, <1>4 DEF Whole
  <2> QED BY <2>1, <1>2, <1>5, <1>6, <1>7, <1>8 DEF Whole
<1> QED BY <1>4, <1>9 DEF d, v

\* A user of a handle less.
LEMMA UnrefIsWhole ==
  ASSUME Cache!CacheAssumption, NEW c, NEW u, Whole(c, u), NEW e \in HandlesOf(c), u[e] > 0
  PROVE  LET d == Cache!Unref(c, e)
         IN  /\ Whole(d, [u EXCEPT ![e] = @ - 1]) /\ SameHandles(c, d) /\ Cached(d) = Cached(c)
<1> DEFINE d == Cache!Unref(c, e)
           v == [u EXCEPT ![e] = @ - 1]
           g == [c.entries[e] EXCEPT !.refs = @ - 1]
           h == IF g.refs = 0 THEN [g EXCEPT !.deletions = @ + 1] ELSE g
           moves == g.inCache /\ g.refs = 1
           less == [c EXCEPT !.entries[e].refs = @ - 1]
<1>1. /\ c \in Shards /\ u \in [HandlesOf(c) -> Nat] /\ Shelved(c, u)
      /\ c.entries[e] \in Entry /\ c.entries[e].inCache \in BOOLEAN
      /\ c.entries[e].refs = u[e] + (IF c.entries[e].inCache THEN 1 ELSE 0)
      /\ c.entries[e].deletions = 0 /\ u[e] \in Nat
  <2>1. c \in Shards /\ u \in [HandlesOf(c) -> Nat] /\ Shelved(c, u)
    BY DEF Whole
  <2>2. c.entries[e] \in Entry /\ u[e] \in Nat
    BY <2>1, KeyTypes
  <2>3. c.entries[e].refs = u[e] + (IF c.entries[e].inCache THEN 1 ELSE 0)
    BY DEF Whole, Counted
  <2>4. c.entries[e].refs # 0
    BY <2>2, <2>3
  <2>5. c.entries[e].deletions = 0
    BY <2>4 DEF Whole, Counted
  <2> QED BY <2>1, <2>2, <2>3, <2>5 DEF Entry
<1>2. /\ g \in Entry /\ g.key = c.entries[e].key /\ g.inCache = c.entries[e].inCache
      /\ g.refs = c.entries[e].refs - 1 /\ g.deletions = 0
  <2>1. c.entries[e].refs - 1 \in Nat
    BY <1>1
  <2> QED BY <2>1, <1>1 DEF Entry
<1>3. /\ h \in Entry /\ h.key = c.entries[e].key /\ h.inCache = c.entries[e].inCache
      /\ h.refs = c.entries[e].refs - 1 /\ h.deletions = IF h.refs = 0 THEN 1 ELSE 0
  <2> HIDE DEF g
  <2>1. /\ [g EXCEPT !.deletions = @ + 1] \in Entry
        /\ [g EXCEPT !.deletions = @ + 1].key = g.key /\ [g EXCEPT !.deletions = @ + 1].inCache = g.inCache
        /\ [g EXCEPT !.deletions = @ + 1].refs = g.refs /\ [g EXCEPT !.deletions = @ + 1].deletions = 1
    BY <1>2 DEF Entry
  <2>2. CASE g.refs = 0
    BY <2>1, <2>2, <1>2
  <2>3. CASE g.refs # 0
    BY <2>3, <1>2
  <2> QED BY <2>2, <2>3
<1>4. less = [c EXCEPT !.entries = [c.entries EXCEPT ![e] = g]] /\ less.entries[e] = g /\ less.entries = [c.entries EXCEPT ![e] = g]
      /\ less.lru = c.lru /\ less.inUse = c.inUse
  <2>1. less = [c EXCEPT !.entries = [c.entries EXCEPT ![e] = g]] OBVIOUS
  <2>2. c.entries \in Seq(Entry) /\ e \in DOMAIN c.entries
    BY <1>1 DEF Shards, HandlesOf
  <2> HIDE DEF less, g
  <2> QED BY <2>1, <2>2, <1>1 DEF Shards
<1>5. d = IF g.refs = 0 THEN [less EXCEPT !.entries[e].deletions = @ + 1]
          ELSE IF moves THEN [Cache!Unlink(less, e) EXCEPT !.lru = Append(@, e)] ELSE less
  <2>1. d = IF less.entries[e].refs = 0 THEN [less EXCEPT !.entries[e].deletions = @ + 1]
            ELSE IF less.entries[e].inCache /\ less.entries[e].refs = 1
            THEN [Cache!Unlink(less, e) EXCEPT !.lru = Append(@, e)] ELSE less
    BY DEF Cache!Unref
  <2> HIDE DEF d, less, g
  <2> QED BY <2>1, <1>4
<1> HIDE DEF d, less
<1>6. d = IF moves
          THEN [c EXCEPT !.entries = [c.entries EXCEPT ![e] = h],
                         !.lru = Append(Cache!RemoveFirst(c.lru, e), e), !.inUse = Cache!RemoveFirst(c.inUse, e)]
          ELSE [c EXCEPT !.entries = [c.entries EXCEPT ![e] = h]]
  <2>1. CASE g.refs = 0
    <3>1. d = [less EXCEPT !.entries[e].deletions = @ + 1] BY <1>5, <2>1
    <3>2. d = [less EXCEPT !.entries = [less.entries EXCEPT ![e] = [less.entries[e] EXCEPT !.deletions = @ + 1]]]
      BY <3>1
    <3>3. d = [less EXCEPT !.entries = [less.entries EXCEPT ![e] = h]]
      <4> HIDE DEF g
      <4>1. h = [less.entries[e] EXCEPT !.deletions = @ + 1] BY <1>4, <2>1
      <4> HIDE DEF h
      <4> QED BY ONLY <3>2, <4>1
    <3>4. [less.entries EXCEPT ![e] = h] = [c.entries EXCEPT ![e] = h]
      <4>1. c.entries \in Seq(Entry) BY <1>1 DEF Shards
      <4> HIDE DEF h, g
      <4> QED BY <4>1, <1>4
    <3>5. ~moves BY <2>1
    <3> HIDE DEF h, moves, g
    <3> QED BY <3>3, <3>4, <3>5, <1>1, <1>4 DEF Shards
  <2>2. CASE g.refs # 0
    <3>1. h = g BY <2>2
    <3>2. CASE moves
      <4>1. d = [Cache!Unlink(less, e) EXCEPT !.lru = Append(@, e)]
        BY <3>2, <1>5, <2>2
      <4> HIDE DEF h, moves, g
      <4> QED BY <4>1, <3>1, <3>2, <1>1, <1>4 DEF Cache!Unlink, Shards
    <3>3. CASE ~moves
      BY <3>1, <3>3, <1>4, <1>5, <2>2
    <3> QED BY <3>2, <3>3
  <2> QED BY <2>1, <2>2
<1>7. moves <=> c.entries[e].inCache /\ u[e] = 1
  BY <1>1, <1>2
<1> HIDE DEF h, g, moves
<1>8. /\ d \in Shards /\ d.entries = [c.entries EXCEPT ![e] = h]
      /\ d.buckets = c.buckets /\ d.elems = c.elems /\ d.usage = c.usage
      /\ d.lru = IF moves THEN Append(Cache!RemoveFirst(c.lru, e), e) ELSE c.lru
      /\ d.inUse = IF moves THEN Cache!RemoveFirst(c.inUse, e) ELSE c.inUse
  <2>1. [c.entries EXCEPT ![e] = h] \in Seq(Entry)
    BY <1>1, <1>3 DEF Shards, HandlesOf
  <2>2. Append(Cache!RemoveFirst(c.lru, e), e) \in Seq(Nat) /\ Cache!RemoveFirst(c.inUse, e) \in Seq(Nat)
    BY <1>1, UnlinkedLists, KeyTypes, AppendProperties
  <2> QED BY <2>1, <2>2, <1>1, <1>6 DEF Shards
<1>9. /\ SameHandles(c, d) /\ HandlesOf(d) = HandlesOf(c)
      /\ d.entries[e] = h /\ \A x \in HandlesOf(c) : x # e => d.entries[x] = c.entries[x]
      /\ \A x \in HandlesOf(c) : Cache!KeyOf(d, x) = Cache!KeyOf(c, x)
      /\ Cached(d) = Cached(c)
  <2>1. OneIsNew(c, d, e, h)
    BY <1>1, <1>3, <1>8, OneHandleChanged
  <2>2. Cached(c) = IF h.inCache THEN Cached(c) \union {e} ELSE Cached(c) \ {e}
    BY <1>1, <1>3 DEF Cached
  <2> QED BY <2>1, <2>2 DEF OneIsNew
<1>10. v \in [HandlesOf(d) -> Nat] /\ v[e] = u[e] - 1 /\ \A x \in HandlesOf(c) : x # e => v[x] = u[x]
  BY <1>1, <1>9
<1> HIDE DEF v
<1>11. TableHas(d, Cached(d))
  <2>1. TableHas(c, Cached(c)) /\ HandlesOf(c) \subseteq HandlesOf(d) /\ Cached(c) \subseteq HandlesOf(c)
    BY <1>9 DEF Whole, Cached
  <2>2. TableHas(d, Cached(c))
    BY <2>1, <1>8, <1>9, TableHasKept
  <2> QED BY <2>2, <1>9
<1>12. Shelved(d, v)
  <2>1. Lists(c.lru, {x \in Cached(c) : u[x] = 0}) /\ Lists(c.inUse, {x \in Cached(c) : u[x] > 0})
    BY <1>1 DEF Shelved
  <2>2. Cached(c) \subseteq HandlesOf(c)
    BY DEF Cached
  <2>3. CASE moves
    <3>1. e \in Cached(c) /\ u[e] = 1
      BY <1>7, <2>3 DEF Cached
    <3>2. /\ {x \in Cached(d) : v[x] = 0} = ({x \in Cached(c) : u[x] = 0} \ {e}) \union {e}
          /\ {x \in Cached(d) : v[x] > 0} = {x \in Cached(c) : u[x] > 0} \ {e}
      BY <1>1, <1>9, <1>10, <2>2, <3>1
    <3>3. /\ Lists(Cache!RemoveFirst(c.lru, e), {x \in Cached(c) : u[x] = 0} \ {e})
          /\ Lists(Cache!RemoveFirst(c.inUse, e), {x \in Cached(c) : u[x] > 0} \ {e})
      BY <1>1, UnlinkedLists
    <3>4. Lists(d.lru, {x \in Cached(d) : v[x] = 0})
      BY <3>2, <3>3, <2>3, <1>8, ListsAppended
    <3>5. Lists(d.inUse, {x \in Cached(d) : v[x] > 0}) BY <3>2, <3>3, <2>3, <1>8
    <3> QED BY <3>4, <3>5 DEF Shelved
  <2>4. CASE ~moves
    <3>1. e \in Cached(c) => u[e] > 1 BY <1>1, <1>7, <2>4 DEF Cached
    <3>2. /\ {x \in Cached(d) : v[x] = 0} = {x \in Cached(c) : u[x] = 0}
          /\ {x \in Cached(d) : v[x] > 0} = {x \in Cached(c) : u[x] > 0}
      BY <1>1, <1>9, <1>10, <2>2, <3>1
    <3> QED BY <3>2, <2>1, <2>4, <1>8 DEF Shelved
  <2> QED BY <2>3, <2>4
<1>13. Counted(d, v)
  <2> SUFFICES ASSUME NEW x \in HandlesOf(c)
               PROVE  /\ d.entries[x].refs = v[x] + (IF d.entries[x].inCache THEN 1 ELSE 0)
                      /\ d.entries[x].deletions = (IF d.entries[x].refs = 0 THEN 1 ELSE 0)
    BY <1>9 DEF Counted
  <2>1. CASE x = e
    BY <2>1, <1>1, <1>3, <1>9, <1>10
  <2>2. CASE x # e
    <3>1. d.entries[x] = c.entries[x] /\ v[x] = u[x]
      BY <2>2, <1>9, <1>10
    <3> QED BY <3>1 DEF Whole, Counted
  <2> QED BY <2>1, <2>2
<1>14. Whole(d, v)
  <2>1. d.usage = Cardinality(Cached(d))
    BY <1>8, <1>9 DEF Whole
  <2> QED BY <2>1, <1>8, <1>10, <1>11, <1>12, <1>13 DEF Whole
<1> QED BY <1>9, <1>14 DEF d, v

\* A handle that has been taken out of the hash table leaves the cache, and goes when it has no user.
LEMMA FinishEraseIsWhole ==
  ASSUME Cache!CacheAssumption, NEW c \in Shards, NEW u \in [HandlesOf(c) -> Nat], NEW e \in Cached(c),
         TableHas(c, Cached(c) \ {e}), Shelved(c, u), Counted(c, u), c.usage = Cardinality(Cached(c))
  PROVE  LET d == Cache!FinishErase(c, e)
         IN  Whole(d, u) /\ SameHandles(c, d) /\ Cached(d) = Cached(c) \ {e}
<1> DEFINE d == Cache!FinishErase(c, e)
           f == [c.entries[e] EXCEPT !.inCache = FALSE]
           g == [f EXCEPT !.refs = @ - 1]
           h == IF g.refs = 0 THEN [g EXCEPT !.deletions = @ + 1] ELSE g
           out == [Cache!Unlink(c, e) EXCEPT !.entries[e].inCache = FALSE, !.usage = @ - 1]
           less == [out EXCEPT !.entries[e].refs = @ - 1]
<1>1. /\ e \in HandlesOf(c) /\ c.entries \in Seq(Entry) /\ e \in DOMAIN c.entries
      /\ c.entries[e] \in Entry /\ c.entries[e].inCache = TRUE
      /\ c.entries[e].refs = u[e] + 1 /\ c.entries[e].deletions = 0 /\ u[e] \in Nat
  <2>1. e \in HandlesOf(c) /\ c.entries[e].inCache /\ c.entries \in Seq(Entry)
    BY DEF Shards, Cached
  <2>2. c.entries[e] \in Entry /\ u[e] \in Nat /\ e \in DOMAIN c.entries
    BY <2>1, KeyTypes DEF HandlesOf
  <2>3. c.entries[e].refs = u[e] + 1
    BY <2>1 DEF Counted
  <2>4. c.entries[e].deletions = 0
    BY <2>1, <2>2, <2>3 DEF Counted
  <2> QED BY <2>1, <2>2, <2>3, <2>4 DEF Entry
<1>2. e # Nil
  BY <1>1, KeyTypes DEF Cache!CacheAssumption
<1>3. /\ g \in Entry /\ g.key = c.entries[e].key /\ g.inCache = FALSE
      /\ g.refs = u[e] /\ g.deletions = 0
  <2>1. /\ f \in Entry /\ f.key = c.entries[e].key /\ f.inCache = FALSE
        /\ f.refs = u[e] + 1 /\ f.deletions = 0
    BY <1>1 DEF Entry
  <2> HIDE DEF f
  <2>2. f.refs - 1 = u[e] /\ u[e] \in Nat
    BY <2>1, <1>1
  <2> QED BY <2>1, <2>2 DEF Entry
<1>4. /\ h \in Entry /\ h.key = c.entries[e].key /\ h.inCache = FALSE
      /\ h.refs = u[e] /\ h.deletions = IF h.refs = 0 THEN 1 ELSE 0
  <2> HIDE DEF g
  <2> QED BY <1>3 DEF Entry
<1> DEFINE lru == Cache!RemoveFirst(c.lru, e)
           inUse == Cache!RemoveFirst(c.inUse, e)
<1>5. out = [c EXCEPT !.lru = lru, !.inUse = inUse,
                      !.entries = [c.entries EXCEPT ![e] = f], !.usage = c.usage - 1]
  <2>1. out = [Cache!Unlink(c, e) EXCEPT !.entries = [Cache!Unlink(c, e).entries EXCEPT ![e] = [Cache!Unlink(c, e).entries[e] EXCEPT !.inCache = FALSE]],
                                   !.usage = Cache!Unlink(c, e).usage - 1]
    BY DEF Cache!Unlink, Shards
  <2>2. Cache!Unlink(c, e) = [c EXCEPT !.lru = lru, !.inUse = inUse]
    BY DEF Cache!Unlink, Shards
  <2>3. Cache!Unlink(c, e).entries = c.entries /\ Cache!Unlink(c, e).usage = c.usage
    BY DEF Cache!Unlink, Shards
  <2>4. out = [Cache!Unlink(c, e) EXCEPT !.entries = [c.entries EXCEPT ![e] = f], !.usage = c.usage - 1]
    BY <2>1, <2>3
  <2> HIDE DEF out, f, lru, inUse
  <2> QED BY <2>2, <2>4 DEF Shards
<1>6. out.entries = [c.entries EXCEPT ![e] = f] /\ out.entries[e] = f
  <2> HIDE DEF f, out, lru, inUse
  <2> QED BY <1>1, <1>5 DEF Shards
<1>7. less = [out EXCEPT !.entries = [c.entries EXCEPT ![e] = g]]
  <2>1. less = [out EXCEPT !.entries = [out.entries EXCEPT ![e] = [out.entries[e] EXCEPT !.refs = @ - 1]]]
    OBVIOUS
  <2>2. less = [out EXCEPT !.entries = [out.entries EXCEPT ![e] = g]]
    BY <2>1, <1>6
  <2>3. [out.entries EXCEPT ![e] = g] = [c.entries EXCEPT ![e] = g]
    <3> HIDE DEF g, f, out
    <3> QED BY <1>1, <1>6
  <2> QED BY <2>2, <2>3
<1>8. less.entries = [c.entries EXCEPT ![e] = g] /\ less.entries[e] = g
  <2> HIDE DEF f, g, out, less, lru, inUse
  <2> QED BY <1>1, <1>5, <1>7 DEF Shards
<1>9. d = IF g.refs = 0 THEN [less EXCEPT !.entries[e].deletions = @ + 1] ELSE less
  <2>1. d = Cache!Unref(out, e)
    BY <1>2 DEF Cache!FinishErase
  <2>2. d = IF less.entries[e].refs = 0 THEN [less EXCEPT !.entries[e].deletions = @ + 1]
            ELSE IF less.entries[e].inCache /\ less.entries[e].refs = 1
            THEN [Cache!Unlink(less, e) EXCEPT !.lru = Append(@, e)] ELSE less
    BY <2>1 DEF Cache!Unref
  <2> HIDE DEF d, less, g
  <2> QED BY <2>2, <1>8, <1>3
<1> HIDE DEF d
<1>10. d = [less EXCEPT !.entries = [c.entries EXCEPT ![e] = h]]
  <2>1. CASE g.refs = 0
    <3>1. d = [less EXCEPT !.entries = [less.entries EXCEPT ![e] = [less.entries[e] EXCEPT !.deletions = @ + 1]]]
      BY <1>9, <2>1
    <3>2. d = [less EXCEPT !.entries = [less.entries EXCEPT ![e] = h]]
      <4> HIDE DEF less, g
      <4> QED BY <3>1, <1>8, <2>1
    <3>3. [less.entries EXCEPT ![e] = h] = [c.entries EXCEPT ![e] = h]
      <4> HIDE DEF h, g, less
      <4> QED BY <1>1, <1>8
    <3> QED BY <3>2, <3>3
  <2>2. CASE g.refs # 0
    <3>1. d = less /\ h = g
      BY <1>9, <2>2
    <3> HIDE DEF h, g
    <3>2. PICK z : z = [c.entries EXCEPT ![e] = g] OBVIOUS
    <3>3. less = [out EXCEPT !.entries = z] BY <1>7, <3>2
    <3> HIDE DEF less, out
    <3>4. less = [less EXCEPT !.entries = z] BY ONLY <3>3
    <3> QED BY ONLY <3>1, <3>2, <3>4
  <2> QED BY <2>1, <2>2
<1>11. d = [c EXCEPT !.lru = lru, !.inUse = inUse,
                     !.entries = [c.entries EXCEPT ![e] = h], !.usage = c.usage - 1]
  <2> HIDE DEF h, g, f, lru, inUse, less, out
  <2> QED BY <1>5, <1>7, <1>10 DEF Shards
<1> HIDE DEF h, g, f, less, out
<1>12. /\ lru \in Seq(Nat) /\ inUse \in Seq(Nat)
       /\ Lists(lru, {x \in Cached(c) : u[x] = 0} \ {e})
       /\ Lists(inUse, {x \in Cached(c) : u[x] > 0} \ {e})
  BY UnlinkedLists
<1> HIDE DEF lru, inUse
<1>13. /\ d \in Shards /\ d.entries = [c.entries EXCEPT ![e] = h]
       /\ d.buckets = c.buckets /\ d.elems = c.elems /\ d.usage = c.usage - 1
       /\ d.lru = lru /\ d.inUse = inUse
  <2>1. [c.entries EXCEPT ![e] = h] \in Seq(Entry)
    BY <1>1, <1>4
  <2>2. c.usage - 1 \in Int
    BY DEF Shards
  <2> DEFINE k == c.usage - 1
             t == [c.entries EXCEPT ![e] = h]
  <2>3. k \in Int /\ t \in Seq(Entry) /\ d = [c EXCEPT !.lru = lru, !.inUse = inUse, !.entries = t, !.usage = k]
    BY <2>1, <2>2, <1>11
  <2> HIDE DEF k, t
  <2>4. /\ d \in Shards /\ d.entries = t /\ d.buckets = c.buckets /\ d.elems = c.elems /\ d.usage = k
        /\ d.lru = lru /\ d.inUse = inUse
    BY <2>3, <1>12 DEF Shards
  <2> QED BY <2>4 DEF k, t
<1>14. /\ SameHandles(c, d) /\ HandlesOf(d) = HandlesOf(c)
       /\ d.entries[e] = h /\ \A x \in HandlesOf(c) : x # e => d.entries[x] = c.entries[x]
       /\ \A x \in HandlesOf(c) : Cache!KeyOf(d, x) = Cache!KeyOf(c, x)
       /\ Cached(d) = Cached(c) \ {e}
  <2>1. OneIsNew(c, d, e, h)
    BY <1>1, <1>4, <1>13, OneHandleChanged
  <2> QED BY <2>1, <1>4 DEF OneIsNew
<1>15. TableHas(d, Cached(d))
  <2>1. HandlesOf(c) \subseteq HandlesOf(d) /\ Cached(c) \ {e} \subseteq HandlesOf(c)
    BY <1>14 DEF Cached
  <2>2. TableHas(d, Cached(c) \ {e})
    BY <2>1, <1>13, <1>14, TableHasKept
  <2> QED BY <2>2, <1>14
<1>16. Shelved(d, u)
  <2>1. /\ {x \in Cached(d) : u[x] = 0} = {x \in Cached(c) : u[x] = 0} \ {e}
        /\ {x \in Cached(d) : u[x] > 0} = {x \in Cached(c) : u[x] > 0} \ {e}
    BY <1>14
  <2> QED BY <2>1, <1>12, <1>13 DEF Shelved
<1>17. Counted(d, u)
  <2> SUFFICES ASSUME NEW x \in HandlesOf(c)
               PROVE  /\ d.entries[x].refs = u[x] + (IF d.entries[x].inCache THEN 1 ELSE 0)
                      /\ d.entries[x].deletions = (IF d.entries[x].refs = 0 THEN 1 ELSE 0)
    BY <1>14 DEF Counted
  <2>1. CASE x = e
    BY <2>1, <1>1, <1>4, <1>14
  <2>2. CASE x # e
    BY <2>2, <1>14 DEF Counted
  <2> QED BY <2>1, <2>2
<1>18. d.usage = Cardinality(Cached(d))
  <2>1. IsFiniteSet(Cached(c))
    BY HandlesAreFinite DEF Cached
  <2> QED BY <2>1, <1>13, <1>14, FS_RemoveElement
<1>19. Whole(d, u)
  BY <1>13, <1>14, <1>15, <1>16, <1>17, <1>18 DEF Whole
<1> QED BY <1>14, <1>19 DEF d

\* Erase takes the handle of the key out of the cache.
LEMMA EraseIsWhole ==
  ASSUME Cache!CacheAssumption, NEW c, NEW u, Whole(c, u), NEW key \in Nat
  PROVE  LET d == Cache!Erase(c, key)
         IN  Whole(d, u) /\ SameHandles(c, d) /\ Cached(d) = Cached(c) \ {Cache!TableLookup(c, key)}
<1> DEFINE e == Cache!TableLookup(c, key)
           t == Cache!TableRemove(c, key)
           d == Cache!Erase(c, key)
<1>1. /\ c \in Shards /\ TableHas(c, Cached(c)) /\ u \in [HandlesOf(c) -> Nat]
      /\ Shelved(c, u) /\ Counted(c, u) /\ c.usage = Cardinality(Cached(c))
  BY DEF Whole
<1>2. e = Nil \/ (e \in Cached(c) /\ Cache!KeyOf(c, e) = key)
  BY <1>1, LookupIs
<1>3. CASE e = Nil
  <2>1. d = c
    BY <1>3 DEF Cache!Erase, Cache!FinishErase, Cache!TableRemove
  <2>2. Nil \notin Cached(c)
    <3>1. Cached(c) \subseteq Nat BY <1>1, KeyTypes DEF Cached
    <3> QED BY <3>1 DEF Cache!CacheAssumption
  <2> QED BY <2>1, <2>2, <1>3 DEF SameHandles
<1>4. CASE e # Nil
  <2>1. e \in Cached(c) /\ Cache!KeyOf(c, e) = key
    BY <1>2, <1>4
  <2> HIDE DEF e
  <2>2. TableHas(t, Cached(c) \ {e}) /\ SameButTable(c, t)
    BY <2>1, <1>1, TableRemoveHas
  <2>3. d = Cache!FinishErase(t, e)
    BY DEF Cache!Erase, e
  <2> HIDE DEF t, d
  <2>4. t \in Shards /\ Cached(t) = Cached(c) /\ HandlesOf(t) = HandlesOf(c)
    BY <2>2 DEF SameButTable, Cached, HandlesOf
  <2>5. Shelved(t, u) /\ Counted(t, u) /\ t.usage = Cardinality(Cached(t))
    BY <1>1, <2>2, <2>4 DEF SameButTable, Shelved, Counted
  <2>6. Whole(d, u) /\ SameHandles(t, d) /\ Cached(d) = Cached(t) \ {e}
    BY <2>1, <2>2, <2>3, <2>4, <2>5, <1>1, FinishEraseIsWhole
  <2>7. SameHandles(c, d)
    BY <2>2, <2>4, <2>6 DEF SameHandles, SameButTable
  <2> QED BY <2>4, <2>6, <2>7 DEF d, e
<1> QED BY <1>3, <1>4

LEMMA SameHandlesTwice ==
  ASSUME NEW c, NEW d, NEW x, SameHandles(c, d), SameHandles(d, x)
  PROVE  SameHandles(c, x)
BY DEF SameHandles, HandlesOf

\* Evict stops when there is room, or nothing that nobody uses.
LEMMA EvictIsWhole ==
  ASSUME Cache!CacheAssumption, NEW c, NEW u, Whole(c, u)
  PROVE  LET d == Cache!Evict(c)
         IN  Whole(d, u) /\ SameHandles(c, d) /\ (d.usage <= Capacity \/ d.lru = << >>)
<1> DEFINE n == Len(c.lru)
           Good == {x \in Shards : Whole(x, u) /\ SameHandles(c, x) /\ Cached(x) \subseteq Cached(c)}
           body(i, x) == IF x.usage > Capacity THEN Cache!Erase(x, Cache!KeyOf(x, c.lru[i])) ELSE x
           step == [p \in (1..n) \X Good |-> body(p[1], p[2])]
           IsAfter(f) == f = [i \in 0..n |-> IF i = 0 THEN c ELSE body(i, f[i - 1])]
           after == CHOOSE f : IsAfter(f)
<1>1. c \in Shards /\ n \in Nat /\ c.lru \in Seq(Nat) /\ Lists(c.lru, {x \in Cached(c) : u[x] = 0})
  BY DEF Whole, Shards, Shelved
<1>2. \A i \in 1 .. n : c.lru[i] \in Cached(c) /\ c.lru[i] \in HandlesOf(c)
  BY <1>1 DEF Lists, Cached
<1>3. \A i \in 1..n, x \in Good : Cache!KeyOf(x, c.lru[i]) \in Nat
  <2> TAKE i \in 1..n, x \in Good
  <2>1. c.lru[i] \in HandlesOf(x)
    BY <1>2 DEF SameHandles, HandlesOf
  <2> QED BY <2>1, KeyTypes
<1>4. c \in Good
  BY <1>1 DEF SameHandles
<1>5. \A i \in 1 .. n, x \in Good : body(i, x) \in Good /\ Cached(body(i, x)) \subseteq Cached(x)
  <2> TAKE i \in 1..n, x \in Good
  <2>1. CASE x.usage > Capacity
    <3> DEFINE y == Cache!Erase(x, Cache!KeyOf(x, c.lru[i]))
    <3>1. Whole(x, u) /\ SameHandles(c, x) /\ Cached(x) \subseteq Cached(c) /\ Cache!KeyOf(x, c.lru[i]) \in Nat
      BY <1>3
    <3>2. Whole(y, u) /\ SameHandles(x, y) /\ Cached(y) \subseteq Cached(x)
      BY <3>1, EraseIsWhole
    <3>3. body(i, x) = y BY <2>1
    <3> HIDE DEF y
    <3>4. SameHandles(c, y) /\ y \in Shards
      BY <3>1, <3>2, SameHandlesTwice DEF Whole
    <3> QED BY <3>1, <3>2, <3>3, <3>4
  <2>2. CASE ~(x.usage > Capacity)
    BY <2>2
  <2> QED BY <2>1, <2>2
<1>6. step \in [(1..n) \X Good -> Good]
  <2> HIDE DEF body, Good, n
  <2> QED BY <1>5
<1>7. PICK g \in [0 .. n -> Good] : g[0] = c /\ \A i \in 1..n : g[i] = step[<<i, g[i - 1]>>]
  <2> HIDE DEF step, Good, n
  <2>1. \E f : IsRecursion(f, n, Good, c, step)
    BY <1>1, <1>4, <1>6, RecursionOnInterval
  <2> QED BY <2>1 DEF IsRecursion
<1>8. IsAfter(g)
  <2> HIDE DEF n, body, Good
  <2>1. ASSUME NEW i \in 0..n PROVE g[i] = IF i = 0 THEN c ELSE body(i, g[i - 1])
    <3>1. CASE i # 0
      <4>1. i \in 1 .. n /\ i - 1 \in 0..n
        BY <3>1, <1>1
      <4> QED BY <3>1, <4>1, <1>7
    <3> QED BY <3>1, <1>7
  <2>2. g = [i \in 0..n |-> g[i]]
    BY <1>7
  <2> QED BY <2>1, <2>2
<1>9. IsAfter(after)
  BY <1>8, Zenon
<1>10. Cache!Evict(c) = after[n]
  BY DEF Cache!Evict
<1>11. after[0] = c /\ \A i \in 1..n : after[i] = body(i, after[i - 1])
  <2> HIDE DEF after, body, n
  <2>1. after[0] = c
    <3>1. 0 \in 0..n BY <1>1
    <3> QED BY <3>1, <1>9
  <2>2. ASSUME NEW i \in 1..n PROVE after[i] = body(i, after[i - 1])
    <3>1. i \in 0 .. n /\ i # 0
      BY <1>1
    <3> QED BY <3>1, <1>9
  <2> QED BY <2>1, <2>2
<1> HIDE DEF after, IsAfter, step
<1>12. \A i \in 0..n : after[i] \in Good
  <2>1. after[0] \in Good
    BY <1>4, <1>11, Zenon
  <2>2. ASSUME NEW i \in 1..n, after[i - 1] \in Good PROVE after[i] \in Good
    <3> HIDE DEF body, Good, n
    <3> QED BY <1>5, <1>11, <2>2
  <2> HIDE DEF Good, n
  <2> QED BY <2>1, <2>2, <1>1, StaysInSet
<1> DEFINE Roomy(i) == after[i].usage <= Capacity \/ \A k \in 1..i : c.lru[k] \notin Cached(after[i])
           Ends == {i \in Nat : i <= n => Roomy(i)}
<1>13. 0 \in Ends OBVIOUS
<1>14. ASSUME NEW i \in Ends PROVE i + 1 \in Ends
  <2>0. i \in Nat /\ (i <= n => Roomy(i)) OBVIOUS
  <2> SUFFICES ASSUME i + 1 <= n PROVE Roomy(i + 1)
    <3> HIDE DEF Roomy, n
    <3> QED BY <2>0
  <2> DEFINE x == after[i]
             y == after[i + 1]
             e == c.lru[i + 1]
  <2>1. i + 1 \in 1 .. n /\ i \in 0 .. n /\ (i + 1) - 1 = i /\ Roomy(i)
    <3> HIDE DEF Roomy, n
    <3> QED BY <2>0, <1>1
  <2>2. y = body(i + 1, x) /\ x \in Good
    <3> HIDE DEF body, n, Good
    <3> QED BY <2>1, <1>11, <1>12
  <2>3. CASE x.usage > Capacity
    <3>1. y = Cache!Erase(x, Cache!KeyOf(x, e)) BY <2>2, <2>3
    <3>2. Whole(x, u) /\ x \in Shards /\ x.usage \in Int /\ Capacity \in Int
      BY <2>2 DEF Shards, Cache!CacheAssumption
    <3>3. Cached(y) = Cached(x) \ {Cache!TableLookup(x, Cache!KeyOf(x, e))}
      <4>1. Cache!KeyOf(x, e) \in Nat BY <2>1, <2>2, <1>3
      <4> HIDE DEF x, y, e
      <4> QED BY <3>1, <3>2, <4>1, EraseIsWhole
    <3>4. e \notin Cached(y)
      <4>1. CASE e \in Cached(x)
        <5>1. Cache!TableLookup(x, Cache!KeyOf(x, e)) = e
          <6> HIDE DEF x, e
          <6> QED BY <3>2, <4>1, LookupFinds DEF Whole
        <5> QED BY <3>3, <5>1
      <4>2. CASE e \notin Cached(x)
        BY <3>3, <4>2
      <4> QED BY <4>1, <4>2
    <3>5. \A k \in 1..i : c.lru[k] \notin Cached(x) BY <2>1, <2>3, <3>2
    <3>6. \A k \in 1 .. i + 1 : k \in 1 .. i \/ k = i + 1
      BY <2>0
    <3>7. \A k \in 1..i + 1 : c.lru[k] \notin Cached(y) BY <3>3, <3>4, <3>5, <3>6
    <3> QED BY <3>7
  <2>4. CASE ~(x.usage > Capacity)
    <3>1. y = x BY <2>2, <2>4
    <3>2. x.usage \in Int /\ Capacity \in Int
      BY <2>2 DEF Shards, Cache!CacheAssumption
    <3>3. x.usage <= Capacity
      <4> HIDE DEF x
      <4> QED BY <2>4, <3>2
    <3> QED BY <3>1, <3>3
  <2> QED BY <2>3, <2>4
<1>15. Ends = Nat
  <2>1. Ends \subseteq Nat OBVIOUS
  <2> HIDE DEF Ends
  <2> QED BY <1>13, <1>14, <2>1, InductionBySet
<1>16. Roomy(n)
  <2>1. n \in Ends
    <3> HIDE DEF Ends
    <3> QED BY <1>1, <1>15
  <2> HIDE DEF Roomy, n
  <2> QED BY <2>1, <1>1
<1>17. after[n] \in Good
  <2> HIDE DEF Good
  <2> QED BY <1>1, <1>12
<1>18. after[n].usage <= Capacity \/ after[n].lru = << >>
  <2> DEFINE d == after[n]
  <2> SUFFICES ASSUME ~(d.usage <= Capacity) PROVE d.lru = << >> OBVIOUS
  <2>1. \A k \in 1..n : c.lru[k] \notin Cached(d)
    BY <1>16
  <2>2. Whole(d, u) /\ Cached(d) \subseteq Cached(c)
    BY <1>17
  <2>3. {x \in Cached(d) : u[x] = 0} = {}
    <3> SUFFICES ASSUME NEW x \in Cached(d), u[x] = 0 PROVE FALSE OBVIOUS
    <3>1. x \in {y \in Cached(c) : u[y] = 0} BY <2>2
    <3>2. PICK k \in 1..n : c.lru[k] = x
      <4> HIDE DEF d
      <4> QED BY <3>1, <1>1 DEF Lists
    <3> QED BY <3>2, <2>1
  <2> HIDE DEF d
  <2>4. Lists(d.lru, {})
    BY <2>2, <2>3 DEF Whole, Shelved
  <2> QED BY <2>4 DEF Lists
<1> QED BY <1>10, <1>17, <1>18

LEMMA PruneIsWhole ==
  ASSUME Cache!CacheAssumption, NEW c, NEW u, Whole(c, u)
  PROVE  Whole(Cache!Prune(c), u) /\ SameHandles(c, Cache!Prune(c))
<1> DEFINE n == Len(c.lru)
           Good == {x \in Shards : Whole(x, u) /\ SameHandles(c, x)}
           body(i, x) == Cache!Erase(x, Cache!KeyOf(x, c.lru[i]))
           step == [p \in (1..n) \X Good |-> body(p[1], p[2])]
           IsAfter(f) == f = [i \in 0..n |-> IF i = 0 THEN c ELSE body(i, f[i - 1])]
           after == CHOOSE f : IsAfter(f)
<1>1. c \in Shards /\ n \in Nat /\ c.lru \in Seq(Nat) /\ Lists(c.lru, {x \in Cached(c) : u[x] = 0})
  BY DEF Whole, Shards, Shelved
<1>2. \A i \in 1..n : c.lru[i] \in HandlesOf(c)
  BY <1>1 DEF Lists, Cached
<1>3. c \in Good
  BY <1>1 DEF SameHandles
<1>4. \A i \in 1..n, x \in Good : body(i, x) \in Good
  <2> TAKE i \in 1..n, x \in Good
  <2> DEFINE y == body(i, x)
  <2>1. c.lru[i] \in HandlesOf(x) /\ Whole(x, u) /\ SameHandles(c, x) /\ x \in Shards
    BY <1>2 DEF SameHandles, HandlesOf
  <2>2. Cache!KeyOf(x, c.lru[i]) \in Nat
    BY <2>1, KeyTypes
  <2>3. Whole(y, u) /\ SameHandles(x, y)
    BY <2>1, <2>2, EraseIsWhole
  <2> HIDE DEF y
  <2>4. y \in Shards /\ SameHandles(c, y)
    BY <2>1, <2>3, SameHandlesTwice DEF Whole
  <2>5. y \in Good
    BY <2>3, <2>4
  <2> QED BY <2>5 DEF y
<1>5. step \in [(1..n) \X Good -> Good]
  <2> HIDE DEF body, Good, n
  <2> QED BY <1>4
<1>6. PICK g \in [0 .. n -> Good] : g[0] = c /\ \A i \in 1..n : g[i] = step[<<i, g[i - 1]>>]
  <2> HIDE DEF step, Good, n
  <2>1. \E f : IsRecursion(f, n, Good, c, step)
    BY <1>1, <1>3, <1>5, RecursionOnInterval
  <2> QED BY <2>1 DEF IsRecursion
<1>7. IsAfter(g)
  <2> HIDE DEF n, body, Good
  <2>1. ASSUME NEW i \in 0..n PROVE g[i] = IF i = 0 THEN c ELSE body(i, g[i - 1])
    <3>1. CASE i # 0
      <4>1. i \in 1 .. n /\ i - 1 \in 0..n
        BY <3>1, <1>1
      <4> QED BY <3>1, <4>1, <1>6
    <3> QED BY <3>1, <1>6
  <2>2. g = [i \in 0..n |-> g[i]]
    BY <1>6
  <2> QED BY <2>1, <2>2
<1>8. IsAfter(after)
  BY <1>7, Zenon
<1>9. Cache!Prune(c) = after[n]
  BY DEF Cache!Prune
<1> HIDE DEF after
<1>10. \A i \in 0..n : after[i] \in Good
  <2> HIDE DEF body, Good, n
  <2>1. after[0] \in Good
    <3>1. 0 \in 0..n BY <1>1
    <3> QED BY <3>1, <1>3, <1>8
  <2>2. ASSUME NEW i \in 1..n, after[i - 1] \in Good PROVE after[i] \in Good
    <3>1. i \in 0 .. n /\ i # 0
      BY <1>1
    <3>2. after[i] = body(i, after[i - 1]) BY <3>1, <1>8
    <3> QED BY <3>2, <1>4, <2>2
  <2> HIDE DEF IsAfter
  <2> QED BY <2>1, <2>2, <1>1, StaysInSet
<1>11. after[n] \in Good
  <2> HIDE DEF Good, n
  <2> QED BY <1>1, <1>10
<1> QED BY <1>9, <1>11

\* An insertion: one more handle, with one user, and room for it where there can be.
Inserted(c, u, key, d) ==
  LET e == Len(c.entries) + 1 IN
    /\ Whole(d, [x \in 1..e |-> IF x = e THEN 1 ELSE u[x]])
    /\ Len(d.entries) = e /\ d.entries[e].key = key
    /\ \A x \in HandlesOf(c) : d.entries[x].key = c.entries[x].key
    /\ d.usage <= Capacity \/ d.lru = << >>

LEMMA InsertIsWhole ==
  ASSUME Cache!CacheAssumption, NEW c, NEW u, Whole(c, u), NEW key \in Files
  PROVE  Inserted(c, u, key, Cache!Insert(c, key))
<1> DEFINE e == Len(c.entries) + 1
           v == [x \in 1..e |-> IF x = e THEN 1 ELSE u[x]]
           h == [key |-> key, refs |-> 1, inCache |-> FALSE, deletions |-> 0]
           k == [[h EXCEPT !.refs = 2] EXCEPT !.inCache = TRUE]
           made == [c EXCEPT !.entries = Append(@, h)]
           kept == [made EXCEPT !.entries[e].refs = 2, !.entries[e].inCache = TRUE,
                                !.inUse = Append(@, e), !.usage = @ + 1]
           old == Cache!TableLookup(made, key)
           t == Cache!TableInsert(kept, e)
           d == IF Capacity > 0 THEN Cache!FinishErase(t, old) ELSE made
<1>1. /\ c \in Shards /\ u \in [HandlesOf(c) -> Nat] /\ c.entries \in Seq(Entry)
      /\ TableHas(c, Cached(c)) /\ Shelved(c, u) /\ Counted(c, u) /\ c.usage = Cardinality(Cached(c))
      /\ Cached(c) \subseteq HandlesOf(c) /\ Len(c.entries) \in Nat /\ HandlesOf(c) \subseteq Nat
  BY KeyTypes DEF Whole, Cached, Shards, HandlesOf
<1>2. Cache!Insert(c, key) = Cache!Evict(d)
  BY DEF Cache!Insert
<1>3. h \in Entry /\ k \in Entry /\ key \in Nat
  BY DEF Entry, Cache!CacheAssumption
<1>4. /\ HandlesOf(c) = 1 .. Len(c.entries) /\ 1 .. e = HandlesOf(c) \union {e} /\ e \notin HandlesOf(c) /\ e \in Nat
  BY <1>1 DEF HandlesOf
<1>5. /\ made \in Shards /\ made.entries = Append(c.entries, h) /\ made.buckets = c.buckets /\ made.elems = c.elems
      /\ made.lru = c.lru /\ made.inUse = c.inUse /\ made.usage = c.usage
  <2>1. Append(c.entries, h) \in Seq(Entry)
    BY <1>1, <1>3, AppendProperties
  <2> HIDE DEF h
  <2> QED BY <2>1, <1>1 DEF Shards
<1>6. /\ made.entries \in Seq(Entry) /\ Len(made.entries) = e /\ made.entries[e] = h
      /\ \A x \in HandlesOf(c) : made.entries[x] = c.entries[x]
  <2> HIDE DEF h, made
  <2> QED BY <1>1, <1>3, <1>4, <1>5, AppendProperties
<1>7. /\ kept.entries = [made.entries EXCEPT ![e] = k] /\ kept.buckets = c.buckets /\ kept.elems = c.elems
      /\ kept.lru = c.lru /\ kept.inUse = Append(c.inUse, e) /\ kept.usage = c.usage + 1 /\ kept \in Shards
  <2>1. kept = [made EXCEPT !.entries = [made.entries EXCEPT ![e] = k],
                            !.inUse = Append(c.inUse, e), !.usage = c.usage + 1]
    <3> DEFINE m1 == [made.entries EXCEPT ![e] = [made.entries[e] EXCEPT !.refs = 2]]
               m2 == [m1 EXCEPT ![e] = [m1[e] EXCEPT !.inCache = TRUE]]
    <3>1. kept = [made EXCEPT !.entries = m2, !.inUse = Append(c.inUse, e), !.usage = c.usage + 1]
      <4>1. kept = [[made EXCEPT !.entries[e].refs = 2, !.entries[e].inCache = TRUE]
                    EXCEPT !.inUse = Append(@, e), !.usage = @ + 1]
        <5> HIDE DEF made
        <5> QED BY <1>5 DEF Shards
      <4>2. [made EXCEPT !.entries[e].refs = 2].entries = m1
        <5> HIDE DEF made
        <5> QED BY <1>5 DEF Shards
      <4>3. [made EXCEPT !.entries[e].refs = 2, !.entries[e].inCache = TRUE]
              = [[made EXCEPT !.entries = m1] EXCEPT !.entries = m2]
        <5> HIDE DEF made
        <5> QED BY <1>5 DEF Shards
      <4> HIDE DEF made, kept, m1, m2
      <4> QED BY <4>1, <4>3, <1>5 DEF Shards
    <3>2. m2 = [made.entries EXCEPT ![e] = k]
      <4>1. e \in DOMAIN made.entries
        <5> HIDE DEF made
        <5> QED BY <1>4, <1>6
      <4> HIDE DEF made
      <4>2. m1[e] = [h EXCEPT !.refs = 2] BY <4>1, <1>6
      <4>3. [m1[e] EXCEPT !.inCache = TRUE] = k
        <5> HIDE DEF m1, h
        <5> QED BY <4>2
      <4> HIDE DEF k
      <4> QED BY <4>1, <4>3
    <3> HIDE DEF m2, k, made, kept
    <3> QED BY <3>1, <3>2
  <2>2. [made.entries EXCEPT ![e] = k] \in Seq(Entry)
    <3>1. e \in DOMAIN made.entries
      <4> HIDE DEF made
      <4> QED BY <1>4, <1>6
    <3> HIDE DEF k, made
    <3> QED BY <3>1, <1>3, <1>6
  <2>3. Append(c.inUse, e) \in Seq(Nat) /\ c.usage + 1 \in Int
    BY <1>1, <1>4, AppendProperties DEF Shards
  <2> DEFINE s == [made.entries EXCEPT ![e] = k]
             q == Append(c.inUse, e)
             r == c.usage + 1
  <2> HIDE DEF s, q, r, kept, made, k
  <2>4. kept = [made EXCEPT !.entries = s, !.inUse = q, !.usage = r] /\ s \in Seq(Entry) /\ q \in Seq(Nat) /\ r \in Int
    BY <2>1, <2>2, <2>3 DEF s, q, r
  <2>5. /\ kept.entries = s /\ kept.buckets = c.buckets /\ kept.elems = c.elems
        /\ kept.lru = c.lru /\ kept.inUse = q /\ kept.usage = r /\ kept \in Shards
    BY <2>4, <1>5 DEF Shards
  <2> QED BY <2>5 DEF s, q, r
<1>8. /\ Len(kept.entries) = e /\ kept.entries[e] = k
      /\ \A x \in HandlesOf(c) : kept.entries[x] = c.entries[x]
  <2> HIDE DEF kept, made, k, h
  <2> QED BY <1>4, <1>6, <1>7
<1>9. h.key = key /\ h.refs = 1 /\ h.inCache = FALSE /\ h.deletions = 0
      /\ k.key = key /\ k.refs = 2 /\ k.inCache = TRUE /\ k.deletions = 0
  OBVIOUS
<1> HIDE DEF made, kept, h, k
<1>10. /\ HandlesOf(made) = 1 .. e /\ HandlesOf(kept) = 1..e
       /\ Cached(made) = Cached(c) /\ Cached(kept) = Cached(c) \union {e}
       /\ \A x \in HandlesOf(c) : Cache!KeyOf(made, x) = Cache!KeyOf(c, x) /\ Cache!KeyOf(kept, x) = Cache!KeyOf(c, x)
       /\ Cache!KeyOf(made, e) = key /\ Cache!KeyOf(kept, e) = key
  BY <1>4, <1>6, <1>8, <1>9 DEF HandlesOf, Cached, Cache!KeyOf
<1>11. v \in [1 .. e -> Nat] /\ v[e] = 1 /\ \A x \in HandlesOf(c) : v[x] = u[x]
  BY <1>1, <1>4
<1> HIDE DEF v, e
<1>12. TableHas(made, Cached(c)) /\ TableHas(kept, Cached(c))
  BY <1>1, <1>4, <1>5, <1>7, <1>10, TableHasKept
<1>13. Whole(made, v)
  <2>1. Shelved(made, v)
    <3>1. /\ {x \in Cached(made) : v[x] = 0} = {x \in Cached(c) : u[x] = 0}
          /\ {x \in Cached(made) : v[x] > 0} = {x \in Cached(c) : u[x] > 0}
      BY <1>1, <1>10, <1>11
    <3> QED BY <3>1, <1>1, <1>5 DEF Shelved
  <2>2. Counted(made, v)
    <3> SUFFICES ASSUME NEW x \in HandlesOf(c) \union {e}
                 PROVE  /\ made.entries[x].refs = v[x] + (IF made.entries[x].inCache THEN 1 ELSE 0)
                        /\ made.entries[x].deletions = (IF made.entries[x].refs = 0 THEN 1 ELSE 0)
      BY <1>4, <1>10 DEF Counted
    <3>1. CASE x = e
      BY <3>1, <1>6, <1>9, <1>11
    <3>2. CASE x # e
      <4>1. made.entries[x] = c.entries[x] /\ v[x] = u[x] /\ x \in HandlesOf(c)
        BY <3>2, <1>6, <1>11
      <4> QED BY <4>1, <1>1 DEF Counted
    <3> QED BY <3>1, <3>2
  <2> QED BY <2>1, <2>2, <1>1, <1>5, <1>10, <1>11, <1>12 DEF Whole
<1>15. ASSUME Whole(d, v), Len(d.entries) = e, d.entries[e].key = key,
              \A x \in HandlesOf(c) : d.entries[x].key = c.entries[x].key
       PROVE  Inserted(c, u, key, Cache!Insert(c, key))
  <2> DEFINE x == Cache!Evict(d)
  <2>1. Whole(x, v) /\ SameHandles(d, x) /\ (x.usage <= Capacity \/ x.lru = << >>)
    BY <1>15, EvictIsWhole
  <2> HIDE DEF d
  <2>2. Cache!Insert(c, key) = x
    BY <1>2
  <2> HIDE DEF x
  <2>3. HandlesOf(d) = 1..e
    BY <1>15 DEF HandlesOf
  <2>4. /\ Len(x.entries) = e /\ x.entries[e].key = key
        /\ \A y \in HandlesOf(c) : x.entries[y].key = c.entries[y].key
    BY <2>1, <2>3, <1>4, <1>15 DEF SameHandles
  <2> QED BY <2>1, <2>2, <2>4 DEF Inserted, v, e
<1>14. CASE Capacity > 0
  <2>1. old = Cache!TableLookup(kept, key)
    <3>1. CASE \E x \in Cached(c) : Cache!KeyOf(c, x) = key
      <4>1. PICK x \in Cached(c) : Cache!KeyOf(c, x) = key BY <3>1
      <4>2. Cache!KeyOf(made, x) = key /\ Cache!KeyOf(kept, x) = key
        BY <4>1, <1>1, <1>10
      <4>3. Cache!TableLookup(made, Cache!KeyOf(made, x)) = x /\ Cache!TableLookup(kept, Cache!KeyOf(kept, x)) = x
        BY <1>5, <1>7, <1>12, LookupFinds
      <4> QED BY <4>2, <4>3
    <3>2. CASE ~ \E x \in Cached(c) : Cache!KeyOf(c, x) = key
      <4>1. \A x \in Cached(c) : Cache!KeyOf(made, x) # key /\ Cache!KeyOf(kept, x) # key
        BY <3>2, <1>1, <1>10
      <4>2. Cache!TableLookup(made, key) = Nil /\ Cache!TableLookup(kept, key) = Nil
        BY <4>1, <1>3, <1>5, <1>7, <1>12, LookupMisses
      <4> QED BY <4>2
    <3> QED BY <3>1, <3>2
  <2>2. old = Nil \/ old \in Cached(c)
    BY <2>1, <1>3, <1>7, <1>12, LookupIs
  <2> HIDE DEF old
  <2>3. TableHas(t, (Cached(c) \ {old}) \union {e}) /\ SameButTable(kept, t)
    <3>1. e \in HandlesOf(kept) /\ e \notin Cached(c) /\ Cache!KeyOf(kept, e) = key
      BY <1>1, <1>4, <1>10
    <3> QED BY <3>1, <2>1, <1>7, <1>12, TableInsertHas
  <2> HIDE DEF t
  <2>4. /\ t \in Shards /\ t.entries = kept.entries /\ HandlesOf(t) = 1..e
        /\ Cached(t) = Cached(c) \union {e}
        /\ t.lru = c.lru /\ t.inUse = Append(c.inUse, e) /\ t.usage = c.usage + 1
    BY <2>3, <1>7, <1>10 DEF SameButTable, Cached, HandlesOf
  <2>5. Shelved(t, v)
    <3>1. e \notin Cached(c) BY <1>1, <1>4
    <3>2. /\ {x \in Cached(t) : v[x] = 0} = {x \in Cached(c) : u[x] = 0}
          /\ {x \in Cached(t) : v[x] > 0} = {x \in Cached(c) : u[x] > 0} \union {e}
      BY <3>1, <2>4, <1>1, <1>11
    <3>3. Lists(c.inUse, {x \in Cached(c) : u[x] > 0}) /\ e \notin {x \in Cached(c) : u[x] > 0}
      BY <3>1, <1>1 DEF Shelved
    <3>4. Lists(t.inUse, {x \in Cached(t) : v[x] > 0})
      BY <3>2, <3>3, <2>4, ListsAppended
    <3> QED BY <3>2, <3>4, <2>4, <1>1 DEF Shelved
  <2>6. Counted(t, v)
    <3> SUFFICES ASSUME NEW x \in HandlesOf(c) \union {e}
                 PROVE  /\ t.entries[x].refs = v[x] + (IF t.entries[x].inCache THEN 1 ELSE 0)
                        /\ t.entries[x].deletions = (IF t.entries[x].refs = 0 THEN 1 ELSE 0)
      BY <2>4, <1>4 DEF Counted
    <3>1. CASE x = e
      BY <3>1, <2>4, <1>8, <1>9, <1>11
    <3>2. CASE x # e
      <4>1. t.entries[x] = c.entries[x] /\ v[x] = u[x] /\ x \in HandlesOf(c)
        BY <3>2, <2>4, <1>8, <1>11
      <4> QED BY <4>1, <1>1 DEF Counted
    <3> QED BY <3>1, <3>2
  <2>7. t.usage = Cardinality(Cached(t))
    <3>1. IsFiniteSet(Cached(c)) /\ e \notin Cached(c)
      BY <1>1, <1>4, HandlesAreFinite
    <3>2. Cardinality(Cached(c) \union {e}) = Cardinality(Cached(c)) + 1
      BY <3>1, FS_AddElement
    <3> QED BY <3>2, <2>4, <1>1
  <2>8. Whole(d, v) /\ SameHandles(t, d)
    <3>1. CASE old = Nil
      <4>1. Nil \notin Cached(c) BY <1>1 DEF Cache!CacheAssumption
      <4>2. d = t BY <3>1, <1>14 DEF Cache!FinishErase
      <4>3. TableHas(t, Cached(t))
        <5>1. (Cached(c) \ {old}) \union {e} = Cached(t) BY <3>1, <4>1, <2>4
        <5> QED BY <5>1, <2>3
      <4>4. Whole(t, v) BY <4>3, <2>4, <2>5, <2>6, <2>7, <1>11 DEF Whole
      <4> HIDE DEF d
      <4> QED BY <4>2, <4>4 DEF SameHandles
    <3>2. CASE old \in Cached(c)
      <4>1. d = Cache!FinishErase(t, old) BY <1>14
      <4>2. old \in Cached(t) /\ (Cached(c) \ {old}) \union {e} = Cached(t) \ {old}
        BY <3>2, <2>4, <1>1, <1>4
      <4> HIDE DEF d
      <4> QED BY <4>1, <4>2, <2>3, <2>4, <2>5, <2>6, <2>7, <1>11, FinishEraseIsWhole
    <3> QED BY <2>2, <3>1, <3>2
  <2>9. /\ Len(d.entries) = e /\ d.entries[e].key = key
        /\ \A x \in HandlesOf(c) : d.entries[x].key = c.entries[x].key
    <3> HIDE DEF d
    <3> QED BY <2>4, <2>8, <1>4, <1>8, <1>9 DEF SameHandles
  <2> QED BY <2>8, <2>9, <1>15
<1>16. CASE ~(Capacity > 0)
  <2>1. d = made
    BY <1>16
  <2>2. /\ Whole(d, v) /\ Len(d.entries) = e /\ d.entries[e].key = key
        /\ \A x \in HandlesOf(c) : d.entries[x].key = c.entries[x].key
    <3> HIDE DEF d
    <3> QED BY <2>1, <1>6, <1>9, <1>13
  <2> QED BY <2>2, <1>15
<1> QED BY <1>14, <1>16

------------------------
(* The threads. *)

UserCounts == [e \in HandlesOf(cache) |-> Cardinality(Cache!Holders(e))]

\* Between two steps the shard is whole, and a handle has the users that hold it.
CacheInv ==
  /\ Whole(cache, UserCounts)
  /\ phase \in [Threads -> {"idle", "opening", "using"}]
  /\ wanted \in [Threads -> Files \union {Nil}]
  /\ held \in [Threads -> HandlesOf(cache) \union {Nil}]
  /\ \A t \in Threads : phase[t] = "opening" => wanted[t] \in Files
  /\ \A t \in Threads : phase[t] = "using" =>
       held[t] \in HandlesOf(cache) /\ Cache!KeyOf(cache, held[t]) = wanted[t]
  /\ \A t \in Threads : phase[t] # "using" => held[t] = Nil

\* The instance counts as this module does.
LEMMA CountsAreTheSame == ASSUME NEW S PROVE Cache!Cardinality(S) = Cardinality(S)
BY DEF Cache!Cardinality, Cardinality, Cache!IsFiniteSet, IsFiniteSet

LEMMA HoldersAreFinite ==
  ASSUME Cache!CacheAssumption, NEW e
  PROVE  IsFiniteSet(Cache!Holders(e)) /\ Cardinality(Cache!Holders(e)) \in Nat
         /\ (Cardinality(Cache!Holders(e)) = 0 <=> Cache!Holders(e) = {})
<1>1. IsFiniteSet(Cache!Holders(e))
  <2>1. IsFiniteSet(Threads)
    BY DEF Cache!CacheAssumption, Cache!IsFiniteSet, IsFiniteSet
  <2> QED BY <2>1, FS_Subset DEF Cache!Holders
<1> QED BY <1>1, FS_CardinalityType, FS_EmptySet

LEMMA WholeTypes ==
  ASSUME Cache!CacheAssumption, CacheInv
  PROVE  cache \in Shards /\ HandlesOf(cache) \subseteq Nat /\ Nil \notin HandlesOf(cache)
<1>1. cache \in Shards
  BY DEF CacheInv, Whole
<1> QED BY <1>1, KeyTypes DEF Cache!CacheAssumption

LEMMA CacheInit == ASSUME Cache!CacheAssumption, Cache!Init PROVE CacheInv
<1>1. /\ cache = Cache!Empty /\ phase = [t \in Threads |-> "idle"]
      /\ wanted = [t \in Threads |-> Nil] /\ held = [t \in Threads |-> Nil]
  BY DEF Cache!Init
<1>2. cache.entries = << >> /\ cache.lru = << >> /\ cache.inUse = << >> /\ cache.elems = 0 /\ cache.usage = 0
      /\ cache.buckets = [i \in 1..MinBuckets |-> << >>]
  BY <1>1 DEF Cache!Empty
<1>3. MinBuckets \in Nat /\ MinBuckets > 0
  BY DEF Cache!CacheAssumption
<1>4. cache.buckets \in Seq(Seq(Nat)) /\ Len(cache.buckets) = MinBuckets
  <2>1. cache.buckets \in [1..MinBuckets -> Seq(Nat)]
    BY <1>2
  <2>2. cache.buckets \in Seq(Seq(Nat))
    BY <2>1, <1>3, SeqDef
  <2> QED BY <2>1, <2>2, <1>3
<1>5. cache \in Shards
  <2>1. cache = [entries |-> << >>, lru |-> << >>, inUse |-> << >>,
                 buckets |-> cache.buckets, elems |-> 0, usage |-> 0]
    BY <1>1, <1>2 DEF Cache!Empty
  <2>2. << >> \in Seq(Entry) /\ << >> \in Seq(Nat) /\ 0 \in Int OBVIOUS
  <2> DEFINE b == cache.buckets
  <2> HIDE DEF b
  <2>3. b \in Seq(Seq(Nat)) /\ cache = [entries |-> << >>, lru |-> << >>, inUse |-> << >>,
                 buckets |-> b, elems |-> 0, usage |-> 0]
    BY <2>1, <1>4 DEF b
  <2> QED BY <2>2, <2>3 DEF Shards
<1>6. HandlesOf(cache) = {} /\ Cached(cache) = {} /\ Cardinality({}) = 0
  BY <1>2, FS_EmptySet DEF HandlesOf, Cached
<1>7. TableHas(cache, {})
  <2>1. \A b \in 1 .. Len(cache.buckets) : cache.buckets[b] = << >> /\ Chain(cache, {}, b) = {}
    BY <1>2, <1>4 DEF Chain
  <2> QED BY <2>1, <1>2, <1>3, <1>4, <1>6, ListsNothing DEF TableHas
<1>8. UserCounts \in [HandlesOf(cache) -> Nat]
  BY <1>6 DEF UserCounts
<1>9. Shelved(cache, UserCounts) /\ Counted(cache, UserCounts)
  <2>1. {e \in Cached(cache) : UserCounts[e] = 0} = {} /\ {e \in Cached(cache) : UserCounts[e] > 0} = {}
    BY <1>6
  <2> QED BY <2>1, <1>2, <1>6, ListsNothing DEF Shelved, Counted
<1>10. Whole(cache, UserCounts)
  BY <1>2, <1>5, <1>6, <1>7, <1>8, <1>9 DEF Whole
<1> QED BY <1>1, <1>10 DEF CacheInv

\* The handles' users after a step of one thread.
LEMMA UsersAfter ==
  ASSUME Cache!CacheAssumption, CacheInv, NEW t \in Threads, NEW e,
         held' = [held EXCEPT ![t] = e]
  PROVE  \A x : x # Nil =>
           /\ x = e /\ held[t] = Nil => Cardinality(Cache!Holders(x)') = Cardinality(Cache!Holders(x)) + 1
           /\ x = held[t] /\ e = Nil =>
                Cardinality(Cache!Holders(x)') = Cardinality(Cache!Holders(x)) - 1 /\ Cardinality(Cache!Holders(x)) > 0
           /\ x # e /\ x # held[t] => Cardinality(Cache!Holders(x)') = Cardinality(Cache!Holders(x))
<1>1. held' \in [Threads -> HandlesOf(cache) \union {Nil, e}]
      /\ held'[t] = e /\ \A s \in Threads : s # t => held'[s] = held[s]
  BY DEF CacheInv
<1> TAKE x
<1> HAVE x # Nil
<1>2. IsFiniteSet(Cache!Holders(x)) /\ Cardinality(Cache!Holders(x)) \in Nat
  BY HoldersAreFinite
<1>3. ASSUME x = e, held[t] = Nil PROVE Cardinality(Cache!Holders(x)') = Cardinality(Cache!Holders(x)) + 1
  <2>1. Cache!Holders(x)' = Cache!Holders(x) \union {t} /\ t \notin Cache!Holders(x)
    BY <1>1, <1>3 DEF Cache!Holders
  <2> QED BY <2>1, <1>2, FS_AddElement
<1>4. ASSUME x = held[t], e = Nil
      PROVE  Cardinality(Cache!Holders(x)') = Cardinality(Cache!Holders(x)) - 1 /\ Cardinality(Cache!Holders(x)) > 0
  <2>1. Cache!Holders(x)' = Cache!Holders(x) \ {t} /\ t \in Cache!Holders(x)
    BY <1>1, <1>4 DEF Cache!Holders
  <2>2. Cardinality(Cache!Holders(x)) # 0
    BY <2>1, HoldersAreFinite
  <2> QED BY <2>1, <2>2, <1>2, FS_RemoveElement
<1>5. ASSUME x # e, x # held[t] PROVE Cardinality(Cache!Holders(x)') = Cardinality(Cache!Holders(x))
  <2>1. Cache!Holders(x)' = Cache!Holders(x)
    BY <1>1, <1>5 DEF Cache!Holders
  <2> QED BY <2>1
<1> QED BY <1>3, <1>4, <1>5

\* A step that changes the shard for a thread that does not change what it holds.
LEMMA ShardStep ==
  ASSUME Cache!CacheAssumption, CacheInv, Whole(cache', UserCounts), SameHandles(cache, cache'),
         UNCHANGED <<phase, wanted, held>>
  PROVE  CacheInv'
<1>1. HandlesOf(cache)' = HandlesOf(cache) /\ \A x \in HandlesOf(cache) : Cache!KeyOf(cache', x) = Cache!KeyOf(cache, x)
  BY DEF SameHandles, HandlesOf, Cache!KeyOf
<1>2. UserCounts' = UserCounts
  BY <1>1 DEF UserCounts, Cache!Holders
<1> QED BY <1>1, <1>2 DEF CacheInv, Whole

LEMMA CacheStep ==
  ASSUME Cache!CacheAssumption, CacheInv, [Cache!Next]_Cache!vars
  PROVE  CacheInv' /\ (Cache!Next => Cache!MakesRoom)
<1>1. /\ Whole(cache, UserCounts) /\ phase \in [Threads -> {"idle", "opening", "using"}]
      /\ wanted \in [Threads -> Files \union {Nil}]
      /\ held \in [Threads -> HandlesOf(cache) \union {Nil}]
      /\ cache \in Shards /\ HandlesOf(cache) \subseteq Nat /\ Nil \notin HandlesOf(cache)
      /\ TableHas(cache, Cached(cache)) /\ UserCounts \in [HandlesOf(cache) -> Nat]
      /\ Files \subseteq Nat /\ Cached(cache) \subseteq HandlesOf(cache)
      /\ Len(cache.entries) \in Nat
  BY WholeTypes DEF CacheInv, Whole, Cache!CacheAssumption, Cached, Shards
<1>2. \A t \in Threads : phase[t] = "opening" => wanted[t] \in Files
  BY DEF CacheInv
<1>3. \A t \in Threads : phase[t] = "using" => held[t] \in HandlesOf(cache) /\ Cache!KeyOf(cache, held[t]) = wanted[t]
  BY DEF CacheInv
<1>4. \A t \in Threads : phase[t] # "using" => held[t] = Nil
  BY DEF CacheInv
<1>5. ASSUME SameHandles(cache, cache') PROVE Cache!MakesRoom
  BY <1>1, <1>5 DEF SameHandles, Cache!MakesRoom
<1>6. ASSUME NEW t \in Threads, NEW f \in Files, Cache!Find(t, f) PROVE CacheInv' /\ Cache!MakesRoom
  <2>0. PICK e : e = Cache!TableLookup(cache, f) OBVIOUS
  <2>1. /\ phase[t] = "idle" /\ wanted' = [wanted EXCEPT ![t] = f]
        /\ IF e = Nil
           THEN phase' = [phase EXCEPT ![t] = "opening"] /\ UNCHANGED <<cache, held>>
           ELSE /\ phase' = [phase EXCEPT ![t] = "using"] /\ held' = [held EXCEPT ![t] = e]
                /\ cache' = Cache!Ref(cache, e)
    BY <1>6, <2>0 DEF Cache!Find
  <2>2. e = Nil \/ (e \in Cached(cache) /\ Cache!KeyOf(cache, e) = f)
    BY <1>1, <2>0, LookupIs
  <2>3. held[t] = Nil
    BY <2>1, <1>4
  <2>4. CASE e = Nil
    <3>1. phase' = [phase EXCEPT ![t] = "opening"] /\ UNCHANGED <<cache, held>>
      BY <2>1, <2>4
    <3>2. UserCounts' = UserCounts BY <3>1 DEF UserCounts, Cache!Holders, HandlesOf
    <3>3. CacheInv'
      <4>1. HandlesOf(cache)' = HandlesOf(cache) /\ Whole(cache, UserCounts)'
        BY <3>1, <3>2, <1>1 DEF Whole
      <4>2. phase' \in [Threads -> {"idle", "opening", "using"}] /\ wanted' \in [Threads -> Files \union {Nil}]
        BY <3>1, <2>1, <1>1
      <4>3. \A s \in Threads : s # t => phase'[s] = phase[s] /\ wanted'[s] = wanted[s]
        BY <3>1, <2>1, <1>1
      <4>4. phase'[t] = "opening" /\ wanted'[t] = f
        BY <3>1, <2>1, <1>1
      <4> QED BY <4>1, <4>2, <4>3, <4>4, <3>1, <1>1, <1>2, <1>3, <1>4, <2>3 DEF CacheInv
    <3> QED BY <3>1, <3>3, <1>1 DEF Cache!MakesRoom
  <2>5. CASE e # Nil
    <3>1. /\ phase' = [phase EXCEPT ![t] = "using"] /\ held' = [held EXCEPT ![t] = e]
          /\ cache' = Cache!Ref(cache, e) /\ e \in Cached(cache) /\ Cache!KeyOf(cache, e) = f
      BY <2>1, <2>2, <2>5
    <3>2. Whole(cache', [UserCounts EXCEPT ![e] = @ + 1]) /\ SameHandles(cache, cache')
      BY <3>1, <1>1, RefIsWhole
    <3>3. HandlesOf(cache)' = HandlesOf(cache) /\ \A x \in HandlesOf(cache) : Cache!KeyOf(cache', x) = Cache!KeyOf(cache, x)
      BY <3>2 DEF SameHandles, HandlesOf, Cache!KeyOf
    <3>4. UserCounts' = [UserCounts EXCEPT ![e] = @ + 1]
      <4>1. \A x \in HandlesOf(cache) :
              Cardinality(Cache!Holders(x)') = IF x = e THEN Cardinality(Cache!Holders(x)) + 1 ELSE Cardinality(Cache!Holders(x))
        <5>1. \A x \in HandlesOf(cache) : x # Nil BY <1>1
        <5>2. Cardinality(Cache!Holders(e)') = Cardinality(Cache!Holders(e)) + 1
          BY <3>1, <2>3, <2>5, UsersAfter
        <5>3. \A x \in HandlesOf(cache) : x # e => Cardinality(Cache!Holders(x)') = Cardinality(Cache!Holders(x))
          BY <3>1, <2>3, <5>1, UsersAfter
        <5> QED BY <5>2, <5>3
      <4>2. UserCounts' = [x \in HandlesOf(cache) |-> Cardinality(Cache!Holders(x)')]
        BY <3>3 DEF UserCounts
      <4> QED BY <4>1, <4>2 DEF UserCounts
    <3>5. CacheInv'
      <4>1. Whole(cache, UserCounts)'
        <5>1. Whole(cache', UserCounts') BY <3>2, <3>4
        <5> QED BY <5>1 DEF Whole
      <4>2. /\ phase' \in [Threads -> {"idle", "opening", "using"}] /\ wanted' \in [Threads -> Files \union {Nil}]
            /\ held' \in [Threads -> HandlesOf(cache)' \union {Nil}]
        BY <3>1, <3>3, <2>1, <1>1
      <4>3. \A s \in Threads : s # t => phase'[s] = phase[s] /\ wanted'[s] = wanted[s] /\ held'[s] = held[s]
        BY <3>1, <2>1, <1>1
      <4>4. phase'[t] = "using" /\ wanted'[t] = f /\ held'[t] = e
        BY <3>1, <2>1, <1>1
      <4> QED BY <4>1, <4>2, <4>3, <4>4, <3>1, <3>3, <1>1, <1>2, <1>3, <1>4 DEF CacheInv
    <3> QED BY <3>2, <3>5, <1>5
  <2> QED BY <2>4, <2>5
<1>7. ASSUME NEW t \in Threads, Cache!Opened(t) PROVE CacheInv' /\ Cache!MakesRoom
  <2>0. PICK e : e = Len(cache.entries) + 1 OBVIOUS
  <2>1. /\ phase[t] = "opening" /\ cache' = Cache!Insert(cache, wanted[t])
        /\ phase' = [phase EXCEPT ![t] = "using"] /\ held' = [held EXCEPT ![t] = e] /\ wanted' = wanted
    BY <1>7, <2>0 DEF Cache!Opened
  <2>2. wanted[t] \in Files /\ held[t] = Nil
    BY <2>1, <1>2, <1>4
  <2>3. Inserted(cache, UserCounts, wanted[t], cache')
    BY <2>1, <2>2, <1>1, InsertIsWhole
  <2>4. /\ Whole(cache', [x \in 1..e |-> IF x = e THEN 1 ELSE UserCounts[x]])
        /\ Len(cache'.entries) = e /\ cache'.entries[e].key = wanted[t]
        /\ \A x \in HandlesOf(cache) : cache'.entries[x].key = cache.entries[x].key
        /\ (cache'.usage <= Capacity \/ cache'.lru = << >>)
    BY <2>0, <2>3 DEF Inserted
  <2>5. /\ HandlesOf(cache)' = 1 .. e /\ 1..e = HandlesOf(cache) \union {e}
        /\ e \notin HandlesOf(cache) /\ e \in Nat
    BY <2>0, <2>4, <1>1 DEF HandlesOf
  <2>6. Cache!MakesRoom
    BY <2>0, <2>4 DEF Cache!MakesRoom
  <2>7. e # Nil
    BY <2>5 DEF Cache!CacheAssumption
  <2>8. UserCounts' = [x \in 1..e |-> IF x = e THEN 1 ELSE UserCounts[x]]
    <3>1. Cardinality(Cache!Holders(e)') = 1
      <4>1. Cache!Holders(e) = {} BY <2>5, <2>7, <1>1 DEF Cache!Holders
      <4>2. Cardinality(Cache!Holders(e)) = 0 BY <4>1, HoldersAreFinite
      <4>3. Cardinality(Cache!Holders(e)') = Cardinality(Cache!Holders(e)) + 1
        BY <2>1, <2>2, <2>7, UsersAfter
      <4> QED BY <4>2, <4>3
    <3>2. \A x \in HandlesOf(cache) : Cardinality(Cache!Holders(x)') = Cardinality(Cache!Holders(x))
      BY <2>1, <2>2, <2>5, <1>1, UsersAfter
    <3>3. UserCounts' = [x \in 1..e |-> Cardinality(Cache!Holders(x)')]
      BY <2>5 DEF UserCounts
    <3>4. \A x \in 1..e : Cardinality(Cache!Holders(x)') = IF x = e THEN 1 ELSE UserCounts[x]
      <4>1. \A x \in HandlesOf(cache) : UserCounts[x] = Cardinality(Cache!Holders(x))
        BY DEF UserCounts
      <4> QED BY <4>1, <3>1, <3>2, <2>5
    <3> DEFINE n(x) == Cardinality(Cache!Holders(x)')
               m(x) == IF x = e THEN 1 ELSE UserCounts[x]
    <3>5. UserCounts' = [x \in 1 .. e |-> n(x)] /\ \A x \in 1..e : n(x) = m(x)
      BY <3>3, <3>4
    <3> HIDE DEF n, m
    <3>6. UserCounts' = [x \in 1..e |-> m(x)] BY <3>5
    <3> QED BY <3>6 DEF m
  <2>9. CacheInv'
    <3>1. Whole(cache, UserCounts)'
      <4>1. Whole(cache', UserCounts') BY <2>4, <2>8
      <4> QED BY <4>1 DEF Whole
    <3>2. /\ phase' \in [Threads -> {"idle", "opening", "using"}] /\ wanted' \in [Threads -> Files \union {Nil}]
          /\ held' \in [Threads -> HandlesOf(cache)' \union {Nil}]
      BY <2>1, <2>5, <1>1
    <3>3. \A s \in Threads : s # t => phase'[s] = phase[s] /\ held'[s] = held[s]
      BY <2>1, <1>1
    <3>4. phase'[t] = "using" /\ held'[t] = e /\ Cache!KeyOf(cache', e) = wanted[t]
      BY <2>1, <2>4, <1>1 DEF Cache!KeyOf
    <3>5. \A x \in HandlesOf(cache) : Cache!KeyOf(cache', x) = Cache!KeyOf(cache, x)
      BY <2>4 DEF Cache!KeyOf
    <3> QED BY <3>1, <3>2, <3>3, <3>4, <3>5, <2>1, <2>5, <1>2, <1>3, <1>4 DEF CacheInv
  <2> QED BY <2>6, <2>9
<1>8. ASSUME NEW t \in Threads, Cache!OpenFails(t) PROVE CacheInv' /\ Cache!MakesRoom
  <2>1. /\ phase[t] = "opening" /\ phase' = [phase EXCEPT ![t] = "idle"] /\ wanted' = [wanted EXCEPT ![t] = Nil]
        /\ UNCHANGED <<cache, held>>
    BY <1>8 DEF Cache!OpenFails
  <2>2. UserCounts' = UserCounts /\ HandlesOf(cache)' = HandlesOf(cache)
    BY <2>1 DEF UserCounts, Cache!Holders, HandlesOf
  <2>3. Whole(cache, UserCounts)'
    BY <2>1, <2>2, <1>1 DEF Whole
  <2>4. phase' \in [Threads -> {"idle", "opening", "using"}] /\ wanted' \in [Threads -> Files \union {Nil}]
    BY <2>1, <1>1
  <2>5. \A s \in Threads : s # t => phase'[s] = phase[s] /\ wanted'[s] = wanted[s]
    BY <2>1, <1>1
  <2>6. phase'[t] = "idle" /\ held[t] = Nil
    BY <2>1, <1>1, <1>4
  <2>7. CacheInv'
    BY <2>1, <2>2, <2>3, <2>4, <2>5, <2>6, <1>1, <1>2, <1>3, <1>4 DEF CacheInv
  <2> QED BY <2>1, <2>7, <1>1 DEF Cache!MakesRoom
<1>9. ASSUME NEW t \in Threads, Cache!Release(t) PROVE CacheInv' /\ Cache!MakesRoom
  <2>0. PICK e : e = held[t] OBVIOUS
  <2>1. /\ phase[t] = "using" /\ cache' = Cache!Unref(cache, e) /\ phase' = [phase EXCEPT ![t] = "idle"]
        /\ held' = [held EXCEPT ![t] = Nil] /\ wanted' = [wanted EXCEPT ![t] = Nil]
    BY <1>9, <2>0 DEF Cache!Release
  <2>2. e \in HandlesOf(cache) /\ e # Nil
    BY <2>0, <2>1, <1>1, <1>3
  <2>3. \A x \in HandlesOf(cache) :
          Cardinality(Cache!Holders(x)') = IF x = e THEN Cardinality(Cache!Holders(x)) - 1 ELSE Cardinality(Cache!Holders(x))
    BY <2>0, <2>1, <1>1, UsersAfter
  <2>4. UserCounts[e] > 0
    <3>1. Cardinality(Cache!Holders(e)) > 0 BY <2>0, <2>1, <2>2, UsersAfter
    <3> QED BY <3>1, <2>2 DEF UserCounts
  <2>5. Whole(cache', [UserCounts EXCEPT ![e] = @ - 1]) /\ SameHandles(cache, cache')
    BY <2>1, <2>2, <2>4, <1>1, UnrefIsWhole
  <2>6. HandlesOf(cache)' = HandlesOf(cache) /\ \A x \in HandlesOf(cache) : Cache!KeyOf(cache', x) = Cache!KeyOf(cache, x)
    BY <2>5 DEF SameHandles, HandlesOf, Cache!KeyOf
  <2>7. UserCounts' = [UserCounts EXCEPT ![e] = @ - 1]
    <3>1. UserCounts' = [x \in HandlesOf(cache) |-> Cardinality(Cache!Holders(x)')]
      BY <2>6 DEF UserCounts
    <3> QED BY <2>3, <3>1 DEF UserCounts
  <2>8. CacheInv'
    <3>1. Whole(cache, UserCounts)'
      <4>1. Whole(cache', UserCounts') BY <2>5, <2>7
      <4> QED BY <4>1 DEF Whole
    <3>2. /\ phase' \in [Threads -> {"idle", "opening", "using"}] /\ wanted' \in [Threads -> Files \union {Nil}]
          /\ held' \in [Threads -> HandlesOf(cache)' \union {Nil}]
      BY <2>1, <2>6, <1>1
    <3>3. \A s \in Threads : s # t => phase'[s] = phase[s] /\ wanted'[s] = wanted[s] /\ held'[s] = held[s]
      BY <2>1, <1>1
    <3>4. phase'[t] = "idle" /\ held'[t] = Nil
      BY <2>1, <1>1
    <3> QED BY <3>1, <3>2, <3>3, <3>4, <2>6, <1>1, <1>2, <1>3, <1>4 DEF CacheInv
  <2> QED BY <2>5, <2>8, <1>5
<1>10. CASE Cache!PruneAll
  <2>1. cache' = Cache!Prune(cache) /\ UNCHANGED <<phase, wanted, held>>
    BY <1>10 DEF Cache!PruneAll
  <2>2. Whole(cache', UserCounts) /\ SameHandles(cache, cache')
    BY <2>1, <1>1, PruneIsWhole
  <2> QED BY <2>1, <2>2, <1>5, ShardStep
<1>11. ASSUME NEW f \in Files, Cache!EvictFile(f) PROVE CacheInv' /\ Cache!MakesRoom
  <2>1. cache' = Cache!Erase(cache, f) /\ UNCHANGED <<phase, wanted, held>> /\ f \in Nat
    BY <1>1, <1>11 DEF Cache!EvictFile
  <2>2. Whole(cache', UserCounts) /\ SameHandles(cache, cache')
    BY <2>1, <1>1, EraseIsWhole
  <2> QED BY <2>1, <2>2, <1>5, ShardStep
<1>12. CASE UNCHANGED Cache!vars
  <2>1. UNCHANGED <<cache, phase, wanted, held>>
    BY <1>12 DEF Cache!vars
  <2>2. Whole(cache', UserCounts) /\ SameHandles(cache, cache')
    BY <2>1, <1>1 DEF SameHandles
  <2>3. CacheInv' /\ Cache!MakesRoom
    BY <2>1, <2>2, <1>5, ShardStep
  <2> QED BY <2>3
<1> QED BY <1>6, <1>7, <1>8, <1>9, <1>10, <1>11, <1>12 DEF Cache!Next

LEMMA CacheInvariance == ASSUME Cache!CacheAssumption PROVE Cache!Spec => []CacheInv
<1>1. Cache!Init => CacheInv
  BY CacheInit
<1>2. CacheInv /\ [Cache!Next]_Cache!vars => CacheInv'
  BY CacheStep
<1> QED BY <1>1, <1>2, PTL DEF Cache!Spec

LEMMA InvIsConsistent ==
  ASSUME Cache!CacheAssumption, CacheInv
  PROVE  Cache!TypeOK /\ Cache!ReferencesAreCounted /\ Cache!UsedTablesAreOpen /\ Cache!ListsAgree /\ Cache!TableFindsTheCached
<1>1. /\ Whole(cache, UserCounts) /\ cache \in Shards /\ Cache!Handles = HandlesOf(cache) /\ Cache!InCache = Cached(cache)
      /\ TableHas(cache, Cached(cache)) /\ Shelved(cache, UserCounts) /\ Counted(cache, UserCounts)
      /\ cache.usage = Cardinality(Cached(cache)) /\ Cached(cache) \subseteq HandlesOf(cache)
      /\ cache.elems = Cardinality(Cached(cache))
  BY DEF CacheInv, Whole, Cache!Handles, HandlesOf, Cache!InCache, Cached, TableHas
<1>2. \A e \in HandlesOf(cache) :
        /\ UserCounts[e] = Cardinality(Cache!Holders(e)) /\ UserCounts[e] \in Nat /\ (UserCounts[e] = 0 <=> Cache!Holders(e) = {})
        /\ cache.entries[e] \in Entry
  BY <1>1, HoldersAreFinite, KeyTypes DEF UserCounts
<1>3. Cache!TypeOK
  <2>1. cache.usage \in Nat /\ cache.elems \in Nat
    BY <1>1, HandlesAreFinite
  <2>2. \A e \in Cache!Handles : cache.entries[e].key \in Files /\ cache.entries[e].refs \in Nat
    BY <1>1, <1>2 DEF Entry
  <2> QED BY <2>1, <2>2, <1>1 DEF Cache!TypeOK, CacheInv
<1>4. Cache!ReferencesAreCounted
  BY <1>1, <1>2, CountsAreTheSame DEF Cache!ReferencesAreCounted, Counted
<1>5. Cache!UsedTablesAreOpen
  <2> SUFFICES ASSUME NEW t \in Threads, phase[t] = "using"
               PROVE  cache.entries[held[t]].deletions = 0 /\ cache.entries[held[t]].key = wanted[t]
    BY DEF Cache!UsedTablesAreOpen
  <2>1. held[t] \in HandlesOf(cache) /\ cache.entries[held[t]].key = wanted[t] /\ t \in Cache!Holders(held[t])
    BY DEF CacheInv, Cache!KeyOf, Cache!Holders
  <2>2. UserCounts[held[t]] \in Nat /\ UserCounts[held[t]] # 0
    BY <2>1, <1>2
  <2>3. cache.entries[held[t]].refs # 0
    BY <2>1, <2>2, <1>1, <1>2 DEF Counted
  <2> QED BY <2>1, <2>3, <1>1 DEF Counted
<1>6. Cache!ListsAgree
  <2> DEFINE A == {e \in Cached(cache) : UserCounts[e] = 0}
             B == {e \in Cached(cache) : UserCounts[e] > 0}
  <2>1. A = {e \in Cache!InCache : Cache!Holders(e) = {}} /\ B = {e \in Cache!InCache : Cache!Holders(e) # {}}
    BY <1>1, <1>2
  <2>2. Cached(cache) = A \union B /\ A \cap B = {}
    BY <1>1, <1>2
  <2> HIDE DEF A, B
  <2>3. Lists(cache.lru, A) /\ Lists(cache.inUse, B)
    BY <1>1 DEF Shelved, A, B
  <2>4. /\ IsFiniteSet(A) /\ Cardinality(A) = Len(cache.lru) /\ Cache!ToSet(cache.lru) = A
        /\ IsFiniteSet(B) /\ Cardinality(B) = Len(cache.inUse) /\ Cache!ToSet(cache.inUse) = B
    BY <2>3, ListsCount
  <2>5. Cardinality(Cached(cache)) = Len(cache.lru) + Len(cache.inUse)
    <3>1. Cardinality(A \union B) = Cardinality(A) + Cardinality(B) - Cardinality(A \cap B)
      BY <2>4, FS_Union
    <3>2. Cardinality({}) = 0 BY FS_EmptySet
    <3>3. Cardinality(A) \in Nat /\ Cardinality(B) \in Nat
      BY <2>4, FS_CardinalityType
    <3>4. Cardinality(A \cap B) = 0 BY <3>2, <2>2
    <3> QED BY <3>1, <3>3, <3>4, <2>2, <2>4
  <2> QED BY <2>1, <2>4, <2>5, <1>1, CountsAreTheSame DEF Cache!ListsAgree
<1>7. Cache!TableFindsTheCached
  <2>1. \A e \in Cached(cache) : Cache!TableLookup(cache, Cache!KeyOf(cache, e)) = e
    BY <1>1, LookupFinds
  <2> QED BY <2>1, <1>1, CountsAreTheSame DEF Cache!TableFindsTheCached, Cache!KeyOf
<1> QED BY <1>3, <1>4, <1>5, <1>6, <1>7

\* However lookups, double openings, evictions and releases mix: a handle counts its users and
\* the cache and is deleted once, when nobody is left; a thread uses an open table of the file
\* it asked for; what is in the cache is in one list, by whether it is used, and the hash table
\* finds it through every resize.
THEOREM CacheStaysConsistent ==
  ASSUME Cache!CacheAssumption
  PROVE  Cache!Spec => [](Cache!TypeOK /\ Cache!ReferencesAreCounted /\ Cache!UsedTablesAreOpen /\ Cache!ListsAgree /\ Cache!TableFindsTheCached)
<1>1. CacheInv => Cache!TypeOK /\ Cache!ReferencesAreCounted /\ Cache!UsedTablesAreOpen /\ Cache!ListsAgree /\ Cache!TableFindsTheCached
  BY InvIsConsistent
<1> QED BY <1>1, CacheInvariance, PTL

\* An insertion (LRUCache::Insert) leaves the cache within its capacity, unless all of it is in use.
THEOREM InsertionsMakeRoom ==
  ASSUME Cache!CacheAssumption PROVE Cache!Spec => Cache!InsertMakesRoom
<1>1. CacheInv /\ [Cache!Next]_Cache!vars => [Cache!MakesRoom]_Cache!vars
  BY CacheStep
<1> QED BY <1>1, CacheInvariance, PTL DEF Cache!Spec, Cache!InsertMakesRoom
===============================================================================
