--------------------------- MODULE RecoveryProofs ---------------------------
(***************************************************************************)
(* The files keep what they promise, for any number of writes, opens,      *)
(* merges and faults: DbInv is inductive, what the Recovery run checks     *)
(* follows from it, and the files implement DurableStore.                  *)
(***************************************************************************)
EXTENDS RecoveryInvariant, NaturalsBySets, SequenceTheorems, FiniteSetTheorems, TLAPS

------------------------
(* Sets of numbers, files and what manifests say. *)

\* A bounded set of numbers that is not empty has a greatest one.
LEMMA GreatestNatural ==
  ASSUME NEW T, T \subseteq Nat, T # {}, NEW k \in Nat, \A x \in T : x <= k
  PROVE  /\ Max(T) \in T
         /\ \A y \in T : y <= Max(T)
<1> DEFINE U == {k - x : x \in T}
<1>1. U \subseteq Nat /\ U # {}
  <2>1. \A x \in T : k - x \in Nat OBVIOUS
  <2> QED BY <2>1
<1>2. PICK u \in U : \A v \in U : u <= v
  <2> HIDE DEF U
  <2> QED BY <1>1, LeastNatural
<1>3. PICK x \in T : u = k - x OBVIOUS
<1>4. \A y \in T : y <= x
  <2> TAKE y \in T
  <2>1. u <= k - y
    BY <1>2
  <2> QED BY <2>1, <1>3
<1>5. \E z \in T : \A y \in T : z >= y
  BY <1>4
<1>6. Max(T) \in T /\ \A y \in T : Max(T) >= y
  <2> HIDE DEF U
  <2> QED BY <1>5 DEF Max
<1> QED BY <1>6

\* The greatest of a set is the member that none exceeds.
LEMMA MaxIs ==
  ASSUME NEW T, T \subseteq Nat, NEW x \in T, \A y \in T : y <= x
  PROVE  Max(T) = x
<1>1. Max(T) \in T /\ Max(T) >= x
  <2>1. \E z \in T : \A y \in T : z >= y OBVIOUS
  <2> QED BY <2>1 DEF Max
<1>2. Max(T) <= x /\ Max(T) \in Nat /\ x \in Nat
  BY <1>1
<1> QED BY <1>1, <1>2

\* A set of numbers that is not empty has a smallest one.
LEMMA MinIs ==
  ASSUME NEW T, T \subseteq Nat, T # {}
  PROVE  Min(T) \in T /\ \A y \in T : Min(T) <= y
<1>1. \E x \in T : \A y \in T : x =< y
  BY LeastNatural
<1> QED BY <1>1 DEF Min

\* A file removed: the others are as they were.
LEMMA WithoutFacts ==
  ASSUME NEW fs, NEW n
  PROVE  /\ DOMAIN Without(fs, n) = DOMAIN fs \ {n}
         /\ \A m \in DOMAIN fs : m # n => Without(fs, n)[m] = fs[m]
BY DEF Without

\* What a sequence holds with one element more.
LEMMA AppendFacts ==
  ASSUME NEW S, NEW s \in Seq(S), NEW e \in S
  PROVE  /\ Append(s, e) \in Seq(S)
         /\ Len(Append(s, e)) = Len(s) + 1
         /\ DOMAIN Append(s, e) = 1..Len(s) + 1
         /\ Append(s, e)[Len(s) + 1] = e
         /\ \A i \in 1..Len(s) : Append(s, e)[i] = s[i]
         /\ ToSet(Append(s, e)) = ToSet(s) \union {e}
<1>1. /\ Append(s, e) \in Seq(S)
      /\ Len(Append(s, e)) = Len(s) + 1
      /\ DOMAIN Append(s, e) = 1..Len(s) + 1
      /\ Append(s, e)[Len(s) + 1] = e
      /\ \A i \in 1..Len(s) : Append(s, e)[i] = s[i]
  OBVIOUS
<1>2. DOMAIN s = 1 .. Len(s) /\ Len(s) \in Nat OBVIOUS
<1>3. ToSet(Append(s, e)) = ToSet(s) \union {e}
  <2>1. \A i \in 1 .. Len(s) + 1 : i \in 1 .. Len(s) \/ i = Len(s) + 1
    BY <1>2
  <2>2. \A i \in 1..Len(s) : i \in 1..Len(s) + 1
    BY <1>2
  <2>3. Len(s) + 1 \in 1..Len(s) + 1
    BY <1>2
  <2> QED BY <1>1, <1>2, <2>1, <2>2, <2>3 DEF ToSet
<1> QED BY <1>1, <1>3

\* No edits add no table.
LEMMA FilesEmpty == FilesOf(<< >>) = {}
BY DEF FilesOf

\* The tables a manifest's edits leave are file numbers.
LEMMA FilesType ==
  ASSUME NEW s \in Seq(Edits)
  PROVE  FilesOf(s) \subseteq Nat \ {0}
<1>1. \A i \in DOMAIN s : s[i] \in Edits OBVIOUS
<1> QED BY <1>1 DEF FilesOf, ToSet, Edits

\* An edit more: its deletions leave the version, its additions join it.
LEMMA FilesAppend ==
  ASSUME NEW s \in Seq(Edits), NEW e \in Edits
  PROVE  FilesOf(Append(s, e)) = (FilesOf(s) \ e.deleted) \union e.added
<1> DEFINE t == Append(s, e)
<1>0. /\ Len(t) = Len(s) + 1 /\ DOMAIN t = 1 .. Len(s) + 1 /\ t[Len(s) + 1] = e
      /\ \A i \in 1..Len(s) : t[i] = s[i]
  BY AppendFacts
<1>1. DOMAIN s = 1 .. Len(s) /\ Len(s) \in Nat OBVIOUS
<1> HIDE DEF t
<1>2. ASSUME NEW q \in Seq(Edits)
      PROVE  \A n : n \in FilesOf(q) <=>
               \E i \in DOMAIN q : n \in q[i].added /\ \A j \in i + 1..Len(q) : n \notin q[j].deleted
  BY DEF FilesOf, ToSet
<1>3. t \in Seq(Edits)
  BY AppendFacts DEF t
<1>4. ASSUME NEW n \in FilesOf(t) PROVE n \in (FilesOf(s) \ e.deleted) \union e.added
  <2>1. PICK i \in DOMAIN t : n \in t[i].added /\ \A j \in i + 1..Len(t) : n \notin t[j].deleted
    BY <1>2, <1>3
  <2>2. CASE i = Len(s) + 1
    BY <2>1, <2>2, <1>0
  <2>3. CASE i # Len(s) + 1
    <3>1. i \in 1..Len(s) BY <2>3, <1>0, <1>1
    <3>2. n \notin e.deleted BY <2>1, <3>1, <1>0, <1>1
    <3>3. \A j \in i + 1..Len(s) : n \notin s[j].deleted BY <2>1, <3>1, <1>0, <1>1
    <3> QED BY <3>1, <3>2, <3>3, <1>2, <2>1, <1>0, <1>1
  <2> QED BY <2>2, <2>3
<1>5. ASSUME NEW n \in (FilesOf(s) \ e.deleted) \union e.added PROVE n \in FilesOf(t)
  <2>1. CASE n \in e.added
    <3>1. \A j \in (Len(s) + 1) + 1..Len(t) : n \notin t[j].deleted BY <1>0, <1>1
    <3> QED BY <2>1, <3>1, <1>0, <1>1, <1>2, <1>3
  <2>2. CASE n \in FilesOf(s) /\ n \notin e.deleted
    <3>1. PICK i \in DOMAIN s : n \in s[i].added /\ \A j \in i + 1..Len(s) : n \notin s[j].deleted
      BY <1>2, <2>2
    <3>2. \A j \in i + 1..Len(t) : n \notin t[j].deleted
      <4> TAKE j \in i + 1..Len(t)
      <4>1. CASE j = Len(s) + 1
        BY <4>1, <1>0, <2>2
      <4>2. CASE j # Len(s) + 1
        <5>1. j \in i + 1 .. Len(s) /\ j \in 1..Len(s)
          BY <4>2, <1>0, <1>1
        <5> QED BY <5>1, <3>1, <1>0
      <4> QED BY <4>1, <4>2
    <3>3. i \in DOMAIN t /\ n \in t[i].added
      BY <3>1, <1>0, <1>1
    <3> QED BY <3>2, <3>3, <1>2, <1>3
  <2> QED BY <2>1, <2>2
<1> QED BY <1>4, <1>5 DEF t

Speaking(s) == {i \in DOMAIN s : s[i].meta # Nil}

\* What a manifest says of numbers is said by the last of its edits that says anything.
LEMMA MetaIs ==
  ASSUME NEW s \in Seq(Edits)
  PROVE  /\ Speaking(s) = {} => MetaOf(s) = Nil
         /\ Speaking(s) # {} => /\ Max(Speaking(s)) \in Speaking(s)
                                /\ MetaOf(s) = s[Max(Speaking(s))].meta
                                /\ MetaOf(s) \in Metas
<1>1. Speaking(s) = {} => MetaOf(s) = Nil
  BY DEF MetaOf, Speaking
<1>2. ASSUME Speaking(s) # {}
      PROVE  /\ Max(Speaking(s)) \in Speaking(s)
             /\ MetaOf(s) = s[Max(Speaking(s))].meta
             /\ MetaOf(s) \in Metas
  <2>1. Speaking(s) \subseteq Nat /\ \A x \in Speaking(s) : x <= Len(s)
    BY DEF Speaking
  <2>2. Max(Speaking(s)) \in Speaking(s)
    <3>1. Len(s) \in Nat OBVIOUS
    <3> QED BY <1>2, <2>1, <3>1, GreatestNatural
  <2>3. MetaOf(s) = s[Max(Speaking(s))].meta
    BY <1>2 DEF MetaOf, Speaking
  <2>4. \A i \in DOMAIN s : s[i].meta \in Metas \union {Nil}
    <3>1. \A i \in DOMAIN s : s[i] \in Edits OBVIOUS
    <3> QED BY <3>1 DEF Edits
  <2> QED BY <2>2, <2>3, <2>4 DEF Speaking
<1> QED BY <1>1, <1>2

\* No edits say nothing.
LEMMA MetaEmpty == MetaOf(<< >>) = Nil
BY DEF MetaOf

\* What a manifest says of numbers has the form of what an edit says.
LEMMA MetaType ==
  ASSUME NEW s \in Seq(Edits)
  PROVE  MetaOf(s) \in Metas \union {Nil}
BY MetaIs

\* Nil is none of the records it stands in for.
LEMMA NilIsNoMeta == Nil \notin Metas /\ Nil \notin Merges /\ Nil \notin Writings
<1>1. Metas \subseteq [log : Nat, next : Nat, last : Nat]
  BY RecoveryAssumption DEF Metas
<1>2. Merges \subseteq [inputs : SUBSET Nat, output : Nat]
  BY DEF Merges
<1>3. Writings \subseteq [batch : Nat \X Nat, sync : BOOLEAN]
  BY RecoveryAssumption DEF Writings, Batches
<1> QED BY <1>1, <1>2, <1>3, NilAssumption

\* A manifest says something when one of its edits does.
LEMMA MetaNotNil ==
  ASSUME NEW s \in Seq(Edits)
  PROVE  MetaOf(s) # Nil <=> \E i \in DOMAIN s : s[i].meta # Nil
BY MetaIs, NilIsNoMeta DEF Speaking

\* An edit more: what it says counts, and what was said before if it says nothing.
LEMMA MetaAppend ==
  ASSUME NEW s \in Seq(Edits), NEW e \in Edits
  PROVE  MetaOf(Append(s, e)) = IF e.meta = Nil THEN MetaOf(s) ELSE e.meta
<1> DEFINE t == Append(s, e)
<1>0. /\ Len(t) = Len(s) + 1 /\ DOMAIN t = 1 .. Len(s) + 1 /\ t[Len(s) + 1] = e
      /\ \A i \in 1..Len(s) : t[i] = s[i]
      /\ t \in Seq(Edits)
  BY AppendFacts
<1>1. DOMAIN s = 1 .. Len(s) /\ Len(s) \in Nat OBVIOUS
<1> HIDE DEF t
<1>2. CASE e.meta = Nil
  <2>1. Speaking(t) = Speaking(s)
    <3>1. Speaking(t) \subseteq Speaking(s)
      <4> SUFFICES ASSUME NEW i \in Speaking(t) PROVE i \in Speaking(s) OBVIOUS
      <4>1. i \in 1 .. Len(s) + 1 /\ t[i].meta # Nil
        BY <1>0 DEF Speaking
      <4>2. i # Len(s) + 1 BY <4>1, <1>0, <1>2
      <4> QED BY <4>1, <4>2, <1>0, <1>1 DEF Speaking
    <3>2. Speaking(s) \subseteq Speaking(t)
      <4> SUFFICES ASSUME NEW i \in Speaking(s) PROVE i \in Speaking(t) OBVIOUS
      <4>1. i \in 1 .. Len(s) /\ s[i].meta # Nil
        BY <1>1 DEF Speaking
      <4>2. i \in DOMAIN t BY <4>1, <1>0, <1>1
      <4> QED BY <4>1, <4>2, <1>0 DEF Speaking
    <3> QED BY <3>1, <3>2
  <2>2. CASE Speaking(s) = {}
    BY <2>1, <2>2, <1>0, MetaIs, <1>2 DEF t
  <2>3. CASE Speaking(s) # {}
    <3>1. Max(Speaking(s)) \in 1..Len(s) BY <2>3, MetaIs, <1>1 DEF Speaking
    <3>2. MetaOf(t) = t[Max(Speaking(s))].meta BY <2>1, <2>3, <1>0, MetaIs
    <3> QED BY <3>1, <3>2, <1>0, <2>3, MetaIs, <1>2 DEF t
  <2> QED BY <2>2, <2>3
<1>3. CASE e.meta # Nil
  <2>1. Len(s) + 1 \in Speaking(t)
    BY <1>0, <1>1, <1>3 DEF Speaking
  <2>2. Speaking(t) \subseteq Nat /\ \A x \in Speaking(t) : x <= Len(s) + 1
    BY <1>0, <1>1 DEF Speaking
  <2>3. Max(Speaking(t)) = Len(s) + 1
    BY <2>1, <2>2, MaxIs
  <2> QED BY <2>1, <2>3, <1>0, MetaIs, <1>3 DEF t
<1> QED BY <1>2, <1>3

\* What a manifest says once an edit has been appended.
LEMMA SaidAppend ==
  ASSUME NEW s \in Seq(Edits), NEW e \in Edits
  PROVE  /\ Said(Append(s, e)).files = (Said(s).files \ e.deleted) \union e.added
         /\ Said(Append(s, e)).meta = IF e.meta = Nil THEN Said(s).meta ELSE e.meta
BY FilesAppend, MetaAppend DEF Said

\* The form of what a manifest says.
LEMMA SaidType ==
  ASSUME NEW s \in Seq(Edits)
  PROVE  /\ Said(s).files \subseteq Nat \ {0}
         /\ Said(s).meta \in Metas \union {Nil}
         /\ Said(s) = [files |-> Said(s).files, meta |-> Said(s).meta]
BY FilesType, MetaType DEF Said

\* An empty manifest says nothing.
LEMMA SaidEmpty == Said(<< >>).files = {} /\ Said(<< >>).meta = Nil
BY FilesEmpty, MetaEmpty DEF Said

\* A manifest of one edit says what the edit says.
LEMMA SaidOne ==
  ASSUME NEW e \in Edits
  PROVE  /\ <<e>> \in Seq(Edits) /\ Len(<<e>>) = 1
         /\ Said(<<e>>).files = e.added
         /\ Said(<<e>>).meta = e.meta
<1>1. << >> \in Seq(Edits) /\ Append(<< >>, e) = <<e>> /\ <<e>> \in Seq(Edits) /\ Len(<<e>>) = 1
  OBVIOUS
<1>2. Said(Append(<< >>, e)).files = (Said(<< >>).files \ e.deleted) \union e.added
  BY <1>1, SaidAppend
<1>3. Said(Append(<< >>, e)).meta = IF e.meta = Nil THEN Said(<< >>).meta ELSE e.meta
  BY <1>1, SaidAppend
<1> QED BY <1>1, <1>2, <1>3, SaidEmpty

------------------------
(* Files cut off, appended to and synced. *)

\* The first k of a sequence: how many, which, and the first of those again.
LEMMA FirstFacts ==
  ASSUME NEW S, NEW s \in Seq(S), NEW k \in 0..Len(s)
  PROVE  /\ First(s, k) \in Seq(S) /\ Len(First(s, k)) = k
         /\ \A i \in 1..k : First(s, k)[i] = s[i]
         /\ ToSet(First(s, k)) = {s[i] : i \in 1..k}
         /\ k = Len(s) => First(s, k) = s
         /\ \A j \in 0..k : First(First(s, k), j) = First(s, j)
<1>1. /\ First(s, k) \in Seq(S) /\ Len(First(s, k)) = k
      /\ \A i \in 1..k : First(s, k)[i] = s[i]
  BY DEF First
<1>2. ToSet(First(s, k)) = {s[i] : i \in 1..k}
  <2>1. DOMAIN First(s, k) = 1..k
    BY <1>1
  <2> QED BY <2>1, <1>1 DEF ToSet
<1>3. k = Len(s) => First(s, k) = s
  BY DEF First
<1>4. \A j \in 0..k : First(First(s, k), j) = First(s, j)
  <2> SUFFICES ASSUME NEW j \in 0..k PROVE First(First(s, k), j) = First(s, j)
    OBVIOUS
  <2>1. First(First(s, k), j) \in Seq(S) /\ Len(First(First(s, k), j)) = j
    BY <1>1 DEF First
  <2>2. First(s, j) \in Seq(S) /\ Len(First(s, j)) = j
    BY DEF First
  <2>3. \A i \in 1..j : First(First(s, k), j)[i] = First(s, j)[i]
    <3> SUFFICES ASSUME NEW i \in 1..j PROVE First(First(s, k), j)[i] = First(s, j)[i]
      OBVIOUS
    <3>1. First(First(s, k), j)[i] = First(s, k)[i] BY <1>1 DEF First
    <3>2. First(s, j)[i] = s[i] BY DEF First
    <3> QED BY <3>1, <3>2, <1>1
  <2> QED BY <2>1, <2>2, <2>3, SeqEqual
<1> QED BY <1>1, <1>2, <1>3, <1>4

\* What is appended is not among the first.
LEMMA FirstOfAppend ==
  ASSUME NEW S, NEW s \in Seq(S), NEW e \in S, NEW k \in 0..Len(s)
  PROVE  First(Append(s, e), k) = First(s, k)
<1>1. Append(s, e) \in Seq(S) /\ Len(Append(s, e)) = Len(s) + 1 OBVIOUS
<1>2. First(Append(s, e), k) \in Seq(S) /\ Len(First(Append(s, e), k)) = k
      /\ \A i \in 1..k : First(Append(s, e), k)[i] = Append(s, e)[i]
  BY <1>1 DEF First
<1>3. First(s, k) \in Seq(S) /\ Len(First(s, k)) = k
      /\ \A i \in 1..k : First(s, k)[i] = s[i]
  BY DEF First
<1>4. \A i \in 1..k : Append(s, e)[i] = s[i] OBVIOUS
<1>5. \A i \in 1..k : First(Append(s, e), k)[i] = First(s, k)[i]
  BY <1>2, <1>3, <1>4
<1> QED BY <1>2, <1>3, <1>5, SeqEqual

\* A new file is a file of any kind of record: empty and whole.
LEMMA EmptyFileFacts ==
  /\ \A S : IsFile(EmptyFile, S)
  /\ EmptyFile.records = << >> /\ EmptyFile.synced = 0 /\ EmptyFile.end = "whole"
BY DEF EmptyFile, IsFile, Ends

\* AddRecord on a file that is whole: a record more, none of it synced.
LEMMA AppendedFacts ==
  ASSUME NEW S, NEW f, IsFile(f, S), f.end = "whole", NEW e \in S
  PROVE  /\ IsFile(Appended(f, e), S)
         /\ Appended(f, e).records = Append(f.records, e)
         /\ Appended(f, e).synced = f.synced /\ Appended(f, e).end = "whole"
         /\ ToSet(Appended(f, e).records) = ToSet(f.records) \union {e}
         /\ SyncedPart(Appended(f, e)) = SyncedPart(f)
<1>1. f.records \in Seq(S) /\ f.synced \in Nat /\ f.synced <= Len(f.records) /\ Len(f.records) \in Nat
  BY DEF IsFile
<1>2. Appended(f, e) = [f EXCEPT !.records = Append(@, e)]
  BY DEF Appended
<1>3. /\ Appended(f, e).records = Append(f.records, e)
      /\ Appended(f, e).synced = f.synced /\ Appended(f, e).end = "whole"
  BY <1>2 DEF IsFile
<1>4. /\ Append(f.records, e) \in Seq(S)
      /\ Len(Append(f.records, e)) = Len(f.records) + 1
      /\ ToSet(Append(f.records, e)) = ToSet(f.records) \union {e}
      /\ \A i \in 1..Len(f.records) : Append(f.records, e)[i] = f.records[i]
  BY <1>1, AppendFacts
<1>5. IsFile(Appended(f, e), S)
  <2>1. Appended(f, e) \in [records : Seq(S), synced : Nat, end : Ends]
    BY <1>2, <1>4 DEF IsFile
  <2> QED BY <2>1, <1>3, <1>4, <1>1 DEF IsFile
<1>6. SyncedPart(Appended(f, e)) = SyncedPart(f)
  <2>1. \A i \in 1..f.synced : Append(f.records, e)[i] = f.records[i]
    BY <1>4, <1>1
  <2> QED BY <2>1, <1>3 DEF SyncedPart
<1> QED BY <1>3, <1>4, <1>5, <1>6

\* Sync on a file: everything in it is synced, and nothing else changes.
LEMMA SyncedFacts ==
  ASSUME NEW S, NEW f, IsFile(f, S)
  PROVE  /\ IsFile(Synced(f), S)
         /\ Synced(f).records = f.records /\ Synced(f).end = f.end
         /\ Synced(f).synced = Len(f.records)
         /\ SyncedPart(Synced(f)) = ToSet(f.records)
<1>1. f.records \in Seq(S) /\ Len(f.records) \in Nat /\ DOMAIN f.records = 1..Len(f.records)
  BY DEF IsFile
<1>2. /\ Synced(f).records = f.records /\ Synced(f).end = f.end
      /\ Synced(f).synced = Len(f.records)
      /\ Synced(f) \in [records : Seq(S), synced : Nat, end : Ends]
  BY <1>1 DEF Synced, IsFile
<1>3. SyncedPart(Synced(f)) = ToSet(f.records)
  BY <1>1, <1>2 DEF SyncedPart, ToSet
<1>4. Len(f.records) <= Len(f.records)
  BY <1>1
<1> QED BY <1>2, <1>3, <1>4 DEF IsFile

\* What is synced in a file is in it.
LEMMA SyncedPartIsIn ==
  ASSUME NEW S, NEW f, IsFile(f, S)
  PROVE  SyncedPart(f) \subseteq ToSet(f.records) /\ ToSet(f.records) \subseteq S
<1>1. f.records \in Seq(S) /\ f.synced \in Nat /\ f.synced <= Len(f.records) /\ Len(f.records) \in Nat
      /\ DOMAIN f.records = 1..Len(f.records)
  BY DEF IsFile
<1>2. \A i \in 1..f.synced : i \in DOMAIN f.records
  BY <1>1
<1>3. \A i \in DOMAIN f.records : f.records[i] \in S
  BY <1>1
<1> QED BY <1>2, <1>3 DEF SyncedPart, ToSet

\* What a stop of the machine leaves of a file: at least what was synced, in order, and all
\* of that is synced now.
LEMMA RemainsFacts ==
  ASSUME NEW S, NEW f, IsFile(f, S), NEW g \in Remains(f)
  PROVE  /\ IsFile(g, S)
         /\ g.synced = Len(g.records)
         /\ \E k \in f.synced..Len(f.records) : g.records = First(f.records, k)
         /\ ToSet(g.records) \subseteq ToSet(f.records)
         /\ SyncedPart(f) \subseteq SyncedPart(g)
         /\ f.end = "bad" => g.end = "bad"
         /\ f.end # "buried" => g.end # "buried"
<1>1. f.records \in Seq(S) /\ f.synced \in Nat /\ f.synced <= Len(f.records) /\ Len(f.records) \in Nat
      /\ DOMAIN f.records = 1..Len(f.records)
  BY DEF IsFile
<1>2. PICK k \in f.synced..Len(f.records) :
        /\ g.records = First(f.records, k) /\ g.synced = k
        /\ g \in [records : Seq(S), synced : Nat, end : Ends]
        /\ f.end = "bad" => g.end = "bad"
        /\ f.end # "buried" => g.end # "buried"
  <2>1. CASE g = [f EXCEPT !.synced = Len(f.records)]
    <3>1. First(f.records, Len(f.records)) = f.records BY <1>1 DEF First
    <3>2. Len(f.records) \in f.synced..Len(f.records) BY <1>1
    <3>3. /\ g.records = f.records /\ g.synced = Len(f.records)
          /\ g \in [records : Seq(S), synced : Nat, end : Ends] /\ g.end = f.end
      BY <2>1, <1>1 DEF IsFile
    <3> QED BY <3>1, <3>2, <3>3
  <2>2. CASE \E k \in f.synced..Len(f.records) - 1, e \in {"whole", "torn"} :
               f.end # "bad" /\ g = [records |-> SubSeq(f.records, 1, k), synced |-> k, end |-> e]
    <3>1. PICK k \in f.synced..Len(f.records) - 1, e \in {"whole", "torn"} :
               f.end # "bad" /\ g = [records |-> SubSeq(f.records, 1, k), synced |-> k, end |-> e]
      BY <2>2
    <3>2. k \in f.synced .. Len(f.records) /\ k \in Nat
      BY <1>1
    <3>3. SubSeq(f.records, 1, k) \in Seq(S) BY <1>1, <3>2
    <3>4. g \in [records : Seq(S), synced : Nat, end : Ends]
      BY <3>1, <3>2, <3>3 DEF Ends
    <3> QED BY <3>1, <3>2, <3>4 DEF First
  <2> QED BY <2>1, <2>2 DEF Remains
<1>3. k \in 0..Len(f.records)
  BY <1>1
<1>4. /\ g.records \in Seq(S) /\ Len(g.records) = k
      /\ \A i \in 1..k : g.records[i] = f.records[i]
      /\ ToSet(g.records) = {f.records[i] : i \in 1..k}
  <2>1. f.records \in Seq(S) /\ g.records = First(f.records, k)
    BY <1>1, <1>2
  <2> QED BY <2>1, <1>3, FirstFacts
<1>5. ToSet(g.records) \subseteq ToSet(f.records)
  <2>1. \A i \in 1..k : i \in 1..Len(f.records)
    BY <1>3
  <2> QED BY <1>4, <1>1, <2>1 DEF ToSet
<1>6. SyncedPart(f) \subseteq SyncedPart(g)
  <2>1. \A i \in 1..f.synced : i \in 1..k
    BY <1>1
  <2> QED BY <2>1, <1>4, <1>2 DEF SyncedPart
<1>7. IsFile(g, S)
  BY <1>2, <1>4, <1>3 DEF IsFile
<1> QED BY <1>2, <1>4, <1>5, <1>6, <1>7

\* The whole manifest may be what is read, and nothing else if no stop of the machine can
\* cut it.
LEMMA ReportIsPossible ==
  ASSUME NEW f, IsFile(f, Edits), NEW c
  PROVE  /\ Said(f.records) \in Reports(f, c)
         /\ c = "never" \/ f.synced = Len(f.records) => Reports(f, c) = {Said(f.records)}
<1>1. f.records \in Seq(Edits) /\ f.synced \in Nat /\ f.synced <= Len(f.records) /\ Len(f.records) \in Nat
  BY DEF IsFile
<1>2. First(f.records, Len(f.records)) = f.records
  BY <1>1 DEF First
<1>3. Len(f.records) \in MayEnd(f, c)
  BY <1>1 DEF MayEnd
<1>4. c = "never" \/ f.synced = Len(f.records) => MayEnd(f, c) = {Len(f.records)}
  BY <1>1 DEF MayEnd
<1> QED BY <1>2, <1>3, <1>4 DEF Reports

\* The form of what may be read; if some of it says anything then all of it does.
LEMMA ReportsType ==
  ASSUME NEW f, IsFile(f, Edits), NEW c, NEW r \in Reports(f, c)
  PROVE  /\ r.files \subseteq Nat \ {0} /\ r.meta \in Metas \union {Nil}
         /\ r.meta # Nil => Said(f.records).meta # Nil
<1>1. PICK k \in MayEnd(f, c) : r = Said(First(f.records, k))
  BY DEF Reports
<1>2. f.records \in Seq(Edits) /\ k \in 0 .. Len(f.records) /\ Len(f.records) \in Nat
  BY DEF IsFile, MayEnd
<1>3. First(f.records, k) \in Seq(Edits) /\ Len(First(f.records, k)) = k
      /\ \A i \in 1..k : First(f.records, k)[i] = f.records[i]
  BY <1>2, FirstFacts
<1>4. r.files \subseteq Nat \ {0} /\ r.meta \in Metas \union {Nil}
  BY <1>1, <1>3, SaidType
<1>5. ASSUME r.meta # Nil PROVE Said(f.records).meta # Nil
  <2>1. MetaOf(First(f.records, k)) # Nil
    BY <1>5, <1>1 DEF Said
  <2>2. PICK i \in DOMAIN First(f.records, k) : First(f.records, k)[i].meta # Nil
    BY <2>1, <1>3, MetaNotNil
  <2>3. i \in 1..k
    BY <2>2, <1>3
  <2>4. i \in DOMAIN f.records /\ f.records[i].meta # Nil
    <3>1. i \in 1..Len(f.records) BY <2>3, <1>2
    <3>2. First(f.records, k)[i] = f.records[i] BY <2>3, <1>3
    <3>3. DOMAIN f.records = 1..Len(f.records) BY <1>2
    <3> QED BY <3>1, <3>2, <3>3, <2>2
  <2>5. MetaOf(f.records) # Nil
    BY <2>4, <1>2, MetaNotNil
  <2> QED BY <2>5 DEF Said
<1> QED BY <1>4, <1>5

\* After an append the whole is read, or what a stop could have left before.
LEMMA ReportsAppended ==
  ASSUME NEW f, IsFile(f, Edits), f.end = "whole", NEW c, NEW e \in Edits,
         NEW r \in Reports(Appended(f, e), c)
  PROVE  r = Said(Append(f.records, e)) \/ (c # "never" /\ r \in Reports(f, c))
<1>1. f.records \in Seq(Edits) /\ f.synced \in Nat /\ f.synced <= Len(f.records) /\ Len(f.records) \in Nat
  BY DEF IsFile
<1>2. /\ Appended(f, e).records = Append(f.records, e)
      /\ Appended(f, e).synced = f.synced
  BY AppendedFacts
<1>3. Len(Append(f.records, e)) = Len(f.records) + 1 /\ Append(f.records, e) \in Seq(Edits)
  BY <1>1
<1>4. PICK k \in MayEnd(Appended(f, e), c) : r = Said(First(Append(f.records, e), k))
  BY <1>2 DEF Reports
<1>5. k \in 0..Len(f.records) + 1
      /\ (k = Len(f.records) + 1 \/ (c # "never" /\ f.synced <= k))
  BY <1>2, <1>3 DEF MayEnd
<1>6. CASE k = Len(f.records) + 1
  <2>1. First(Append(f.records, e), k) = Append(f.records, e)
    BY <1>6, <1>3 DEF First
  <2> QED BY <2>1, <1>4
<1>7. CASE k # Len(f.records) + 1
  <2>1. k \in 0 .. Len(f.records) /\ c # "never" /\ f.synced <= k
    BY <1>7, <1>5, <1>1
  <2>2. First(Append(f.records, e), k) = First(f.records, k)
    BY <2>1, <1>1, FirstOfAppend
  <2>3. k \in MayEnd(f, c)
    BY <2>1 DEF MayEnd
  <2> QED BY <2>1, <2>2, <2>3, <1>4 DEF Reports
<1> QED BY <1>6, <1>7

\* What a stop of the machine leaves of a manifest is what it could have left.
LEMMA ReportsRemain ==
  ASSUME NEW f, IsFile(f, Edits), NEW c, c # "never", NEW g \in Remains(f)
  PROVE  /\ Reports(g, c) = {Said(g.records)}
         /\ Said(g.records) \in Reports(f, c)
<1>1. IsFile(g, Edits) /\ g.synced = Len(g.records)
  BY RemainsFacts
<1>2. PICK k \in f.synced..Len(f.records) : g.records = First(f.records, k)
  BY RemainsFacts
<1>3. k \in MayEnd(f, c)
  BY <1>2 DEF MayEnd, IsFile
<1> QED BY <1>1, <1>2, <1>3, ReportIsPossible DEF Reports

------------------------
(* What tables and logs hold. *)

\* The batches of tables: more tables hold more, and none hold none.
LEMMA TableFacts ==
  ASSUME NEW tabs, NEW ns, NEW ms
  PROVE  /\ ns \subseteq ms => TableBatches(tabs, ns) \subseteq TableBatches(tabs, ms)
         /\ TableBatches(tabs, ns \union ms) = TableBatches(tabs, ns) \union TableBatches(tabs, ms)
         /\ TableBatches(tabs, {}) = {}
         /\ TableBatches(tabs, ns) \subseteq TableBatches(tabs, DOMAIN tabs)
         /\ \A n \in DOMAIN tabs : TableBatches(tabs, {n}) = tabs[n]
BY DEF TableBatches

\* The batches of logs: more logs hold more, and none hold none.
LEMMA LogFacts ==
  ASSUME NEW ls, NEW ns, NEW ms
  PROVE  /\ ns \subseteq ms => LogBatches(ls, ns) \subseteq LogBatches(ls, ms)
         /\ LogBatches(ls, ns \union ms) = LogBatches(ls, ns) \union LogBatches(ls, ms)
         /\ LogBatches(ls, {}) = {}
         /\ LogBatches(ls, ns) \subseteq LogBatches(ls, DOMAIN ls)
         /\ \A n \in DOMAIN ls : LogBatches(ls, {n}) = ToSet(ls[n].records)
<1>1. /\ ns \subseteq ms => LogBatches(ls, ns) \subseteq LogBatches(ls, ms)
      /\ LogBatches(ls, ns \union ms) = LogBatches(ls, ns) \union LogBatches(ls, ms)
      /\ LogBatches(ls, {}) = {}
      /\ LogBatches(ls, ns) \subseteq LogBatches(ls, DOMAIN ls)
  BY DEF LogBatches
<1>2. ASSUME NEW n \in DOMAIN ls PROVE LogBatches(ls, {n}) = ToSet(ls[n].records)
  <2>1. {n} \intersect DOMAIN ls = {n} OBVIOUS
  <2> QED BY <2>1 DEF LogBatches
<1> QED BY <1>1, <1>2

\* The synced batches of logs: more logs hold more, and none hold none.
LEMMA SyncedLogFacts ==
  ASSUME NEW ls, NEW ns, NEW ms
  PROVE  /\ ns \subseteq ms => SyncedBatches(ls, ns) \subseteq SyncedBatches(ls, ms)
         /\ SyncedBatches(ls, ns \union ms) = SyncedBatches(ls, ns) \union SyncedBatches(ls, ms)
         /\ SyncedBatches(ls, {}) = {}
         /\ SyncedBatches(ls, ns) \subseteq SyncedBatches(ls, DOMAIN ls)
         /\ \A n \in DOMAIN ls : SyncedBatches(ls, {n}) = SyncedPart(ls[n])
<1>1. /\ ns \subseteq ms => SyncedBatches(ls, ns) \subseteq SyncedBatches(ls, ms)
      /\ SyncedBatches(ls, ns \union ms) = SyncedBatches(ls, ns) \union SyncedBatches(ls, ms)
      /\ SyncedBatches(ls, {}) = {}
      /\ SyncedBatches(ls, ns) \subseteq SyncedBatches(ls, DOMAIN ls)
  BY DEF SyncedBatches
<1>2. ASSUME NEW n \in DOMAIN ls PROVE SyncedBatches(ls, {n}) = SyncedPart(ls[n])
  <2>1. {n} \intersect DOMAIN ls = {n} OBVIOUS
  <2> QED BY <2>1 DEF SyncedBatches
<1> QED BY <1>1, <1>2

\* What is synced in logs is in them.
LEMMA SyncedIsLogged ==
  ASSUME NEW ls, NEW S, \A n \in DOMAIN ls : IsFile(ls[n], S), NEW ns
  PROVE  SyncedBatches(ls, ns) \subseteq LogBatches(ls, ns)
<1>1. \A n \in DOMAIN ls : SyncedPart(ls[n]) \subseteq ToSet(ls[n].records)
  BY SyncedPartIsIn
<1> QED BY <1>1 DEF SyncedBatches, LogBatches

\* Tables that are there and unchanged hold the same batches.
LEMMA SameTables ==
  ASSUME NEW tabs, NEW new, NEW ns,
         \A n \in ns : n \in DOMAIN new <=> n \in DOMAIN tabs,
         \A n \in ns : n \in DOMAIN tabs => new[n] = tabs[n]
  PROVE  TableBatches(new, ns) = TableBatches(tabs, ns)
BY DEF TableBatches

\* Logs that are there with the same records hold the same batches.
LEMMA SameLogs ==
  ASSUME NEW ls, NEW new, NEW ns,
         \A n \in ns : n \in DOMAIN new <=> n \in DOMAIN ls,
         \A n \in ns : n \in DOMAIN ls => new[n].records = ls[n].records
  PROVE  LogBatches(new, ns) = LogBatches(ls, ns)
<1>1. ns \intersect DOMAIN new = ns \intersect DOMAIN ls OBVIOUS
<1>2. \A n \in ns \intersect DOMAIN ls : ToSet(new[n].records) = ToSet(ls[n].records)
  OBVIOUS
<1> QED BY <1>1, <1>2 DEF LogBatches

\* Logs that are there with the same synced parts hold the same synced batches.
LEMMA SameSynced ==
  ASSUME NEW ls, NEW new, NEW ns,
         \A n \in ns : n \in DOMAIN new <=> n \in DOMAIN ls,
         \A n \in ns : n \in DOMAIN ls => SyncedPart(new[n]) = SyncedPart(ls[n])
  PROVE  SyncedBatches(new, ns) = SyncedBatches(ls, ns)
<1>1. ns \intersect DOMAIN new = ns \intersect DOMAIN ls OBVIOUS
<1>2. \A n \in ns \intersect DOMAIN ls : SyncedPart(new[n]) = SyncedPart(ls[n])
  OBVIOUS
<1> QED BY <1>1, <1>2 DEF SyncedBatches

\* What a recovery finds is on the disk, and what a stop leaves for it to find is part of
\* that.
LEMMA FoundIsOnDisk ==
  ASSUME NEW tabs, NEW ls, \A n \in DOMAIN ls : IsFile(ls[n], Batches), NEW r, NEW c
  PROVE  /\ FoundBy(tabs, ls, r) \subseteq Disk(tabs, ls)
         /\ KeptBy(tabs, ls, r) \subseteq FoundBy(tabs, ls, r)
         /\ KeptBy(tabs, ls, r) \subseteq Lasting(tabs, ls, c)
         /\ Lasting(tabs, ls, c) \subseteq Disk(tabs, ls)
         /\ Lasting(tabs, ls, "never") = Disk(tabs, ls)
<1>1. /\ TableBatches(tabs, r.files) \subseteq TableBatches(tabs, DOMAIN tabs)
      /\ LogBatches(ls, From(ls, r.meta.log)) \subseteq LogBatches(ls, DOMAIN ls)
      /\ SyncedBatches(ls, From(ls, r.meta.log)) \subseteq SyncedBatches(ls, DOMAIN ls)
      /\ SyncedBatches(ls, From(ls, r.meta.log)) \subseteq LogBatches(ls, From(ls, r.meta.log))
      /\ SyncedBatches(ls, DOMAIN ls) \subseteq LogBatches(ls, DOMAIN ls)
  <2>1. TableBatches(tabs, r.files) \subseteq TableBatches(tabs, DOMAIN tabs)
    BY TableFacts
  <2>2. LogBatches(ls, From(ls, r.meta.log)) \subseteq LogBatches(ls, DOMAIN ls)
    BY LogFacts
  <2>3. SyncedBatches(ls, From(ls, r.meta.log)) \subseteq SyncedBatches(ls, DOMAIN ls)
    BY SyncedLogFacts
  <2>4. \A ns : SyncedBatches(ls, ns) \subseteq LogBatches(ls, ns)
    BY SyncedIsLogged
  <2> QED BY <2>1, <2>2, <2>3, <2>4
<1> QED BY <1>1 DEF FoundBy, KeptBy, Lasting, Disk

\* A log is created: nothing that is found, kept or on the disk changes.
LEMMA NewLog ==
  ASSUME NEW ls, NEW n, n \notin DOMAIN ls
  PROVE  LET new == Put(ls, n, EmptyFile) IN
         /\ DOMAIN new = DOMAIN ls \union {n}
         /\ \A m \in DOMAIN ls : new[m] = ls[m]
         /\ new[n] = EmptyFile
         /\ \A ns : LogBatches(new, ns) = LogBatches(ls, ns)
         /\ \A ns : SyncedBatches(new, ns) = SyncedBatches(ls, ns)
         /\ \A l : From(new, l) = From(ls, l) \union (IF n >= l THEN {n} ELSE {})
         /\ \A l : LogBatches(new, From(new, l)) = LogBatches(ls, From(ls, l))
         /\ \A l : SyncedBatches(new, From(new, l)) = SyncedBatches(ls, From(ls, l))
         /\ \A tabs, r : /\ FoundBy(tabs, new, r) = FoundBy(tabs, ls, r)
                         /\ KeptBy(tabs, new, r) = KeptBy(tabs, ls, r)
         /\ \A tabs : Disk(tabs, new) = Disk(tabs, ls)
         /\ \A tabs, c : Lasting(tabs, new, c) = Lasting(tabs, ls, c)
<1> DEFINE new == Put(ls, n, EmptyFile)
<1>1. /\ DOMAIN new = DOMAIN ls \union {n}
      /\ \A m \in DOMAIN ls : new[m] = ls[m]
      /\ new[n] = EmptyFile
  <2>1. \A m \in DOMAIN ls : m # n OBVIOUS
  <2> QED BY <2>1 DEF Put
<1> HIDE DEF new
<1>2. ToSet(EmptyFile.records) = {} /\ SyncedPart(EmptyFile) = {}
  BY EmptyFileFacts DEF ToSet, SyncedPart
<1>3. ASSUME NEW ns
      PROVE  LogBatches(new, ns) = LogBatches(ls, ns) /\ SyncedBatches(new, ns) = SyncedBatches(ls, ns)
  <2>1. LogBatches(new, ns) = LogBatches(ls, ns)
    <3>1. \A m \in ns \intersect DOMAIN ls : ToSet(new[m].records) = ToSet(ls[m].records)
      BY <1>1
    <3>2. ToSet(new[n].records) = {} BY <1>1, <1>2
    <3>3. \A m \in ns \intersect DOMAIN new : m = n \/ m \in ns \intersect DOMAIN ls
      BY <1>1
    <3>4. \A m \in ns \intersect DOMAIN ls : m \in ns \intersect DOMAIN new BY <1>1
    <3> QED BY <3>1, <3>2, <3>3, <3>4 DEF LogBatches
  <2>2. SyncedBatches(new, ns) = SyncedBatches(ls, ns)
    <3>1. \A m \in ns \intersect DOMAIN ls : SyncedPart(new[m]) = SyncedPart(ls[m])
      BY <1>1
    <3>2. SyncedPart(new[n]) = {} BY <1>1, <1>2
    <3>3. \A m \in ns \intersect DOMAIN new : m = n \/ m \in ns \intersect DOMAIN ls
      BY <1>1
    <3>4. \A m \in ns \intersect DOMAIN ls : m \in ns \intersect DOMAIN new BY <1>1
    <3> QED BY <3>1, <3>2, <3>3, <3>4 DEF SyncedBatches
  <2> QED BY <2>1, <2>2
<1>4. ASSUME NEW l PROVE From(new, l) = From(ls, l) \union (IF n >= l THEN {n} ELSE {})
  BY <1>1 DEF From
<1>5. ASSUME NEW l
      PROVE  /\ LogBatches(new, From(new, l)) = LogBatches(ls, From(ls, l))
             /\ SyncedBatches(new, From(new, l)) = SyncedBatches(ls, From(ls, l))
  <2>1. LogBatches(ls, {n}) = {} /\ SyncedBatches(ls, {n}) = {}
    BY DEF LogBatches, SyncedBatches
  <2>2. From(new, l) = From(ls, l) \/ From(new, l) = From(ls, l) \union {n}
    BY <1>4
  <2>3. /\ LogBatches(ls, From(ls, l) \union {n}) = LogBatches(ls, From(ls, l)) \union LogBatches(ls, {n})
        /\ SyncedBatches(ls, From(ls, l) \union {n}) = SyncedBatches(ls, From(ls, l)) \union SyncedBatches(ls, {n})
    BY LogFacts, SyncedLogFacts, Zenon
  <2>4. /\ LogBatches(new, From(new, l)) = LogBatches(ls, From(new, l))
        /\ SyncedBatches(new, From(new, l)) = SyncedBatches(ls, From(new, l))
    BY <1>3
  <2> QED BY <2>1, <2>2, <2>3, <2>4
<1>6. \A tabs, r : FoundBy(tabs, new, r) = FoundBy(tabs, ls, r) /\ KeptBy(tabs, new, r) = KeptBy(tabs, ls, r)
  BY <1>5 DEF FoundBy, KeptBy
<1>7. LogBatches(new, DOMAIN new) = LogBatches(ls, DOMAIN ls)
      /\ SyncedBatches(new, DOMAIN new) = SyncedBatches(ls, DOMAIN ls)
  <2>1. LogBatches(ls, {n}) = {} /\ SyncedBatches(ls, {n}) = {}
    BY DEF LogBatches, SyncedBatches
  <2>3. /\ LogBatches(ls, DOMAIN ls \union {n}) = LogBatches(ls, DOMAIN ls) \union LogBatches(ls, {n})
        /\ SyncedBatches(ls, DOMAIN ls \union {n}) = SyncedBatches(ls, DOMAIN ls) \union SyncedBatches(ls, {n})
    BY LogFacts, SyncedLogFacts, Zenon
  <2>4. /\ LogBatches(new, DOMAIN new) = LogBatches(ls, DOMAIN new)
        /\ SyncedBatches(new, DOMAIN new) = SyncedBatches(ls, DOMAIN new)
    BY <1>3
  <2> QED BY <2>1, <2>3, <2>4, <1>1
<1> QED BY <1>1, <1>3, <1>4, <1>5, <1>6, <1>7 DEF new, Disk, Lasting

\* A batch is appended to a log: that log holds one batch more, and nothing more is synced.
LEMMA LoggedBatch ==
  ASSUME NEW ls, \A m \in DOMAIN ls : IsFile(ls[m], Batches),
         NEW n \in DOMAIN ls, ls[n].end = "whole", NEW b \in Batches,
         NEW new, DOMAIN new = DOMAIN ls, \A m \in DOMAIN ls : m # n => new[m] = ls[m],
         new[n] = Appended(ls[n], b)
  PROVE  /\ DOMAIN new = DOMAIN ls /\ \A l : From(new, l) = From(ls, l)
         /\ \A m \in DOMAIN ls : m # n => new[m] = ls[m]
         /\ new[n] = Appended(ls[n], b)
         /\ \A m \in DOMAIN ls : IsFile(new[m], Batches) /\ new[m].end = ls[m].end
         /\ \A ns : LogBatches(new, ns) = LogBatches(ls, ns) \union (IF n \in ns THEN {b} ELSE {})
         /\ \A ns : SyncedBatches(new, ns) = SyncedBatches(ls, ns)
<1>1. /\ DOMAIN new = DOMAIN ls
      /\ \A m \in DOMAIN ls : m # n => new[m] = ls[m]
      /\ new[n] = Appended(ls[n], b)
  OBVIOUS
<1>2. /\ IsFile(Appended(ls[n], b), Batches) /\ Appended(ls[n], b).end = "whole"
      /\ ToSet(Appended(ls[n], b).records) = ToSet(ls[n].records) \union {b}
      /\ SyncedPart(Appended(ls[n], b)) = SyncedPart(ls[n])
  <2>1. IsFile(ls[n], Batches) OBVIOUS
  <2>2. /\ IsFile(Appended(ls[n], b), Batches) /\ Appended(ls[n], b).end = "whole"
        /\ SyncedPart(Appended(ls[n], b)) = SyncedPart(ls[n])
    BY <2>1, AppendedFacts
  <2>3. ToSet(Appended(ls[n], b).records) = ToSet(ls[n].records) \union {b}
    <3>1. Appended(ls[n], b).records = Append(ls[n].records, b)
      BY <2>1, AppendedFacts
    <3>2. ls[n].records \in Seq(Batches) BY <2>1 DEF IsFile
    <3>3. ToSet(Append(ls[n].records, b)) = ToSet(ls[n].records) \union {b}
      BY <3>2, AppendFacts
    <3> QED BY <3>1, <3>3, Zenon
  <2> QED BY <2>2, <2>3
<1>3. \A m \in DOMAIN ls : IsFile(new[m], Batches) /\ new[m].end = ls[m].end
  BY <1>1, <1>2
<1>4. \A l : From(new, l) = From(ls, l)
  BY <1>1 DEF From
<1>5. ASSUME NEW ns PROVE LogBatches(new, ns) = LogBatches(ls, ns) \union (IF n \in ns THEN {b} ELSE {})
  <2>1. \A m \in DOMAIN ls : ToSet(new[m].records) =
          ToSet(ls[m].records) \union (IF m = n THEN {b} ELSE {})
    BY <1>1, <1>2
  <2>2. LogBatches(new, ns) = UNION {ToSet(new[m].records) : m \in ns \intersect DOMAIN ls}
    BY <1>1 DEF LogBatches
  <2>3. LogBatches(ls, ns) = UNION {ToSet(ls[m].records) : m \in ns \intersect DOMAIN ls}
    BY DEF LogBatches
  <2>4. ASSUME NEW x \in LogBatches(new, ns)
        PROVE  x \in LogBatches(ls, ns) \union (IF n \in ns THEN {b} ELSE {})
    <3>1. PICK m \in ns \intersect DOMAIN ls : x \in ToSet(new[m].records)
      BY <2>2, <2>4
    <3> QED BY <3>1, <2>1, <2>3
  <2>5. ASSUME NEW x \in LogBatches(ls, ns) \union (IF n \in ns THEN {b} ELSE {})
        PROVE  x \in LogBatches(new, ns)
    <3>1. CASE x \in LogBatches(ls, ns)
      <4>1. PICK m \in ns \intersect DOMAIN ls : x \in ToSet(ls[m].records)
        BY <2>3, <3>1
      <4> QED BY <4>1, <2>1, <2>2
    <3>2. CASE n \in ns /\ x = b
      BY <3>2, <2>1, <2>2
    <3> QED BY <3>1, <3>2
  <2> QED BY <2>4, <2>5
<1>6. ASSUME NEW ns PROVE SyncedBatches(new, ns) = SyncedBatches(ls, ns)
  <2>1. \A m \in DOMAIN ls : SyncedPart(new[m]) = SyncedPart(ls[m])
    BY <1>1, <1>2
  <2> QED BY <2>1, <1>1, SameSynced
<1> QED BY <1>1, <1>3, <1>4, <1>5, <1>6

\* A log is synced: the logs hold the same batches, and all of that one's are synced.
LEMMA SyncedLog ==
  ASSUME NEW ls, \A m \in DOMAIN ls : IsFile(ls[m], Batches), NEW n \in DOMAIN ls,
         NEW new, DOMAIN new = DOMAIN ls, \A m \in DOMAIN ls : m # n => new[m] = ls[m],
         new[n] = Synced(ls[n])
  PROVE  /\ DOMAIN new = DOMAIN ls /\ \A l : From(new, l) = From(ls, l)
         /\ \A m \in DOMAIN ls : /\ IsFile(new[m], Batches) /\ new[m].end = ls[m].end
                                 /\ new[m].records = ls[m].records
         /\ \A ns : LogBatches(new, ns) = LogBatches(ls, ns)
         /\ \A ns : SyncedBatches(ls, ns) \subseteq SyncedBatches(new, ns)
         /\ \A ns : n \in ns => ToSet(ls[n].records) \subseteq SyncedBatches(new, ns)
<1>1. /\ DOMAIN new = DOMAIN ls
      /\ \A m \in DOMAIN ls : m # n => new[m] = ls[m]
      /\ new[n] = Synced(ls[n])
  OBVIOUS
<1>2. /\ IsFile(Synced(ls[n]), Batches)
      /\ Synced(ls[n]).records = ls[n].records /\ Synced(ls[n]).end = ls[n].end
      /\ SyncedPart(Synced(ls[n])) = ToSet(ls[n].records)
      /\ SyncedPart(ls[n]) \subseteq ToSet(ls[n].records)
  BY SyncedFacts, SyncedPartIsIn
<1>3. \A m \in DOMAIN ls : /\ IsFile(new[m], Batches) /\ new[m].end = ls[m].end
                           /\ new[m].records = ls[m].records
                           /\ SyncedPart(ls[m]) \subseteq SyncedPart(new[m])
  BY <1>1, <1>2
<1>4. \A l : From(new, l) = From(ls, l)
  BY <1>1 DEF From
<1>5. \A ns : LogBatches(new, ns) = LogBatches(ls, ns)
  BY <1>1, <1>3, SameLogs
<1>6. \A ns : SyncedBatches(ls, ns) \subseteq SyncedBatches(new, ns)
  BY <1>1, <1>3 DEF SyncedBatches
<1>7. \A ns : n \in ns => ToSet(ls[n].records) \subseteq SyncedBatches(new, ns)
  BY <1>1, <1>2 DEF SyncedBatches
<1> QED BY <1>1, <1>3, <1>4, <1>5, <1>6, <1>7

------------------------
(* Parts of the invariant that say nothing of a phase, and steps that leave the disk alone. *)

\* What is said of a process that has read a manifest holds of one that has not.
LEMMA NotWorking ==
  ASSUME phase' \notin {"replay", "commit", "up"}
  PROVE  WorkInv' /\ OpeningInv' /\ UpInv'
<1>1. WorkInv'
  BY DEF WorkInv, AgreeInv, TablesInv, LogInv, DescriptorInv, Working
<1>2. OpeningInv'
  BY DEF OpeningInv, OpenInv, ReplayInv
<1>3. UpInv'
  BY DEF UpInv, UpLogs, UpLast, UpTables, UpManifest, UpMerge, UpEdit, IdleEdit, BuildingEdit, FlushEdit, MergeEdit
<1> QED BY <1>1, <1>2, <1>3

\* What is said of a process that has not read a manifest holds of one that has.
LEMMA NotStarting ==
  ASSUME phase' \in {"replay", "commit", "up"}
  PROVE  BeforeInv'
BY DEF BeforeInv, StartInv, CreateInv, RepairInv

\* What is said of an open database holds of one that is not open.
LEMMA NotUp ==
  ASSUME phase' # "up"
  PROVE  UpInv'
BY DEF UpInv, UpLogs, UpLast, UpTables, UpManifest, UpMerge, UpEdit, IdleEdit, BuildingEdit, FlushEdit, MergeEdit

\* What is said of a recovery holds where none is on its way.
LEMMA NotOpening ==
  ASSUME phase' \notin {"replay", "commit"}
  PROVE  OpeningInv'
BY DEF OpeningInv, OpenInv, ReplayInv

\* The edit that says nothing.
LEMMA NoEditFacts ==
  NoEdit \in Edits /\ NoEdit.added = {} /\ NoEdit.deleted = {} /\ NoEdit.meta = Nil
BY DEF NoEdit, Edits

\* What is left of a process when it ends.
LEMMA Forgotten ==
  ASSUME Forget, phase' = "down", WriteNumbers, UNCHANGED writes, CountTypes
  PROVE  ProcessTypes' /\ WriteNumbers' /\ BeforeInv' /\ WorkInv' /\ OpeningInv' /\ UpInv'
<1>1. ProcessTypes'
  <2>1. 0 \in 0..MaxWrites
    BY RecoveryAssumption
  <2>2. edit' \in Edits
    BY NoEditFacts DEF Forget
  <2>3. /\ phase' \in {"down", "create", "read", "replay", "commit", "up", "failed", "repair"}
        /\ stage' \in {"idle", "building", "append", "sync", "temp", "rename", "clean",
                "logs", "scan", "archive", "manifest", "point"}
    BY DEF Forget
  <2>4. /\ version' \subseteq Nat \ {0} /\ pinned' \subseteq Nat \ {0} /\ pending' \subseteq Nat \ {0}
        /\ toReplay' \subseteq Nat \ {0} /\ mem' \subseteq Batches /\ imm' \subseteq Batches
        /\ logNumber' \in Nat /\ nextFile' \in Nat \ {0} /\ last' \in 0..MaxWrites
        /\ manifestFile' \in Nat /\ logFile' \in Nat
    BY <2>1 DEF Forget
  <2>5. descriptor' \in BOOLEAN /\ save' \in BOOLEAN /\ error' \in BOOLEAN
    BY Zenon DEF Forget
  <2>6. merge' \in Merges \union {Nil} /\ writing' \in Writings \union {Nil}
    BY DEF Forget
  <2> QED BY <2>2, <2>3, <2>4, <2>5, <2>6 DEF ProcessTypes
<1>2. WriteNumbers'
  BY RecoveryAssumption DEF Forget, WriteNumbers, CountTypes
<1>3. BeforeInv'
  BY DEF Forget, BeforeInv, StartInv, CreateInv, RepairInv, NewProcess, Blank
<1> QED BY <1>1, <1>2, <1>3, NotWorking

\* What is known of the setup: no append leaves a part, and logs are reused only if no
\* machine stops.
LEMMA SetupFacts ==
  ASSUME CountTypes, \A s \in Setups : Sound(s)
  PROVE  /\ setup \in Setup /\ setup.partial = FALSE
         /\ setup.reuse => setup.crash = "never"
         /\ setup.crash \in {"never", "created", "always"}
         /\ setup.buffer \in Nat /\ setup.reuse \in BOOLEAN /\ setup.damage \in BOOLEAN
BY RecoveryAssumption DEF CountTypes, Sound, Setup

\* When a manifest can be read, and the form of what it says.
LEMMA ReadableFacts ==
  ASSUME DiskTypes
  PROVE  /\ \A n : Readable(n) <=> /\ n \in DOMAIN manifests
                                   /\ manifests[n].end \notin {"buried", "bad"}
                                   /\ Said(manifests[n].records).meta # Nil
         /\ Readable(current) =>
              /\ current \in DOMAIN manifests /\ current # 0
              /\ IsFile(manifests[current], Edits)
              /\ Report \in Possible
              /\ Report.meta \in Metas /\ Report.files \subseteq Nat \ {0}
              /\ Report = [files |-> Report.files, meta |-> Report.meta]
              /\ Report.files = FilesOf(manifests[current].records)
              /\ Report.meta = MetaOf(manifests[current].records)
              /\ \A r \in Possible : r.files \subseteq Nat \ {0} /\ r.meta \in Metas \union {Nil}
              /\ setup.crash = "never" \/ Settled => Possible = {Report}
<1>1. \A n : Readable(n) <=> /\ n \in DOMAIN manifests
                             /\ manifests[n].end \notin {"buried", "bad"}
                             /\ Said(manifests[n].records).meta # Nil
  BY DEF Readable, Said
<1>2. ASSUME Readable(current)
      PROVE   /\ current \in DOMAIN manifests /\ current # 0
              /\ IsFile(manifests[current], Edits)
              /\ Report \in Possible
              /\ Report.meta \in Metas /\ Report.files \subseteq Nat \ {0}
              /\ Report = [files |-> Report.files, meta |-> Report.meta]
              /\ Report.files = FilesOf(manifests[current].records)
              /\ Report.meta = MetaOf(manifests[current].records)
              /\ \A r \in Possible : r.files \subseteq Nat \ {0} /\ r.meta \in Metas \union {Nil}
              /\ setup.crash = "never" \/ Settled => Possible = {Report}
  <2>1. /\ current \in DOMAIN manifests /\ current # 0 /\ IsFile(manifests[current], Edits)
        /\ manifests[current].records \in Seq(Edits)
    BY <1>2 DEF Readable, DiskTypes, IsFile
  <2>2. Report \in Possible
    BY <2>1, ReportIsPossible DEF Report, Possible
  <2>3. /\ Report.meta \in Metas \union {Nil} /\ Report.files \subseteq Nat \ {0}
        /\ Report = [files |-> Report.files, meta |-> Report.meta]
        /\ Report.files = FilesOf(manifests[current].records)
        /\ Report.meta = MetaOf(manifests[current].records)
    BY <2>1, SaidType DEF Report, Said
  <2>4. Report.meta # Nil
    BY <1>2, <2>3 DEF Readable
  <2>5. \A r \in Possible : r.files \subseteq Nat \ {0} /\ r.meta \in Metas \union {Nil}
    BY <2>1, ReportsType DEF Possible
  <2>6. setup.crash = "never" \/ Settled => Possible = {Report}
    BY <2>1, ReportIsPossible DEF Possible, Report, Settled
  <2> QED BY <2>1, <2>2, <2>3, <2>4, <2>5, <2>6
<1> QED BY <1>1, <1>2

\* The operators of the model in the terms of this module.
LEMMA FoundIsFoundBy ==
  /\ \A edits : Found(edits) = FoundBy(tables, logs, Said(edits))
  /\ Recovered = IF Readable(current) THEN FoundBy(tables, logs, Report) ELSE {}
  /\ \A ns : BatchesIn(ns) = TableBatches(tables, ns)
  /\ \A n : LogsFrom(n) = From(logs, n)
<1>1. \A ns : BatchesIn(ns) = TableBatches(tables, ns)
  BY DEF BatchesIn, TableBatches
<1>2. \A n : LogsFrom(n) = From(logs, n)
  BY DEF LogsFrom, From
<1>3. \A edits : Found(edits) = FoundBy(tables, logs, Said(edits))
  <2> SUFFICES ASSUME NEW edits PROVE Found(edits) = FoundBy(tables, logs, Said(edits))
    OBVIOUS
  <2> DEFINE L == From(logs, MetaOf(edits).log)
  <2>1. L \intersect DOMAIN logs = L
    BY DEF From
  <2>2. UNION {ToSet(logs[n].records) : n \in L} = LogBatches(logs, L)
    BY <2>1 DEF LogBatches
  <2>3. Said(edits).files = FilesOf(edits) /\ Said(edits).meta = MetaOf(edits)
    BY DEF Said
  <2> QED BY <1>1, <1>2, <2>2, <2>3 DEF Found, FoundBy
<1> QED BY <1>1, <1>2, <1>3 DEF Recovered, Report

\* Bounded sets of file numbers: one more, fewer, and two together.
LEMMA BoundedFacts ==
  ASSUME NEW S, Bounded(S)
  PROVE  /\ \A n \in Nat \ {0} : Bounded(S \union {n})
         /\ \A T : T \subseteq S => Bounded(T)
         /\ \A T : Bounded(T) => Bounded(S \union T)
         /\ \E k \in Nat : \A n \in S : n <= k
<1>1. PICK k \in Nat : \A n \in S : n <= k
  BY DEF Bounded
<1>2. S \subseteq Nat \ {0}
  BY DEF Bounded
<1>3. ASSUME NEW n \in Nat \ {0} PROVE Bounded(S \union {n})
  <2>1. \A m \in S \union {n} : m <= k + n
    BY <1>1, <1>2
  <2>2. k + n \in Nat OBVIOUS
  <2> QED BY <2>1, <2>2, <1>2 DEF Bounded
<1>4. \A T : T \subseteq S => Bounded(T)
  BY <1>1, <1>2 DEF Bounded
<1>5. ASSUME NEW T, Bounded(T) PROVE Bounded(S \union T)
  <2>1. PICK j \in Nat : \A n \in T : n <= j
    BY <1>5 DEF Bounded
  <2>2. T \subseteq Nat \ {0}
    BY <1>5 DEF Bounded
  <2>3. \A m \in S \union T : m <= k + j
    BY <1>1, <1>2, <2>1, <2>2
  <2>4. k + j \in Nat OBVIOUS
  <2> QED BY <2>3, <2>4, <1>2, <2>2 DEF Bounded
<1> QED BY <1>1, <1>3, <1>4, <1>5

\* Nothing on the disk changes.
LEMMA SameDisk ==
  ASSUME StoredInv, UNCHANGED <<logs, manifests, tables, current, setup, synced, writes>>,
         temps' = temps \/ Bounded(temps')
  PROVE  /\ StoredInv'
         /\ Report' = Report /\ Possible' = Possible /\ OnDisk' = OnDisk /\ Harmless' = Harmless
         /\ Recovered' = Recovered /\ Readable(current)' = Readable(current)
<1>1. UNCHANGED <<logs, manifests, tables, current, setup, synced, writes>> OBVIOUS
<1>2. OnDisk' = OnDisk /\ Report' = Report /\ Possible' = Possible
  BY <1>1 DEF OnDisk, Report, Possible
<1>3. Harmless' = Harmless /\ Excused' = Excused
  BY <1>1, <1>2 DEF Harmless, Excused
<1>4. Readable(current)' = Readable(current)
  BY <1>1 DEF Readable
<1>5. Recovered' = Recovered
  BY <1>1, <1>4 DEF Recovered, Found, BatchesIn, LogsFrom
<1>6. DiskTypes'
  BY <1>1 DEF DiskTypes, StoredInv
<1>7. BatchNumbers'
  BY <1>1, <1>2 DEF BatchNumbers, StoredInv
<1>8. ManifestInv'
  <2>1. \A r : Sensible(r)' = Sensible(r)
    BY <1>1, <1>2, <1>3 DEF Sensible
  <2> QED BY <2>1, <1>1, <1>2, <1>3, <1>4 DEF ManifestInv, StoredInv
<1>9. DiskInv'
  BY <1>1, <1>2, <1>3, <1>4 DEF DiskInv, StoredInv
<1> QED BY <1>2, <1>3, <1>4, <1>5, <1>6, <1>7, <1>8, <1>9 DEF StoredInv

\* Files change, and no report that counts is affected.
LEMMA OtherFiles ==
  ASSUME StoredInv, Readable(current), UNCHANGED <<manifests, current, setup, synced, writes>>,
         OnDisk' \subseteq OnDisk, DiskTypes',
         setup.crash = "never" => \A n \in DOMAIN logs' : logs'[n].end = "whole",
         \A r \in Possible : r.meta # Nil =>
           /\ r.files \subseteq DOMAIN tables'
           /\ TableBatches(tables', r.files) = TableBatches(tables, r.files)
           /\ FoundBy(tables', logs', r) = FoundBy(tables, logs, r)
           /\ KeptBy(tables, logs, r) \subseteq KeptBy(tables', logs', r)
  PROVE  /\ StoredInv'
         /\ Report' = Report /\ Possible' = Possible /\ (Harmless => Harmless')
         /\ Recovered' = Recovered /\ Readable(current)'
<1>1. Report' = Report /\ Possible' = Possible
  BY DEF Report, Possible
<1>2. (Harmless => Harmless') /\ (Excused => Excused')
  BY DEF Harmless, Excused
<1>3. Readable(current)'
  BY DEF Readable
<1>4. Report \in Possible /\ Report.meta # Nil /\ current # 0
  BY ReadableFacts, NilIsNoMeta DEF StoredInv
<1>5. FoundBy(tables', logs', Report) = FoundBy(tables, logs, Report)
  BY <1>4
<1>6. Recovered' = Recovered
  <2>1. Recovered = FoundBy(tables, logs, Report)
    BY FoundIsFoundBy
  <2>2. Recovered' = FoundBy(tables', logs', Report')
    <3>1. (\A edits : Found(edits) = FoundBy(tables, logs, Said(edits)))'
      BY FoundIsFoundBy, PTL
    <3> QED BY <3>1, <1>3 DEF Recovered, Report
  <2> QED BY <2>1, <2>2, <1>5, <1>1
<1>7. BatchNumbers'
  BY DEF BatchNumbers, StoredInv, Upto
<1>8. ManifestInv'
  <2>1. ASSUME NEW r \in Possible, r.meta # Nil PROVE Sensible(r)'
    <3>1. Sensible(r) BY <2>1 DEF ManifestInv, StoredInv
    <3>2. /\ r.files \subseteq DOMAIN tables'
          /\ TableBatches(tables', r.files) = TableBatches(tables, r.files)
          /\ FoundBy(tables', logs', r) = FoundBy(tables, logs, r)
          /\ KeptBy(tables, logs, r) \subseteq KeptBy(tables', logs', r)
      BY <2>1
    <3> QED BY <3>1, <3>2, <1>1, <1>2, <1>5 DEF Sensible
  <2>2. \A r \in Possible : r.meta = Nil => Excused'
    BY <1>2 DEF ManifestInv, StoredInv
  <2>3. synced' \subseteq FoundBy(tables', logs', Report')
    BY <1>1, <1>5 DEF ManifestInv, StoredInv
  <2> QED BY <2>1, <2>2, <2>3, <1>1 DEF ManifestInv
<1>9. DiskInv'
  BY <1>3, <1>4 DEF DiskInv, StoredInv
<1> QED BY <1>1, <1>2, <1>3, <1>6, <1>7, <1>8, <1>9 DEF StoredInv

------------------------
(* An open, and the end of a process. *)

\* Open of a database that is closed.
LEMMA OpenStep ==
  ASSUME DbInv, Open
  PROVE  DbInv' /\ Recovered' = Recovered
<1>0. /\ phase = "down" /\ opens' = opens + 1 /\ opens < MaxOpens
      /\ phase' = IF current = 0 THEN "create" ELSE "read"
      /\ UNCHANGED <<logs, manifests, tables, current, temps, save, toReplay, version, logNumber, last,
                     manifestFile, descriptor, mem, imm, logFile, setup, writes, merges, faults, stage,
                     pinned, nextFile, pending, edit, merge, writing, error, acked, synced>>
  BY DEF Open, diskVars, setVars, memVars
<1>1. StoredInv' /\ Recovered' = Recovered
  BY <1>0, SameDisk DEF DbInv
<1>2. CountTypes'
  <2>1. opens' \in 0..MaxOpens
    BY <1>0, RecoveryAssumption DEF DbInv, CountTypes
  <2> QED BY <2>1, <1>0 DEF DbInv, CountTypes
<1>3. ProcessTypes'
  BY <1>0 DEF DbInv, ProcessTypes
<1>4. NewProcess /\ stage = "idle"
  BY <1>0 DEF DbInv, BeforeInv, StartInv
<1>5. NewProcess' /\ stage' = "idle"
  BY <1>4, <1>0 DEF NewProcess, Blank
<1>6. WriteNumbers'
  <2>1. opens' >= 1
    BY <1>0 DEF DbInv, CountTypes
  <2>2. writing' = Nil /\ last' <= writes'
    BY <1>5, <1>0 DEF NewProcess, Blank, DbInv, WriteNumbers
  <2> QED BY <2>1, <2>2 DEF WriteNumbers
<1>7. BeforeInv'
  BY <1>5, <1>0 DEF BeforeInv, StartInv, CreateInv, RepairInv
<1>8. WorkInv' /\ OpeningInv' /\ UpInv'
  BY <1>0, NotWorking
<1> QED BY <1>1, <1>2, <1>3, <1>6, <1>7, <1>8 DEF DbInv

\* The process ends: the disk stays.
LEMMA ProcessEndsStep ==
  ASSUME DbInv, ProcessEnds
  PROVE  DbInv' /\ Recovered' = Recovered
<1>1. StoredInv' /\ Recovered' = Recovered
  BY SameDisk DEF DbInv, ProcessEnds, diskVars, counts
<1>2. CountTypes'
  BY DEF DbInv, CountTypes, ProcessEnds, counts
<1>3. ProcessTypes' /\ WriteNumbers' /\ BeforeInv' /\ WorkInv' /\ OpeningInv' /\ UpInv'
  BY Forgotten DEF DbInv, ProcessEnds, counts
<1> QED BY <1>1, <1>2, <1>3 DEF DbInv

\* SetCurrentFile writes the temporary file.
LEMMA WriteTempStep ==
  ASSUME DbInv, WriteTemp
  PROVE  DbInv' /\ Recovered' = Recovered
<1>0. /\ stage = "temp" /\ stage' = "rename" /\ temps' = temps \union {NewCurrent}
      /\ UNCHANGED <<logs, manifests, tables, current, phase, save, toReplay, version, logNumber, last,
                     manifestFile, descriptor, mem, imm, logFile, setup, writes, opens, merges, faults,
                     pinned, nextFile, pending, edit, merge, writing, error, acked, synced>>
  BY DEF WriteTemp, openVars, setVars, memVars, counts
<1>1. phase \in {"create", "commit"}
  BY <1>0 DEF DbInv, ProcessTypes, BeforeInv, StartInv, RepairInv, OpeningInv, ReplayInv, UpInv, UpLogs
<1>2. NewCurrent \in Nat \ {0}
  BY <1>1 DEF NewCurrent, DbInv, WorkInv, AgreeInv, Working, ProcessTypes
<1>3. Bounded(temps')
  BY <1>0, <1>2, BoundedFacts DEF DbInv, StoredInv, DiskTypes
<1>4. /\ StoredInv' /\ Recovered' = Recovered
      /\ Report' = Report /\ OnDisk' = OnDisk /\ Harmless' = Harmless
      /\ Readable(current)' = Readable(current)
  BY <1>0, <1>3, SameDisk DEF DbInv
<1>5. CountTypes' /\ ProcessTypes' /\ WriteNumbers'
  BY <1>0 DEF DbInv, CountTypes, ProcessTypes, WriteNumbers
<1>6. CASE phase = "create"
  <2>1. BeforeInv'
    BY <1>0, <1>6 DEF DbInv, BeforeInv, StartInv, CreateInv, RepairInv, NewProcess, Blank
  <2>2. WorkInv' /\ OpeningInv' /\ UpInv'
    BY <1>0, <1>6, NotWorking
  <2> QED BY <2>1, <2>2, <1>4, <1>5 DEF DbInv
<1>7. CASE phase = "commit"
  <2>1. BeforeInv' /\ UpInv'
    BY <1>0, <1>7, NotStarting, NotUp
  <2>2. AgreeInv'
    BY <1>0, <1>4, <1>7 DEF DbInv, WorkInv, AgreeInv, Working, Overtaken, Written, Agrees, After
  <2>3. TablesInv' /\ LogInv'
    BY <1>0, <1>7 DEF DbInv, WorkInv, TablesInv, LogInv, Working
  <2>4. DescriptorInv'
    BY <1>0, <1>4, <1>7 DEF DbInv, WorkInv, DescriptorInv, Working, Written
  <2>5. OpeningInv'
    BY <1>0, <1>4, <1>7 DEF DbInv, OpeningInv, OpenInv, ReplayInv, EditReady, Older
  <2> QED BY <2>1, <2>2, <2>3, <2>4, <2>5, <1>4, <1>5 DEF DbInv, WorkInv
<1> QED BY <1>1, <1>6, <1>7

\* RepairDB lists the directory.
LEMMA FindFilesStep ==
  ASSUME DbInv, FindFiles
  PROVE  DbInv' /\ Recovered' = Recovered
<1>0. /\ phase = "failed" /\ phase' = "repair" /\ stage' = "logs"
      /\ nextFile' = Max({0} \union DOMAIN logs \union DOMAIN tables \union temps) + 1
      /\ toReplay' = DOMAIN logs
      /\ UNCHANGED <<logs, manifests, tables, current, temps, save, version, logNumber, last,
                     manifestFile, descriptor, mem, imm, logFile, setup, writes, opens, merges, faults,
                     pinned, pending, edit, merge, writing, error, acked, synced>>
  BY DEF FindFiles, diskVars, setVars, memVars, counts
<1>1. StoredInv' /\ Recovered' = Recovered /\ Readable(current)' = Readable(current)
  BY <1>0, SameDisk DEF DbInv
<1>2. NewProcess /\ ~Readable(current) /\ current # 0
  BY <1>0 DEF DbInv, BeforeInv, StartInv
<1>3. Max({0} \union DOMAIN logs \union DOMAIN tables \union temps) \in Nat
      /\ \A n \in DOMAIN tables : n <= Max({0} \union DOMAIN logs \union DOMAIN tables \union temps)
  <2> DEFINE A == DOMAIN logs \union DOMAIN tables \union temps
             B == {0} \union DOMAIN logs \union DOMAIN tables \union temps
  <2>1. Bounded(A)
    <3>1. Bounded(DOMAIN logs) /\ Bounded(DOMAIN tables) /\ Bounded(temps)
      BY DEF DbInv, StoredInv, DiskTypes
    <3>2. Bounded(DOMAIN logs \union DOMAIN tables) BY <3>1, BoundedFacts
    <3> QED BY <3>1, <3>2, BoundedFacts
  <2>2. PICK k \in Nat : \A n \in A : n <= k
    BY <2>1 DEF Bounded
  <2>3. B = A \union {0} OBVIOUS
  <2>4. B \subseteq Nat /\ B # {} /\ \A n \in B : n <= k
    BY <2>1, <2>2, <2>3 DEF Bounded
  <2>5. Max(B) \in B /\ \A n \in B : n <= Max(B)
    <3> HIDE DEF B
    <3> QED BY <2>4, GreatestNatural
  <2> QED BY <2>4, <2>5
<1>4. nextFile' \in Nat \ {0} /\ \A n \in DOMAIN tables' : n < nextFile'
  <2>1. DOMAIN tables \subseteq Nat
    BY DEF DbInv, StoredInv, DiskTypes, Bounded
  <2> QED BY <1>0, <1>3, <2>1
<1>5. CountTypes' /\ WriteNumbers'
  BY <1>0 DEF DbInv, CountTypes, WriteNumbers
<1>6. ProcessTypes'
  <2>1. toReplay' \subseteq Nat \ {0}
    BY <1>0 DEF DbInv, StoredInv, DiskTypes, Bounded
  <2> QED BY <2>1, <1>0, <1>4 DEF DbInv, ProcessTypes
<1>7. BeforeInv'
  BY <1>0, <1>1, <1>2, <1>4 DEF BeforeInv, StartInv, CreateInv, RepairInv, NewProcess, Blank
<1>8. WorkInv' /\ OpeningInv' /\ UpInv'
  BY <1>0, NotWorking
<1> QED BY <1>1, <1>5, <1>6, <1>7, <1>8 DEF DbInv

------------------------
(* VersionSet::Recover. *)

\* A manifest that can be read makes sense.
LEMMA ReportIsSensible ==
  ASSUME StoredInv, Readable(current)
  PROVE  /\ Sensible(Report) /\ Report.meta # Nil
         /\ Report.meta.log \in Nat /\ Report.meta.next \in Nat \ {0} /\ Report.meta.last \in 0..MaxWrites
         /\ current \in Nat \ {0} /\ current \in DOMAIN manifests
         /\ IsFile(manifests[current], Edits)
<1>1. Report \in Possible /\ Report.meta \in Metas /\ Report.meta # Nil
      /\ current \in DOMAIN manifests /\ IsFile(manifests[current], Edits)
  BY ReadableFacts, NilIsNoMeta DEF StoredInv
<1>2. Sensible(Report)
  BY <1>1 DEF StoredInv, ManifestInv
<1>3. current \in Nat \ {0}
  BY <1>1 DEF StoredInv, DiskTypes
<1> QED BY <1>1, <1>2, <1>3 DEF Metas

\* VersionSet::Recover reads the manifest that CURRENT names.
LEMMA ReadManifestStep ==
  ASSUME DbInv, ReadManifest, \A s \in Setups : Sound(s)
  PROVE  DbInv' /\ Recovered' = Recovered
<1> DEFINE
  Fails == /\ ~Readable(current) /\ phase' = "failed"
           /\ UNCHANGED <<version, logNumber, last, manifestFile, descriptor, nextFile, save, toReplay>>
  Reads == /\ Readable(current) /\ phase' = "replay"
           /\ version' = Report.files /\ logNumber' = Report.meta.log /\ last' = Report.meta.last
           /\ nextFile' = Report.meta.next + 1
           /\ toReplay' = From(logs, Report.meta.log)
           /\ \E reuse \in {FALSE, setup.reuse} :
                /\ manifestFile' = IF reuse THEN current ELSE Report.meta.next
                /\ descriptor' = reuse /\ save' = ~reuse
<1>0. /\ phase = "read"
      /\ UNCHANGED <<logs, manifests, tables, current, temps, mem, imm, logFile, setup, writes, opens,
                     merges, faults, stage, pinned, pending, edit, merge, writing, error, acked, synced>>
  BY DEF ReadManifest, diskVars, memVars, counts
<1>1. /\ StoredInv' /\ Recovered' = Recovered
      /\ Report' = Report /\ Possible' = Possible /\ OnDisk' = OnDisk /\ Harmless' = Harmless
      /\ Readable(current)' = Readable(current)
  BY <1>0, SameDisk DEF DbInv
<1>2. NewProcess /\ stage = "idle" /\ current # 0
  BY <1>0 DEF DbInv, BeforeInv, StartInv
<1>3. CountTypes'
  BY <1>0 DEF DbInv, CountTypes
<1>4. CASE Fails
  <2>1. ProcessTypes' /\ WriteNumbers'
    BY <1>0, <1>4 DEF DbInv, ProcessTypes, WriteNumbers
  <2>2. BeforeInv'
    BY <1>0, <1>1, <1>2, <1>4 DEF BeforeInv, StartInv, CreateInv, RepairInv, NewProcess, Blank
  <2>3. WorkInv' /\ OpeningInv' /\ UpInv'
    BY <1>4, NotWorking
  <2> QED BY <1>1, <1>3, <2>1, <2>2, <2>3 DEF DbInv
<1>5. CASE Reads
  <2>1. /\ Sensible(Report) /\ Report.meta # Nil
        /\ Report.meta.log \in Nat /\ Report.meta.next \in Nat \ {0} /\ Report.meta.last \in 0..MaxWrites
        /\ current \in Nat \ {0} /\ current \in DOMAIN manifests
        /\ IsFile(manifests[current], Edits)
    BY <1>5, ReportIsSensible DEF DbInv
  <2>2. Report.files \subseteq Nat \ {0} /\ Report = [files |-> Report.files, meta |-> Report.meta]
    BY <1>5, ReadableFacts DEF DbInv, StoredInv
  <2>3. PICK reuse \in {FALSE, setup.reuse} :
               /\ manifestFile' = IF reuse THEN current ELSE Report.meta.next
               /\ descriptor' = reuse /\ save' = ~reuse
    BY <1>5
  <2>4. reuse \in BOOLEAN /\ (reuse => setup.reuse /\ setup.crash = "never")
    BY SetupFacts DEF DbInv
  <2>5. ProcessTypes'
    <3>1. descriptor' \in BOOLEAN /\ save' \in BOOLEAN
      BY <2>3, <2>4
    <3>2. manifestFile' \in Nat \ {0} BY <2>3, <2>1
    <3>3. nextFile' \in Nat \ {0} /\ logNumber' \in Nat /\ last' \in 0..MaxWrites
      BY <1>5, <2>1
    <3>4. toReplay' \subseteq Nat \ {0} /\ version' \subseteq Nat \ {0}
      BY <1>5, <2>2 DEF From, DbInv, StoredInv, DiskTypes, Bounded
    <3> QED BY <1>0, <1>5, <3>1, <3>2, <3>3, <3>4 DEF DbInv, ProcessTypes
  <2>6. WriteNumbers'
    <3>1. last' <= writes' BY <1>0, <1>5, <2>1 DEF Sensible
    <3>2. writing' = Nil BY <1>0, <1>2 DEF NewProcess, Blank
    <3> QED BY <3>1, <3>2, <1>0, <1>5 DEF WriteNumbers, DbInv
  <2>7. BeforeInv' /\ UpInv'
    BY <1>5, NotStarting, NotUp
  <2>8. AgreeInv'
    <3>1. manifestFile' # 0 /\ manifestFile' < nextFile' /\ logNumber' < nextFile'
          /\ Report'.meta.next <= nextFile'
      BY <1>1, <1>5, <2>1, <2>3 DEF Sensible
    <3>2. Readable(current)' BY <1>1, <1>5
    <3>3. Agrees' /\ ~Overtaken'
      BY <1>0, <1>1, <1>2, <1>5 DEF Agrees, Overtaken, Written
    <3> QED BY <3>1, <3>2, <3>3 DEF AgreeInv
  <2>9. TablesInv'
    <3>1. edit' = NoEdit BY <1>0, <1>2 DEF NewProcess
    <3>2. \A n \in version' : n < nextFile' BY <1>5, <2>1, <2>2 DEF Sensible
    <3> QED BY <1>0, <1>5, <2>1, <3>1, <3>2, NoEditFacts DEF TablesInv, Sensible
  <2>10. LogInv'
    BY <1>0, <1>2 DEF LogInv, NewProcess, Blank
  <2>11. DescriptorInv'
    <3>1. CASE reuse = TRUE
      <4>1. manifests[current].end = "whole"
        BY <3>1, <2>4, <2>1, <1>5 DEF DbInv, StoredInv, DiskInv, Readable
      <4> QED BY <4>1, <3>1, <2>3, <1>0 DEF DescriptorInv
    <3>2. CASE reuse = FALSE
      <4>1. manifestFile' # current \/ Harmless
        BY <3>2, <2>3, <2>1 DEF Sensible
      <4>2. descriptor' = FALSE BY <3>2, <2>3
      <4> QED BY <4>1, <4>2, <1>0, <1>1, <1>2, <1>5 DEF DescriptorInv, Written
    <3> QED BY <3>1, <3>2, <2>4
  <2>12. OpeningInv'
    <3>1. OpenInv'
      <4>1. (save' = FALSE => descriptor') /\ (descriptor' => setup'.reuse)
        BY <2>3, <2>4, <1>0
      <4> QED BY <4>1, <1>0, <1>2, NoEditFacts DEF OpenInv, NewProcess, Blank
    <3>2. ReplayInv'
      <4>1. toReplay' = From(logs', logNumber') BY <1>0, <1>5
      <4>2. Older' \ toReplay' = {} /\ From(logs', logNumber') \ toReplay' = {}
        BY <4>1 DEF Older
      <4>3. edit' = NoEdit /\ logFile' = 0 /\ mem' = {} /\ stage' = "idle" /\ phase' = "replay"
        BY <1>0, <1>2, <1>5 DEF NewProcess, Blank
      <4>4. TableBatches(tables', edit'.added) = LogBatches(logs', Older' \ toReplay')
        BY <4>2, <4>3, NoEditFacts, TableFacts, LogFacts
      <4>5. Upto(LogBatches(logs', From(logs', logNumber') \ toReplay'), last')
        BY <4>2, LogFacts DEF Upto
      <4> QED BY <4>1, <4>2, <4>3, <4>4, <4>5, NoEditFacts DEF ReplayInv
    <3> QED BY <3>1, <3>2 DEF OpeningInv
  <2> QED BY <1>1, <1>3, <2>5, <2>6, <2>7, <2>8, <2>9, <2>10, <2>11, <2>12 DEF DbInv, WorkInv
<1>6. Fails \/ Reads
  <2>1. Readable(current) => /\ FilesOf(manifests[current].records) = Report.files
                             /\ MetaOf(manifests[current].records) = Report.meta
    BY DEF Report, Said
  <2>2. Readable(current) => Report.files \subseteq DOMAIN tables
    BY ReportIsSensible DEF DbInv, Sensible
  <2>3. \A n : LogsFrom(n) = From(logs, n)
    BY FoundIsFoundBy
  <2> QED BY <2>1, <2>2, <2>3 DEF ReadManifest, setVars
<1> QED BY <1>4, <1>5, <1>6

------------------------
(* RecoverLogFile. *)

\* Numbers cut into parts of w: each is in one.
LEMMA InSomePart ==
  ASSUME NEW w \in Nat \ {0}, NEW n \in Nat, NEW j \in 1..n
  PROVE  /\ (n + (w - 1)) \div w \in Nat
         /\ \E i \in 1 .. (n + (w - 1)) \div w : (i - 1) * w < j /\ j <= i * w
<1>1. /\ (j - 1) \div w \in Nat
      /\ ((j - 1) \div w) * w <= j - 1 /\ j - 1 < ((j - 1) \div w + 1) * w
  OBVIOUS
<1> DEFINE i == (j - 1) \div w + 1
<1>2. i \in Nat \ {0} /\ i - 1 = (j - 1) \div w
  BY <1>1
<1>3. (i - 1) * w < j /\ j <= i * w
  <2>1. i * w \in Nat /\ (i - 1) * w \in Nat
    BY <1>2
  <2> QED BY <1>1, <1>2, <2>1
<1>4. (n + (w - 1)) \div w \in Nat OBVIOUS
<1>5. i <= (n + (w - 1)) \div w
  <2> HIDE DEF i
  <2> QED BY <1>2, <1>3
<1> HIDE DEF i
<1>6. i \in 1..(n + (w - 1)) \div w
  BY <1>2, <1>4, <1>5
<1> QED BY <1>3, <1>4, <1>6

\* RecoverLogFile cuts the records into memtables: together they hold what the log holds.
LEMMA MemTablesFacts ==
  ASSUME NEW S, NEW found \in Seq(S), setup.buffer \in Nat
  PROVE  /\ Len(MemTables(found)) \in Nat
         /\ DOMAIN MemTables(found) = 1..Len(MemTables(found))
         /\ UNION {MemTables(found)[i] : i \in DOMAIN MemTables(found)} = ToSet(found)
         /\ MemTables(found) = << >> <=> Len(MemTables(found)) = 0
<1> DEFINE w == setup.buffer + 1
           n == Len(found)
           m == (n + setup.buffer) \div w
           part(i) == {found[j] : j \in {k \in DOMAIN found : (i - 1) * w < k /\ k <= i * w}}
<1>1. w \in Nat \ {0} /\ n \in Nat /\ w - 1 = setup.buffer /\ DOMAIN found = 1..n
  OBVIOUS
<1>2. m \in Nat
  <2>1. (n + (w - 1)) \div w \in Nat
    <3> HIDE DEF w, n
    <3> QED BY <1>1
  <2> QED BY <2>1, <1>1
<1>3. MemTables(found) = [i \in 1..m |-> part(i)]
  BY DEF MemTables
<1>4. ASSUME NEW b \in ToSet(found) PROVE \E i \in 1..m : b \in part(i)
  <2>1. PICK j \in 1..n : b = found[j]
    BY <1>1 DEF ToSet
  <2>2. \E i \in 1 .. (n + (w - 1)) \div w : (i - 1) * w < j /\ j <= i * w
    <3> HIDE DEF w, n
    <3> QED BY <1>1, InSomePart
  <2>3. PICK i \in 1 .. m : (i - 1) * w < j /\ j <= i * w
    BY <2>2, <1>1
  <2>4. b \in part(i)
    BY <2>1, <2>3, <1>1
  <2> QED BY <2>4
<1>5. \A i \in 1..m : part(i) \subseteq ToSet(found)
  BY DEF ToSet
<1> HIDE DEF w, n, m, part
<1>6. DOMAIN MemTables(found) = 1 .. m /\ \A i \in 1..m : MemTables(found)[i] = part(i)
  BY <1>3
<1>7. Len(MemTables(found)) = m
  BY <1>3, <1>2
<1>8. UNION {MemTables(found)[i] : i \in DOMAIN MemTables(found)} = ToSet(found)
  BY <1>4, <1>5, <1>6
<1>9. MemTables(found) = << >> <=> Len(MemTables(found)) = 0
  <2>1. MemTables(found) \in Seq({part(i) : i \in 1..m})
    BY <1>2, <1>3
  <2> QED BY <2>1, EmptySeq
<1> QED BY <1>2, <1>6, <1>7, <1>8, <1>9

\* The highest sequence number of batches: none of them exceeds it, and no bound of theirs
\* is exceeded by it.
LEMMA HighestOfFacts ==
  ASSUME NEW a \in Nat, NEW k \in Nat, a <= k, NEW bs, \A b \in bs : b[1] \in Nat /\ b[1] <= k
  PROVE  /\ HighestOf(a, bs) \in Nat /\ a <= HighestOf(a, bs) /\ HighestOf(a, bs) <= k
         /\ Upto(bs, HighestOf(a, bs))
<1> DEFINE T == {a} \union Seqs(bs)
<1>1. T \subseteq Nat /\ T # {} /\ \A x \in T : x <= k
  BY DEF Seqs
<1>2. Max(T) \in T /\ \A y \in T : y <= Max(T)
  <2> HIDE DEF T
  <2> QED BY <1>1, GreatestNatural
<1>3. HighestOf(a, bs) = Max(T)
  BY DEF HighestOf
<1>4. a \in T /\ \A b \in bs : b[1] \in T
  BY DEF Seqs
<1> HIDE DEF T
<1> QED BY <1>1, <1>2, <1>3, <1>4 DEF Upto

\* MarkFileNumberUsed: the next file number exceeds the number used and never falls.
LEMMA MarkFileNumberUsedFacts ==
  ASSUME NEW m \in Nat, NEW n \in Nat
  PROVE  /\ MarkFileNumberUsed(m, n) \in Nat
         /\ m <= MarkFileNumberUsed(m, n) /\ n < MarkFileNumberUsed(m, n)
<1> DEFINE T == {m, n + 1}
<1>1. T \subseteq Nat /\ T # {} /\ \A x \in T : x <= m + (n + 1) OBVIOUS
<1>2. Max(T) \in T /\ \A y \in T : y <= Max(T)
  <2>1. m + (n + 1) \in Nat OBVIOUS
  <2> HIDE DEF T
  <2> QED BY <1>1, <2>1, GreatestNatural
<1>3. MarkFileNumberUsed(m, n) = Max(T)
  BY DEF MarkFileNumberUsed
<1>4. m \in T /\ n + 1 \in T OBVIOUS
<1> HIDE DEF T
<1>5. m <= Max(T) /\ n + 1 <= Max(T) /\ Max(T) \in Nat
  BY <1>1, <1>2, <1>4
<1>6. n < Max(T)
  BY <1>5
<1> QED BY <1>3, <1>5, <1>6

\* Everything in the files is a batch that was written.
LEMMA OnDiskIsBatches ==
  ASSUME StoredInv
  PROVE  /\ OnDisk \subseteq Batches
         /\ \A b \in OnDisk : b[1] \in Nat
         /\ \A ns : TableBatches(tables, ns) \subseteq OnDisk
         /\ \A ns : LogBatches(logs, ns) \subseteq OnDisk
<1>1. LogBatches(logs, DOMAIN logs) \subseteq Batches
  <2>1. \A n \in DOMAIN logs : ToSet(logs[n].records) \subseteq Batches
    BY SyncedPartIsIn DEF StoredInv, DiskTypes
  <2> QED BY <2>1 DEF LogBatches
<1>2. TableBatches(tables, DOMAIN tables) \subseteq Batches
  BY DEF TableBatches, StoredInv, DiskTypes
<1>3. OnDisk \subseteq Batches
  BY <1>1, <1>2 DEF OnDisk, Disk
<1>4. \A b \in Batches : b[1] \in Nat
  BY RecoveryAssumption DEF Batches
<1>5. \A ns : TableBatches(tables, ns) \subseteq OnDisk
  BY TableFacts DEF OnDisk, Disk
<1>6. \A ns : LogBatches(logs, ns) \subseteq OnDisk
  BY LogFacts DEF OnDisk, Disk
<1> QED BY <1>3, <1>4, <1>5, <1>6

\* Tables with new numbers, and copies of what is on the disk already.
LEMMA NewTables ==
  ASSUME DbInv, phase \in {"replay", "up"}, UNCHANGED <<logs, manifests, current, setup, synced, writes, temps>>,
         NEW new, Bounded(new), \A n \in new : nextFile <= n,
         DOMAIN tables' = DOMAIN tables \union new,
         \A m \in DOMAIN tables : m \notin new => tables'[m] = tables[m],
         TableBatches(tables', new) \subseteq OnDisk
  PROVE  /\ StoredInv' /\ Report' = Report /\ Possible' = Possible /\ (Harmless => Harmless')
         /\ Recovered' = Recovered /\ Readable(current)' /\ OnDisk' \subseteq OnDisk
         /\ \A ns : (\A n \in ns : n < nextFile) => TableBatches(tables', ns) = TableBatches(tables, ns)
<1>1. Readable(current) /\ Report.meta.next <= nextFile
  BY DEF DbInv, WorkInv, AgreeInv, Working
<1>2. nextFile \in Nat /\ new \subseteq Nat
  BY DEF DbInv, ProcessTypes, Bounded
<1>3. ASSUME NEW ns, \A n \in ns : n < nextFile
      PROVE  TableBatches(tables', ns) = TableBatches(tables, ns)
  <2>1. \A n \in ns : n \notin new
    <3> SUFFICES ASSUME NEW n \in ns, n \in new PROVE FALSE OBVIOUS
    <3>1. n \in Nat /\ n < nextFile /\ nextFile <= n
      BY <1>2, <1>3
    <3> QED BY <3>1, <1>2
  <2> QED BY <2>1, SameTables
<1>4. OnDisk' \subseteq OnDisk
  <2>1. TableBatches(tables', DOMAIN tables') \subseteq
          TableBatches(tables, DOMAIN tables) \union TableBatches(tables', new)
    BY DEF TableBatches
  <2> QED BY <2>1 DEF OnDisk, Disk
<1>5. DiskTypes'
  <2>1. Bounded(DOMAIN tables')
    BY BoundedFacts DEF DbInv, StoredInv, DiskTypes
  <2>2. OnDisk \subseteq Batches
    BY OnDiskIsBatches DEF DbInv
  <2>3. \A n \in DOMAIN tables' : tables'[n] \subseteq Batches
    <3>1. \A n \in DOMAIN tables' : tables'[n] \subseteq TableBatches(tables', DOMAIN tables')
      BY DEF TableBatches
    <3> QED BY <3>1, <1>4, <2>2 DEF OnDisk, Disk
  <2> QED BY <2>1, <2>3 DEF DiskTypes, DbInv, StoredInv
<1>6. ASSUME NEW r \in Possible, r.meta # Nil
      PROVE  /\ r.files \subseteq DOMAIN tables'
             /\ TableBatches(tables', r.files) = TableBatches(tables, r.files)
             /\ FoundBy(tables', logs', r) = FoundBy(tables, logs, r)
             /\ KeptBy(tables, logs, r) \subseteq KeptBy(tables', logs', r)
  <2>1. Sensible(r)
    BY <1>1, <1>6 DEF DbInv, StoredInv, ManifestInv
  <2>2. r.files \subseteq Nat /\ r.meta \in Metas \union {Nil} /\ Report.meta \in Metas
    BY <1>1, ReadableFacts DEF DbInv, StoredInv
  <2>3. \A n \in r.files : n < nextFile
    BY <2>1, <2>2, <1>1, <1>2, <1>6 DEF Sensible, Metas
  <2>4. TableBatches(tables', r.files) = TableBatches(tables, r.files)
    BY <2>3, <1>3
  <2> QED BY <2>1, <2>4 DEF Sensible, FoundBy, KeptBy
<1>7. setup.crash = "never" => \A n \in DOMAIN logs' : logs'[n].end = "whole"
  BY DEF DbInv, StoredInv, DiskInv
<1>8. /\ StoredInv' /\ Report' = Report /\ Possible' = Possible /\ (Harmless => Harmless')
      /\ Recovered' = Recovered /\ Readable(current)'
  BY <1>1, <1>4, <1>5, <1>6, <1>7, OtherFiles DEF DbInv
<1> QED BY <1>3, <1>4, <1>8

\* RecoverLogFile turns the oldest log into tables, or goes on with it.
LEMMA ReplayLogStep ==
  ASSUME DbInv, ReplayLog, \A s \in Setups : Sound(s)
  PROVE  DbInv' /\ Recovered' = Recovered
<1> DEFINE n == Min(toReplay)
           found == logs[n].records
           reuse == setup.reuse /\ toReplay = {n} /\ Len(found) <= setup.buffer
           parts == IF reuse THEN << >> ELSE MemTables(found)
           k == Len(parts)
           new == nextFile..nextFile + k - 1
<1>0. /\ phase = "replay" /\ toReplay # {}
      /\ toReplay' = toReplay \ {n}
      /\ tables' = [m \in DOMAIN tables \union new |->
                      IF m \in new THEN parts[m - nextFile + 1] ELSE tables[m]]
      /\ edit' = [edit EXCEPT !.added = @ \union new]
      /\ save' = (save \/ parts # << >>)
      /\ nextFile' = MarkFileNumberUsed(nextFile + k, n)
      /\ last' = HighestOf(last, ToSet(found))
      /\ IF reuse THEN logFile' = n /\ mem' = ToSet(found) ELSE UNCHANGED <<logFile, mem>>
      /\ UNCHANGED <<logs, manifests, current, temps, phase, version, logNumber, manifestFile,
                     descriptor, imm, setup, writes, opens, merges, faults, stage, pinned, pending,
                     merge, writing, error, acked, synced>>
  BY DEF ReplayLog, counts
<1>1. /\ n \in toReplay /\ \A m \in toReplay : n <= m
      /\ toReplay \subseteq Nat
  <2>1. toReplay \subseteq Nat
    BY DEF DbInv, ProcessTypes
  <2> QED BY <2>1, <1>0, MinIs
<1>2. /\ logFile = 0 /\ mem = {} /\ stage = "idle" /\ edit.meta = Nil
      /\ toReplay \subseteq From(logs, logNumber)
      /\ \A i \in From(logs, logNumber) \ toReplay : i < nextFile /\ \A m \in toReplay : i < m
      /\ TableBatches(tables, edit.added) = LogBatches(logs, Older \ toReplay)
      /\ Upto(LogBatches(logs, From(logs, logNumber) \ toReplay), last)
  BY <1>0 DEF DbInv, OpeningInv, ReplayInv
<1>3. /\ imm = {} /\ pinned = {} /\ pending = {} /\ merge = Nil /\ writing = Nil /\ error = FALSE
      /\ edit.deleted = {} /\ (save = FALSE => edit.added = {} /\ descriptor)
      /\ (descriptor => setup.reuse)
  BY <1>0 DEF DbInv, OpeningInv, OpenInv
<1>4. /\ n \in DOMAIN logs /\ n >= logNumber /\ n \in Nat \ {0}
      /\ IsFile(logs[n], Batches) /\ found \in Seq(Batches)
      /\ nextFile \in Nat \ {0} /\ logNumber \in Nat
  BY <1>1, <1>2 DEF From, DbInv, StoredInv, DiskTypes, Bounded, IsFile, ProcessTypes
<1>5. reuse => setup.reuse /\ setup.crash = "never" /\ toReplay = {n}
  BY SetupFacts DEF DbInv
<1>6. /\ k \in Nat /\ DOMAIN parts = 1..k
      /\ UNION {parts[i] : i \in DOMAIN parts} = (IF reuse THEN {} ELSE ToSet(found))
      /\ (parts = << >> <=> k = 0)
  <2>1. CASE reuse
    BY <2>1
  <2>2. CASE ~reuse
    <3>1. setup.buffer \in Nat BY SetupFacts DEF DbInv
    <3>2. parts = MemTables(found) BY <2>2
    <3> HIDE DEF found, reuse, parts
    <3> QED BY <2>2, <3>1, <3>2, <1>4, MemTablesFacts
  <2> QED BY <2>1, <2>2
<1> DEFINE U == IF reuse THEN {} ELSE ToSet(found)
<1> HIDE DEF n, reuse, parts, k, found
<1>7. /\ DOMAIN tables' = DOMAIN tables \union new
      /\ \A m \in DOMAIN tables : m \notin new => tables'[m] = tables[m]
      /\ TableBatches(tables', new) = U
  <2>1. /\ DOMAIN tables' = DOMAIN tables \union new
        /\ \A m \in DOMAIN tables : m \notin new => tables'[m] = tables[m]
        /\ \A m \in new : tables'[m] = parts[m - nextFile + 1]
    BY <1>0
  <2>2. \A m \in new : m - nextFile + 1 \in 1..k
    BY <1>4, <1>6
  <2>3. \A i \in 1 .. k : nextFile + i - 1 \in new /\ tables'[nextFile + i - 1] = parts[i]
    <3> SUFFICES ASSUME NEW i \in 1..k
                 PROVE  nextFile + i - 1 \in new /\ tables'[nextFile + i - 1] = parts[i]
      OBVIOUS
    <3>1. nextFile + i - 1 \in new BY <1>4, <1>6
    <3>2. (nextFile + i - 1) - nextFile + 1 = i BY <1>4, <1>6
    <3> QED BY <3>1, <3>2, <2>1
  <2>4. TableBatches(tables', new) = UNION {tables'[m] : m \in new}
    BY <2>1 DEF TableBatches
  <2> HIDE DEF new
  <2>5. UNION {tables'[m] : m \in new} = UNION {parts[i] : i \in 1..k}
    BY <2>1, <2>2, <2>3
  <2> QED BY <2>1, <2>4, <2>5, <1>6
<1>8. U \subseteq ToSet(found) /\ ToSet(found) \subseteq OnDisk
      /\ ToSet(found) = LogBatches(logs, {n})
  <2>1. ToSet(found) = LogBatches(logs, {n})
    BY <1>4, LogFacts DEF found
  <2>2. LogBatches(logs, {n}) \subseteq OnDisk
    BY LogFacts DEF OnDisk, Disk
  <2> QED BY <2>1, <2>2
<1>9. Bounded(new) /\ \A m \in new : nextFile <= m
  <2>1. \A m \in new : m <= nextFile + k
    BY <1>4, <1>6
  <2>2. nextFile + k \in Nat /\ new \subseteq Nat \ {0} /\ \A m \in new : nextFile <= m
    BY <1>4, <1>6
  <2> QED BY <2>1, <2>2 DEF Bounded
<1>10. /\ StoredInv' /\ Report' = Report /\ Possible' = Possible /\ (Harmless => Harmless')
       /\ Recovered' = Recovered /\ Readable(current)' /\ OnDisk' \subseteq OnDisk
       /\ \A ns : (\A i \in ns : i < nextFile) => TableBatches(tables', ns) = TableBatches(tables, ns)
  <2>1. TableBatches(tables', new) \subseteq OnDisk
    BY <1>7, <1>8
  <2> HIDE DEF new
  <2> QED BY <1>0, <1>7, <1>9, <2>1, NewTables
<1>11. /\ nextFile' \in Nat \ {0} /\ nextFile + k <= nextFile' /\ n < nextFile' /\ nextFile <= nextFile'
  <2>1. nextFile + k \in Nat
    BY <1>4, <1>6
  <2>2. nextFile' \in Nat /\ nextFile + k <= nextFile' /\ n < nextFile'
    BY <2>1, <1>0, <1>4, MarkFileNumberUsedFacts
  <2> QED BY <2>2, <1>4, <1>6
<1>12. /\ last' \in 0 .. MaxWrites /\ last <= last' /\ last' <= writes
       /\ Upto(ToSet(found), last')
  <2>1. \A b \in ToSet(found) : b[1] \in Nat /\ b[1] <= writes
    <3>1. ToSet(found) \subseteq Batches BY <1>4, SyncedPartIsIn DEF found
    <3> QED BY <1>8, <3>1, RecoveryAssumption DEF DbInv, StoredInv, BatchNumbers, Upto, Batches
  <2>2. writes \in 0 .. MaxWrites /\ last \in 0 .. MaxWrites /\ last <= writes
    BY DEF DbInv, CountTypes, ProcessTypes, WriteNumbers
  <2>3. writes \in Nat /\ last \in Nat /\ MaxWrites \in Nat
    BY <2>2, RecoveryAssumption
  <2>4. last' \in Nat /\ last <= last' /\ last' <= writes /\ Upto(ToSet(found), last')
    BY <1>0, <2>1, <2>2, <2>3, HighestOfFacts
  <2> QED BY <2>2, <2>3, <2>4
<1>13. edit'.added = edit.added \union new /\ edit'.deleted = {} /\ edit'.meta = Nil /\ edit' \in Edits
  <2>1. edit \in Edits /\ new \subseteq Nat \ {0}
    BY <1>9 DEF DbInv, ProcessTypes, Bounded
  <2> QED BY <2>1, <1>0, <1>2, <1>3 DEF Edits
<1>14. CountTypes'
  BY <1>0 DEF DbInv, CountTypes
<1>15. ProcessTypes'
  <2>1. mem' \subseteq Batches /\ logFile' \in Nat
    <3>1. ToSet(found) \subseteq Batches BY <1>4, SyncedPartIsIn DEF found
    <3> QED BY <3>1, <1>0, <1>4 DEF DbInv, ProcessTypes
  <2>2. save' \in BOOLEAN
    BY <1>0 DEF DbInv, ProcessTypes
  <2> QED BY <2>1, <2>2, <1>0, <1>11, <1>12, <1>13 DEF DbInv, ProcessTypes
<1>16. WriteNumbers'
  BY <1>0, <1>3, <1>12 DEF DbInv, WriteNumbers
<1>17. BeforeInv' /\ UpInv'
  BY <1>0, NotStarting, NotUp
<1>18. AgreeInv'
  <2>1. /\ manifestFile # 0 /\ manifestFile < nextFile /\ logNumber < nextFile
        /\ Report.meta.next <= nextFile /\ Agrees
    BY <1>0, <1>2 DEF DbInv, WorkInv, AgreeInv, Working, Overtaken, Written
  <2>2. Agrees' /\ ~Overtaken'
    BY <2>1, <1>0, <1>2, <1>10 DEF Agrees, Overtaken, Written
  <2>3. manifestFile \in Nat /\ logNumber \in Nat /\ Report.meta.next \in Nat
    <3>1. Readable(current) BY <1>0 DEF DbInv, WorkInv, AgreeInv, Working
    <3> QED BY <3>1, ReportIsSensible DEF DbInv, ProcessTypes
  <2>4. manifestFile' # 0 /\ manifestFile' < nextFile' /\ logNumber' < nextFile' /\ Report'.meta.next <= nextFile'
    BY <2>1, <2>3, <1>0, <1>4, <1>10, <1>11
  <2> QED BY <2>2, <2>4, <1>10 DEF AgreeInv
<1>19. TablesInv'
  <2>1. /\ version \subseteq DOMAIN tables /\ edit.added \subseteq DOMAIN tables
        /\ edit.added \intersect version = {}
        /\ \A i \in version \union edit.added : i < nextFile
        /\ Upto(TableBatches(tables, version), last)
    BY <1>0 DEF DbInv, WorkInv, TablesInv, Working
  <2>2. version \subseteq Nat /\ edit.added \subseteq Nat
    BY DEF DbInv, ProcessTypes, Edits
  <2>3. \A i \in version : i \notin new
    BY <2>1, <2>2, <1>4, <1>9 DEF Bounded
  <2>4. \A i \in version \union edit'.added : i < nextFile'
    BY <2>1, <2>2, <1>4, <1>6, <1>11, <1>13
  <2>5. TableBatches(tables', version) = TableBatches(tables, version)
    BY <2>1, <1>10
  <2>6. Upto(TableBatches(tables', version), last')
    <3>1. TableBatches(tables, version) \subseteq OnDisk
      BY TableFacts DEF OnDisk, Disk
    <3>2. \A b \in OnDisk : b[1] \in Nat BY OnDiskIsBatches DEF DbInv
    <3> QED BY <3>1, <3>2, <2>1, <2>5, <1>12 DEF Upto, DbInv, ProcessTypes
  <2> HIDE DEF new
  <2> QED BY <2>1, <2>3, <2>4, <2>6, <1>0, <1>7, <1>13 DEF TablesInv
<1>20. LogInv'
  <2>1. CASE reuse
    <3>1. logFile' = n /\ toReplay = {n} /\ setup.crash = "never"
      BY <2>1, <1>0, <1>5
    <3>2. logs[n].end = "whole" BY <3>1, <1>4 DEF DbInv, StoredInv, DiskInv
    <3>3. \A i \in From(logs, logNumber) : i <= n
      <4> SUFFICES ASSUME NEW i \in From(logs, logNumber) PROVE i <= n OBVIOUS
      <4>1. i \in Nat BY DEF From, DbInv, StoredInv, DiskTypes, Bounded
      <4>2. i = n \/ i < n
        BY <3>1, <1>1, <1>2
      <4> QED BY <4>1, <4>2, <1>4
    <3> QED BY <3>1, <3>2, <3>3, <1>0, <1>4, <1>11 DEF LogInv
  <2>2. CASE ~reuse
    BY <2>2, <1>0, <1>2 DEF LogInv
  <2> QED BY <2>1, <2>2
<1>21. DescriptorInv'
  BY <1>0, <1>2, <1>10 DEF DbInv, WorkInv, DescriptorInv, Working, Written
<1>22. OpenInv'
  <2>1. save' = FALSE => save = FALSE /\ new = {}
    <3>1. save' = FALSE => save = FALSE /\ k = 0
      BY <1>0, <1>6 DEF DbInv, ProcessTypes
    <3>2. k = 0 => new = {} BY <1>4
    <3> QED BY <3>1, <3>2
  <2> HIDE DEF new
  <2> QED BY <2>1, <1>0, <1>3, <1>13 DEF OpenInv
<1>23. ReplayInv'
  <2>1. /\ toReplay' = toReplay \ {n} /\ toReplay' \subseteq From(logs, logNumber)
        /\ From(logs, logNumber) \ toReplay' = (From(logs, logNumber) \ toReplay) \union {n}
    BY <1>0, <1>1, <1>2
  <2>2. \A i \in From(logs, logNumber) \ toReplay' : i < nextFile' /\ \A m \in toReplay' : i < m
    <3> SUFFICES ASSUME NEW i \in From(logs, logNumber) \ toReplay'
                 PROVE  i < nextFile' /\ \A m \in toReplay' : i < m
      OBVIOUS
    <3>1. i \in Nat BY DEF From, DbInv, StoredInv, DiskTypes, Bounded
    <3>2. CASE i = n
      BY <3>2, <1>11, <1>1, <1>4, <2>1
    <3>3. CASE i \in From(logs, logNumber) \ toReplay
      BY <3>1, <3>3, <1>2, <1>4, <1>11, <2>1
    <3> QED BY <3>2, <3>3, <2>1
  <2>3. LogBatches(logs, From(logs, logNumber) \ toReplay') =
          LogBatches(logs, From(logs, logNumber) \ toReplay) \union ToSet(found)
    BY <2>1, <1>8, LogFacts
  <2>4. Upto(LogBatches(logs, From(logs, logNumber) \ toReplay'), last')
    <3>1. LogBatches(logs, From(logs, logNumber) \ toReplay) \subseteq OnDisk
      BY LogFacts DEF OnDisk, Disk
    <3>2. \A b \in OnDisk : b[1] \in Nat BY OnDiskIsBatches DEF DbInv
    <3>3. \A b \in LogBatches(logs, From(logs, logNumber) \ toReplay) : b[1] <= last'
      <4> SUFFICES ASSUME NEW b \in LogBatches(logs, From(logs, logNumber) \ toReplay)
                   PROVE  b[1] <= last'
        OBVIOUS
      <4>1. b[1] \in Nat /\ b[1] <= last
        BY <3>1, <3>2, <1>2 DEF Upto
      <4>2. last \in Nat /\ last' \in Nat /\ last <= last'
        BY <1>12 DEF DbInv, ProcessTypes
      <4> QED BY <4>1, <4>2
    <3> QED BY <3>3, <2>3, <1>12 DEF Upto
  <2>5. Older = From(logs, logNumber)
    BY <1>2 DEF Older, From, DbInv, StoredInv, DiskTypes, Bounded
  <2>6. TableBatches(tables', edit'.added) = TableBatches(tables, edit.added) \union U
    <3>1. \A i \in edit.added : i < nextFile
      BY <1>0 DEF DbInv, WorkInv, TablesInv, Working
    <3>2. TableBatches(tables', edit.added) = TableBatches(tables, edit.added)
      BY <3>1, <1>10
    <3>3. TableBatches(tables', edit.added \union new) =
             TableBatches(tables', edit.added) \union TableBatches(tables', new)
      <4> HIDE DEF new
      <4> QED BY TableFacts
    <3> QED BY <3>2, <3>3, <1>7, <1>13
  <2>7. TableBatches(tables', edit'.added) = LogBatches(logs', Older' \ toReplay')
    <3>1. CASE reuse
      <4>1. logFile' = n /\ U = {}
        BY <3>1, <1>0
      <4>2. Older' \ toReplay' = Older \ toReplay
        <5>1. Older' = From(logs, logNumber) \ {n} BY <1>0, <4>1 DEF Older
        <5> QED BY <5>1, <2>1, <2>5, <1>1
      <4> QED BY <4>1, <4>2, <2>6, <1>0, <1>2
    <3>2. CASE ~reuse
      <4>1. logFile' = 0 /\ U = ToSet(found)
        BY <3>2, <1>0, <1>2
      <4>2. Older' = From(logs, logNumber) BY <4>1, <1>0, <1>2, <2>5 DEF Older
      <4> QED BY <4>1, <4>2, <2>3, <2>5, <2>6, <1>0, <1>2
    <3> QED BY <3>1, <3>2
  <2>8. (logFile' # 0 => toReplay' = {} /\ mem' = ToSet(logs'[logFile'].records))
        /\ (logFile' = 0 => mem' = {})
    <3>1. CASE reuse
      <4>1. logFile' = n /\ mem' = ToSet(found) /\ toReplay' = {}
        BY <3>1, <1>0, <1>5
      <4> QED BY <4>1, <1>0, <1>4 DEF found
    <3>2. CASE ~reuse
      BY <3>2, <1>0, <1>2
    <3> QED BY <3>1, <3>2
  <2> QED BY <2>1, <2>2, <2>4, <2>7, <2>8, <1>0, <1>2, <1>13 DEF ReplayInv
<1> QED
  BY <1>10, <1>14, <1>15, <1>16, <1>17, <1>18, <1>19, <1>20, <1>21, <1>22, <1>23 DEF DbInv, WorkInv, OpeningInv

------------------------
(* A new log. *)

\* A log that is new and empty.
LEMMA NewLogStored ==
  ASSUME StoredInv, Readable(current), NEW n \in Nat \ {0}, n \notin DOMAIN logs,
         logs' = Put(logs, n, EmptyFile),
         UNCHANGED <<tables, manifests, current, temps, setup, synced, writes>>
  PROVE  /\ StoredInv' /\ Report' = Report /\ Possible' = Possible /\ (Harmless => Harmless')
         /\ Recovered' = Recovered /\ Readable(current)' /\ OnDisk' = OnDisk
         /\ \A ns : LogBatches(logs', ns) = LogBatches(logs, ns)
         /\ \A l : LogBatches(logs', From(logs', l)) = LogBatches(logs, From(logs, l))
         /\ \A l : From(logs', l) = From(logs, l) \union (IF n >= l THEN {n} ELSE {})
         /\ \A r : FoundBy(tables', logs', r) = FoundBy(tables, logs, r)
         /\ DOMAIN logs' = DOMAIN logs \union {n} /\ logs'[n] = EmptyFile
         /\ \A m \in DOMAIN logs : logs'[m] = logs[m]
<1>1. /\ DOMAIN logs' = DOMAIN logs \union {n}
      /\ \A m \in DOMAIN logs : logs'[m] = logs[m]
      /\ logs'[n] = EmptyFile
      /\ \A ns : LogBatches(logs', ns) = LogBatches(logs, ns)
      /\ \A l : LogBatches(logs', From(logs', l)) = LogBatches(logs, From(logs, l))
      /\ \A l : From(logs', l) = From(logs, l) \union (IF n >= l THEN {n} ELSE {})
      /\ \A tabs, r : FoundBy(tabs, logs', r) = FoundBy(tabs, logs, r)
      /\ \A tabs, r : KeptBy(tabs, logs', r) = KeptBy(tabs, logs, r)
      /\ \A tabs : Disk(tabs, logs') = Disk(tabs, logs)
  BY NewLog
<1>2. OnDisk' = OnDisk
  BY <1>1 DEF OnDisk
<1>3. DiskTypes'
  <2>1. Bounded(DOMAIN logs')
    BY <1>1, BoundedFacts DEF StoredInv, DiskTypes
  <2>2. \A m \in DOMAIN logs' : IsFile(logs'[m], Batches)
    BY <1>1, EmptyFileFacts DEF StoredInv, DiskTypes
  <2> QED BY <2>1, <2>2 DEF StoredInv, DiskTypes
<1>4. setup.crash = "never" => \A m \in DOMAIN logs' : logs'[m].end = "whole"
  BY <1>1, EmptyFileFacts DEF StoredInv, DiskInv
<1>5. ASSUME NEW r \in Possible, r.meta # Nil
      PROVE  /\ r.files \subseteq DOMAIN tables'
             /\ TableBatches(tables', r.files) = TableBatches(tables, r.files)
             /\ FoundBy(tables', logs', r) = FoundBy(tables, logs, r)
             /\ KeptBy(tables, logs, r) \subseteq KeptBy(tables', logs', r)
  BY <1>1, <1>5 DEF StoredInv, ManifestInv, Sensible
<1>6. /\ StoredInv' /\ Report' = Report /\ Possible' = Possible /\ (Harmless => Harmless')
      /\ Recovered' = Recovered /\ Readable(current)'
  BY <1>2, <1>3, <1>4, <1>5, OtherFiles
<1> QED BY <1>1, <1>2, <1>6

\* DB::Open begins a log if none is reused, and saves a manifest if one has to be.
LEMMA CreateLogStep ==
  ASSUME DbInv, CreateLog, \A s \in Setups : Sound(s)
  PROVE  DbInv' /\ Recovered' = Recovered
<1>0. /\ phase = "replay" /\ toReplay = {}
      /\ IF logFile # 0 THEN UNCHANGED <<logs, logFile, nextFile>>
         ELSE /\ logFile' = nextFile /\ nextFile' = nextFile + 1
              /\ logs' = Put(logs, nextFile, EmptyFile)
      /\ phase' = IF save THEN "commit" ELSE "up"
      /\ stage' = IF save THEN "append" ELSE "clean"
      /\ edit' = IF save
                 THEN [edit EXCEPT !.meta = [log |-> logFile', next |-> nextFile', last |-> last]]
                 ELSE NoEdit
      /\ UNCHANGED <<manifests, tables, current, temps, save, toReplay, version, logNumber, last,
                     manifestFile, descriptor, mem, imm, setup, writes, opens, merges, faults,
                     pinned, pending, merge, writing, error, acked, synced>>
  BY DEF CreateLog, setVars, counts
<1>1. /\ logFile = 0 => mem = {}
      /\ logFile # 0 => mem = ToSet(logs[logFile].records)
      /\ stage = "idle" /\ edit.meta = Nil
      /\ \A i \in From(logs, logNumber) : i < nextFile
      /\ TableBatches(tables, edit.added) = LogBatches(logs, Older)
      /\ Upto(LogBatches(logs, From(logs, logNumber)), last)
  <2>1. Older \ toReplay = Older /\ From(logs, logNumber) \ toReplay = From(logs, logNumber)
    BY <1>0
  <2> QED BY <2>1, <1>0 DEF DbInv, OpeningInv, ReplayInv
<1>2. /\ imm = {} /\ pinned = {} /\ pending = {} /\ merge = Nil /\ writing = Nil /\ error = FALSE
      /\ edit.deleted = {} /\ (save = FALSE => edit.added = {} /\ descriptor)
      /\ (descriptor => setup.reuse)
  BY <1>0 DEF DbInv, OpeningInv, OpenInv
<1>3. /\ Readable(current) /\ Agrees
      /\ manifestFile # 0 /\ manifestFile < nextFile /\ logNumber < nextFile
      /\ Report.meta.next <= nextFile
      /\ version \subseteq DOMAIN tables /\ edit.added \subseteq DOMAIN tables
      /\ edit.added \intersect version = {}
      /\ \A n \in version \union edit.added : n < nextFile
      /\ Upto(TableBatches(tables, version), last)
  BY <1>0, <1>1 DEF DbInv, WorkInv, AgreeInv, TablesInv, Working, Overtaken, Written
<1>4. /\ nextFile \in Nat \ {0} /\ logNumber \in Nat /\ manifestFile \in Nat /\ last \in 0..MaxWrites
      /\ logFile \in Nat /\ save \in BOOLEAN /\ edit \in Edits /\ descriptor \in BOOLEAN
      /\ version \subseteq Nat /\ DOMAIN logs \subseteq Nat \ {0}
      /\ edit.added \subseteq Nat /\ Report.meta.next \in Nat
  BY <1>3, ReportIsSensible DEF DbInv, ProcessTypes, StoredInv, DiskTypes, Bounded, Edits
<1>5. logFile = 0 => nextFile \notin DOMAIN logs
  <2> SUFFICES ASSUME nextFile \in DOMAIN logs PROVE FALSE OBVIOUS
  <2>1. nextFile \in From(logs, logNumber)
    BY <1>3, <1>4 DEF From
  <2> QED BY <2>1, <1>1, <1>4
<1>6. /\ StoredInv' /\ Report' = Report /\ Possible' = Possible /\ (Harmless => Harmless')
      /\ Recovered' = Recovered /\ Readable(current)' /\ OnDisk' = OnDisk
      /\ \A ns : LogBatches(logs', ns) = LogBatches(logs, ns)
      /\ \A l : LogBatches(logs', From(logs', l)) = LogBatches(logs, From(logs, l))
      /\ \A r : FoundBy(tables', logs', r) = FoundBy(tables, logs, r)
  <2>1. CASE logFile = 0
    BY <2>1, <1>0, <1>3, <1>4, <1>5, NewLogStored DEF DbInv
  <2>2. CASE logFile # 0
    BY <2>2, <1>0, <1>3, SameDisk DEF DbInv
  <2> QED BY <2>1, <2>2
<1>7. /\ logFile' \in DOMAIN logs' /\ logs'[logFile'].end = "whole"
      /\ logNumber <= logFile' /\ logFile' < nextFile' /\ logFile' \in Nat \ {0}
      /\ nextFile' \in Nat \ {0} /\ nextFile <= nextFile'
      /\ \A n \in From(logs', logNumber) : n <= logFile'
      /\ Older' = Older
      /\ mem' = ToSet(logs'[logFile'].records)
  <2>1. CASE logFile = 0
    <3>1. /\ DOMAIN logs' = DOMAIN logs \union {nextFile} /\ logs'[nextFile] = EmptyFile
          /\ From(logs', logNumber) = From(logs, logNumber) \union {nextFile}
      <4>1. /\ DOMAIN logs' = DOMAIN logs \union {nextFile} /\ logs'[nextFile] = EmptyFile
            /\ From(logs', logNumber) = From(logs, logNumber) \union
                 (IF nextFile >= logNumber THEN {nextFile} ELSE {})
        BY <2>1, <1>0, <1>3, <1>4, <1>5, NewLogStored DEF DbInv
      <4> QED BY <4>1, <1>3, <1>4
    <3>2. logFile' = nextFile /\ nextFile' = nextFile + 1
      BY <2>1, <1>0
    <3>3. Older = From(logs, logNumber) BY <2>1, <1>4 DEF Older, From
    <3>4. nextFile \notin From(logs, logNumber) BY <1>5, <2>1 DEF From
    <3>5. Older' = Older BY <3>1, <3>2, <3>3, <3>4, <1>0 DEF Older
    <3>6. mem' = ToSet(logs'[logFile'].records)
      BY <3>1, <3>2, <2>1, <1>0, <1>1, EmptyFileFacts DEF ToSet
    <3>7. \A n \in From(logs', logNumber) : n <= logFile'
      <4>1. \A n \in From(logs, logNumber) : n \in Nat BY <1>4 DEF From
      <4> QED BY <4>1, <3>1, <3>2, <1>1, <1>4
    <3> QED BY <3>1, <3>2, <3>5, <3>6, <3>7, <1>3, <1>4, EmptyFileFacts
  <2>2. CASE logFile # 0
    <3>1. /\ logFile \in DOMAIN logs /\ logs[logFile].end = "whole"
          /\ logNumber <= logFile /\ logFile < nextFile
          /\ \A n \in From(logs, logNumber) : n <= logFile
      BY <2>2, <1>0 DEF DbInv, WorkInv, LogInv, Working
    <3>2. UNCHANGED <<logs, logFile, nextFile, logNumber>> BY <2>2, <1>0
    <3>3. Older' = Older BY <3>2 DEF Older
    <3> QED BY <3>1, <3>2, <3>3, <2>2, <1>0, <1>1, <1>4
  <2> QED BY <2>1, <2>2
<1>8. CountTypes' /\ WriteNumbers'
  BY <1>0, <1>2 DEF DbInv, CountTypes, WriteNumbers
<1>9. edit' \in Edits
  <2>1. CASE save
    <3>1. [log |-> logFile', next |-> nextFile', last |-> last] \in Metas
      BY <1>4, <1>7 DEF Metas
    <3> QED BY <2>1, <3>1, <1>0, <1>4 DEF Edits
  <2>2. CASE ~save
    BY <2>2, <1>0, NoEditFacts
  <2> QED BY <2>1, <2>2
<1>10. ProcessTypes'
  BY <1>0, <1>7, <1>9 DEF DbInv, ProcessTypes
<1>11. BeforeInv'
  BY <1>0, NotStarting
<1>12. AgreeInv'
  <2>1. Agrees' /\ ~Overtaken'
    BY <1>0, <1>3, <1>6 DEF Agrees, Overtaken, Written
  <2>2. manifestFile < nextFile' /\ logNumber < nextFile' /\ Report.meta.next <= nextFile'
    BY <1>3, <1>4, <1>7
  <2> QED BY <2>1, <2>2, <1>0, <1>3, <1>6 DEF AgreeInv
<1>13. edit'.added \subseteq edit.added /\ edit'.deleted = {}
       /\ (save => edit'.added = edit.added /\ edit'.meta = [log |-> logFile', next |-> nextFile', last |-> last])
  BY <1>0, <1>2, <1>4, NoEditFacts DEF Edits
<1>14. TablesInv'
  <2>1. \A n \in version \union edit.added : n < nextFile'
    BY <1>3, <1>4, <1>7
  <2> QED BY <2>1, <1>0, <1>3, <1>13 DEF TablesInv
<1>15. LogInv'
  BY <1>0, <1>7 DEF LogInv
<1>16. DescriptorInv'
  <2>1. /\ descriptor => manifestFile = current /\ manifests[current].end = "whole"
        /\ ~descriptor => manifestFile # current \/ Harmless
    BY <1>0 DEF DbInv, WorkInv, DescriptorInv, Working
  <2>2. ~descriptor => save
    BY <1>2, <1>4
  <2> QED BY <2>1, <2>2, <1>0, <1>6 DEF DescriptorInv, Written
<1>17. CASE save
  <2>1. UpInv'
    BY <1>17, <1>0, NotUp
  <2>2. OpenInv'
    BY <1>17, <1>0, <1>2, <1>13 DEF OpenInv
  <2>3. EditReady'
    <3>1. edit'.meta # Nil /\ edit'.meta.log = logFile' /\ edit'.meta.next = nextFile' /\ edit'.meta.last = last
      <4>1. [log |-> logFile', next |-> nextFile', last |-> last] \in Metas
        BY <1>4, <1>7 DEF Metas
      <4> QED BY <4>1, <1>13, <1>17, NilIsNoMeta
    <3>2. manifestFile < nextFile' /\ Report.meta.next <= nextFile' /\ last <= last /\ nextFile' <= nextFile'
          /\ \A n \in version \union edit.added : n < nextFile'
      BY <1>3, <1>4, <1>7
    <3>3. Upto(TableBatches(tables, version \union edit.added), last)
      <4>1. LogBatches(logs, Older) \subseteq LogBatches(logs, From(logs, logNumber))
        BY LogFacts DEF Older
      <4>2. TableBatches(tables, version \union edit.added) =
              TableBatches(tables, version) \union TableBatches(tables, edit.added)
        BY TableFacts
      <4> QED BY <4>1, <4>2, <1>1, <1>3 DEF Upto
    <3> QED BY <3>1, <3>2, <3>3, <1>0, <1>6, <1>7, <1>13, <1>17 DEF EditReady
  <2>4. ReplayInv'
    <3>1. LogBatches(logs', Older') = TableBatches(tables', edit'.added)
      BY <1>0, <1>1, <1>6, <1>7, <1>13, <1>17
    <3>2. \A i \in From(logs', logNumber') : i < nextFile'
      <4>1. \A i \in From(logs', logNumber) : i \in Nat
        BY <1>6 DEF From, StoredInv, DiskTypes, Bounded
      <4> QED BY <4>1, <1>0, <1>7
    <3>3. Upto(LogBatches(logs', From(logs', logNumber')), last')
      BY <1>0, <1>1, <1>6
    <3>4. Older' \ toReplay' = Older' /\ From(logs', logNumber') \ toReplay' = From(logs', logNumber')
          /\ toReplay' = {}
      BY <1>0
    <3>5. mem' = ToSet(logs'[logFile'].records) /\ logFile' # 0 /\ edit'.meta.log = logFile'
      BY <1>7, <1>13, <1>17
    <3> QED BY <2>3, <3>1, <3>2, <3>3, <3>4, <3>5, <1>0, <1>17 DEF ReplayInv
  <2> QED
    BY <2>1, <2>2, <2>4, <1>6, <1>8, <1>10, <1>11, <1>12, <1>14, <1>15, <1>16 DEF DbInv, WorkInv, OpeningInv
<1>18. CASE ~save
  <2>1. /\ phase' = "up" /\ stage' = "clean" /\ edit' = NoEdit /\ edit.added = {}
        /\ descriptor /\ setup.crash = "never"
    <3>1. save = FALSE BY <1>4, <1>18
    <3>2. edit.added = {} /\ descriptor /\ setup.reuse
      BY <3>1, <1>2
    <3> QED BY <3>1, <3>2, <1>0, SetupFacts DEF DbInv
  <2>2. OpeningInv'
    BY <2>1, NotOpening
  <2>3. UpLogs'
    <3>1. imm' = LogBatches(logs', Older')
      BY <2>1, <1>0, <1>1, <1>2, <1>6, <1>7, TableFacts
    <3>2. W' = {} BY <1>0, <1>2 DEF W
    <3> QED BY <3>1, <3>2, <2>1, <1>0, <1>7 DEF UpLogs
  <2>4. UpLast'
    <3>1. Upto(mem', last)
      <4>1. CASE logFile = 0
        BY <4>1, <1>0, <1>1 DEF Upto
      <4>2. CASE logFile # 0
        <5>1. logFile \in From(logs, logNumber) /\ logFile \in DOMAIN logs
          BY <4>2, <1>0, <1>4 DEF DbInv, WorkInv, LogInv, Working, From
        <5>2. ToSet(logs[logFile].records) \subseteq LogBatches(logs, From(logs, logNumber))
          BY <5>1 DEF LogBatches
        <5> QED BY <5>2, <4>2, <1>0, <1>1 DEF Upto
      <4> QED BY <4>1, <4>2
    <3>2. Upto(TableBatches(tables', pinned' \union pending'), last')
      <4>1. pinned' \union pending' = {} BY <1>0, <1>2
      <4> QED BY <4>1, TableFacts DEF Upto
    <3> QED BY <3>1, <3>2, <2>1, <1>0, <1>2 DEF UpLast, Upto
  <2>5. UpTables' /\ UpMerge'
    BY <1>0, <1>2 DEF UpTables, UpMerge
  <2>6. UpManifest'
    <3>1. Possible = {Report} /\ Report.meta # Nil
      BY <2>1, <1>3, ReadableFacts, ReportIsSensible DEF DbInv, StoredInv
    <3>2. Report.meta.log = logNumber /\ Report.files = version
      BY <1>3 DEF Agrees
    <3>3. mem' \union imm' \union TableBatches(tables', version') \subseteq FoundBy(tables', logs', Report')
      <4>1. logFile' \in From(logs', logNumber) BY <1>4, <1>7 DEF From
      <4>2. mem' \subseteq LogBatches(logs', From(logs', logNumber))
        BY <4>1, <1>7 DEF LogBatches
      <4> QED BY <4>2, <3>2, <1>0, <1>2, <1>6 DEF FoundBy
    <3> QED BY <3>1, <3>2, <3>3, <2>1, <1>0, <1>6, <1>7 DEF UpManifest
  <2>7. UpEdit'
    BY <2>1 DEF UpEdit, IdleEdit, BuildingEdit, FlushEdit, MergeEdit
  <2> QED
    BY <2>2, <2>3, <2>4, <2>5, <2>6, <2>7, <1>6, <1>8, <1>10, <1>11, <1>12, <1>14, <1>15, <1>16
       DEF DbInv, WorkInv, UpInv
<1> QED BY <1>17, <1>18

------------------------
(* NewDB, and an open that fails. *)

\* A manifest of one edit says all or, cut off, nothing.
LEMMA ReportsOfOne ==
  ASSUME NEW f, IsFile(f, Edits), NEW e \in Edits, f.records = <<e>>, NEW c, NEW r \in Reports(f, c)
  PROVE  r = Said(f.records) \/ (c # "never" /\ r.meta = Nil)
<1>1. PICK k \in MayEnd(f, c) : r = Said(First(f.records, k))
  BY DEF Reports
<1>2. f.records \in Seq(Edits) /\ Len(f.records) = 1
  BY SaidOne
<1>3. k \in 0 .. 1 /\ (k = 1 \/ c # "never")
  BY <1>2 DEF MayEnd
<1>4. CASE k = 1
  <2>1. First(f.records, 1) = f.records
    <3>1. 1 \in 0 .. Len(f.records) /\ 1 = Len(f.records)
      BY <1>2
    <3> QED BY <3>1, <1>2, FirstFacts
  <2> QED BY <1>1, <1>4, <2>1
<1>5. CASE k = 0
  <2>1. First(f.records, 0) = << >>
    BY <1>2 DEF First
  <2> QED BY <2>1, <1>1, <1>3, <1>5, SaidEmpty
<1> QED BY <1>3, <1>4, <1>5

\* Manifests that do not count change.
LEMMA OtherManifests ==
  ASSUME StoredInv, UNCHANGED <<logs, tables, current, setup, synced, writes>>,
         Bounded(temps'),
         current \in DOMAIN manifests' <=> current \in DOMAIN manifests,
         current \in DOMAIN manifests => manifests'[current] = manifests[current],
         \A n \in DOMAIN manifests' : n # current =>
           /\ n \in Nat \ {0} /\ IsFile(manifests'[n], Edits)
           /\ manifests'[n].end # "buried"
           /\ setup.crash = "never" => manifests'[n].end \in {"whole", "bad"}
  PROVE  /\ StoredInv'
         /\ OnDisk' = OnDisk /\ Harmless' = Harmless
         /\ Readable(current) => Report' = Report /\ Possible' = Possible
         /\ Recovered' = Recovered /\ Readable(current)' = Readable(current)
<1>1. OnDisk' = OnDisk
  BY DEF OnDisk
<1>2. Harmless' = Harmless /\ Excused' = Excused
  BY <1>1 DEF Harmless, Excused
<1>3. Readable(current)' = Readable(current)
  BY DEF Readable
<1>4. ASSUME Readable(current) PROVE Report' = Report /\ Possible' = Possible
  <2>1. current \in DOMAIN manifests
    BY <1>4 DEF Readable
  <2> QED BY <2>1 DEF Report, Possible
<1>5. Recovered' = Recovered
  <2>1. CASE Readable(current)
    <3>1. manifests'[current'] = manifests[current] BY <2>1 DEF Readable
    <3> QED BY <3>1, <1>3, <2>1 DEF Recovered, Found, BatchesIn, LogsFrom
  <2>2. CASE ~Readable(current)
    BY <2>2, <1>3 DEF Recovered
  <2> QED BY <2>1, <2>2
<1>6. DiskTypes'
  BY DEF DiskTypes, StoredInv
<1>7. BatchNumbers'
  BY <1>1 DEF BatchNumbers, StoredInv
<1>8. ManifestInv'
  <2> SUFFICES ASSUME Readable(current)
               PROVE  /\ \A r \in Possible' : IF r.meta = Nil THEN Excused' ELSE Sensible(r)'
                      /\ synced' \subseteq FoundBy(tables', logs', Report')
    BY <1>3 DEF ManifestInv
  <2>1. \A r : Sensible(r)' = Sensible(r)
    BY <1>1, <1>2, <1>4 DEF Sensible
  <2> QED BY <2>1, <1>2, <1>4 DEF ManifestInv, StoredInv
<1>9. DiskInv'
  <2>1. \A n \in DOMAIN manifests' : manifests'[n].end # "buried"
    BY DEF DiskInv, StoredInv
  <2>2. setup.crash = "never" => \A n \in DOMAIN manifests' : manifests'[n].end \in {"whole", "bad"}
    BY DEF DiskInv, StoredInv
  <2> QED BY <2>1, <2>2, <1>1, <1>2, <1>3 DEF DiskInv, StoredInv
<1> QED BY <1>1, <1>2, <1>3, <1>4, <1>5, <1>6, <1>7, <1>8, <1>9 DEF StoredInv

\* The edit NewDB writes: no tables, and the first numbers.
LEMMA FirstEditFacts ==
  /\ FirstEdit \in Edits /\ FirstEdit.added = {} /\ FirstEdit.deleted = {}
  /\ FirstEdit.meta = [log |-> 0, next |-> 2, last |-> 0] /\ FirstEdit.meta # Nil
<1>1. [log |-> 0, next |-> 2, last |-> 0] \in Metas
  BY RecoveryAssumption DEF Metas
<1>2. FirstEdit = [added |-> {}, deleted |-> {}, meta |-> [log |-> 0, next |-> 2, last |-> 0]]
  BY DEF FirstEdit, NoEdit
<1> QED BY <1>1, <1>2, NilIsNoMeta DEF Edits

\* NewDB writes the first manifest.
LEMMA NewDBStep ==
  ASSUME DbInv, NewDB
  PROVE  DbInv' /\ Recovered' = Recovered
<1>0. /\ phase = "create" /\ stage = "idle" /\ stage' = "temp"
      /\ manifests' = Put(manifests, 1, Appended(EmptyFile, FirstEdit))
      /\ UNCHANGED <<logs, tables, current, temps, phase, save, toReplay, version, logNumber, last,
                     manifestFile, descriptor, mem, imm, logFile, setup, writes, opens, merges, faults,
                     pinned, nextFile, pending, edit, merge, writing, error, acked, synced>>
  BY DEF NewDB, FirstEdit, openVars, setVars, memVars, counts
<1>1. NewProcess /\ current = 0
  BY <1>0 DEF DbInv, BeforeInv, CreateInv
<1> DEFINE f == Appended(EmptyFile, FirstEdit)
<1>2. IsFile(f, Edits) /\ f.records = <<FirstEdit>> /\ f.end = "whole"
  <2>1. IsFile(f, Edits) /\ f.records = Append(<< >>, FirstEdit) /\ f.end = "whole"
    <3>1. /\ IsFile(EmptyFile, Edits) /\ EmptyFile.records = << >> /\ EmptyFile.end = "whole"
          /\ FirstEdit \in Edits
      BY EmptyFileFacts, FirstEditFacts
    <3> QED BY <3>1, AppendedFacts
  <2> QED BY <2>1
<1> HIDE DEF f
<1>3. DOMAIN manifests' = DOMAIN manifests \union {1} /\ manifests'[1] = f
      /\ \A n \in DOMAIN manifests : n # 1 => manifests'[n] = manifests[n]
  BY <1>0 DEF Put, f
<1>4. StoredInv' /\ Recovered' = Recovered
  <2>1. current \notin DOMAIN manifests /\ current \notin DOMAIN manifests'
    BY <1>1, <1>3 DEF DbInv, StoredInv, DiskTypes
  <2>2. \A n \in DOMAIN manifests' :
           /\ n \in Nat \ {0} /\ IsFile(manifests'[n], Edits)
           /\ manifests'[n].end # "buried"
           /\ setup.crash = "never" => manifests'[n].end \in {"whole", "bad"}
    BY <1>2, <1>3 DEF DbInv, StoredInv, DiskTypes, DiskInv
  <2>3. StoredInv /\ Bounded(temps')
    BY <1>0 DEF DbInv, StoredInv, DiskTypes
  <2> QED BY <2>1, <2>2, <2>3, <1>0, OtherManifests
<1>5. CountTypes' /\ ProcessTypes' /\ WriteNumbers'
  BY <1>0 DEF DbInv, CountTypes, ProcessTypes, WriteNumbers
<1>6. NewProcess'
  BY <1>0, <1>1 DEF NewProcess, Blank
<1>7. BeforeInv'
  BY <1>0, <1>1, <1>2, <1>3, <1>6 DEF BeforeInv, StartInv, CreateInv, RepairInv
<1>8. WorkInv' /\ OpeningInv' /\ UpInv'
  BY <1>0, NotWorking
<1> QED BY <1>4, <1>5, <1>7, <1>8 DEF DbInv

\* An Open that finds no manifest it can read fails.
LEMMA OpenFailsStep ==
  ASSUME DbInv, OpenFails
  PROVE  DbInv' /\ (setup.damage \/ Recovered' = Recovered)
<1>0. /\ phase \in {"create", "commit"} /\ phase' = "down"
      /\ manifests' = IF phase = "commit" /\ ~descriptor /\ manifestFile \in DOMAIN manifests
                      THEN Without(manifests, manifestFile) ELSE manifests
      /\ temps' = temps \ {NewCurrent}
      /\ Forget /\ faults' = faults + 1
      /\ UNCHANGED <<logs, tables, current, setup, writes, opens, merges, acked, synced>>
  BY DEF OpenFails, Fault
<1>1. CountTypes'
  BY <1>0 DEF DbInv, CountTypes
<1>2. ProcessTypes' /\ WriteNumbers' /\ BeforeInv' /\ WorkInv' /\ OpeningInv' /\ UpInv'
  BY <1>0, Forgotten DEF DbInv
<1>3. Bounded(temps')
  BY <1>0, BoundedFacts DEF DbInv, StoredInv, DiskTypes
<1>4. CASE manifests' = manifests
  <2>1. StoredInv' /\ Recovered' = Recovered
    BY <1>0, <1>3, <1>4, SameDisk DEF DbInv
  <2> QED BY <2>1, <1>1, <1>2 DEF DbInv
<1>5. CASE /\ phase = "commit" /\ ~descriptor /\ manifestFile \in DOMAIN manifests
           /\ manifests' = Without(manifests, manifestFile)
  <2>1. DOMAIN manifests' = DOMAIN manifests \ {manifestFile}
        /\ \A n \in DOMAIN manifests : n # manifestFile => manifests'[n] = manifests[n]
    BY <1>5, WithoutFacts
  <2>2. Readable(current) /\ (manifestFile # current \/ Harmless)
    BY <1>5 DEF DbInv, WorkInv, AgreeInv, DescriptorInv, Working
  <2>3. \A n \in DOMAIN manifests' :
           /\ n \in Nat \ {0} /\ IsFile(manifests'[n], Edits)
           /\ manifests'[n].end # "buried"
           /\ setup.crash = "never" => manifests'[n].end \in {"whole", "bad"}
    BY <2>1 DEF DbInv, StoredInv, DiskTypes, DiskInv
  <2>4. CASE manifestFile # current
    <3>1. StoredInv' /\ Recovered' = Recovered
      <4>1. StoredInv /\ current \in DOMAIN manifests
        BY <2>2, ReadableFacts DEF DbInv, StoredInv
      <4>2. current \in DOMAIN manifests' /\ manifests'[current] = manifests[current]
        BY <4>1, <2>1, <2>4
      <4> QED BY <4>1, <4>2, <2>3, <1>0, <1>3, OtherManifests
    <3> QED BY <3>1, <1>1, <1>2 DEF DbInv
  <2>5. CASE manifestFile = current
    <3>1. ~Readable(current)' /\ Recovered' = {}
      BY <2>1, <2>5, <1>0 DEF Readable, Recovered
    <3>2. OnDisk' = OnDisk /\ Harmless'
      BY <2>2, <2>5, <1>0 DEF OnDisk, Harmless, Disk
    <3>3. Recovered \subseteq OnDisk /\ synced \subseteq OnDisk
      <4>1. FoundBy(tables, logs, Report) \subseteq OnDisk
        BY FoundIsOnDisk DEF OnDisk, DbInv, StoredInv, DiskTypes
      <4> QED BY <4>1, <2>2, FoundIsFoundBy DEF DbInv, StoredInv, ManifestInv
    <3>4. setup.damage \/ Recovered' = Recovered
      BY <3>1, <3>3, <2>2, <2>5 DEF Harmless
    <3>5. DiskInv'
      <4>1. synced \subseteq Lasting(tables, logs, setup.crash)
        <5>1. CASE setup.crash = "never"
          <6>1. Lasting(tables, logs, "never") = OnDisk
            BY FoundIsOnDisk DEF OnDisk, DbInv, StoredInv, DiskTypes
          <6> QED BY <6>1, <5>1, <3>3
        <5>2. CASE setup.crash # "never"
          BY <5>2, <3>3, <2>2, <2>5 DEF Harmless
        <5> QED BY <5>1, <5>2
      <4>2. Excused' BY <3>2 DEF Excused
      <4>3. current # 0 BY <2>2, ReadableFacts DEF DbInv, StoredInv
      <4>4. \A n \in DOMAIN manifests' : manifests'[n].end # "buried" BY <2>3
      <4>5. setup.crash = "never" => /\ \A n \in DOMAIN manifests' : manifests'[n].end \in {"whole", "bad"}
                                     /\ \A n \in DOMAIN logs : logs[n].end = "whole"
        BY <2>3 DEF DiskInv, DbInv, StoredInv
      <4> QED BY <4>1, <4>2, <4>3, <4>4, <4>5, <1>0 DEF DiskInv
    <3>6. DiskTypes' BY <2>3, <1>0, <1>3 DEF DbInv, StoredInv, DiskTypes
    <3>7. BatchNumbers' BY <3>2, <1>0 DEF DbInv, StoredInv, BatchNumbers
    <3>8. ManifestInv' BY <3>1 DEF ManifestInv
    <3> QED BY <3>4, <3>5, <3>6, <3>7, <3>8, <1>1, <1>2 DEF DbInv, StoredInv
  <2> QED BY <2>4, <2>5
<1> QED BY <1>0, <1>4, <1>5

------------------------
(* LogAndApply. *)

\* The logs that count are the current one and those the edit makes superfluous.
LEMMA LogsThatCount ==
  ASSUME StoredInv, LogInv, Working, logFile # 0, logNumber \in Nat
  PROVE  /\ From(logs, logNumber) = Older \union {logFile}
         /\ From(logs, logFile) = {logFile}
         /\ LogBatches(logs, From(logs, logNumber)) =
              LogBatches(logs, Older) \union LogBatches(logs, {logFile})
         /\ SyncedBatches(logs, From(logs, logNumber)) =
              SyncedBatches(logs, Older) \union SyncedBatches(logs, {logFile})
         /\ SyncedBatches(logs, Older) \subseteq LogBatches(logs, Older)
         /\ LogBatches(logs, {logFile}) = ToSet(logs[logFile].records)
<1>1. /\ logFile \in DOMAIN logs /\ logNumber <= logFile
      /\ \A n \in From(logs, logNumber) : n <= logFile
      /\ DOMAIN logs \subseteq Nat
  BY DEF LogInv, StoredInv, DiskTypes, Bounded
<1>2. From(logs, logNumber) = Older \union {logFile}
  BY <1>1 DEF Older, From
<1>3. From(logs, logFile) = {logFile}
  <2>1. \A n \in From(logs, logFile) : n \in From(logs, logNumber) /\ n \in Nat /\ n >= logFile
    BY <1>1 DEF From
  <2>2. \A n \in From(logs, logFile) : n = logFile
    BY <2>1, <1>1
  <2>3. logFile \in From(logs, logFile)
    BY <1>1 DEF From
  <2> QED BY <2>2, <2>3
<1>4. /\ LogBatches(logs, Older \union {logFile}) =
           LogBatches(logs, Older) \union LogBatches(logs, {logFile})
      /\ LogBatches(logs, {logFile}) = ToSet(logs[logFile].records)
  BY <1>1, LogFacts
<1>5. SyncedBatches(logs, Older \union {logFile}) =
           SyncedBatches(logs, Older) \union SyncedBatches(logs, {logFile})
  BY SyncedLogFacts
<1>6. SyncedBatches(logs, Older) \subseteq LogBatches(logs, Older)
  BY SyncedIsLogged DEF StoredInv, DiskTypes
<1> QED BY <1>2, <1>3, <1>4, <1>5, <1>6

\* An edit on its way leaves what is found as it is.
LEMMA EditKeeps ==
  ASSUME DbInv, phase \in {"commit", "up"}, stage \in {"append", "sync", "temp", "rename"}
  PROVE  /\ EditReady /\ logFile # 0
         /\ After.files = (version \ edit.deleted) \union edit.added /\ After.meta = edit.meta
         /\ edit \in Edits /\ edit.meta.log \in Nat /\ edit.meta.next \in Nat \ {0}
         /\ edit.meta.last \in 0..MaxWrites
         /\ After.files \subseteq DOMAIN tables /\ \A n \in After.files : n < edit.meta.next
         /\ Upto(TableBatches(tables, After.files), edit.meta.last)
         /\ logNumber <= edit.meta.log /\ edit.meta.log <= logFile
         /\ edit.deleted = {} => edit.meta.log = logFile /\ TableBatches(tables, edit.added) = LogBatches(logs, Older)
         /\ edit.deleted # {} => edit.meta.log = logNumber /\ phase = "up"
         /\ FoundBy(tables, logs, After) =
              TableBatches(tables, version) \union LogBatches(logs, From(logs, logNumber))
         /\ TableBatches(tables, version) \union SyncedBatches(logs, From(logs, logNumber))
              \subseteq KeptBy(tables, logs, After)
<1>1. Working /\ logNumber \in Nat /\ edit \in Edits /\ logFile \in Nat
  BY DEF Working, DbInv, ProcessTypes
<1>2. /\ EditReady /\ logFile # 0
      /\ edit.deleted = {} => /\ edit.meta.log = logFile
                              /\ TableBatches(tables, edit.added) = LogBatches(logs, Older)
      /\ edit.deleted # {} => /\ phase = "up" /\ edit.deleted \subseteq version
                              /\ edit.added \subseteq DOMAIN tables
                              /\ edit.meta.log = logNumber
                              /\ TableBatches(tables, edit.added) = TableBatches(tables, edit.deleted)
  <2>1. CASE phase = "commit"
    <3>1. /\ EditReady /\ edit.meta.log = logFile /\ toReplay = {} /\ logFile # 0
          /\ TableBatches(tables, edit.added) = LogBatches(logs, Older \ toReplay)
          /\ edit.deleted = {}
      BY <2>1 DEF DbInv, OpeningInv, ReplayInv, OpenInv
    <3>2. Older \ toReplay = Older BY <3>1
    <3> QED BY <3>1, <3>2
  <2>2. CASE phase = "up"
    <3>1. /\ stage \in {"append", "sync"} /\ logFile # 0 /\ imm = LogBatches(logs, Older) /\ EditReady
      BY <2>2 DEF DbInv, UpInv, UpLogs, UpEdit, IdleEdit, BuildingEdit, FlushEdit, MergeEdit
    <3>2. CASE edit.deleted = {}
      BY <2>2, <3>1, <3>2 DEF DbInv, UpInv, UpEdit, IdleEdit, BuildingEdit, FlushEdit, MergeEdit
    <3>3. CASE edit.deleted # {}
      <4>1. /\ merge # Nil /\ edit.deleted = merge.inputs /\ edit.added = {merge.output}
            /\ tables[merge.output] = TableBatches(tables, merge.inputs)
            /\ edit.meta.log = logNumber
        BY <2>2, <3>1, <3>3 DEF DbInv, UpInv, UpEdit, IdleEdit, BuildingEdit, FlushEdit, MergeEdit
      <4>2. merge.inputs \subseteq version /\ merge.output \in DOMAIN tables
        BY <2>2, <4>1 DEF DbInv, UpInv, UpMerge, UpTables
      <4>3. TableBatches(tables, {merge.output}) = tables[merge.output]
        BY <4>2, TableFacts
      <4> QED BY <2>2, <3>1, <3>3, <4>1, <4>2, <4>3
    <3> QED BY <3>2, <3>3
  <2> QED BY <2>1, <2>2
<1>3. After.files = (version \ edit.deleted) \union edit.added /\ After.meta = edit.meta
  BY DEF After
<1>4. edit.meta \in Metas
  BY <1>1, <1>2 DEF EditReady, Edits
<1>5. /\ version \subseteq DOMAIN tables /\ edit.added \subseteq DOMAIN tables
      /\ logNumber <= logFile
  BY <1>1, <1>2 DEF DbInv, WorkInv, TablesInv, LogInv
<1>6. /\ After.files \subseteq DOMAIN tables /\ \A n \in After.files : n < edit.meta.next
      /\ Upto(TableBatches(tables, After.files), edit.meta.last)
  <2>1. After.files \subseteq version \union edit.added
    BY <1>3
  <2>2. TableBatches(tables, After.files) \subseteq TableBatches(tables, version \union edit.added)
    BY <2>1, TableFacts
  <2> QED BY <2>1, <2>2, <1>2, <1>5 DEF EditReady, Upto
<1>7. /\ From(logs, logNumber) = Older \union {logFile}
      /\ From(logs, logFile) = {logFile}
      /\ LogBatches(logs, From(logs, logNumber)) =
           LogBatches(logs, Older) \union LogBatches(logs, {logFile})
      /\ SyncedBatches(logs, From(logs, logNumber)) =
           SyncedBatches(logs, Older) \union SyncedBatches(logs, {logFile})
      /\ SyncedBatches(logs, Older) \subseteq LogBatches(logs, Older)
  BY <1>1, <1>2, LogsThatCount DEF DbInv, WorkInv
<1>8. /\ FoundBy(tables, logs, After) = TableBatches(tables, After.files) \union LogBatches(logs, From(logs, edit.meta.log))
      /\ KeptBy(tables, logs, After) = TableBatches(tables, After.files) \union SyncedBatches(logs, From(logs, edit.meta.log))
  BY <1>3 DEF FoundBy, KeptBy
<1>9. CASE edit.deleted = {}
  <2>1. After.files = version \union edit.added
    BY <1>3, <1>9
  <2>2. TableBatches(tables, After.files) = TableBatches(tables, version) \union LogBatches(logs, Older)
    BY <2>1, <1>2, <1>9, TableFacts
  <2>3. FoundBy(tables, logs, After) =
              TableBatches(tables, version) \union LogBatches(logs, From(logs, logNumber))
    BY <2>2, <1>2, <1>7, <1>8, <1>9
  <2>4. TableBatches(tables, version) \union SyncedBatches(logs, From(logs, logNumber))
              \subseteq KeptBy(tables, logs, After)
    BY <2>2, <1>2, <1>7, <1>8, <1>9
  <2>5. logNumber <= edit.meta.log /\ edit.meta.log <= logFile
    BY <1>1, <1>2, <1>5, <1>9
  <2> QED BY <2>3, <2>4, <2>5, <1>1, <1>2, <1>3, <1>4, <1>6, <1>9 DEF Metas
<1>10. CASE edit.deleted # {}
  <2>1. version = (version \ edit.deleted) \union edit.deleted
    BY <1>2, <1>10
  <2>2. TableBatches(tables, (version \ edit.deleted) \union edit.deleted) =
          TableBatches(tables, version \ edit.deleted) \union TableBatches(tables, edit.deleted)
    BY TableFacts
  <2>3. TableBatches(tables, (version \ edit.deleted) \union edit.added) =
          TableBatches(tables, version \ edit.deleted) \union TableBatches(tables, edit.added)
    BY TableFacts
  <2>4. TableBatches(tables, After.files) = TableBatches(tables, version)
    BY <2>1, <2>2, <2>3, <1>2, <1>3, <1>10
  <2>5. logNumber <= edit.meta.log /\ edit.meta.log <= logFile
    BY <1>1, <1>2, <1>5, <1>10
  <2> QED BY <2>4, <2>5, <1>1, <1>2, <1>3, <1>4, <1>6, <1>8, <1>10 DEF Metas
<1> QED BY <1>9, <1>10

\* What the next open finds by the manifest is what the process knows of.
LEMMA FoundAgrees ==
  ASSUME DbInv, phase \in {"commit", "up"}, stage \in {"append", "sync", "temp", "rename"}
  PROVE  /\ Readable(current)
         /\ FoundBy(tables, logs, After) = FoundBy(tables, logs, Report)
         /\ KeptBy(tables, logs, Report) \subseteq KeptBy(tables, logs, After)
<1>1. Readable(current) /\ (Overtaken => Report = After) /\ (~Overtaken => Agrees)
  BY DEF DbInv, WorkInv, AgreeInv, Working
<1>2. CASE Overtaken
  BY <1>1, <1>2
<1>3. CASE ~Overtaken
  <2>1. /\ FoundBy(tables, logs, Report) = TableBatches(tables, version) \union LogBatches(logs, From(logs, logNumber))
        /\ KeptBy(tables, logs, Report) = TableBatches(tables, version) \union SyncedBatches(logs, From(logs, logNumber))
    BY <1>1, <1>3 DEF Agrees, FoundBy, KeptBy
  <2> QED BY <2>1, <1>1, EditKeeps
<1> QED BY <1>2, <1>3

\* CURRENT's manifest becomes f.
LEMMA NewReport ==
  ASSUME StoredInv, Readable(current), UNCHANGED <<logs, tables, setup, synced, writes>>,
         Bounded(temps'),
         DOMAIN manifests' \subseteq Nat \ {0},
         NEW f, IsFile(f, Edits), f.end = "whole",
         current' \in DOMAIN manifests', manifests'[current'] = f,
         \A n \in DOMAIN manifests' : n # current' =>
           /\ IsFile(manifests'[n], Edits) /\ manifests'[n].end # "buried"
           /\ setup.crash = "never" => manifests'[n].end \in {"whole", "bad"},
         NEW after, Said(f.records) = after, after.meta \in Metas,
         \A r \in Reports(f, setup.crash) :
           r = after \/ (current' = current /\ r \in Possible) \/ (r.meta = Nil /\ Excused),
         after.files \subseteq DOMAIN tables,
         after.meta.log < after.meta.next, \A n \in after.files : n < after.meta.next,
         Upto(TableBatches(tables, after.files), after.meta.last), after.meta.last <= writes,
         current' <= after.meta.next, current' = after.meta.next => Harmless,
         Report.meta.next <= after.meta.next,
         FoundBy(tables, logs, after) = FoundBy(tables, logs, Report),
         KeptBy(tables, logs, Report) \subseteq KeptBy(tables, logs, after)
  PROVE  /\ StoredInv' /\ Readable(current)' /\ Recovered' = Recovered
         /\ Report' = after /\ Possible' = Reports(f, setup.crash)
         /\ OnDisk' = OnDisk /\ Harmless' = Harmless
<1>1. OnDisk' = OnDisk
  BY DEF OnDisk
<1>2. Harmless' = Harmless /\ Excused' = Excused
  BY <1>1 DEF Harmless, Excused
<1>3. Report' = after /\ Possible' = Reports(f, setup.crash)
  BY DEF Report, Possible
<1>4. after.meta # Nil
  BY NilIsNoMeta
<1>5. Readable(current)'
  <2>1. MetaOf(f.records) = after.meta
    BY DEF Said
  <2> QED BY <2>1, <1>4 DEF Readable
<1>6. DiskTypes'
  <2>1. current' \in Nat OBVIOUS
  <2> QED BY <2>1 DEF DiskTypes, StoredInv
<1>7. BatchNumbers'
  BY <1>1 DEF BatchNumbers, StoredInv
<1>8. /\ Sensible(Report) /\ Report.meta.next \in Nat
      /\ Recovered = FoundBy(tables, logs, Report)
  BY ReportIsSensible, FoundIsFoundBy
<1>9. Recovered' = Recovered
  <2>1. (Recovered = IF Readable(current) THEN FoundBy(tables, logs, Report) ELSE {})'
    BY FoundIsFoundBy, PTL
  <2> QED BY <2>1, <1>3, <1>5, <1>8
<1>10. setup.crash # "never" => synced \subseteq KeptBy(tables, logs, after)
  BY <1>8 DEF Sensible
<1>11. ManifestInv'
  <2>1. Sensible(after)'
    <3>1. after.meta.next <= after.meta.next BY DEF Metas
    <3> QED BY <3>1, <1>2, <1>3, <1>10 DEF Sensible
  <2>2. ASSUME NEW r \in Possible, r.meta # Nil, current' = current PROVE Sensible(r)'
    <3>1. Sensible(r) BY <2>2 DEF ManifestInv, StoredInv
    <3>2. r.meta.next \in Nat BY <2>2, ReadableFacts DEF StoredInv, Metas
    <3>3. r.meta.next <= after.meta.next BY <3>1, <3>2, <1>8 DEF Sensible, Metas
    <3> QED BY <3>1, <3>3, <2>2, <1>2, <1>3 DEF Sensible
  <2>3. \A r \in Possible : r.meta = Nil => Excused
    BY DEF ManifestInv, StoredInv
  <2>4. ASSUME NEW r \in Possible' PROVE IF r.meta = Nil THEN Excused' ELSE Sensible(r)'
    <3>1. r = after \/ (current' = current /\ r \in Possible) \/ (r.meta = Nil /\ Excused)
      BY <1>3
    <3> QED BY <3>1, <2>1, <2>2, <2>3, <1>2, <1>4
  <2>5. synced' \subseteq FoundBy(tables', logs', Report')
    BY <1>3 DEF ManifestInv, StoredInv
  <2> QED BY <2>4, <2>5 DEF ManifestInv
<1>12. DiskInv'
  <2>1. \A n \in DOMAIN manifests' : manifests'[n].end # "buried" OBVIOUS
  <2>2. setup.crash = "never" => /\ \A n \in DOMAIN manifests' : manifests'[n].end \in {"whole", "bad"}
                                 /\ \A n \in DOMAIN logs : logs[n].end = "whole"
    BY DEF DiskInv, StoredInv
  <2>3. current' # 0 OBVIOUS
  <2> QED BY <2>1, <2>2, <2>3, <1>5 DEF DiskInv
<1> QED BY <1>1, <1>2, <1>3, <1>5, <1>6, <1>7, <1>9, <1>11, <1>12 DEF StoredInv

\* One element and one more.
LEMMA AppendOne ==
  ASSUME NEW S, NEW a \in S, NEW b \in S
  PROVE  Append(<<a>>, b) = <<a, b>>
<1>1. <<a>> \in Seq(S) /\ Len(<<a>>) = 1 /\ <<a>>[1] = a OBVIOUS
<1>2. <<a, b>> \in Seq(S) /\ Len(<<a, b>>) = 2 /\ <<a, b>>[1] = a /\ <<a, b>>[2] = b
  OBVIOUS
<1>3. /\ Append(<<a>>, b) \in Seq(S)
      /\ Len(Append(<<a>>, b)) = Len(<<a>>) + 1
      /\ Append(<<a>>, b)[Len(<<a>>) + 1] = b
      /\ \A i \in 1..Len(<<a>>) : Append(<<a>>, b)[i] = <<a>>[i]
  BY <1>1, AppendFacts
<1>4. Len(Append(<<a>>, b)) = 2 /\ Append(<<a>>, b)[1] = a /\ Append(<<a>>, b)[2] = b
  BY <1>1, <1>3
<1> DEFINE s == Append(<<a>>, b)
           t == <<a, b>>
<1>5. /\ s \in Seq(S) /\ t \in Seq(S) /\ Len(s) = 2 /\ Len(t) = 2
      /\ s[1] = t[1] /\ s[2] = t[2]
  BY <1>2, <1>3, <1>4
<1> HIDE DEF s, t
<1>6. \A i \in 1..Len(s) : s[i] = t[i]
  <2>1. \A i \in 1 .. Len(s) : i = 1 \/ i = 2
    BY <1>5
  <2> QED BY <1>5, <2>1
<1>7. s = t
  BY <1>5, <1>6, SeqEqual
<1> QED BY <1>7 DEF s, t

\* What a manifest of a snapshot and an edit says.
LEMMA ReportsOfTwo ==
  ASSUME NEW f, IsFile(f, Edits), NEW a \in Edits, NEW b \in Edits, f.records = <<a, b>>,
         a.meta = Nil, b.meta # Nil, NEW c, NEW r \in Reports(f, c)
  PROVE  /\ Said(f.records).files = (a.added \ b.deleted) \union b.added
         /\ Said(f.records).meta = b.meta /\ Len(f.records) = 2
         /\ r = Said(f.records) \/ (c # "never" /\ r.meta = Nil)
<1>1. <<a>> \in Seq(Edits) /\ Said(<<a>>).files = a.added /\ Said(<<a>>).meta = Nil
  BY SaidOne
<1>2. f.records = Append(<<a>>, b) /\ Len(f.records) = 2 /\ f.records \in Seq(Edits)
  BY <1>1 DEF IsFile
<1>3. /\ Said(f.records).files = (a.added \ b.deleted) \union b.added
      /\ Said(f.records).meta = b.meta
  BY <1>1, <1>2, SaidAppend
<1>4. PICK k \in MayEnd(f, c) : r = Said(First(f.records, k))
  BY DEF Reports
<1>5. k \in 0 .. 2 /\ (k = 2 \/ c # "never")
  BY <1>2 DEF MayEnd
<1>6. CASE k = 2
  <2>1. First(f.records, 2) = f.records
    <3>1. 2 \in 0 .. Len(f.records) /\ 2 = Len(f.records)
      BY <1>2
    <3> QED BY <3>1, <1>2, FirstFacts
  <2> QED BY <2>1, <1>2, <1>3, <1>4, <1>6
<1>7. CASE k # 2
  <2>1. k = 0 \/ k = 1
    BY <1>5, <1>7
  <2>2. First(f.records, k) \in Seq(Edits) /\ Len(First(f.records, k)) = k
        /\ \A i \in 1..k : First(f.records, k)[i] = f.records[i]
    <3>1. k \in 0..Len(f.records) BY <1>2, <1>5
    <3> QED BY <3>1, <1>2, FirstFacts
  <2>3. \A i \in DOMAIN First(f.records, k) : First(f.records, k)[i].meta = Nil
    <3>1. f.records[1] = a BY <1>2
    <3> QED BY <3>1, <2>1, <2>2
  <2>4. MetaOf(First(f.records, k)) = Nil
    BY <2>2, <2>3, MetaNotNil
  <2> QED BY <2>4, <1>3, <1>2, <1>4, <1>5, <1>7 DEF Said
<1> QED BY <1>6, <1>7

\* Where an edit is on its way, a database opens or is open.
LEMMA EditStages ==
  ASSUME DbInv, stage \in {"append", "sync"} \/ (stage = "rename" /\ phase # "create")
  PROVE  phase \in {"commit", "up"} /\ Working
BY DEF DbInv, ProcessTypes, BeforeInv, StartInv, CreateInv, RepairInv, OpeningInv, ReplayInv, Working

\* LogAndApply appends the edit, to a new manifest if there is none yet.
LEMMA AppendEditStep ==
  ASSUME DbInv, AppendEdit
  PROVE  DbInv' /\ Recovered' = Recovered
<1> DEFINE snapshot == [NoEdit EXCEPT !.added = version]
           f == IF descriptor THEN Appended(manifests[current], edit)
                ELSE Appended(Appended(EmptyFile, snapshot), edit)
<1>0. /\ stage = "append" /\ stage' = "sync"
      /\ manifests' =
           IF descriptor
           THEN [manifests EXCEPT ![manifestFile] = Appended(@, edit)]
           ELSE Put(manifests, manifestFile, Appended(Appended(EmptyFile, snapshot), edit))
      /\ UNCHANGED <<logs, tables, current, temps, phase, save, toReplay, version, logNumber, last,
                     manifestFile, descriptor, mem, imm, logFile, setup, writes, opens, merges, faults,
                     pinned, nextFile, pending, edit, merge, writing, error, acked, synced>>
  BY DEF AppendEdit, openVars, setVars, memVars, counts
<1>1. phase \in {"commit", "up"} /\ Working
  BY <1>0, EditStages
<1>2. /\ EditReady /\ edit \in Edits /\ edit.meta \in Metas /\ edit.meta # Nil
      /\ After.files = (version \ edit.deleted) \union edit.added /\ After.meta = edit.meta
      /\ After.files \subseteq DOMAIN tables /\ \A n \in After.files : n < edit.meta.next
      /\ Upto(TableBatches(tables, After.files), edit.meta.last)
      /\ edit.meta.log <= logFile
  BY <1>0, <1>1, EditKeeps DEF EditReady, Edits
<1>3. /\ Readable(current)
      /\ FoundBy(tables, logs, After) = FoundBy(tables, logs, Report)
      /\ KeptBy(tables, logs, Report) \subseteq KeptBy(tables, logs, After)
  BY <1>0, <1>1, FoundAgrees
<1>4. /\ Agrees /\ manifestFile # 0 /\ manifestFile < nextFile /\ logNumber < nextFile
      /\ Report.meta.next <= nextFile
  BY <1>0, <1>1 DEF DbInv, WorkInv, AgreeInv, Overtaken, Written
<1>5. /\ current \in Nat \ {0} /\ current \in DOMAIN manifests /\ IsFile(manifests[current], Edits)
      /\ manifestFile \in Nat \ {0} /\ nextFile \in Nat
      /\ last \in Nat /\ writes \in Nat /\ last <= writes
      /\ descriptor \in BOOLEAN /\ version \subseteq Nat \ {0} /\ logFile \in Nat
      /\ StoredInv /\ DiskTypes /\ DiskInv /\ Bounded(temps)
  BY <1>3, <1>4, ReportIsSensible DEF DbInv, StoredInv, DiskTypes, ProcessTypes, WriteNumbers, CountTypes
<1>6. /\ descriptor => manifestFile = current /\ manifests[current].end = "whole"
      /\ ~descriptor => phase = "commit" /\ (manifestFile # current \/ Harmless)
  BY <1>1 DEF DbInv, WorkInv, DescriptorInv
<1>7. /\ edit.meta.last <= writes /\ edit.meta.log < edit.meta.next
      /\ manifestFile < edit.meta.next /\ Report.meta.next <= edit.meta.next
      /\ edit.meta.next <= nextFile
  BY <1>2, <1>5 DEF EditReady, Metas
<1>8. ~descriptor => edit.deleted = {}
  BY <1>6 DEF DbInv, OpeningInv, OpenInv
<1>9. snapshot \in Edits /\ snapshot.meta = Nil /\ snapshot.added = version
  BY <1>5, NoEditFacts DEF Edits, NoEdit
<1>10. /\ IsFile(f, Edits) /\ f.end = "whole"
       /\ Said(f.records) = After
       /\ ~descriptor => f.records = <<snapshot, edit>>
       /\ \A r \in Reports(f, setup.crash) :
            r = After \/ (descriptor /\ setup.crash # "never" /\ r \in Possible)
                      \/ (~descriptor /\ setup.crash # "never" /\ r.meta = Nil)
  <2>1. CASE descriptor
    <3>1. f = Appended(manifests[current], edit) /\ manifests[current].records \in Seq(Edits)
      BY <2>1, <1>5 DEF IsFile
    <3> HIDE DEF f, snapshot
    <3>2. IsFile(f, Edits) /\ f.end = "whole" /\ f.records = Append(manifests[current].records, edit)
      <4>1. IsFile(manifests[current], Edits) /\ manifests[current].end = "whole" /\ edit \in Edits
        BY <2>1, <1>2, <1>5, <1>6
      <4>2. IsFile(Appended(manifests[current], edit), Edits) BY <4>1, AppendedFacts
      <4>3. Appended(manifests[current], edit).records = Append(manifests[current].records, edit)
            /\ Appended(manifests[current], edit).end = "whole"
        BY <4>1, AppendedFacts
      <4> QED BY <3>1, <4>2, <4>3
    <3>3. Said(f.records) = After
      <4>1. /\ Said(f.records).files = (Report.files \ edit.deleted) \union edit.added
            /\ Said(f.records).meta = edit.meta
        BY <3>1, <3>2, <1>2, SaidAppend DEF Report
      <4>2. Said(f.records) = [files |-> Said(f.records).files, meta |-> Said(f.records).meta]
        BY DEF Said
      <4> QED BY <4>1, <4>2, <1>4 DEF Agrees, After
    <3>4. \A r \in Reports(f, setup.crash) : r = After \/ (setup.crash # "never" /\ r \in Possible)
      BY <3>1, <3>2, <3>3, <2>1, <1>2, <1>5, <1>6, ReportsAppended DEF Possible
    <3> QED BY <2>1, <3>2, <3>3, <3>4
  <2>2. CASE ~descriptor
    <3> DEFINE g == Appended(EmptyFile, snapshot)
    <3>2. f = Appended(g, edit) BY <2>2
    <3> HIDE DEF f, snapshot
    <3>1. IsFile(g, Edits) /\ g.records = <<snapshot>> /\ g.end = "whole"
      <4>1. IsFile(EmptyFile, Edits) /\ EmptyFile.end = "whole" /\ EmptyFile.records = << >>
        BY EmptyFileFacts
      <4>2. snapshot \in Edits BY <1>9
      <4> QED BY <4>1, <4>2, AppendedFacts
    <3>3. IsFile(f, Edits) /\ f.records = Append(g.records, edit) /\ f.end = "whole"
      <4> HIDE DEF g
      <4>1. edit \in Edits BY <1>2
      <4>2. IsFile(g, Edits) /\ g.end = "whole"
        BY <3>1
      <4>3. IsFile(Appended(g, edit), Edits) BY <4>1, <4>2, AppendedFacts
      <4>4. Appended(g, edit).records = Append(g.records, edit) /\ Appended(g, edit).end = "whole"
        BY <4>1, <4>2, AppendedFacts
      <4> QED BY <3>2, <4>3, <4>4
    <3>4. f.records = <<snapshot, edit>>
      <4>1. Append(<<snapshot>>, edit) = <<snapshot, edit>> BY <1>2, <1>9, AppendOne
      <4>2. f.records = Append(<<snapshot>>, edit) BY <3>1, <3>3, Zenon
      <4> QED BY <4>1, <4>2, Zenon
    <3>5. ASSUME NEW r \in Reports(f, setup.crash)
          PROVE  /\ Said(f.records).files = (version \ edit.deleted) \union edit.added
                 /\ Said(f.records).meta = edit.meta
                 /\ r = Said(f.records) \/ (setup.crash # "never" /\ r.meta = Nil)
      <4>1. IsFile(f, Edits) /\ edit \in Edits /\ edit.meta # Nil /\ snapshot \in Edits
            /\ snapshot.meta = Nil /\ snapshot.added = version
        BY <3>3, <1>2, <1>9
      <4> QED BY <3>4, <4>1, ReportsOfTwo
    <3>6. Said(f.records) \in Reports(f, setup.crash) BY <3>3, ReportIsPossible
    <3>7. Said(f.records) = [files |-> Said(f.records).files, meta |-> Said(f.records).meta]
      BY DEF Said
    <3>8. Said(f.records) = After BY <3>5, <3>6, <3>7, <1>8, <2>2 DEF After
    <3> QED BY <3>3, <3>4, <3>5, <3>8, <2>2
  <2> QED BY <2>1, <2>2
<1> HIDE DEF f, snapshot
<1>11. /\ DOMAIN manifests' = DOMAIN manifests \union {manifestFile} /\ manifests'[manifestFile] = f
       /\ \A n \in DOMAIN manifests : n # manifestFile => manifests'[n] = manifests[n]
  <2>1. CASE descriptor
    BY <2>1, <1>0, <1>5, <1>6 DEF f
  <2>2. CASE ~descriptor
    BY <2>2, <1>0 DEF Put, f
  <2> QED BY <2>1, <2>2
<1>12. /\ DOMAIN manifests' \subseteq Nat \ {0}
       /\ \A n \in DOMAIN manifests' :
            /\ IsFile(manifests'[n], Edits) /\ manifests'[n].end # "buried"
            /\ setup.crash = "never" => manifests'[n].end \in {"whole", "bad"}
  BY <1>5, <1>10, <1>11 DEF DiskTypes, DiskInv
<1>13. ASSUME manifestFile = current
       PROVE  /\ StoredInv' /\ Readable(current)' /\ Recovered' = Recovered /\ Report' = After
              /\ Possible' = Reports(f, setup.crash) /\ OnDisk' = OnDisk /\ Harmless' = Harmless
  <2>1. \A r \in Reports(f, setup.crash) :
           r = After \/ (current' = current /\ r \in Possible) \/ (r.meta = Nil /\ Excused)
    <3>1. ~descriptor /\ setup.crash # "never" => Excused
      BY <1>6, <1>13 DEF Excused
    <3> QED BY <3>1, <1>0, <1>10
  <2>2. current <= edit.meta.next /\ current # edit.meta.next
    BY <1>2, <1>5, <1>7, <1>13 DEF Metas
  <2>3. current' \in DOMAIN manifests' /\ manifests'[current'] = f /\ Bounded(temps')
    BY <1>0, <1>5, <1>11, <1>13
  <2>4. StoredInv' /\ Readable(current)' /\ Recovered' = Recovered /\ Report' = After
        /\ Possible' = Reports(f, setup.crash) /\ OnDisk' = OnDisk /\ Harmless' = Harmless
    <3>1. UNCHANGED <<logs, tables, setup, synced, writes>> /\ StoredInv /\ Readable(current)
      BY <1>0, <1>3, <1>5
    <3>2. IsFile(f, Edits) /\ f.end = "whole" /\ Said(f.records) = After
      BY <1>10
    <3>3. /\ After.files \subseteq DOMAIN tables /\ After.meta \in Metas
          /\ After.meta.log < After.meta.next /\ \A n \in After.files : n < After.meta.next
          /\ Upto(TableBatches(tables, After.files), After.meta.last) /\ After.meta.last <= writes
          /\ current' <= After.meta.next /\ current' # After.meta.next
          /\ Report.meta.next <= After.meta.next
      BY <1>0, <1>2, <1>7, <2>2
    <3> HIDE DEF StoredInv
    <3> QED BY <2>1, <2>3, <3>1, <3>2, <3>3, <1>3, <1>12, NewReport
  <2> QED BY <2>4
<1>14. ASSUME manifestFile # current
       PROVE  /\ StoredInv' /\ Readable(current)' /\ Recovered' = Recovered /\ Report' = Report
              /\ Possible' = Possible /\ OnDisk' = OnDisk /\ Harmless' = Harmless
              /\ ~descriptor
  <2>1. StoredInv' /\ Readable(current)' /\ Recovered' = Recovered /\ Report' = Report
        /\ Possible' = Possible /\ OnDisk' = OnDisk /\ Harmless' = Harmless
    <3>1. /\ current \in DOMAIN manifests' /\ manifests'[current] = manifests[current]
          /\ Bounded(temps') /\ UNCHANGED <<logs, tables, current, setup, synced, writes>>
      BY <1>0, <1>5, <1>11, <1>14
    <3> QED BY <3>1, <1>3, <1>5, <1>12, OtherManifests
  <2>2. ~descriptor
    BY <1>6, <1>14
  <2> QED BY <2>1, <2>2
<1>15. /\ StoredInv' /\ Readable(current)' /\ Recovered' = Recovered
       /\ OnDisk' = OnDisk /\ Harmless' = Harmless
       /\ manifestFile = current => Report' = After
       /\ manifestFile # current => Report' = Report /\ ~descriptor
       /\ Report'.meta.next <= edit.meta.next
       /\ FoundBy(tables, logs, Report') = FoundBy(tables, logs, Report)
       /\ descriptor => \A r \in Possible' : r = After \/ r \in Possible
  <2>1. After.meta.next <= edit.meta.next
    BY <1>2 DEF Metas
  <2>2. CASE manifestFile = current
    BY <2>1, <2>2, <1>3, <1>10, <1>13, <1>0
  <2>3. CASE manifestFile # current
    BY <2>3, <1>7, <1>14
  <2> QED BY <2>2, <2>3
<1>16. CountTypes' /\ ProcessTypes' /\ WriteNumbers'
  BY <1>0 DEF DbInv, CountTypes, ProcessTypes, WriteNumbers
<1>17. BeforeInv'
  BY <1>0, <1>1, NotStarting
<1>18. Written' /\ (Overtaken' <=> manifestFile = current) /\ After' = After
  BY <1>0 DEF Written, Overtaken, After
<1>19. AgreeInv'
  <2>1. edit.meta.next \in Nat /\ Report'.meta.next <= nextFile
    <3>1. Report'.meta.next \in Nat
      BY <1>15, ReportIsSensible, <1>2, <1>3, <1>5 DEF Metas
    <3> QED BY <3>1, <1>2, <1>5, <1>7, <1>15 DEF Metas
  <2>2. ~Overtaken' => Agrees'
    BY <1>0, <1>4, <1>15, <1>18 DEF Agrees
  <2> QED BY <2>1, <2>2, <1>0, <1>4, <1>15, <1>18 DEF AgreeInv
<1>20. TablesInv' /\ LogInv'
  BY <1>0 DEF DbInv, WorkInv, TablesInv, LogInv, Working
<1>21. DescriptorInv'
  <2>1. descriptor => manifests'[current].end = "whole"
    BY <1>6, <1>10, <1>11
  <2>2. ~descriptor => /\ manifestFile \in DOMAIN manifests' /\ manifests'[manifestFile].end = "whole"
                       /\ manifests'[manifestFile].records = <<snapshot, edit>>
    BY <1>10, <1>11
  <2> QED BY <2>1, <2>2, <1>0, <1>6, <1>15 DEF DescriptorInv, snapshot
<1>22. EditReady'
  BY <1>0, <1>2, <1>15 DEF EditReady
<1>23. CASE phase = "commit"
  <2>1. OpeningInv'
    BY <1>0, <1>22, <1>23 DEF DbInv, OpeningInv, OpenInv, ReplayInv, Older
  <2>2. UpInv'
    BY <1>0, <1>23, NotUp
  <2> QED BY <2>1, <2>2, <1>15, <1>16, <1>17, <1>19, <1>20, <1>21 DEF DbInv, WorkInv
<1>24. CASE phase = "up"
  <2>1. OpeningInv'
    BY <1>0, <1>24, NotOpening
  <2>2. descriptor
    BY <1>5, <1>6, <1>24
  <2>3. UpLogs' /\ UpLast' /\ UpTables' /\ UpMerge'
    BY <1>0, <1>15, <1>24 DEF DbInv, UpInv, UpLogs, UpLast, UpTables, UpMerge, W, Older
  <2>4. UpManifest'
    <3>1. \A r \in Possible' : /\ r.meta # Nil /\ r.meta.log <= logFile
                               /\ setup.crash # "never" => current < r.meta.next
      <4>1. \A r \in Possible : /\ r.meta # Nil /\ r.meta.log <= logFile
                                /\ setup.crash # "never" => current < r.meta.next
        BY <1>24 DEF DbInv, UpInv, UpManifest
      <4>2. After.meta # Nil /\ After.meta.log <= logFile /\ current < After.meta.next
        BY <2>2, <1>2, <1>6, <1>7
      <4> QED BY <4>1, <4>2, <2>2, <1>15
    <3>2. mem \union imm \union TableBatches(tables, version) \subseteq FoundBy(tables, logs, Report')
      BY <1>15, <1>24 DEF DbInv, UpInv, UpManifest
    <3> QED BY <3>1, <3>2, <1>0 DEF UpManifest
  <2>5. UpEdit'
    BY <1>0, <1>22, <1>24 DEF DbInv, UpInv, UpEdit, IdleEdit, BuildingEdit, FlushEdit, MergeEdit
  <2> QED
    BY <2>1, <2>3, <2>4, <2>5, <1>15, <1>16, <1>17, <1>19, <1>20, <1>21 DEF DbInv, WorkInv, UpInv
<1> QED BY <1>1, <1>23, <1>24, <1>15

\* LogAndApply comes to its end.
LEMMA InstallStep ==
  ASSUME DbInv, phase \in {"commit", "up"}, stage \in {"sync", "rename"}, Install,
         UNCHANGED <<logs, tables, save, toReplay, mem, logFile, setup, writes, opens, merges, faults,
                     pinned, nextFile, writing, error, acked, synced>>,
         StoredInv', Readable(current)', Report' = After, Possible' = {After},
         current' = manifestFile, manifests'[current'].end = "whole", Settled'
  PROVE  DbInv'
<1>0. /\ version' = (version \ edit.deleted) \union edit.added
      /\ logNumber' = edit.meta.log /\ descriptor' = TRUE
      /\ phase' = "up" /\ stage' = "clean"
      /\ edit.deleted = {} => imm' = {} /\ merge' = merge /\ pending' = pending
      /\ edit.deleted # {} => merge' = Nil /\ pending' = pending \ {merge.output} /\ imm' = imm
      /\ edit' = NoEdit /\ last' = last /\ manifestFile' = manifestFile
  BY DEF Install
<1>1. /\ EditReady /\ logFile # 0
      /\ After.files = (version \ edit.deleted) \union edit.added /\ After.meta = edit.meta
      /\ edit \in Edits /\ edit.meta.log \in Nat /\ edit.meta.next \in Nat \ {0}
      /\ edit.meta.last \in 0..MaxWrites
      /\ After.files \subseteq DOMAIN tables /\ \A n \in After.files : n < edit.meta.next
      /\ Upto(TableBatches(tables, After.files), edit.meta.last)
      /\ logNumber <= edit.meta.log /\ edit.meta.log <= logFile
      /\ edit.deleted = {} => edit.meta.log = logFile
      /\ edit.deleted # {} => edit.meta.log = logNumber /\ phase = "up"
  BY EditKeeps
<1>2. /\ FoundBy(tables, logs, After) = FoundBy(tables, logs, Report)
      /\ TableBatches(tables, After.files) \subseteq FoundBy(tables, logs, After)
      /\ FoundBy(tables, logs, Report) \subseteq OnDisk
  <2>1. FoundBy(tables, logs, Report) \subseteq OnDisk
    BY FoundIsOnDisk DEF OnDisk, DbInv, StoredInv, DiskTypes
  <2> QED BY <2>1, FoundAgrees DEF FoundBy
<1>3. /\ nextFile \in Nat \ {0} /\ logNumber \in Nat /\ logFile \in Nat /\ manifestFile \in Nat
      /\ last \in 0 .. MaxWrites /\ version \subseteq Nat \ {0} /\ pending \subseteq Nat \ {0}
      /\ imm \subseteq Batches /\ merge \in Merges \union {Nil} /\ last \in Nat
      /\ edit.added \subseteq Nat \ {0}
  BY <1>1 DEF DbInv, ProcessTypes, Edits
<1>4. Working /\ phase \in {"commit", "up"}
  BY DEF Working
<1>5. /\ manifestFile # 0 /\ manifestFile < nextFile
      /\ logFile \in DOMAIN logs /\ logs[logFile].end = "whole" /\ logFile < nextFile
      /\ \A n \in From(logs, logNumber) : n <= logFile
      /\ DOMAIN logs \subseteq Nat
      /\ edit.added \intersect version = {}
      /\ logNumber <= logFile
  BY <1>1, <1>4 DEF DbInv, WorkInv, AgreeInv, LogInv, TablesInv, StoredInv, DiskTypes, Bounded
<1>6. CountTypes'
  BY DEF DbInv, CountTypes
<1>7. ProcessTypes'
  <2>1. version' \subseteq Nat \ {0}
    BY <1>0, <1>3
  <2>2. pending' \subseteq Nat \ {0} /\ imm' \subseteq Batches /\ merge' \in Merges \union {Nil}
    BY <1>0, <1>3
  <2>3. edit' \in Edits /\ descriptor' \in BOOLEAN
    BY <1>0, NoEditFacts
  <2> QED BY <2>1, <2>2, <2>3, <1>0, <1>1 DEF DbInv, ProcessTypes
<1>8. WriteNumbers'
  <2>1. opens >= 1 /\ last <= writes
    BY <1>4 DEF DbInv, WriteNumbers
  <2>2. writing = Nil \/ phase = "up"
    BY <1>4 DEF DbInv, WriteNumbers
  <2> QED BY <2>1, <2>2, <1>0 DEF DbInv, WriteNumbers
<1>9. BeforeInv' /\ OpeningInv'
  BY <1>0, NotStarting, NotOpening
<1>10. Agrees' /\ ~Overtaken'
  BY <1>0, <1>1 DEF Agrees, Overtaken, Written
<1>11. AgreeInv'
  <2>1. Report'.meta.next <= nextFile
    BY <1>1 DEF EditReady
  <2>2. logNumber' < nextFile
    BY <1>0, <1>1, <1>3, <1>5
  <2> QED BY <2>1, <2>2, <1>0, <1>5, <1>10 DEF AgreeInv
<1>12. TablesInv'
  <2>1. edit'.added = {} /\ version' = After.files
    BY <1>0, <1>1, NoEditFacts
  <2>2. Upto(TableBatches(tables, After.files), last)
    <3>1. \A b \in TableBatches(tables, After.files) : b[1] \in Nat
      BY OnDiskIsBatches DEF DbInv
    <3>2. edit.meta.last <= last /\ edit.meta.last \in Nat
      BY <1>1 DEF EditReady
    <3>3. \A b \in TableBatches(tables, After.files) : b[1] <= edit.meta.last
      BY <1>1 DEF Upto
    <3>4. \A b \in TableBatches(tables, After.files) : b[1] <= last
      BY <3>1, <3>2, <3>3, <1>3
    <3> QED BY <3>4 DEF Upto
  <2>3. \A n \in After.files : n < nextFile
    <3>1. After.files \subseteq Nat BY <1>1, <1>3
    <3> QED BY <3>1, <1>1, <1>3 DEF EditReady
  <2> QED BY <2>1, <2>2, <2>3, <1>0, <1>1 DEF TablesInv
<1>13. LogInv'
  <2>1. \A n \in From(logs, logNumber') : n <= logFile
    <3>1. \A n \in From(logs, logNumber') : n \in From(logs, logNumber)
      BY <1>0, <1>1, <1>3, <1>5 DEF From
    <3> QED BY <3>1, <1>5
  <2> QED BY <2>1, <1>0, <1>1, <1>5 DEF LogInv
<1>14. DescriptorInv'
  BY <1>0 DEF DescriptorInv
<1>15. W' = W
  BY DEF W
<1>16. /\ stage = "sync" \/ stage = "rename"
       /\ toReplay = {}
       /\ mem \union W \subseteq ToSet(logs[logFile].records)
       /\ error = FALSE => mem \union W = ToSet(logs[logFile].records)
       /\ imm \subseteq LogBatches(logs, Older)
       /\ edit.deleted # {} => imm = LogBatches(logs, Older)
       /\ Upto(mem \union imm, last)
       /\ Upto(TableBatches(tables, pinned \union pending), last)
       /\ pinned \union pending \subseteq DOMAIN tables
       /\ \A n \in pinned \union pending : n < nextFile
       /\ mem \union imm \subseteq FoundBy(tables, logs, Report)
       /\ phase = "commit" => merge = Nil
       /\ error \in BOOLEAN
  <2>1. CASE phase = "commit"
    <3>1. /\ imm = {} /\ pinned = {} /\ pending = {} /\ merge = Nil /\ writing = Nil /\ error = FALSE
          /\ edit.deleted = {} /\ toReplay = {} /\ mem = ToSet(logs[logFile].records)
      BY <2>1, <1>1 DEF DbInv, OpeningInv, OpenInv, ReplayInv
    <3>2. logFile \in From(logs, logNumber) BY <1>3, <1>5 DEF From
    <3>3. mem \subseteq LogBatches(logs, From(logs, logNumber))
      BY <3>1, <3>2, <1>5 DEF LogBatches
    <3>4. mem \subseteq FoundBy(tables, logs, After)
      <4>1. FoundBy(tables, logs, After) =
              TableBatches(tables, version) \union LogBatches(logs, From(logs, logNumber))
        BY EditKeeps
      <4> QED BY <3>3, <4>1
    <3>5. Upto(mem, last)
      <4>1. Upto(LogBatches(logs, From(logs, logNumber) \ toReplay), last)
        BY <2>1 DEF DbInv, OpeningInv, ReplayInv
      <4>2. From(logs, logNumber) \ toReplay = From(logs, logNumber) BY <3>1
      <4> QED BY <4>1, <4>2, <3>3 DEF Upto
    <3>6. pinned \union pending = {} /\ TableBatches(tables, {}) = {} /\ W = {}
      BY <3>1, TableFacts DEF W
    <3> QED BY <3>1, <3>4, <3>5, <3>6, <1>2, <2>1 DEF Upto
  <2>2. CASE phase = "up"
    <3>1. /\ toReplay = {}
          /\ mem \union W \subseteq ToSet(logs[logFile].records)
          /\ ~error => mem \union W = ToSet(logs[logFile].records)
          /\ imm = LogBatches(logs, Older)
      BY <2>2 DEF DbInv, UpInv, UpLogs
    <3>2. /\ Upto(mem \union imm, last)
          /\ Upto(TableBatches(tables, pinned \union pending), last)
          /\ pinned \union pending \subseteq DOMAIN tables
          /\ \A n \in pinned \union pending : n < nextFile
          /\ mem \union imm \subseteq FoundBy(tables, logs, Report)
      BY <2>2 DEF DbInv, UpInv, UpLast, UpTables, UpManifest
    <3>3. error \in BOOLEAN BY DEF DbInv, ProcessTypes
    <3> QED BY <2>2, <3>1, <3>2, <3>3
  <2> QED BY <2>1, <2>2
<1>17. UpLogs'
  <2>1. imm' = LogBatches(logs, Older')
    <3>1. CASE edit.deleted = {}
      <4>1. Older' = {}
        <5>1. From(logs, logFile) = {logFile}
          BY <1>1, <1>3, <1>4, LogsThatCount DEF DbInv, WorkInv
        <5> QED BY <5>1, <3>1, <1>0, <1>1 DEF Older
      <4> QED BY <4>1, <3>1, <1>0, LogFacts
    <3>2. CASE edit.deleted # {}
      <4>1. Older' = Older BY <3>2, <1>0, <1>1 DEF Older
      <4> QED BY <4>1, <3>2, <1>0, <1>16
    <3> QED BY <3>1, <3>2
  <2>2. ~error => error = FALSE
    BY <1>16
  <2> QED BY <2>1, <2>2, <1>0, <1>1, <1>15, <1>16 DEF UpLogs
<1>18. imm' \subseteq imm /\ pending' \subseteq pending
  BY <1>0
<1>19. UpLast'
  <2>1. TableBatches(tables, pinned \union pending') \subseteq TableBatches(tables, pinned \union pending)
    BY <1>18, TableFacts
  <2> QED BY <2>1, <1>0, <1>16, <1>18 DEF UpLast, Upto
<1>20. UpTables'
  BY <1>16, <1>18 DEF UpTables
<1>21. UpManifest'
  <2>1. After.meta # Nil /\ After.meta.log <= logFile /\ current' < After.meta.next
    BY <1>1 DEF EditReady
  <2>2. mem \union imm' \union TableBatches(tables, version') \subseteq FoundBy(tables, logs, After)
    BY <1>0, <1>1, <1>2, <1>16, <1>18
  <2> QED BY <2>1, <2>2 DEF UpManifest
<1>22. UpMerge'
  <2> SUFFICES ASSUME merge' # Nil
               PROVE  /\ merge'.inputs \subseteq version' /\ merge'.inputs # {}
                      /\ merge'.output \in pending' /\ merge'.output \notin version' \union pinned
    BY DEF UpMerge
  <2>1. edit.deleted = {} /\ merge' = merge /\ pending' = pending /\ phase = "up" /\ merge # Nil
    BY <1>0, <1>4, <1>16
  <2>2. /\ merge.inputs \subseteq version /\ merge.inputs # {}
        /\ merge.output \in pending /\ merge.output \notin version \union pinned
    BY <2>1 DEF DbInv, UpInv, UpMerge
  <2>3. stage = "sync"
    BY <2>1 DEF DbInv, UpInv, UpLogs
  <2>4. merge.output \notin edit.added
    BY <2>1, <2>3 DEF DbInv, UpInv, UpEdit, IdleEdit, BuildingEdit, FlushEdit, MergeEdit
  <2> QED BY <2>1, <2>2, <2>4, <1>0
<1>23. UpEdit'
  BY <1>0 DEF UpEdit, IdleEdit, BuildingEdit, FlushEdit, MergeEdit
<1> QED
  BY <1>6, <1>7, <1>8, <1>9, <1>11, <1>12, <1>13, <1>14, <1>17, <1>19, <1>20, <1>21, <1>22, <1>23
     DEF DbInv, WorkInv, UpInv

\* LogAndApply syncs the manifest; where it is the current one already, the version is
\* installed.
LEMMA SyncManifestStep ==
  ASSUME DbInv, SyncManifest
  PROVE  DbInv' /\ Recovered' = Recovered
<1> DEFINE f == Synced(manifests[manifestFile])
<1>0. /\ stage = "sync"
      /\ manifests' = [manifests EXCEPT ![manifestFile] = Synced(@)]
      /\ \/ /\ ~descriptor /\ stage' = "temp"
            /\ UNCHANGED <<phase, version, logNumber, last, manifestFile, descriptor, imm, merge, pending, edit>>
         \/ descriptor /\ Install
      /\ UNCHANGED <<logs, tables, current, temps, save, toReplay, mem, logFile, setup, writes, opens,
                     merges, faults, pinned, nextFile, writing, error, acked, synced>>
  BY DEF SyncManifest, setVars, counts
<1>1. phase \in {"commit", "up"} /\ Working
  BY <1>0, EditStages
<1>2. /\ EditReady /\ edit.meta \in Metas /\ edit.meta # Nil
      /\ After.meta = edit.meta
      /\ After.files \subseteq DOMAIN tables /\ \A n \in After.files : n < edit.meta.next
      /\ Upto(TableBatches(tables, After.files), edit.meta.last)
  BY <1>0, <1>1, EditKeeps DEF EditReady, Edits
<1>3. /\ Readable(current)
      /\ FoundBy(tables, logs, After) = FoundBy(tables, logs, Report)
      /\ KeptBy(tables, logs, Report) \subseteq KeptBy(tables, logs, After)
  BY <1>0, <1>1, FoundAgrees
<1>4. manifestFile = current => Report = After
  BY <1>0, <1>1 DEF DbInv, WorkInv, AgreeInv, Overtaken, Written
<1>5. /\ current \in Nat \ {0} /\ current \in DOMAIN manifests /\ IsFile(manifests[current], Edits)
      /\ descriptor \in BOOLEAN /\ last <= writes /\ last \in Nat /\ writes \in Nat
      /\ StoredInv /\ DiskTypes /\ DiskInv /\ Bounded(temps)
  BY <1>3, ReportIsSensible DEF DbInv, StoredInv, DiskTypes, ProcessTypes, WriteNumbers, CountTypes
<1>6. /\ descriptor => manifestFile = current /\ manifests[current].end = "whole"
      /\ ~descriptor =>
           /\ phase = "commit" /\ (manifestFile # current \/ Harmless)
           /\ manifestFile \in DOMAIN manifests /\ manifests[manifestFile].end = "whole"
           /\ manifests[manifestFile].records = <<[NoEdit EXCEPT !.added = version], edit>>
  BY <1>0, <1>1 DEF DbInv, WorkInv, DescriptorInv, Written
<1>7. /\ manifestFile \in DOMAIN manifests /\ IsFile(manifests[manifestFile], Edits)
      /\ manifests[manifestFile].end = "whole"
  BY <1>5, <1>6 DEF DiskTypes
<1>8. /\ IsFile(f, Edits) /\ f.records = manifests[manifestFile].records /\ f.end = "whole"
      /\ f.synced = Len(f.records)
      /\ Reports(f, setup.crash) = {Said(f.records)}
  <2>1. /\ IsFile(f, Edits) /\ f.records = manifests[manifestFile].records /\ f.end = "whole"
        /\ f.synced = Len(f.records)
    BY <1>7, SyncedFacts
  <2> HIDE DEF f
  <2>2. Reports(f, setup.crash) = {Said(f.records)}
    BY <2>1, ReportIsPossible
  <2> QED BY <2>1, <2>2
<1> HIDE DEF f
<1>9. /\ DOMAIN manifests' = DOMAIN manifests /\ manifests'[manifestFile] = f
      /\ \A n \in DOMAIN manifests : n # manifestFile => manifests'[n] = manifests[n]
  BY <1>0, <1>7 DEF f
<1>10. /\ DOMAIN manifests' \subseteq Nat \ {0}
       /\ \A n \in DOMAIN manifests' :
            /\ IsFile(manifests'[n], Edits) /\ manifests'[n].end # "buried"
            /\ setup.crash = "never" => manifests'[n].end \in {"whole", "bad"}
  BY <1>5, <1>8, <1>9 DEF DiskTypes, DiskInv
<1>11. ASSUME manifestFile = current
       PROVE  /\ StoredInv' /\ Readable(current)' /\ Recovered' = Recovered /\ Report' = After
              /\ Possible' = {After} /\ OnDisk' = OnDisk /\ Harmless' = Harmless
  <2>1. Said(f.records) = After
    BY <1>4, <1>8, <1>11 DEF Report
  <2>2. /\ UNCHANGED <<logs, tables, setup, synced, writes>> /\ StoredInv /\ Readable(current)
        /\ Bounded(temps') /\ current' \in DOMAIN manifests' /\ manifests'[current'] = f
    BY <1>0, <1>3, <1>5, <1>9, <1>11
  <2>3. \A r \in Reports(f, setup.crash) :
           r = After \/ (current' = current /\ r \in Possible) \/ (r.meta = Nil /\ Excused)
    BY <1>8, <2>1
  <2>4. /\ After.files \subseteq DOMAIN tables /\ After.meta \in Metas
        /\ After.meta.log < After.meta.next /\ \A n \in After.files : n < After.meta.next
        /\ Upto(TableBatches(tables, After.files), After.meta.last) /\ After.meta.last <= writes
        /\ current' <= After.meta.next /\ current' # After.meta.next
        /\ Report.meta.next <= After.meta.next
    BY <1>0, <1>2, <1>5, <1>11 DEF EditReady, Metas
  <2>5. IsFile(f, Edits) /\ f.end = "whole"
    BY <1>8
  <2>6. /\ StoredInv' /\ Readable(current)' /\ Recovered' = Recovered /\ Report' = After
        /\ Possible' = Reports(f, setup.crash) /\ OnDisk' = OnDisk /\ Harmless' = Harmless
    <3> HIDE DEF StoredInv
    <3> QED BY <2>1, <2>2, <2>3, <2>4, <2>5, <1>3, <1>10, NewReport
  <2> QED BY <2>1, <2>6, <1>8
<1>12. ASSUME manifestFile # current
       PROVE  /\ StoredInv' /\ Readable(current)' /\ Recovered' = Recovered /\ Report' = Report
              /\ Possible' = Possible /\ OnDisk' = OnDisk /\ Harmless' = Harmless
  <2>1. /\ current \in DOMAIN manifests' /\ manifests'[current] = manifests[current]
        /\ Bounded(temps') /\ UNCHANGED <<logs, tables, current, setup, synced, writes>>
    BY <1>0, <1>5, <1>9, <1>12
  <2> QED BY <2>1, <1>3, <1>5, <1>10, OtherManifests
<1>13. CASE descriptor /\ Install
  <2>1. manifestFile = current /\ manifests'[current'].end = "whole"
    BY <1>0, <1>6, <1>8, <1>9, <1>13
  <2>2. Settled'
    BY <2>1, <1>0, <1>8, <1>9 DEF Settled
  <2>3. DbInv'
    BY <2>1, <2>2, <1>0, <1>1, <1>11, <1>13, InstallStep
  <2> QED BY <2>1, <2>3, <1>11
<1>14. CASE /\ ~descriptor /\ stage' = "temp"
            /\ UNCHANGED <<phase, version, logNumber, last, manifestFile, descriptor, imm, merge, pending, edit>>
  <2>0. /\ phase = "commit" /\ descriptor = FALSE
        /\ UNCHANGED <<logs, tables, current, temps, save, toReplay, mem, logFile, setup, writes, opens,
                     merges, faults, pinned, nextFile, writing, error, acked, synced>>
    BY <1>0, <1>5, <1>6, <1>14
  <2>1. CountTypes' /\ ProcessTypes' /\ WriteNumbers'
    BY <1>14, <2>0 DEF DbInv, CountTypes, ProcessTypes, WriteNumbers
  <2>2. BeforeInv' /\ UpInv'
    BY <1>14, <2>0, NotStarting, NotUp
  <2>3. /\ StoredInv' /\ Readable(current)' /\ Recovered' = Recovered /\ Report' = Report
        /\ Harmless' = Harmless
    BY <1>4, <1>11, <1>12
  <2>4. Written' /\ Overtaken' = Overtaken /\ After' = After
    BY <1>0, <1>14, <2>0 DEF Written, Overtaken, After
  <2>5. AgreeInv'
    BY <1>1, <1>14, <2>0, <2>3, <2>4 DEF DbInv, WorkInv, AgreeInv, Agrees
  <2>6. TablesInv' /\ LogInv'
    BY <1>14, <2>0 DEF DbInv, WorkInv, TablesInv, LogInv, Working
  <2>7. DescriptorInv'
    <3>1. Len(f.records) = 2
      <4>1. \A a, b : Len(<<a, b>>) = 2 OBVIOUS
      <4> QED BY <4>1, <1>6, <1>8, <2>0
    <3>2. /\ manifestFile \in DOMAIN manifests' /\ manifests'[manifestFile].end = "whole"
          /\ manifests'[manifestFile].records = <<[NoEdit EXCEPT !.added = version], edit>>
          /\ manifests'[manifestFile].synced = 2
      BY <3>1, <1>6, <1>7, <1>8, <1>9, <2>0
    <3> QED BY <3>2, <1>6, <1>14, <2>0, <2>3 DEF DescriptorInv
  <2>8. OpeningInv'
    BY <1>14, <2>0, <2>3 DEF DbInv, OpeningInv, OpenInv, ReplayInv, EditReady, Older
  <2> QED BY <2>1, <2>2, <2>3, <2>5, <2>6, <2>7, <2>8 DEF DbInv, WorkInv
<1> QED BY <1>0, <1>13, <1>14

------------------------
(* A new CURRENT, and failures of the manifest. *)

\* A manifest of one edit is the first to be readable: all that is on the disk counts.
LEMMA FirstReport ==
  ASSUME StoredInv, ~Readable(current), UNCHANGED <<logs, tables, setup, synced, writes>>,
         Bounded(temps'),
         DOMAIN manifests' \subseteq Nat \ {0},
         \A n \in DOMAIN manifests' :
           /\ IsFile(manifests'[n], Edits) /\ manifests'[n].end # "buried"
           /\ setup.crash = "never" => manifests'[n].end \in {"whole", "bad"},
         current' \in DOMAIN manifests', manifests'[current'].end = "whole",
         NEW e \in Edits, manifests'[current'].records = <<e>>, e.meta \in Metas,
         e.added \subseteq DOMAIN tables, e.meta.log < e.meta.next,
         \A n \in e.added : n < e.meta.next,
         Upto(TableBatches(tables, e.added), e.meta.last), e.meta.last <= writes,
         current' <= e.meta.next, current' = e.meta.next => Harmless,
         TableBatches(tables, e.added) = OnDisk,
         setup.crash = "never" \/ Excused
  PROVE  /\ StoredInv' /\ Readable(current)' /\ (setup.damage \/ Recovered' = Recovered)
<1> DEFINE f == manifests'[current']
           after == [files |-> e.added, meta |-> e.meta]
<1>1. OnDisk' = OnDisk
  BY DEF OnDisk
<1>2. Harmless' = Harmless /\ Excused' = Excused
  BY <1>1 DEF Harmless, Excused
<1>3. IsFile(f, Edits) /\ f.records = <<e>> OBVIOUS
<1>4. Said(f.records) = after
  <2>1. Said(<<e>>).files = e.added /\ Said(<<e>>).meta = e.meta
    BY SaidOne
  <2>2. Said(<<e>>) = [files |-> Said(<<e>>).files, meta |-> Said(<<e>>).meta]
    BY DEF Said
  <2> QED BY <2>1, <2>2
<1>5. Report' = after /\ Possible' = Reports(f, setup.crash)
  BY <1>4 DEF Report, Possible
<1>6. after.files = e.added /\ after.meta = e.meta /\ after.meta # Nil
  BY NilIsNoMeta
<1>7. Readable(current)'
  <2>1. MetaOf(f.records) = after.meta
    BY <1>4 DEF Said
  <2> QED BY <2>1, <1>6 DEF Readable
<1>8. DiskTypes'
  <2>1. current' \in Nat OBVIOUS
  <2> QED BY <2>1 DEF DiskTypes, StoredInv
<1>9. BatchNumbers'
  BY <1>1 DEF BatchNumbers, StoredInv
<1>10. /\ KeptBy(tables, logs, after) = OnDisk /\ FoundBy(tables, logs, after) = OnDisk
  <2>1. /\ FoundBy(tables, logs, after) \subseteq OnDisk
        /\ KeptBy(tables, logs, after) \subseteq FoundBy(tables, logs, after)
    BY FoundIsOnDisk DEF OnDisk, StoredInv, DiskTypes
  <2>2. OnDisk \subseteq KeptBy(tables, logs, after)
    BY <1>6 DEF KeptBy
  <2> QED BY <2>1, <2>2
<1>11. /\ Recovered = {} /\ synced \subseteq OnDisk /\ (setup.damage \/ OnDisk = {} \/ setup.crash = "never")
       /\ (current = 0 => OnDisk = {}) /\ (current # 0 => setup.damage \/ OnDisk = {})
  <2>1. Recovered = {} /\ synced \subseteq OnDisk
    <3>1. Lasting(tables, logs, setup.crash) \subseteq OnDisk
      BY FoundIsOnDisk DEF OnDisk, StoredInv, DiskTypes
    <3> QED BY <3>1 DEF Recovered, StoredInv, DiskInv
  <2>2. (current = 0 => OnDisk = {}) /\ (current # 0 => setup.damage \/ OnDisk = {})
    BY DEF StoredInv, DiskInv, Excused, Harmless
  <2> QED BY <2>1, <2>2
<1>12. setup.damage \/ Recovered' = Recovered
  <2>1. (Recovered = IF Readable(current) THEN FoundBy(tables, logs, Report) ELSE {})'
    BY FoundIsFoundBy, PTL
  <2>2. Recovered' = OnDisk
    BY <2>1, <1>5, <1>7, <1>10
  <2> QED BY <2>2, <1>11
<1>13. ManifestInv'
  <2>1. Sensible(after)'
    <3>1. after.meta.next <= after.meta.next BY <1>6 DEF Metas
    <3> QED BY <3>1, <1>2, <1>5, <1>6, <1>10, <1>11 DEF Sensible
  <2>2. ASSUME NEW r \in Possible' PROVE IF r.meta = Nil THEN Excused' ELSE Sensible(r)'
    <3>1. r = after \/ (setup.crash # "never" /\ r.meta = Nil)
      <4> HIDE DEF f, after
      <4> QED BY <1>3, <1>4, <1>5, ReportsOfOne
    <3> QED BY <3>1, <2>1, <1>2, <1>6
  <2>3. synced' \subseteq FoundBy(tables', logs', Report')
    BY <1>5, <1>10, <1>11
  <2> QED BY <2>2, <2>3 DEF ManifestInv
<1>14. DiskInv'
  <2>1. \A n \in DOMAIN manifests' : manifests'[n].end # "buried" OBVIOUS
  <2>2. setup.crash = "never" => /\ \A n \in DOMAIN manifests' : manifests'[n].end \in {"whole", "bad"}
                                 /\ \A n \in DOMAIN logs : logs[n].end = "whole"
    BY DEF DiskInv, StoredInv
  <2>3. current' # 0 OBVIOUS
  <2> QED BY <2>1, <2>2, <2>3, <1>7 DEF DiskInv
<1> QED BY <1>7, <1>8, <1>9, <1>12, <1>13, <1>14 DEF StoredInv

\* The temporary file becomes CURRENT: of a new database, of a recovery, or of a repair.
LEMMA RenameTempStep ==
  ASSUME DbInv, RenameTemp
  PROVE  DbInv' /\ (setup.damage \/ Recovered' = Recovered)
<1>0. /\ stage = "rename"
      /\ temps' = temps \ {NewCurrent} /\ current' = NewCurrent
      /\ \/ /\ phase = "create" /\ phase' = "read" /\ stage' = "idle"
            /\ UNCHANGED <<version, logNumber, last, manifestFile, descriptor, imm, merge, pending, edit>>
         \/ phase = "commit" /\ Install
      /\ UNCHANGED <<logs, manifests, tables, save, toReplay, mem, logFile, setup, writes, opens,
                     merges, faults, pinned, nextFile, writing, error, acked, synced>>
  BY DEF RenameTemp, setVars, counts
<1>1. Bounded(temps')
  BY <1>0, BoundedFacts DEF DbInv, StoredInv, DiskTypes
<1>2. /\ DOMAIN manifests' \subseteq Nat \ {0}
      /\ \A n \in DOMAIN manifests' :
           /\ IsFile(manifests'[n], Edits) /\ manifests'[n].end # "buried"
           /\ setup.crash = "never" => manifests'[n].end \in {"whole", "bad"}
  BY <1>0 DEF DbInv, StoredInv, DiskTypes, DiskInv
<1>3. CASE phase = "commit" /\ Install
  <2>1. /\ EditReady /\ edit \in Edits /\ edit.meta \in Metas /\ edit.meta # Nil
        /\ After.files = (version \ edit.deleted) \union edit.added /\ After.meta = edit.meta
        /\ After.files \subseteq DOMAIN tables /\ \A n \in After.files : n < edit.meta.next
        /\ Upto(TableBatches(tables, After.files), edit.meta.last)
    BY <1>0, <1>3, EditKeeps DEF EditReady, Edits
  <2>2. /\ Readable(current)
        /\ FoundBy(tables, logs, After) = FoundBy(tables, logs, Report)
        /\ KeptBy(tables, logs, Report) \subseteq KeptBy(tables, logs, After)
    BY <1>0, <1>3, FoundAgrees
  <2>3. current' = manifestFile /\ edit.deleted = {} /\ ~descriptor /\ manifestFile # 0
    BY <1>0, <1>3 DEF NewCurrent, DbInv, OpeningInv, OpenInv, ReplayInv, WorkInv, AgreeInv, Working
  <2>4. /\ manifestFile \in DOMAIN manifests /\ manifests[manifestFile].end = "whole"
        /\ manifests[manifestFile].records = <<[NoEdit EXCEPT !.added = version], edit>>
        /\ manifests[manifestFile].synced = 2
    BY <1>0, <1>3, <2>3 DEF DbInv, WorkInv, DescriptorInv, Working, Written
  <2> DEFINE f == manifests[manifestFile]
             snapshot == [NoEdit EXCEPT !.added = version]
  <2>5. IsFile(f, Edits)
    BY <2>4 DEF DbInv, StoredInv, DiskTypes
  <2>6. snapshot \in Edits /\ snapshot.meta = Nil /\ snapshot.added = version
    BY NoEditFacts DEF Edits, NoEdit, DbInv, ProcessTypes
  <2>7. f.records = <<snapshot, edit>> /\ f.synced = 2 /\ f.end = "whole"
    BY <2>4
  <2> HIDE DEF f, snapshot
  <2>8. Said(f.records) \in Reports(f, setup.crash)
    BY <2>5, ReportIsPossible
  <2>9. /\ Said(f.records).files = (version \ edit.deleted) \union edit.added
        /\ Said(f.records).meta = edit.meta /\ Len(f.records) = 2
    BY <2>1, <2>5, <2>6, <2>7, <2>8, ReportsOfTwo
  <2>10. Said(f.records) = After
    <3>1. Said(f.records) = [files |-> Said(f.records).files, meta |-> Said(f.records).meta]
      BY DEF Said
    <3> QED BY <2>9, <3>1 DEF After
  <2>11. Reports(f, setup.crash) = {After}
    BY <2>5, <2>7, <2>9, <2>10, ReportIsPossible
  <2>12. /\ StoredInv' /\ Readable(current)' /\ Recovered' = Recovered /\ Report' = After
         /\ Possible' = Reports(f, setup.crash) /\ OnDisk' = OnDisk /\ Harmless' = Harmless
    <3>1. /\ UNCHANGED <<logs, tables, setup, synced, writes>> /\ StoredInv
          /\ current' \in DOMAIN manifests' /\ manifests'[current'] = f
      BY <1>0, <2>3, <2>4 DEF DbInv, f
    <3>2. \A r \in Reports(f, setup.crash) :
             r = After \/ (current' = current /\ r \in Possible) \/ (r.meta = Nil /\ Excused)
      BY <2>11
    <3>3. /\ After.files \subseteq DOMAIN tables /\ After.meta \in Metas
          /\ After.meta.log < After.meta.next /\ \A n \in After.files : n < After.meta.next
          /\ Upto(TableBatches(tables, After.files), After.meta.last) /\ After.meta.last <= writes
          /\ current' <= After.meta.next /\ current' # After.meta.next
          /\ Report.meta.next <= After.meta.next
      <4>1. manifestFile \in Nat /\ last \in Nat /\ last <= writes /\ writes \in Nat
        BY DEF DbInv, ProcessTypes, CountTypes, WriteNumbers
      <4> QED BY <4>1, <2>1, <2>3 DEF EditReady, Metas
    <3> HIDE DEF StoredInv
    <3> QED BY <3>1, <3>2, <3>3, <1>1, <1>2, <2>2, <2>5, <2>7, <2>10, NewReport
  <2>13. manifests'[current'].end = "whole" /\ Settled'
    BY <1>0, <2>3, <2>7, <2>9 DEF Settled, f
  <2>14. DbInv'
    BY <1>0, <1>3, <2>3, <2>11, <2>12, <2>13, InstallStep
  <2> QED BY <2>12, <2>14
<1>4. CASE /\ phase = "create" /\ phase' = "read" /\ stage' = "idle"
           /\ UNCHANGED <<version, logNumber, last, manifestFile, descriptor, imm, merge, pending, edit>>
  <2>1. /\ NewProcess /\ current = 0 /\ current' = 1 /\ 1 \in DOMAIN manifests
        /\ manifests[1].end = "whole" /\ manifests[1].records = <<FirstEdit>>
    BY <1>0, <1>4 DEF NewCurrent, DbInv, BeforeInv, CreateInv
  <2>2. ~Readable(current) /\ OnDisk = {}
    BY <2>1 DEF Readable, DbInv, StoredInv, DiskTypes, DiskInv
  <2>3. /\ FirstEdit \in Edits /\ FirstEdit.added = {} /\ FirstEdit.meta \in Metas
        /\ FirstEdit.meta.log = 0 /\ FirstEdit.meta.next = 2 /\ FirstEdit.meta.last = 0
    BY FirstEditFacts, RecoveryAssumption DEF Metas
  <2>4. /\ TableBatches(tables, FirstEdit.added) = OnDisk
        /\ Upto(TableBatches(tables, FirstEdit.added), FirstEdit.meta.last)
        /\ FirstEdit.meta.last <= writes /\ \A n \in FirstEdit.added : n < FirstEdit.meta.next
        /\ FirstEdit.added \subseteq DOMAIN tables
    BY <2>2, <2>3, TableFacts DEF Upto, DbInv, CountTypes
  <2>5. setup.crash = "never" \/ Excused
    BY <2>2 DEF Excused, Harmless
  <2>6. /\ StoredInv' /\ Readable(current)' /\ (setup.damage \/ Recovered' = Recovered)
    <3>1. /\ current' \in DOMAIN manifests' /\ manifests'[current'].end = "whole"
          /\ manifests'[current'].records = <<FirstEdit>>
          /\ current' <= FirstEdit.meta.next /\ current' # FirstEdit.meta.next
          /\ FirstEdit.meta.log < FirstEdit.meta.next
          /\ UNCHANGED <<logs, tables, setup, synced, writes>> /\ StoredInv
      BY <1>0, <2>1, <2>3 DEF DbInv
    <3> HIDE DEF StoredInv
    <3> QED BY <3>1, <1>1, <1>2, <2>2, <2>3, <2>4, <2>5, FirstReport
  <2>7. CountTypes' /\ ProcessTypes' /\ WriteNumbers'
    BY <1>0, <1>4 DEF DbInv, CountTypes, ProcessTypes, WriteNumbers
  <2>8. BeforeInv'
    BY <1>0, <1>4, <2>1 DEF BeforeInv, StartInv, CreateInv, RepairInv, NewProcess, Blank
  <2>9. WorkInv' /\ OpeningInv' /\ UpInv'
    BY <1>4, NotWorking
  <2> QED BY <2>6, <2>7, <2>8, <2>9 DEF DbInv
<1> QED BY <1>0, <1>3, <1>4

\* LogAndApply fails to append or to sync.
LEMMA ManifestFailsStep ==
  ASSUME DbInv, ManifestFails
  PROVE  DbInv' /\ Recovered' = Recovered
<1>0. /\ phase = "up" /\ stage \in {"append", "sync"} /\ faults' = faults + 1
      /\ stage' = "idle" /\ error' = TRUE
      /\ merge' = (IF edit.deleted = {} THEN merge ELSE Nil)
      /\ pending' = (IF edit.deleted = {} THEN pending ELSE pending \ {merge.output})
      /\ edit' = NoEdit
      /\ UNCHANGED <<logs, manifests, tables, current, temps, phase, save, toReplay, version, logNumber,
                     last, manifestFile, descriptor, mem, imm, logFile, setup, writes, opens, merges,
                     pinned, nextFile, writing, acked, synced>>
  BY DEF ManifestFails, Fault, diskVars, openVars, setVars, memVars
<1>1. /\ StoredInv' /\ Report' = Report /\ Possible' = Possible /\ OnDisk' = OnDisk
      /\ Recovered' = Recovered /\ Readable(current)' = Readable(current) /\ Harmless' = Harmless
  BY <1>0, SameDisk DEF DbInv
<1>2. CountTypes'
  BY <1>0 DEF DbInv, CountTypes
<1>3. pending' \subseteq pending /\ (merge' # Nil => merge' = merge /\ pending' = pending)
  BY <1>0
<1>4. ProcessTypes'
  <2>1. pending' \subseteq Nat \ {0} /\ merge' \in Merges \union {Nil} /\ edit' \in Edits
    BY <1>0, <1>3, NoEditFacts DEF DbInv, ProcessTypes
  <2>2. error' \in BOOLEAN
    BY <1>0
  <2> QED BY <2>1, <2>2, <1>0 DEF DbInv, ProcessTypes
<1>5. WriteNumbers'
  BY <1>0 DEF DbInv, WriteNumbers
<1>6. BeforeInv' /\ OpeningInv'
  BY <1>0, NotStarting, NotOpening
<1>7. AgreeInv'
  <2>1. /\ Readable(current) /\ manifestFile # 0 /\ manifestFile < nextFile /\ logNumber < nextFile
        /\ Report.meta.next <= nextFile
    BY <1>0 DEF DbInv, WorkInv, AgreeInv, Working
  <2>2. ~Overtaken'
    BY <1>0 DEF Overtaken, Written
  <2> QED BY <2>1, <2>2, <1>0, <1>1 DEF AgreeInv
<1>8. TablesInv'
  <2>1. /\ version \subseteq DOMAIN tables /\ \A n \in version : n < nextFile
        /\ Upto(TableBatches(tables, version), last)
    BY <1>0 DEF DbInv, WorkInv, TablesInv, Working
  <2> QED BY <2>1, <1>0, NoEditFacts DEF TablesInv
<1>9. LogInv'
  BY <1>0 DEF DbInv, WorkInv, LogInv, Working
<1>10. DescriptorInv'
  <2>1. descriptor /\ manifestFile = current /\ manifests[current].end = "whole"
    BY <1>0 DEF DbInv, WorkInv, DescriptorInv, Working, ProcessTypes
  <2> QED BY <2>1, <1>0 DEF DescriptorInv
<1>11. UpLogs'
  BY <1>0 DEF DbInv, UpInv, UpLogs, W, Older
<1>12. UpLast'
  <2>1. TableBatches(tables, pinned \union pending') \subseteq TableBatches(tables, pinned \union pending)
    BY <1>3, TableFacts
  <2> QED BY <2>1, <1>0 DEF DbInv, UpInv, UpLast, Upto
<1>13. UpTables'
  BY <1>0, <1>3 DEF DbInv, UpInv, UpTables
<1>14. UpManifest'
  BY <1>0, <1>1 DEF DbInv, UpInv, UpManifest
<1>15. UpMerge'
  BY <1>0, <1>3 DEF DbInv, UpInv, UpMerge
<1>16. UpEdit'
  BY <1>0 DEF UpEdit, IdleEdit, BuildingEdit, FlushEdit, MergeEdit
<1> QED
  BY <1>1, <1>2, <1>4, <1>5, <1>6, <1>7, <1>8, <1>9, <1>10, <1>11, <1>12, <1>13, <1>14, <1>15, <1>16
     DEF DbInv, WorkInv, UpInv

------------------------
(* RepairDB. *)

\* Where a repair is on its way, nothing else is.
LEMMA RepairPhase ==
  ASSUME DbInv, stage \in {"logs", "archive", "manifest", "point"}
  PROVE  /\ phase = "repair" /\ Blank /\ current # 0
         /\ \A n \in DOMAIN tables : n < nextFile
         /\ nextFile \in Nat \ {0} /\ opens >= 1 /\ writing = Nil /\ last = 0
BY DEF DbInv, ProcessTypes, BeforeInv, StartInv, CreateInv, RepairInv, OpeningInv, ReplayInv,
       UpInv, UpLogs, WriteNumbers, Blank

\* A manifest is damaged, where that may happen.
LEMMA DamageStep ==
  ASSUME DbInv, Damage
  PROVE  DbInv' /\ setup.damage
<1>0. /\ setup.damage /\ phase = "down" /\ faults' = faults + 1 /\ Readable(current)
      /\ manifests' = [manifests EXCEPT ![current].end = "bad"]
      /\ UNCHANGED <<logs, tables, current, temps, phase, save, toReplay, version, logNumber, last,
                     manifestFile, descriptor, mem, imm, logFile, setup, writes, opens, merges, stage,
                     pinned, nextFile, pending, edit, merge, writing, error, acked, synced>>
  BY DEF Damage, Fault, openVars, setVars, memVars
<1>1. current \in DOMAIN manifests /\ IsFile(manifests[current], Edits) /\ current # 0
  BY <1>0, ReadableFacts DEF DbInv, StoredInv
<1>2. /\ DOMAIN manifests' = DOMAIN manifests
      /\ manifests'[current] = [manifests[current] EXCEPT !.end = "bad"]
      /\ \A n \in DOMAIN manifests : n # current => manifests'[n] = manifests[n]
  BY <1>0, <1>1
<1>3. IsFile(manifests'[current], Edits) /\ manifests'[current].end = "bad"
  BY <1>1, <1>2 DEF IsFile, Ends
<1>4. ~Readable(current)'
  BY <1>0, <1>3 DEF Readable
<1>5. DiskTypes'
  BY <1>0, <1>2, <1>3 DEF DbInv, StoredInv, DiskTypes
<1>6. OnDisk' = OnDisk /\ Excused'
  BY <1>0 DEF OnDisk, Excused
<1>7. BatchNumbers'
  BY <1>0, <1>6 DEF DbInv, StoredInv, BatchNumbers
<1>8. ManifestInv'
  BY <1>4 DEF ManifestInv
<1>9. DiskInv'
  <2>1. \A n \in DOMAIN manifests' : manifests'[n].end # "buried"
    BY <1>2, <1>3 DEF DbInv, StoredInv, DiskInv
  <2>2. setup.crash = "never" => /\ \A n \in DOMAIN manifests' : manifests'[n].end \in {"whole", "bad"}
                                 /\ \A n \in DOMAIN logs : logs[n].end = "whole"
    BY <1>2, <1>3 DEF DbInv, StoredInv, DiskInv
  <2>3. synced \subseteq Lasting(tables, logs, setup.crash)
    <3>1. Sensible(Report) /\ synced \subseteq FoundBy(tables, logs, Report)
      BY <1>0, ReportIsSensible DEF DbInv, StoredInv, ManifestInv
    <3>2. /\ KeptBy(tables, logs, Report) \subseteq Lasting(tables, logs, setup.crash)
          /\ FoundBy(tables, logs, Report) \subseteq Lasting(tables, logs, "never")
      BY FoundIsOnDisk DEF DbInv, StoredInv, DiskTypes
    <3> QED BY <3>1, <3>2 DEF Sensible
  <2> QED BY <2>1, <2>2, <2>3, <1>0, <1>1, <1>6 DEF DiskInv
<1>10. CountTypes' /\ ProcessTypes' /\ WriteNumbers'
  BY <1>0 DEF DbInv, CountTypes, ProcessTypes, WriteNumbers
<1>11. BeforeInv'
  BY <1>0 DEF DbInv, BeforeInv, StartInv, CreateInv, RepairInv, NewProcess, Blank
<1>12. WorkInv' /\ OpeningInv' /\ UpInv'
  BY <1>0, NotWorking
<1> QED BY <1>0, <1>5, <1>7, <1>8, <1>9, <1>10, <1>11, <1>12 DEF DbInv, StoredInv

\* The files change and no manifest counts.
LEMMA UnreadableStep ==
  ASSUME StoredInv, ~Readable(current), ~Readable(current)', current # 0,
         UNCHANGED <<manifests, current, setup, synced, writes>>,
         DiskTypes', OnDisk' = OnDisk,
         Lasting(tables, logs, setup.crash) \subseteq Lasting(tables', logs', setup.crash),
         setup.crash = "never" => \A n \in DOMAIN logs' : logs'[n].end = "whole"
  PROVE  StoredInv' /\ Recovered' = Recovered
<1>1. Recovered = {} /\ Recovered' = {}
  BY DEF Recovered
<1>2. Harmless' = Harmless /\ Excused' = Excused
  BY DEF Harmless, Excused
<1>3. BatchNumbers' /\ ManifestInv'
  BY DEF StoredInv, BatchNumbers, ManifestInv
<1>4. DiskInv'
  BY <1>2 DEF StoredInv, DiskInv
<1> QED BY <1>1, <1>3, <1>4 DEF StoredInv

\* ConvertLogToTable turns a log into a table and archives it.
LEMMA ConvertLogStep ==
  ASSUME DbInv, ConvertLog
  PROVE  DbInv' /\ Recovered' = Recovered
<1>0. /\ stage = "logs" /\ nextFile' = nextFile + 1
      /\ UNCHANGED <<manifests, current, temps, phase, save, version, logNumber, last, manifestFile,
                     descriptor, mem, imm, logFile, setup, writes, opens, merges, faults, stage,
                     pinned, pending, edit, merge, writing, error, acked, synced>>
  BY DEF ConvertLog, setVars, memVars, counts
<1>1. PICK n \in toReplay :
        /\ tables' = IF ToSet(logs[n].records) = {} THEN tables
                     ELSE Put(tables, nextFile, ToSet(logs[n].records))
        /\ logs' = Without(logs, n) /\ toReplay' = toReplay \ {n}
  BY DEF ConvertLog
<1>2. /\ phase = "repair" /\ Blank /\ current # 0
      /\ \A m \in DOMAIN tables : m < nextFile
      /\ nextFile \in Nat \ {0}
      /\ ~Readable(current) /\ edit = NoEdit /\ toReplay = DOMAIN logs
  BY <1>0, RepairPhase DEF DbInv, BeforeInv, RepairInv
<1> DEFINE found == ToSet(logs[n].records)
<1>3. /\ DOMAIN logs' = DOMAIN logs \ {n} /\ \A m \in DOMAIN logs : m # n => logs'[m] = logs[m]
      /\ n \in DOMAIN logs
  BY <1>1, <1>2, WithoutFacts
<1>4. /\ DOMAIN tables \subseteq DOMAIN tables' /\ DOMAIN tables' \subseteq DOMAIN tables \union {nextFile}
      /\ \A m \in DOMAIN tables : tables'[m] = tables[m]
      /\ \A m \in DOMAIN tables' : m \notin DOMAIN tables => tables'[m] = found
      /\ found = {} \/ (nextFile \in DOMAIN tables' /\ tables'[nextFile] = found)
  <2>1. nextFile \notin DOMAIN tables
    <3>1. DOMAIN tables \subseteq Nat BY DEF DbInv, StoredInv, DiskTypes, Bounded
    <3> QED BY <1>2, <3>1
  <2>2. CASE found = {}
    BY <2>2, <1>1
  <2>3. CASE found # {}
    BY <2>1, <2>3, <1>1 DEF Put
  <2> QED BY <2>2, <2>3
<1>5. SyncedPart(logs[n]) \subseteq found /\ found \subseteq Batches
  BY <1>3, SyncedPartIsIn DEF DbInv, StoredInv, DiskTypes
<1> HIDE DEF found
<1>6. TableBatches(tables', DOMAIN tables') = TableBatches(tables, DOMAIN tables) \union found
  BY <1>4 DEF TableBatches
<1>7. /\ LogBatches(logs, DOMAIN logs) = LogBatches(logs', DOMAIN logs') \union found
      /\ SyncedBatches(logs, DOMAIN logs) = SyncedBatches(logs', DOMAIN logs') \union SyncedPart(logs[n])
  BY <1>3 DEF LogBatches, SyncedBatches, found
<1>8. OnDisk' = OnDisk
  BY <1>6, <1>7 DEF OnDisk, Disk
<1>9. Lasting(tables, logs, setup.crash) \subseteq Lasting(tables', logs', setup.crash)
  BY <1>5, <1>6, <1>7 DEF Lasting
<1>10. ~Readable(current)'
  BY <1>0, <1>2 DEF Readable
<1>11. DiskTypes'
  <2>1. Bounded(DOMAIN logs') /\ Bounded(DOMAIN tables')
    <3>1. Bounded(DOMAIN tables \union {nextFile}) /\ Bounded(DOMAIN logs)
      BY <1>2, BoundedFacts DEF DbInv, StoredInv, DiskTypes
    <3> QED BY <3>1, <1>3, <1>4, BoundedFacts
  <2>2. \A m \in DOMAIN logs' : IsFile(logs'[m], Batches)
    BY <1>3 DEF DbInv, StoredInv, DiskTypes
  <2>3. \A m \in DOMAIN tables' : tables'[m] \subseteq Batches
    BY <1>4, <1>5 DEF DbInv, StoredInv, DiskTypes
  <2> QED BY <2>1, <2>2, <2>3, <1>0 DEF DbInv, StoredInv, DiskTypes
<1>12. StoredInv' /\ Recovered' = Recovered
  <2>1. setup.crash = "never" => \A m \in DOMAIN logs' : logs'[m].end = "whole"
    BY <1>3 DEF DbInv, StoredInv, DiskInv
  <2>2. StoredInv /\ UNCHANGED <<manifests, current, setup, synced, writes>>
    BY <1>0 DEF DbInv
  <2> HIDE DEF StoredInv
  <2> QED BY <2>1, <2>2, <1>2, <1>8, <1>9, <1>10, <1>11, UnreadableStep
<1>13. CountTypes' /\ WriteNumbers'
  BY <1>0 DEF DbInv, CountTypes, WriteNumbers
<1>14. ProcessTypes'
  <2>1. nextFile' \in Nat \ {0} /\ toReplay' \subseteq Nat \ {0}
    BY <1>0, <1>1, <1>2 DEF DbInv, ProcessTypes
  <2> QED BY <2>1, <1>0 DEF DbInv, ProcessTypes
<1>15. BeforeInv'
  <2>1. \A m \in DOMAIN tables' : m < nextFile'
    <3>1. DOMAIN tables \subseteq Nat BY DEF DbInv, StoredInv, DiskTypes, Bounded
    <3> QED BY <3>1, <1>0, <1>2, <1>4
  <2>2. toReplay' = DOMAIN logs'
    BY <1>1, <1>2, <1>3
  <2>3. Blank'
    BY <1>0, <1>2 DEF Blank
  <2> QED BY <2>1, <2>2, <2>3, <1>0, <1>2, <1>10 DEF BeforeInv, StartInv, CreateInv, RepairInv
<1>16. WorkInv' /\ OpeningInv' /\ UpInv'
  BY <1>0, <1>2, NotWorking
<1> QED BY <1>12, <1>13, <1>14, <1>15, <1>16 DEF DbInv

\* ExtractMetaData keeps the tables that can be read and forms the repair's edit.
LEMMA ExtractMetaDataStep ==
  ASSUME DbInv, ExtractMetaData
  PROVE  DbInv' /\ Recovered' = Recovered
<1> DEFINE whole == {n \in DOMAIN tables : tables[n] # {}}
<1>0. /\ stage = "logs" /\ toReplay = {} /\ stage' = "archive"
      /\ tables' = [n \in whole |-> tables[n]]
      /\ edit' = [added |-> whole, deleted |-> {},
                  meta |-> [log |-> 0, next |-> nextFile, last |-> HighestOf(0, BatchesIn(whole))]]
      /\ temps' = temps \union {1}
      /\ UNCHANGED <<logs, manifests, current, phase, save, toReplay, version, logNumber, last,
                     manifestFile, descriptor, mem, imm, logFile, setup, writes, opens, merges, faults,
                     pinned, nextFile, pending, merge, writing, error, acked, synced>>
  BY DEF ExtractMetaData, openVars, setVars, memVars, counts
<1>1. /\ phase = "repair" /\ Blank /\ current # 0
      /\ \A m \in DOMAIN tables : m < nextFile
      /\ nextFile \in Nat \ {0}
      /\ ~Readable(current) /\ DOMAIN logs = {}
  BY <1>0, RepairPhase DEF DbInv, BeforeInv, RepairInv
<1>2. /\ DOMAIN tables' = whole /\ whole \subseteq DOMAIN tables
      /\ \A m \in whole : tables'[m] = tables[m]
  BY <1>0
<1>3. /\ TableBatches(tables', DOMAIN tables') = TableBatches(tables, DOMAIN tables)
      /\ TableBatches(tables, whole) = TableBatches(tables, DOMAIN tables)
  BY <1>2 DEF TableBatches
<1>4. /\ OnDisk' = OnDisk
      /\ Lasting(tables, logs, setup.crash) = Lasting(tables', logs', setup.crash)
  BY <1>0, <1>3 DEF OnDisk, Disk, Lasting
<1>5. ~Readable(current)'
  BY <1>0, <1>1 DEF Readable
<1>6. DiskTypes'
  <2>1. Bounded(DOMAIN tables') /\ Bounded(temps')
    BY <1>0, <1>2, BoundedFacts DEF DbInv, StoredInv, DiskTypes
  <2>2. \A m \in DOMAIN tables' : tables'[m] \subseteq Batches
    BY <1>2 DEF DbInv, StoredInv, DiskTypes
  <2> QED BY <2>1, <2>2, <1>0 DEF DbInv, StoredInv, DiskTypes
<1>7. StoredInv' /\ Recovered' = Recovered
  <2>1. setup.crash = "never" => \A m \in DOMAIN logs' : logs'[m].end = "whole"
    BY <1>0 DEF DbInv, StoredInv, DiskInv
  <2>2. StoredInv /\ UNCHANGED <<manifests, current, setup, synced, writes>>
    BY <1>0 DEF DbInv
  <2> HIDE DEF StoredInv
  <2> QED BY <2>1, <2>2, <1>1, <1>4, <1>5, <1>6, UnreadableStep
<1> DEFINE high == HighestOf(0, BatchesIn(whole))
<1>8. /\ high \in 0 .. MaxWrites /\ high <= writes
      /\ Upto(TableBatches(tables, whole), high)
  <2>1. BatchesIn(whole) = TableBatches(tables, whole)
    BY FoundIsFoundBy
  <2>2. writes \in Nat /\ writes <= MaxWrites /\ MaxWrites \in Nat
    BY RecoveryAssumption DEF DbInv, CountTypes
  <2>3. \A b \in TableBatches(tables, whole) : b[1] \in Nat /\ b[1] <= writes
    <3>1. TableBatches(tables, whole) \subseteq OnDisk /\ \A b \in OnDisk : b[1] \in Nat
      BY OnDiskIsBatches DEF DbInv
    <3>2. \A b \in OnDisk : b[1] <= writes
      BY DEF DbInv, StoredInv, BatchNumbers, Upto
    <3> QED BY <3>1, <3>2
  <2>4. HighestOf(0, TableBatches(tables, whole)) \in Nat
        /\ HighestOf(0, TableBatches(tables, whole)) <= writes
        /\ Upto(TableBatches(tables, whole), HighestOf(0, TableBatches(tables, whole)))
    <3> HIDE DEF whole
    <3> QED BY <2>2, <2>3, HighestOfFacts
  <2> QED BY <2>1, <2>2, <2>4
<1> HIDE DEF high
<1>9. /\ edit'.added = DOMAIN tables' /\ edit'.deleted = {}
      /\ edit'.meta = [log |-> 0, next |-> nextFile, last |-> high]
      /\ edit'.meta \in Metas /\ edit' \in Edits
  <2>1. [log |-> 0, next |-> nextFile, last |-> high] \in Metas
    BY <1>1, <1>8 DEF Metas
  <2>2. edit' = [added |-> whole, deleted |-> {}, meta |-> [log |-> 0, next |-> nextFile, last |-> high]]
    BY <1>0 DEF high
  <2>3. whole \subseteq Nat \ {0}
    BY DEF DbInv, StoredInv, DiskTypes, Bounded
  <2> QED BY <2>1, <2>2, <2>3, <1>2 DEF Edits
<1>10. CountTypes' /\ WriteNumbers'
  BY <1>0 DEF DbInv, CountTypes, WriteNumbers
<1>11. ProcessTypes'
  BY <1>0, <1>9 DEF DbInv, ProcessTypes
<1>12. BeforeInv'
  <2>1. Blank'
    BY <1>0, <1>1 DEF Blank
  <2>2. \A m \in DOMAIN tables' : m < nextFile'
    BY <1>0, <1>1, <1>2
  <2>3. /\ edit'.meta # Nil /\ edit'.meta.log = 0 /\ edit'.meta.next = nextFile'
        /\ edit'.meta.last <= writes' /\ DOMAIN logs' = {}
        /\ Upto(TableBatches(tables', DOMAIN tables'), edit'.meta.last)
    BY <1>0, <1>1, <1>3, <1>8, <1>9, NilIsNoMeta
  <2> QED BY <2>1, <2>2, <2>3, <1>0, <1>1, <1>5, <1>9 DEF BeforeInv, StartInv, CreateInv, RepairInv
<1>13. WorkInv' /\ OpeningInv' /\ UpInv'
  BY <1>0, <1>1, NotWorking
<1> QED BY <1>7, <1>10, <1>11, <1>12, <1>13 DEF DbInv

\* WriteDescriptor archives the old manifests.
LEMMA ArchiveManifestsStep ==
  ASSUME DbInv, ArchiveManifests
  PROVE  DbInv' /\ Recovered' = Recovered
<1>0. /\ stage = "archive" /\ stage' = "manifest" /\ manifests' = << >>
      /\ UNCHANGED <<logs, tables, current, temps, phase, save, toReplay, version, logNumber, last,
                     manifestFile, descriptor, mem, imm, logFile, setup, writes, opens, merges, faults,
                     pinned, nextFile, pending, edit, merge, writing, error, acked, synced>>
  BY DEF ArchiveManifests, openVars, setVars, memVars, counts
<1>1. phase = "repair" /\ ~Readable(current) /\ current # 0
  BY <1>0, RepairPhase DEF DbInv, BeforeInv, RepairInv
<1>2. DOMAIN manifests' = {} /\ ~Readable(current)'
  BY <1>0 DEF Readable
<1>3. OnDisk' = OnDisk /\ Harmless' = Harmless /\ Excused' = Excused
  BY <1>0 DEF OnDisk, Harmless, Excused
<1>4. StoredInv'
  <2>1. DiskTypes'
    BY <1>0, <1>2 DEF DbInv, StoredInv, DiskTypes
  <2>2. BatchNumbers' /\ ManifestInv'
    BY <1>0, <1>2, <1>3 DEF DbInv, StoredInv, BatchNumbers, ManifestInv
  <2>3. DiskInv'
    BY <1>0, <1>1, <1>2, <1>3 DEF DbInv, StoredInv, DiskInv
  <2> QED BY <2>1, <2>2, <2>3 DEF StoredInv
<1>5. Recovered' = Recovered
  BY <1>1, <1>2 DEF Recovered
<1>6. CountTypes' /\ ProcessTypes' /\ WriteNumbers'
  BY <1>0 DEF DbInv, CountTypes, ProcessTypes, WriteNumbers
<1>7. BeforeInv'
  BY <1>0, <1>1, <1>2 DEF DbInv, BeforeInv, StartInv, CreateInv, RepairInv, Blank
<1>8. WorkInv' /\ OpeningInv' /\ UpInv'
  BY <1>0, <1>1, NotWorking
<1> QED BY <1>4, <1>5, <1>6, <1>7, <1>8 DEF DbInv

\* The edit a repair ends with.
LEMMA RepairEdit ==
  ASSUME DbInv, stage \in {"manifest", "point"}
  PROVE  /\ edit \in Edits /\ edit.meta \in Metas /\ edit.added = DOMAIN tables
         /\ edit.meta.log < edit.meta.next /\ \A n \in edit.added : n < edit.meta.next
         /\ Upto(TableBatches(tables, edit.added), edit.meta.last) /\ edit.meta.last <= writes
         /\ 1 <= edit.meta.next
         /\ TableBatches(tables, edit.added) = OnDisk /\ DOMAIN logs = {}
         /\ ~Readable(current) => Excused /\ (1 = edit.meta.next => Harmless)
<1>1. /\ phase = "repair" /\ current # 0
      /\ \A n \in DOMAIN tables : n < nextFile
      /\ nextFile \in Nat \ {0}
  BY RepairPhase
<1>2. /\ DOMAIN logs = {} /\ edit.added = DOMAIN tables /\ edit.deleted = {}
      /\ edit.meta # Nil /\ edit.meta.log = 0 /\ edit.meta.next = nextFile
      /\ edit.meta.last <= writes
      /\ Upto(TableBatches(tables, DOMAIN tables), edit.meta.last)
  BY <1>1 DEF DbInv, BeforeInv, RepairInv
<1>3. edit \in Edits /\ edit.meta \in Metas
  BY <1>2 DEF DbInv, ProcessTypes, Edits
<1>4. TableBatches(tables, edit.added) = OnDisk
  <2>1. LogBatches(logs, DOMAIN logs) = {}
    BY <1>2 DEF LogBatches
  <2> QED BY <2>1, <1>2 DEF OnDisk, Disk
<1>5. ASSUME ~Readable(current) PROVE Excused /\ (1 = edit.meta.next => Harmless)
  <2>1. Excused
    BY <1>1, <1>5 DEF DbInv, StoredInv, DiskInv
  <2>2. ASSUME 1 = edit.meta.next PROVE Harmless
    <3>1. DOMAIN tables = {}
      <4>1. DOMAIN tables \subseteq Nat \ {0}
        BY DEF DbInv, StoredInv, DiskTypes, Bounded
      <4> QED BY <4>1, <1>1, <1>2, <2>2
    <3>2. OnDisk = {} BY <3>1, <1>2, <1>4, TableFacts
    <3> QED BY <3>2, <2>1 DEF Excused, Harmless
  <2> QED BY <2>1, <2>2
<1>6. 1 <= nextFile /\ 0 < nextFile
  BY <1>1
<1> QED BY <1>1, <1>2, <1>3, <1>4, <1>5, <1>6

\* WriteDescriptor renames the new manifest to number 1.
LEMMA InstallManifestStep ==
  ASSUME DbInv, InstallManifest
  PROVE  DbInv' /\ (setup.damage \/ Recovered' = Recovered)
<1> DEFINE f == Appended(EmptyFile, edit)
<1>0. /\ stage = "manifest" /\ stage' = "point"
      /\ manifests' = Put(manifests, 1, f) /\ temps' = temps \ {1}
      /\ UNCHANGED <<logs, tables, current, phase, save, toReplay, version, logNumber, last,
                     manifestFile, descriptor, mem, imm, logFile, setup, writes, opens, merges, faults,
                     pinned, nextFile, pending, edit, merge, writing, error, acked, synced>>
  BY DEF InstallManifest, openVars, setVars, memVars, counts
<1>1. phase = "repair" /\ ~Readable(current) /\ current # 0
  BY <1>0, RepairPhase DEF DbInv, BeforeInv, RepairInv
<1>2. /\ edit \in Edits /\ edit.meta \in Metas /\ edit.added = DOMAIN tables
      /\ edit.meta.log < edit.meta.next /\ \A n \in edit.added : n < edit.meta.next
      /\ Upto(TableBatches(tables, edit.added), edit.meta.last) /\ edit.meta.last <= writes
      /\ 1 <= edit.meta.next
      /\ TableBatches(tables, edit.added) = OnDisk
      /\ Excused /\ (1 = edit.meta.next => Harmless)
  BY <1>0, <1>1, RepairEdit
<1>3. IsFile(f, Edits) /\ f.records = <<edit>> /\ f.end = "whole"
  <2>1. IsFile(f, Edits) /\ f.records = Append(<< >>, edit) /\ f.end = "whole"
    <3>1. IsFile(EmptyFile, Edits) /\ EmptyFile.end = "whole" /\ EmptyFile.records = << >>
      BY EmptyFileFacts
    <3>2. edit \in Edits BY <1>2
    <3> QED BY <3>1, <3>2, AppendedFacts
  <2> QED BY <2>1
<1> HIDE DEF f
<1>4. DOMAIN manifests' = DOMAIN manifests \union {1} /\ manifests'[1] = f
      /\ \A n \in DOMAIN manifests : n # 1 => manifests'[n] = manifests[n]
  BY <1>0 DEF Put
<1>5. /\ DOMAIN manifests' \subseteq Nat \ {0}
      /\ \A n \in DOMAIN manifests' :
           /\ IsFile(manifests'[n], Edits) /\ manifests'[n].end # "buried"
           /\ setup.crash = "never" => manifests'[n].end \in {"whole", "bad"}
  BY <1>3, <1>4 DEF DbInv, StoredInv, DiskTypes, DiskInv
<1>6. StoredInv /\ Bounded(temps') /\ UNCHANGED <<logs, tables, current, setup, synced, writes>>
  BY <1>0, BoundedFacts DEF DbInv, StoredInv, DiskTypes
<1>7. /\ StoredInv' /\ (setup.damage \/ Recovered' = Recovered)
      /\ Readable(current)' => current = 1
  <2>1. CASE current = 1
    <3>1. /\ current' \in DOMAIN manifests' /\ manifests'[current'].end = "whole"
          /\ manifests'[current'].records = <<edit>> /\ current' <= edit.meta.next
          /\ (current' = edit.meta.next => Harmless) /\ edit.added \subseteq DOMAIN tables
      BY <2>1, <1>2, <1>3, <1>4, <1>6
    <3> HIDE DEF StoredInv
    <3> QED BY <2>1, <3>1, <1>1, <1>2, <1>5, <1>6, FirstReport
  <2>2. CASE current # 1
    <3>1. /\ current \in DOMAIN manifests' <=> current \in DOMAIN manifests
          /\ current \in DOMAIN manifests => manifests'[current] = manifests[current]
      BY <2>2, <1>4
    <3> HIDE DEF StoredInv
    <3> QED BY <3>1, <1>1, <1>5, <1>6, OtherManifests
  <2> QED BY <2>1, <2>2
<1>8. CountTypes' /\ ProcessTypes' /\ WriteNumbers'
  BY <1>0 DEF DbInv, CountTypes, ProcessTypes, WriteNumbers
<1>9. BeforeInv'
  <2>1. /\ Blank' /\ \A n \in DOMAIN tables' : n < nextFile'
        /\ DOMAIN logs' = {} /\ edit'.added = DOMAIN tables' /\ edit'.deleted = {}
        /\ edit'.meta # Nil /\ edit'.meta.log = 0 /\ edit'.meta.next = nextFile'
        /\ edit'.meta.last <= writes'
        /\ Upto(TableBatches(tables', DOMAIN tables'), edit'.meta.last)
    BY <1>0, <1>1 DEF DbInv, BeforeInv, RepairInv, Blank
  <2>2. 1 \in DOMAIN manifests' /\ manifests'[1].end = "whole" /\ manifests'[1].records = <<edit'>>
    BY <1>0, <1>3, <1>4
  <2> QED BY <2>1, <2>2, <1>0, <1>1, <1>7 DEF BeforeInv, StartInv, CreateInv, RepairInv
<1>10. WorkInv' /\ OpeningInv' /\ UpInv'
  BY <1>0, <1>1, NotWorking
<1> QED BY <1>7, <1>8, <1>9, <1>10 DEF DbInv

\* The repair ends: CURRENT names manifest 1, and every synced write is found.
LEMMA PointCurrentStep ==
  ASSUME DbInv, PointCurrent
  PROVE  DbInv' /\ (setup.damage \/ Recovered' = Recovered) /\ synced \subseteq Recovered'
<1>0. /\ stage = "point" /\ current' = 1 /\ phase' = "down" /\ Forget
      /\ UNCHANGED <<logs, manifests, tables, temps, setup, writes, opens, merges, faults, acked, synced>>
  BY DEF PointCurrent, counts
<1>1. /\ phase = "repair" /\ current # 0 /\ (Readable(current) => current = 1)
      /\ 1 \in DOMAIN manifests /\ manifests[1].end = "whole" /\ manifests[1].records = <<edit>>
  BY <1>0, RepairPhase DEF DbInv, BeforeInv, RepairInv
<1>2. /\ edit \in Edits /\ edit.meta \in Metas /\ edit.added = DOMAIN tables
      /\ edit.meta.log < edit.meta.next /\ \A n \in edit.added : n < edit.meta.next
      /\ Upto(TableBatches(tables, edit.added), edit.meta.last) /\ edit.meta.last <= writes
      /\ 1 <= edit.meta.next
      /\ TableBatches(tables, edit.added) = OnDisk
      /\ ~Readable(current) => Excused /\ (1 = edit.meta.next => Harmless)
  BY <1>0, RepairEdit
<1>3. /\ StoredInv' /\ Readable(current)' /\ (setup.damage \/ Recovered' = Recovered)
  <2>1. CASE Readable(current)
    <3>1. UNCHANGED <<logs, manifests, tables, current, setup, synced, writes, temps>> /\ StoredInv
      BY <2>1, <1>0, <1>1 DEF DbInv
    <3> QED BY <2>1, <3>1, SameDisk
  <2>2. CASE ~Readable(current)
    <3>1. /\ DOMAIN manifests' \subseteq Nat \ {0}
          /\ \A n \in DOMAIN manifests' :
               /\ IsFile(manifests'[n], Edits) /\ manifests'[n].end # "buried"
               /\ setup.crash = "never" => manifests'[n].end \in {"whole", "bad"}
      BY <1>0 DEF DbInv, StoredInv, DiskTypes, DiskInv
    <3>2. StoredInv /\ Bounded(temps') /\ UNCHANGED <<logs, tables, setup, synced, writes>>
      BY <1>0 DEF DbInv, StoredInv, DiskTypes
    <3>3. /\ current' \in DOMAIN manifests' /\ manifests'[current'].end = "whole"
          /\ manifests'[current'].records = <<edit>> /\ current' <= edit.meta.next
          /\ (current' = edit.meta.next => Harmless) /\ edit.added \subseteq DOMAIN tables
      BY <2>2, <1>0, <1>1, <1>2
    <3> HIDE DEF StoredInv
    <3> QED BY <2>2, <3>1, <3>2, <3>3, <1>2, FirstReport
  <2> QED BY <2>1, <2>2
<1>4. CountTypes'
  BY <1>0 DEF DbInv, CountTypes
<1>5. ProcessTypes' /\ WriteNumbers' /\ BeforeInv' /\ WorkInv' /\ OpeningInv' /\ UpInv'
  BY <1>0, Forgotten DEF DbInv
<1>6. synced \subseteq Recovered'
  <2>1. synced' \subseteq FoundBy(tables', logs', Report')
    BY <1>3 DEF StoredInv, ManifestInv
  <2>2. (Recovered = IF Readable(current) THEN FoundBy(tables, logs, Report) ELSE {})'
    BY FoundIsFoundBy, PTL
  <2> QED BY <2>1, <2>2, <1>0, <1>3
<1> QED BY <1>3, <1>4, <1>5, <1>6 DEF DbInv

------------------------
(* The machine stops. *)

\* What a stop of the machine leaves of a file that is not damaged is not damaged.
LEMMA RemainsEnd ==
  ASSUME NEW S, NEW f, IsFile(f, S), NEW g \in Remains(f), f.end # "bad"
  PROVE  g.end # "bad"
<1>1. CASE g = [f EXCEPT !.synced = Len(f.records)]
  BY <1>1 DEF IsFile
<1>2. CASE \E k, e : e \in {"whole", "torn"} /\ g = [records |-> SubSeq(f.records, 1, k), synced |-> k, end |-> e]
  BY <1>2
<1> QED BY <1>1, <1>2 DEF Remains

\* The machine stops: without damage every synced write is still found, and nothing that
\* was not found before.
LEMMA MachineCrashStep ==
  ASSUME DbInv, MachineCrash
  PROVE  /\ DbInv'
         /\ setup.damage \/ (synced \subseteq Recovered' /\ Recovered' \subseteq Recovered)
<1>0. /\ logs' \in Outcomes(logs) /\ manifests' \in Outcomes(manifests)
      /\ phase' = "down" /\ Forget /\ acked' = synced /\ setup.crash # "never"
      /\ UNCHANGED <<tables, current, temps, setup, writes, opens, merges, faults, synced>>
  BY DEF MachineCrash, counts
<1>1. /\ DOMAIN logs' = DOMAIN logs /\ \A n \in DOMAIN logs : logs'[n] \in Remains(logs[n])
      /\ DOMAIN manifests' = DOMAIN manifests
      /\ \A n \in DOMAIN manifests : manifests'[n] \in Remains(manifests[n])
  BY <1>0 DEF Outcomes
<1>2. \A n \in DOMAIN logs :
        /\ IsFile(logs'[n], Batches)
        /\ ToSet(logs'[n].records) \subseteq ToSet(logs[n].records)
        /\ SyncedPart(logs[n]) \subseteq SyncedPart(logs'[n])
  BY <1>1, RemainsFacts DEF DbInv, StoredInv, DiskTypes
<1>3. \A n \in DOMAIN manifests :
        /\ IsFile(manifests'[n], Edits) /\ manifests'[n].end # "buried"
        /\ manifests[n].end = "bad" => manifests'[n].end = "bad"
        /\ manifests[n].end # "bad" => manifests'[n].end # "bad"
  <2> SUFFICES ASSUME NEW n \in DOMAIN manifests
               PROVE  /\ IsFile(manifests'[n], Edits) /\ manifests'[n].end # "buried"
                      /\ manifests[n].end = "bad" => manifests'[n].end = "bad"
                      /\ manifests[n].end # "bad" => manifests'[n].end # "bad"
    OBVIOUS
  <2>1. IsFile(manifests[n], Edits) /\ manifests[n].end # "buried" /\ manifests'[n] \in Remains(manifests[n])
    BY <1>1 DEF DbInv, StoredInv, DiskTypes, DiskInv
  <2>2. IsFile(manifests'[n], Edits) /\ manifests'[n].end # "buried"
        /\ (manifests[n].end = "bad" => manifests'[n].end = "bad")
    BY <2>1, RemainsFacts
  <2>3. manifests[n].end # "bad" => manifests'[n].end # "bad"
    BY <2>1, RemainsEnd
  <2> QED BY <2>2, <2>3
<1>4. \A ns : /\ LogBatches(logs', ns) \subseteq LogBatches(logs, ns)
              /\ SyncedBatches(logs, ns) \subseteq SyncedBatches(logs', ns)
  BY <1>1, <1>2 DEF LogBatches, SyncedBatches
<1>5. \A l : From(logs', l) = From(logs, l)
  BY <1>1 DEF From
<1>6. \A r : /\ FoundBy(tables, logs', r) \subseteq FoundBy(tables, logs, r)
             /\ KeptBy(tables, logs, r) \subseteq KeptBy(tables, logs', r)
             /\ KeptBy(tables, logs', r) \subseteq FoundBy(tables, logs', r)
  <2>1. \A ns : SyncedBatches(logs', ns) \subseteq LogBatches(logs', ns)
    BY <1>1, <1>2, SyncedIsLogged
  <2> QED BY <2>1, <1>4, <1>5 DEF FoundBy, KeptBy
<1>7. /\ Lasting(tables, logs, setup.crash) \subseteq Lasting(tables, logs', setup.crash)
      /\ Disk(tables, logs') \subseteq Disk(tables, logs)
  BY <1>0, <1>1, <1>4 DEF Lasting, Disk
<1>8. OnDisk' \subseteq OnDisk
  BY <1>0, <1>7 DEF OnDisk
<1>9. (Harmless => Harmless') /\ (Excused => Excused')
  BY <1>0, <1>8 DEF Harmless, Excused
<1>10. DiskTypes'
  BY <1>0, <1>1, <1>2, <1>3 DEF DbInv, StoredInv, DiskTypes
<1>11. BatchNumbers'
  BY <1>0, <1>8 DEF DbInv, StoredInv, BatchNumbers, Upto
<1>12. ASSUME Readable(current)
       PROVE  /\ Report' \in Possible /\ Possible' = {Report'}
              /\ synced \subseteq KeptBy(tables, logs, Report)
              /\ Readable(current)' <=> Report'.meta # Nil
  <2>1. /\ current \in DOMAIN manifests /\ IsFile(manifests[current], Edits) /\ Sensible(Report)
        /\ manifests[current].end \notin {"buried", "bad"}
    BY <1>12, ReportIsSensible DEF DbInv, Readable
  <2>2. manifests'[current] \in Remains(manifests[current])
    BY <2>1, <1>1
  <2>3. /\ Reports(manifests'[current], setup.crash) = {Said(manifests'[current].records)}
        /\ Said(manifests'[current].records) \in Reports(manifests[current], setup.crash)
    BY <2>1, <2>2, <1>0, ReportsRemain
  <2>4. Report' \in Possible /\ Possible' = {Report'}
    BY <2>3, <1>0 DEF Report, Possible
  <2>5. synced \subseteq KeptBy(tables, logs, Report)
    BY <2>1, <1>0 DEF Sensible
  <2>6. Readable(current)' <=> Report'.meta # Nil
    <3>1. current' \in DOMAIN manifests' /\ manifests'[current'].end \notin {"buried", "bad"}
      BY <2>1, <1>0, <1>1, <1>3
    <3>2. Report'.meta = MetaOf(manifests'[current'].records) BY DEF Report, Said
    <3> QED BY <3>1, <3>2 DEF Readable
  <2> QED BY <2>4, <2>5, <2>6
<1>13. Readable(current)' => Readable(current)
  <2> SUFFICES ASSUME Readable(current)' PROVE Readable(current) OBVIOUS
  <2>1. /\ current \in DOMAIN manifests /\ manifests'[current].end \notin {"buried", "bad"}
        /\ Said(manifests'[current].records).meta # Nil
    BY <1>0, <1>1 DEF Readable, Said
  <2>2. IsFile(manifests[current], Edits) /\ manifests[current].end \notin {"buried", "bad"}
        /\ manifests'[current] \in Remains(manifests[current])
    BY <2>1, <1>1, <1>3 DEF DbInv, StoredInv, DiskTypes, DiskInv
  <2>3. Said(manifests'[current].records) \in Reports(manifests[current], setup.crash)
    BY <2>2, <1>0, ReportsRemain
  <2>4. Said(manifests[current].records).meta # Nil
    BY <2>1, <2>2, <2>3, ReportsType
  <2> QED BY <2>1, <2>2, <2>4 DEF Readable, Said
<1>14. ASSUME Readable(current)'
       PROVE  /\ Sensible(Report)' /\ synced \subseteq FoundBy(tables, logs', Report')
              /\ FoundBy(tables, logs', Report') \subseteq FoundBy(tables, logs, Report)
  <2>1. Report' \in Possible /\ Report'.meta # Nil
    BY <1>12, <1>13, <1>14
  <2> DEFINE r == Report'
  <2>2. Sensible(r)
    BY <2>1, <1>13, <1>14 DEF DbInv, StoredInv, ManifestInv
  <2>3. r.meta.next <= r.meta.next
    BY <2>1, <1>13, <1>14, ReadableFacts DEF DbInv, StoredInv, Metas
  <2>4. /\ r.files \subseteq DOMAIN tables
        /\ r.meta.log < r.meta.next /\ \A n \in r.files : n < r.meta.next
        /\ Upto(TableBatches(tables, r.files), r.meta.last) /\ r.meta.last <= writes
        /\ current <= r.meta.next /\ (current = r.meta.next => Harmless)
        /\ FoundBy(tables, logs, r) = FoundBy(tables, logs, Report)
        /\ synced \subseteq KeptBy(tables, logs, r)
    BY <2>2, <1>0 DEF Sensible
  <2>5. synced \subseteq KeptBy(tables, logs', r)
    BY <2>4, <1>6
  <2>6. Sensible(Report)'
    BY <2>3, <2>4, <2>5, <1>0, <1>9 DEF Sensible
  <2> QED BY <2>4, <2>5, <2>6, <1>6
<1>15. ManifestInv'
  <2> SUFFICES ASSUME Readable(current)'
               PROVE  /\ \A r \in Possible' : IF r.meta = Nil THEN Excused' ELSE Sensible(r)'
                      /\ synced' \subseteq FoundBy(tables', logs', Report')
    BY DEF ManifestInv
  <2>1. Possible' = {Report'} /\ Report'.meta # Nil
    BY <1>12, <1>13
  <2>2. ASSUME NEW r \in Possible' PROVE Sensible(r)'
    BY <2>1, <1>14 DEF Sensible
  <2> QED BY <2>1, <2>2, <1>0, <1>14
<1>16. DiskInv'
  <2>1. \A n \in DOMAIN manifests' : manifests'[n].end # "buried"
    BY <1>1, <1>3
  <2>2. ~Readable(current)' => synced \subseteq Lasting(tables, logs', setup.crash)
    <3>1. CASE Readable(current)
      <4>1. KeptBy(tables, logs, Report) \subseteq Lasting(tables, logs, setup.crash)
        BY FoundIsOnDisk DEF DbInv, StoredInv, DiskTypes
      <4> QED BY <3>1, <4>1, <1>7, <1>12
    <3>2. CASE ~Readable(current)
      BY <3>2, <1>7 DEF DbInv, StoredInv, DiskInv
    <3> QED BY <3>1, <3>2
  <2>3. ~Readable(current)' /\ current # 0 => Excused'
    <3>1. CASE Readable(current)
      BY <3>1, <1>9, <1>12 DEF DbInv, StoredInv, ManifestInv
    <3>2. CASE ~Readable(current)
      BY <3>2, <1>9 DEF DbInv, StoredInv, DiskInv
    <3> QED BY <3>1, <3>2
  <2>4. current = 0 => OnDisk' = {}
    BY <1>8 DEF DbInv, StoredInv, DiskInv
  <2> QED BY <2>1, <2>2, <2>3, <2>4, <1>0 DEF DiskInv
<1>17. CountTypes'
  BY <1>0 DEF DbInv, CountTypes
<1>18. ProcessTypes' /\ WriteNumbers' /\ BeforeInv' /\ WorkInv' /\ OpeningInv' /\ UpInv'
  BY <1>0, Forgotten DEF DbInv
<1>19. setup.damage \/ (synced \subseteq Recovered' /\ Recovered' \subseteq Recovered)
  <2>1. Recovered = IF Readable(current) THEN FoundBy(tables, logs, Report) ELSE {}
    BY FoundIsFoundBy
  <2>2. (Recovered = IF Readable(current) THEN FoundBy(tables, logs, Report) ELSE {})'
    BY FoundIsFoundBy, PTL
  <2>3. CASE Readable(current)'
    BY <2>1, <2>2, <2>3, <1>0, <1>13, <1>14
  <2>4. CASE ~Readable(current)'
    <3>1. synced \subseteq OnDisk'
      <4>1. (\A c : Lasting(tables, logs, c) \subseteq Disk(tables, logs))'
        <5>1. \A n \in DOMAIN logs' : IsFile(logs'[n], Batches) BY <1>1, <1>2
        <5> QED BY <5>1, FoundIsOnDisk
      <4> QED BY <4>1, <2>4, <1>0, <1>16 DEF DiskInv, OnDisk
    <3>2. setup.damage \/ OnDisk' = {}
      BY <2>4, <1>0, <1>16 DEF DiskInv, Excused, Harmless
    <3> QED BY <2>2, <2>4, <3>1, <3>2
  <2> QED BY <2>3, <2>4
<1> QED BY <1>10, <1>11, <1>15, <1>16, <1>17, <1>18, <1>19 DEF DbInv, StoredInv

------------------------
(* Writes. *)

\* What is known of a database that is open.
LEMMA UpFacts ==
  ASSUME DbInv, phase = "up"
  PROVE  /\ Readable(current) /\ Working /\ descriptor = TRUE
         /\ manifestFile = current /\ manifests[current].end = "whole" /\ logFile # 0
         /\ current \in Nat \ {0} /\ logFile \in Nat /\ nextFile \in Nat \ {0} /\ logNumber \in Nat
         /\ last \in Nat /\ writes \in Nat /\ last \in 0 .. MaxWrites /\ last <= writes
         /\ logFile \in DOMAIN logs /\ logs[logFile].end = "whole" /\ IsFile(logs[logFile], Batches)
         /\ \A n \in From(logs, logNumber) : n <= logFile
         /\ DOMAIN logs \subseteq Nat /\ logNumber <= logFile /\ logFile < nextFile /\ logNumber < nextFile
         /\ \A r \in Possible : /\ r.meta # Nil /\ r.meta.log <= logFile /\ r.meta.log \in Nat
                                /\ r.meta \in Metas /\ Sensible(r) /\ logFile \in From(logs, r.meta.log)
                                /\ setup.crash # "never" => current < r.meta.next
         /\ Report \in Possible
         /\ error \in BOOLEAN /\ opens \in 1..MaxOpens
         /\ synced \subseteq FoundBy(tables, logs, Report)
         /\ StoredInv
<1>1. Readable(current) /\ Working /\ logNumber < nextFile
  BY DEF DbInv, WorkInv, AgreeInv, Working
<1>2. /\ current \in Nat \ {0} /\ logFile \in Nat /\ nextFile \in Nat \ {0} /\ logNumber \in Nat
      /\ last \in Nat /\ writes \in Nat /\ last \in 0 .. MaxWrites /\ last <= writes
      /\ error \in BOOLEAN /\ opens \in 1 .. MaxOpens /\ descriptor \in BOOLEAN
      /\ DOMAIN logs \subseteq Nat
  <2>1. current \in Nat \ {0} /\ DOMAIN logs \subseteq Nat
    BY <1>1, ReportIsSensible DEF DbInv, StoredInv, DiskTypes, Bounded
  <2>2. opens \in 1..MaxOpens
    BY RecoveryAssumption DEF DbInv, CountTypes, WriteNumbers
  <2> QED BY <2>1, <2>2, RecoveryAssumption DEF DbInv, ProcessTypes, CountTypes, WriteNumbers
<1>3. logFile # 0 /\ descriptor = TRUE
  BY <1>2 DEF DbInv, UpInv, UpLogs
<1>4. manifestFile = current /\ manifests[current].end = "whole"
  BY <1>1, <1>3 DEF DbInv, WorkInv, DescriptorInv
<1>5. /\ logFile \in DOMAIN logs /\ logs[logFile].end = "whole" /\ IsFile(logs[logFile], Batches)
      /\ \A n \in From(logs, logNumber) : n <= logFile
      /\ logNumber <= logFile /\ logFile < nextFile
  BY <1>1, <1>3 DEF DbInv, WorkInv, LogInv, StoredInv, DiskTypes
<1>6. \A r \in Possible : /\ r.meta # Nil /\ r.meta.log <= logFile /\ r.meta.log \in Nat
                          /\ r.meta \in Metas /\ Sensible(r) /\ logFile \in From(logs, r.meta.log)
                          /\ setup.crash # "never" => current < r.meta.next
  <2> SUFFICES ASSUME NEW r \in Possible
               PROVE  /\ r.meta # Nil /\ r.meta.log <= logFile /\ r.meta.log \in Nat
                      /\ r.meta \in Metas /\ Sensible(r) /\ logFile \in From(logs, r.meta.log)
                      /\ setup.crash # "never" => current < r.meta.next
    OBVIOUS
  <2>1. r.meta # Nil /\ r.meta.log <= logFile /\ (setup.crash # "never" => current < r.meta.next)
    BY DEF DbInv, UpInv, UpManifest
  <2>2. Sensible(r)
    BY <2>1, <1>1 DEF DbInv, StoredInv, ManifestInv
  <2>3. r.meta \in Metas
    BY <2>1, <1>1, ReadableFacts DEF DbInv, StoredInv
  <2>4. r.meta.log \in Nat
    BY <2>3 DEF Metas
  <2>5. logFile \in From(logs, r.meta.log)
    BY <2>1, <2>4, <1>2, <1>5 DEF From
  <2> QED BY <2>1, <2>2, <2>3, <2>4, <2>5
<1>7. Report \in Possible /\ StoredInv /\ synced \subseteq FoundBy(tables, logs, Report)
  BY <1>1, ReadableFacts DEF DbInv, StoredInv, ManifestInv
<1> QED BY <1>1, <1>2, <1>3, <1>4, <1>5, <1>6, <1>7

\* Write appends a batch to the log: it is found from here on, and its number is new.
LEMMA AddRecordStep ==
  ASSUME DbInv, NEW sync \in BOOLEAN, AddRecord(sync)
  PROVE  DbInv' /\ \E b \in Batches : b \notin Recovered /\ Recovered' = Recovered \union {b}
<1> DEFINE b == <<last + 1, opens>>
<1>0. /\ phase = "up" /\ stage # "clean" /\ ~error /\ writing = Nil /\ writes < MaxWrites
      /\ logs' = [logs EXCEPT ![logFile] = Appended(@, b)]
      /\ writing' = [batch |-> b, sync |-> sync] /\ writes' = writes + 1
      /\ UNCHANGED <<manifests, tables, current, temps, phase, save, toReplay, version, logNumber, last,
                     manifestFile, descriptor, mem, imm, logFile, setup, opens, merges, faults, stage,
                     pinned, nextFile, pending, edit, merge, error, acked, synced>>
  BY DEF AddRecord, Running, openVars, setVars, memVars
<1>1. /\ Readable(current) /\ Working /\ descriptor = TRUE
      /\ manifestFile = current /\ manifests[current].end = "whole" /\ logFile # 0
      /\ last \in Nat /\ writes \in Nat /\ last \in 0 .. MaxWrites /\ last <= writes
      /\ logFile \in DOMAIN logs /\ logs[logFile].end = "whole"
      /\ \A r \in Possible : /\ r.meta # Nil /\ r.meta \in Metas /\ Sensible(r)
                             /\ logFile \in From(logs, r.meta.log)
                             /\ setup.crash # "never" => current < r.meta.next
      /\ Report \in Possible /\ opens \in 1..MaxOpens
      /\ synced \subseteq FoundBy(tables, logs, Report) /\ StoredInv
  BY <1>0, UpFacts
<1>2. b \in Batches /\ b[1] = last + 1 /\ b[1] \in Nat
  BY <1>0, <1>1, RecoveryAssumption DEF Batches
<1>3. writing' \in Writings /\ writing' # Nil /\ W = {} /\ W' = {b}
  <2>1. writing' \in Writings
    BY <1>0, <1>2 DEF Writings
  <2> QED BY <2>1, <1>0, NilIsNoMeta DEF W
<1> HIDE DEF b
<1>4. /\ DOMAIN logs' = DOMAIN logs /\ \A l : From(logs', l) = From(logs, l)
      /\ \A m \in DOMAIN logs : IsFile(logs'[m], Batches) /\ logs'[m].end = logs[m].end
      /\ \A ns : LogBatches(logs', ns) = LogBatches(logs, ns) \union (IF logFile \in ns THEN {b} ELSE {})
      /\ \A ns : SyncedBatches(logs', ns) = SyncedBatches(logs, ns)
  <2>1. /\ \A m \in DOMAIN logs : IsFile(logs[m], Batches)
        /\ logFile \in DOMAIN logs /\ logs[logFile].end = "whole" /\ b \in Batches
        /\ DOMAIN logs' = DOMAIN logs /\ \A m \in DOMAIN logs : m # logFile => logs'[m] = logs[m]
        /\ logs'[logFile] = Appended(logs[logFile], b)
    BY <1>0, <1>1, <1>2 DEF StoredInv, DiskTypes
  <2> QED BY <2>1, LoggedBatch
<1>5. /\ OnDisk' = OnDisk \union {b}
      /\ \A r \in Possible : /\ FoundBy(tables, logs', r) = FoundBy(tables, logs, r) \union {b}
                             /\ KeptBy(tables, logs', r) = KeptBy(tables, logs, r)
  <2>1. OnDisk' = OnDisk \union {b}
    BY <1>0, <1>1, <1>4 DEF OnDisk, Disk
  <2> QED BY <2>1, <1>1, <1>4 DEF FoundBy, KeptBy
<1>6. Upto(OnDisk, last) /\ b \notin OnDisk
  <2>1. Upto(OnDisk, last)
    BY <1>0, <1>1, <1>3 DEF DbInv, UpInv, UpLast
  <2> QED BY <2>1, <1>1, <1>2 DEF Upto
<1>7. /\ Report' = Report /\ Possible' = Possible /\ Readable(current)'
  BY <1>0, <1>1 DEF Report, Possible, Readable
<1>8. StoredInv'
  <2>1. DiskTypes'
    BY <1>0, <1>1, <1>4 DEF StoredInv, DiskTypes
  <2>2. BatchNumbers'
    <3>1. \A a \in OnDisk : a[1] \in Nat /\ a[1] <= last /\ a[1] # last + 1
      BY <1>1, <1>6, OnDiskIsBatches DEF Upto
    <3>2. Upto(OnDisk', writes') BY <3>1, <1>0, <1>1, <1>2, <1>5 DEF Upto
    <3>3. \A a, c \in OnDisk' : a[1] = c[1] => a = c
      BY <3>1, <1>1, <1>2, <1>5 DEF StoredInv, BatchNumbers
    <3> QED BY <3>2, <3>3 DEF BatchNumbers
  <2>3. ASSUME NEW r \in Possible PROVE Sensible(r)'
    <3>1. /\ Sensible(r) /\ r.meta \in Metas /\ (setup.crash # "never" => current < r.meta.next)
          /\ FoundBy(tables, logs', r) = FoundBy(tables, logs, r) \union {b}
          /\ KeptBy(tables, logs', r) = KeptBy(tables, logs, r)
          /\ FoundBy(tables, logs', Report) = FoundBy(tables, logs, Report) \union {b}
      BY <1>1, <1>5
    <3>2. current = r.meta.next => Harmless'
      <4>1. setup.crash # "never" => current # r.meta.next
        BY <3>1, <1>1, ReportIsSensible DEF Metas
      <4>2. setup.crash = "never" /\ current = r.meta.next => setup.damage
        BY <3>1 DEF Sensible, Harmless
      <4> QED BY <4>1, <4>2, <1>0 DEF Harmless
    <3>3. r.meta.last <= writes' BY <3>1, <1>0, <1>1 DEF Sensible, Metas
    <3> QED BY <3>1, <3>2, <3>3, <1>0, <1>7 DEF Sensible
  <2>4. ManifestInv'
    BY <2>3, <1>0, <1>1, <1>5, <1>7 DEF ManifestInv
  <2>5. DiskInv'
    BY <1>0, <1>1, <1>4, <1>7, ReportIsSensible DEF DiskInv, StoredInv
  <2> QED BY <2>1, <2>2, <2>4, <2>5 DEF StoredInv
<1>9. Recovered' = Recovered \union {b} /\ b \notin Recovered
  <2>1. (Recovered = IF Readable(current) THEN FoundBy(tables, logs, Report) ELSE {})'
    BY FoundIsFoundBy, PTL
  <2>2. Recovered = FoundBy(tables, logs, Report)
    BY <1>1, FoundIsFoundBy
  <2>3. FoundBy(tables, logs, Report) \subseteq OnDisk
    BY FoundIsOnDisk DEF OnDisk, DbInv, StoredInv, DiskTypes
  <2>4. Recovered' = FoundBy(tables, logs', Report)
    BY <2>1, <1>0, <1>7
  <2> QED BY <2>2, <2>3, <2>4, <1>1, <1>5, <1>6
<1>10. CountTypes' /\ ProcessTypes' /\ WriteNumbers'
  <2>1. writes' \in 0..MaxWrites
    BY <1>0, <1>1, RecoveryAssumption
  <2>2. CountTypes'
    BY <2>1, <1>0 DEF DbInv, CountTypes
  <2>3. ProcessTypes'
    BY <1>0, <1>3 DEF DbInv, ProcessTypes
  <2>4. WriteNumbers'
    BY <1>0, <1>1 DEF WriteNumbers, b
  <2> QED BY <2>2, <2>3, <2>4
<1>11. BeforeInv' /\ OpeningInv'
  BY <1>0, NotStarting, NotOpening
<1>12. AgreeInv' /\ TablesInv'
  BY <1>0, <1>7 DEF DbInv, WorkInv, AgreeInv, TablesInv, Working, Overtaken, Written, Agrees, After
<1>13. LogInv' /\ DescriptorInv'
  BY <1>0, <1>1, <1>4 DEF DbInv, WorkInv, LogInv, DescriptorInv, Working
<1>14. UpLogs'
  <2>1. Older' = Older /\ LogBatches(logs', Older) = LogBatches(logs, Older)
    BY <1>0, <1>4 DEF Older
  <2>2. ToSet(logs'[logFile].records) = ToSet(logs[logFile].records) \union {b}
    <3>1. /\ LogBatches(logs, {logFile}) = ToSet(logs[logFile].records)
          /\ LogBatches(logs', {logFile}) = ToSet(logs'[logFile].records)
      BY <1>1, <1>4, LogFacts
    <3> QED BY <3>1, <1>4
  <2>3. /\ logFile # 0 /\ toReplay = {} /\ imm = LogBatches(logs, Older)
        /\ stage \in {"idle", "building", "append", "sync", "clean"}
        /\ mem = ToSet(logs[logFile].records)
    BY <1>0, <1>3 DEF DbInv, UpInv, UpLogs
  <2> QED BY <2>1, <2>2, <2>3, <1>0, <1>1, <1>3 DEF UpLogs
<1>15. UpLast'
  <2>1. OnDisk' \ W' \subseteq OnDisk
    BY <1>3, <1>5
  <2> QED BY <2>1, <1>0, <1>6 DEF DbInv, UpInv, UpLast, Upto
<1>16. UpTables' /\ UpMerge'
  BY <1>0 DEF DbInv, UpInv, UpTables, UpMerge
<1>17. UpManifest'
  <2>1. mem \union imm \union TableBatches(tables, version) \subseteq FoundBy(tables, logs', Report)
    BY <1>0, <1>1, <1>5 DEF DbInv, UpInv, UpManifest
  <2>2. Settled' = Settled
    BY <1>0 DEF Settled
  <2> QED BY <2>1, <2>2, <1>0, <1>7 DEF DbInv, UpInv, UpManifest
<1>18. UpEdit'
  <2>1. EditReady' = EditReady
    BY <1>0, <1>7 DEF EditReady
  <2> QED BY <2>1, <1>0 DEF DbInv, UpInv, UpEdit, IdleEdit, BuildingEdit, FlushEdit, MergeEdit
<1>19. DbInv'
  BY <1>8, <1>10, <1>11, <1>12, <1>13, <1>14, <1>15, <1>16, <1>17, <1>18 DEF DbInv, WorkInv, UpInv
<1> QED BY <1>2, <1>9, <1>19

\* The table that is being built.
LEMMA BuildingFacts ==
  ASSUME UpEdit, phase = "up", stage = "building"
  PROVE  /\ imm # {} /\ edit.deleted = {} /\ edit.meta = Nil
         /\ \E x \in pending :
              /\ edit = [NoEdit EXCEPT !.added = {x}] /\ edit.added = {x} /\ x \notin pinned
              /\ merge # Nil => x # merge.output
<1>1. imm # {}
  BY DEF UpEdit, BuildingEdit
<1>2. PICK x \in pending :
              /\ edit = [NoEdit EXCEPT !.added = {x}] /\ x \notin pinned
              /\ merge # Nil => x # merge.output
  BY DEF UpEdit, BuildingEdit
<1>3. edit.added = {x} /\ edit.deleted = {} /\ edit.meta = Nil
  BY <1>2 DEF NoEdit
<1> QED BY <1>1, <1>2, <1>3

\* The files stay, and so does what an open database knows of them.
LEMMA QuietStep ==
  ASSUME DbInv, phase = "up",
         UNCHANGED <<logs, manifests, tables, current, temps, setup, synced, acked, writes, opens, merges>>,
         UNCHANGED <<phase, stage, save, toReplay, version, logNumber, last, manifestFile, descriptor,
                     mem, imm, logFile, nextFile, pending, edit, merge>>,
         faults' \in Nat, pinned' \subseteq Nat \ {0},
         writing' = writing \/ writing' = Nil, error' = error \/ error' = TRUE,
         writing' # writing => error',
         UpTables', UpMerge', Upto(TableBatches(tables, pinned' \union pending), last),
         stage = "building" => edit.added \intersect pinned' = {}
  PROVE  DbInv' /\ Recovered' = Recovered
<1>1. /\ StoredInv' /\ Report' = Report /\ Possible' = Possible /\ OnDisk' = OnDisk
      /\ Recovered' = Recovered /\ Readable(current)' = Readable(current)
  BY SameDisk DEF DbInv
<1>2. error \in BOOLEAN /\ error' \in BOOLEAN /\ (error => error')
  BY DEF DbInv, ProcessTypes
<1>3. CountTypes' /\ ProcessTypes' /\ WriteNumbers'
  <2>1. CountTypes'
    BY DEF DbInv, CountTypes
  <2>2. ProcessTypes'
    BY <1>2 DEF DbInv, ProcessTypes
  <2>3. WriteNumbers'
    BY DEF DbInv, WriteNumbers
  <2> QED BY <2>1, <2>2, <2>3
<1>4. BeforeInv' /\ OpeningInv'
  BY NotStarting, NotOpening
<1>5. WorkInv'
  <2>1. AgreeInv'
    BY <1>1, <1>2 DEF DbInv, WorkInv, AgreeInv, Working, Overtaken, Written, Agrees, After
  <2>2. TablesInv'
    BY DEF DbInv, WorkInv, TablesInv, Working
  <2>3. LogInv'
    BY DEF DbInv, WorkInv, LogInv, Working, From
  <2>4. DescriptorInv'
    BY UpFacts DEF DescriptorInv, Working
  <2> QED BY <2>1, <2>2, <2>3, <2>4 DEF WorkInv
<1>6. UpLogs'
  <2>1. W' = W \/ (W' = {} /\ error')
    BY DEF W
  <2>2. Older' = Older
    BY DEF Older, From
  <2> QED BY <2>1, <2>2, <1>2 DEF DbInv, UpInv, UpLogs
<1>7. UpLast'
  <2>1. W' = W \/ error'
    BY DEF W
  <2> QED BY <2>1, <1>1, <1>2 DEF DbInv, UpInv, UpLast
<1>8. UpManifest'
  <2>1. Settled' = Settled
    BY DEF Settled
  <2> QED BY <2>1, <1>1, <1>2 DEF DbInv, UpInv, UpManifest
<1>9. UpEdit'
  <2>1. EditReady' = EditReady
    BY <1>1 DEF EditReady
  <2>2. UpEdit
    BY DEF DbInv, UpInv
  <2>3. BuildingEdit'
    BY <2>2, BuildingFacts DEF BuildingEdit
  <2>4. IdleEdit' /\ FlushEdit' /\ MergeEdit'
    BY <2>2 DEF UpEdit, IdleEdit, FlushEdit, MergeEdit
  <2> QED BY <2>1, <2>2, <2>3, <2>4 DEF UpEdit
<1> QED BY <1>1, <1>3, <1>4, <1>5, <1>6, <1>7, <1>8, <1>9 DEF DbInv, UpInv

\* The sync of the log fails: the database takes no more writes.
LEMMA LogSyncFailsStep ==
  ASSUME DbInv, LogSyncFails
  PROVE  DbInv' /\ Recovered' = Recovered
<1>1. /\ phase = "up" /\ faults' = faults + 1 /\ writing' = Nil /\ error' = TRUE
      /\ UNCHANGED <<logs, manifests, tables, current, temps, setup, synced, acked, writes, opens, merges,
                     phase, stage, save, toReplay, version, logNumber, last, manifestFile, descriptor,
                     mem, imm, logFile, nextFile, pending, edit, merge, pinned>>
  BY DEF LogSyncFails, Running, Fault, diskVars, openVars, setVars, memVars
<1>2. faults' \in Nat /\ pinned' \subseteq Nat \ {0}
  BY <1>1 DEF DbInv, CountTypes, ProcessTypes
<1>3. UpTables' /\ UpMerge' /\ Upto(TableBatches(tables, pinned' \union pending), last)
  BY <1>1 DEF DbInv, UpInv, UpTables, UpMerge, UpLast
<1>4. stage = "building" => edit.added \intersect pinned' = {}
  BY <1>1, BuildingFacts DEF DbInv, UpInv
<1> QED BY <1>1, <1>2, <1>3, <1>4, QuietStep

\* The append to the log fails and leaves nothing.
LEMMA AppendFailsStep ==
  ASSUME DbInv, \A s \in Setups : Sound(s), AppendFails
  PROVE  DbInv' /\ Recovered' = Recovered
<1>1. /\ phase = "up" /\ faults' = faults + 1 /\ logs' = logs
      /\ UNCHANGED <<manifests, tables, current, temps, setup, synced, acked, writes, opens, merges,
                     phase, stage, save, toReplay, version, logNumber, last, manifestFile, descriptor,
                     mem, imm, logFile, nextFile, pending, edit, merge, pinned, writing, error>>
  <2>1. setup.partial = FALSE
    BY SetupFacts DEF DbInv
  <2> QED BY <2>1 DEF AppendFails, Running, Fault, openVars, setVars, memVars
<1>2. faults' \in Nat /\ pinned' \subseteq Nat \ {0}
  BY <1>1 DEF DbInv, CountTypes, ProcessTypes
<1>3. UpTables' /\ UpMerge' /\ Upto(TableBatches(tables, pinned' \union pending), last)
  BY <1>1 DEF DbInv, UpInv, UpTables, UpMerge, UpLast
<1>4. stage = "building" => edit.added \intersect pinned' = {}
  BY <1>1, BuildingFacts DEF DbInv, UpInv
<1> QED BY <1>1, <1>2, <1>3, <1>4, QuietStep

\* An iterator takes hold of the version's tables, or lets go of them.
LEMMA PinStep ==
  ASSUME DbInv, Pin \/ Unpin
  PROVE  DbInv' /\ Recovered' = Recovered
<1>1. /\ phase = "up" /\ pinned' \in {version, {}}
      /\ UNCHANGED <<logs, manifests, tables, current, temps, setup, synced, acked, writes, opens, merges,
                     phase, stage, save, toReplay, version, logNumber, last, manifestFile, descriptor,
                     mem, imm, logFile, nextFile, pending, edit, merge, writing, error, faults>>
  BY DEF Pin, Unpin, Running, diskVars, openVars, setVars, memVars, counts
<1>2. faults' \in Nat /\ pinned' \subseteq Nat \ {0} /\ pinned' \subseteq version
  BY <1>1 DEF DbInv, CountTypes, ProcessTypes
<1>3. /\ version \subseteq DOMAIN tables /\ edit.added \intersect version = {}
      /\ \A n \in version : n < nextFile
      /\ Upto(TableBatches(tables, version), last)
  BY <1>1 DEF DbInv, WorkInv, TablesInv, Working
<1>4. UpTables' /\ UpMerge'
  BY <1>1, <1>2, <1>3 DEF DbInv, UpInv, UpTables, UpMerge
<1>5. Upto(TableBatches(tables, pinned' \union pending), last)
  <2>1. Upto(TableBatches(tables, pinned \union pending), last)
    BY <1>1 DEF DbInv, UpInv, UpLast
  <2>2. /\ TableBatches(tables, pinned' \union pending) =
             TableBatches(tables, pinned') \union TableBatches(tables, pending)
        /\ TableBatches(tables, pinned \union pending) =
             TableBatches(tables, pinned) \union TableBatches(tables, pending)
        /\ TableBatches(tables, pinned') \subseteq TableBatches(tables, version)
    BY <1>2, TableFacts
  <2> QED BY <2>1, <2>2, <1>3 DEF Upto
<1>6. stage = "building" => edit.added \intersect pinned' = {}
  BY <1>2, <1>3
<1> QED BY <1>1, <1>2, <1>4, <1>5, <1>6, QuietStep

\* Write inserts the batch and acknowledges it; if it was synced, it stays.
LEMMA InsertStep ==
  ASSUME DbInv, Insert
  PROVE  DbInv' /\ Recovered' = Recovered /\ acked' = acked \union {writing.batch}
         /\ synced' \in {synced, synced \union {writing.batch}} /\ writing.batch \in Recovered
<1> DEFINE b == writing.batch
<1>0. /\ phase = "up" /\ stage # "clean" /\ writing # Nil /\ writing' = Nil
      /\ logs' = (IF writing.sync THEN [logs EXCEPT ![logFile] = Synced(@)] ELSE logs)
      /\ mem' = mem \union {b} /\ last' = last + 1 /\ acked' = acked \union {b}
      /\ synced' = (IF writing.sync THEN synced \union {b} ELSE synced)
      /\ UNCHANGED <<manifests, tables, current, temps, phase, save, toReplay, version, logNumber,
                     manifestFile, descriptor, imm, logFile, setup, writes, opens, merges, faults, stage,
                     pinned, nextFile, pending, edit, merge, error>>
  BY DEF Insert, Running, openVars, counts
<1>1. /\ Readable(current) /\ Working /\ descriptor = TRUE
      /\ manifestFile = current /\ manifests[current].end = "whole" /\ logFile # 0
      /\ last \in Nat /\ writes \in Nat /\ last \in 0 .. MaxWrites /\ last <= writes
      /\ logFile \in DOMAIN logs /\ logs[logFile].end = "whole"
      /\ \A r \in Possible : /\ r.meta # Nil /\ r.meta \in Metas /\ Sensible(r)
                             /\ logFile \in From(logs, r.meta.log)
      /\ Report \in Possible /\ StoredInv /\ synced \subseteq FoundBy(tables, logs, Report)
  BY <1>0, UpFacts
<1>2. /\ b = <<last + 1, opens>> /\ b[1] = last + 1 /\ last + 1 <= writes /\ b \in Batches
      /\ last + 1 \in 0 .. MaxWrites /\ W = {b} /\ W' = {}
  <2>1. b = <<last + 1, opens>> /\ last + 1 <= writes
    BY <1>0 DEF DbInv, WriteNumbers
  <2>2. W = {b} /\ W' = {}
    BY <1>0 DEF W
  <2>3. writing \in Writings
    BY <1>0 DEF DbInv, ProcessTypes
  <2>4. b \in Batches
    BY <2>3 DEF Writings
  <2>5. writes <= MaxWrites
    BY <1>1 DEF DbInv, CountTypes
  <2> QED BY <2>1, <2>2, <2>4, <2>5, <1>1, RecoveryAssumption
<1> HIDE DEF b
<1>3. b \in ToSet(logs[logFile].records) /\ \A m \in DOMAIN logs : IsFile(logs[m], Batches)
  <2>1. b \in ToSet(logs[logFile].records)
    BY <1>0, <1>2 DEF DbInv, UpInv, UpLogs
  <2> QED BY <2>1, <1>1 DEF StoredInv, DiskTypes
<1>4. /\ DOMAIN logs' = DOMAIN logs /\ \A l : From(logs', l) = From(logs, l)
      /\ \A m \in DOMAIN logs : /\ IsFile(logs'[m], Batches) /\ logs'[m].end = logs[m].end
                                /\ logs'[m].records = logs[m].records
      /\ \A ns : LogBatches(logs', ns) = LogBatches(logs, ns)
      /\ \A ns : SyncedBatches(logs, ns) \subseteq SyncedBatches(logs', ns)
      /\ \A ns : logFile \in ns /\ synced' # synced => b \in SyncedBatches(logs', ns)
  <2>1. CASE writing.sync
    <3>1. /\ \A m \in DOMAIN logs : IsFile(logs[m], Batches)
          /\ logFile \in DOMAIN logs
          /\ DOMAIN logs' = DOMAIN logs /\ \A m \in DOMAIN logs : m # logFile => logs'[m] = logs[m]
          /\ logs'[logFile] = Synced(logs[logFile])
      BY <2>1, <1>0, <1>1, <1>3
    <3>2. /\ \A l : From(logs', l) = From(logs, l)
          /\ \A m \in DOMAIN logs : /\ IsFile(logs'[m], Batches) /\ logs'[m].end = logs[m].end
                                    /\ logs'[m].records = logs[m].records
          /\ \A ns : LogBatches(logs', ns) = LogBatches(logs, ns)
          /\ \A ns : SyncedBatches(logs, ns) \subseteq SyncedBatches(logs', ns)
          /\ \A ns : logFile \in ns => ToSet(logs[logFile].records) \subseteq SyncedBatches(logs', ns)
      BY <3>1, SyncedLog
    <3> QED BY <3>1, <3>2, <1>3
  <2>2. CASE ~writing.sync
    BY <2>2, <1>0, <1>3
  <2> QED BY <2>1, <2>2
<1>5. /\ OnDisk' = OnDisk
      /\ \A r \in Possible : /\ FoundBy(tables, logs', r) = FoundBy(tables, logs, r)
                             /\ KeptBy(tables, logs, r) \subseteq KeptBy(tables, logs', r)
                             /\ b \in FoundBy(tables, logs, r)
                             /\ synced' # synced => b \in KeptBy(tables, logs', r)
  <2>1. OnDisk' = OnDisk
    BY <1>0, <1>4 DEF OnDisk, Disk
  <2>2. ASSUME NEW r \in Possible
        PROVE  /\ FoundBy(tables, logs', r) = FoundBy(tables, logs, r)
               /\ KeptBy(tables, logs, r) \subseteq KeptBy(tables, logs', r)
               /\ synced' # synced => b \in KeptBy(tables, logs', r)
    BY <1>1, <1>4 DEF FoundBy, KeptBy
  <2>3. ASSUME NEW r \in Possible PROVE b \in FoundBy(tables, logs, r)
    <3>1. logFile \in From(logs, r.meta.log) BY <1>1
    <3>2. LogBatches(logs, {logFile}) \subseteq LogBatches(logs, From(logs, r.meta.log))
      BY <3>1, LogFacts
    <3>3. b \in LogBatches(logs, {logFile}) BY <1>1, <1>3, LogFacts
    <3> QED BY <3>2, <3>3 DEF FoundBy
  <2> QED BY <2>1, <2>2, <2>3
<1>6. Report' = Report /\ Possible' = Possible /\ Readable(current)' /\ Readable(current)
  BY <1>0, <1>1 DEF Report, Possible, Readable
<1>7. Harmless' = Harmless
  BY <1>0, <1>5 DEF Harmless
<1>8. synced' \subseteq FoundBy(tables, logs', Report)
  BY <1>0, <1>1, <1>5
<1>9. StoredInv'
  <2>1. DiskTypes'
    BY <1>0, <1>1, <1>4 DEF StoredInv, DiskTypes
  <2>2. BatchNumbers'
    BY <1>0, <1>1, <1>5 DEF StoredInv, BatchNumbers
  <2>3. ASSUME NEW r \in Possible PROVE Sensible(r)'
    <3>1. /\ Sensible(r)
          /\ FoundBy(tables, logs', r) = FoundBy(tables, logs, r)
          /\ FoundBy(tables, logs', Report) = FoundBy(tables, logs, Report)
          /\ KeptBy(tables, logs, r) \subseteq KeptBy(tables, logs', r)
          /\ synced' # synced => b \in KeptBy(tables, logs', r)
      BY <1>1, <1>5
    <3>2. setup.crash # "never" => synced' \subseteq KeptBy(tables, logs', r)
      BY <3>1, <1>0 DEF Sensible
    <3> QED BY <3>1, <3>2, <1>0, <1>6, <1>7 DEF Sensible
  <2>4. ManifestInv'
    BY <2>3, <1>0, <1>1, <1>6, <1>8 DEF ManifestInv
  <2>5. DiskInv'
    BY <1>0, <1>1, <1>4, <1>6, ReportIsSensible DEF DiskInv, StoredInv
  <2> QED BY <2>1, <2>2, <2>4, <2>5 DEF StoredInv
<1>10. Recovered' = Recovered /\ b \in Recovered
  <2>1. (Recovered = IF Readable(current) THEN FoundBy(tables, logs, Report) ELSE {})'
    BY FoundIsFoundBy, PTL
  <2>2. Recovered = FoundBy(tables, logs, Report)
    BY <1>6, FoundIsFoundBy
  <2>3. Recovered' = FoundBy(tables, logs', Report)
    BY <2>1, <1>0, <1>6
  <2> QED BY <2>2, <2>3, <1>1, <1>5
<1>11. CountTypes' /\ ProcessTypes' /\ WriteNumbers'
  <2>1. CountTypes'
    BY <1>0, <1>2 DEF DbInv, CountTypes
  <2>2. last' \in 0 .. MaxWrites /\ mem' \subseteq Batches /\ writing' \in Writings \union {Nil}
    BY <1>0, <1>2 DEF DbInv, ProcessTypes
  <2>3. ProcessTypes'
    BY <2>2, <1>0 DEF DbInv, ProcessTypes
  <2>4. WriteNumbers'
    BY <1>0, <1>2 DEF DbInv, WriteNumbers
  <2> QED BY <2>1, <2>3, <2>4
<1>12. BeforeInv' /\ OpeningInv'
  BY <1>0, NotStarting, NotOpening
<1>13. \A S : Upto(S, last) /\ S \subseteq Batches => Upto(S, last')
  <2>1. \A a \in Batches : a[1] \in Nat
    BY RecoveryAssumption DEF Batches
  <2> QED BY <2>1, <1>0, <1>1 DEF Upto
<1>14. \A ns : TableBatches(tables, ns) \subseteq Batches
  BY <1>1 DEF StoredInv, DiskTypes, TableBatches
<1>15. WorkInv'
  <2>1. AgreeInv'
    BY <1>0, <1>6 DEF DbInv, WorkInv, AgreeInv, Working, Overtaken, Written, Agrees, After
  <2>2. TablesInv'
    BY <1>0, <1>13, <1>14 DEF DbInv, WorkInv, TablesInv, Working
  <2>3. LogInv' /\ DescriptorInv'
    BY <1>0, <1>1, <1>4 DEF DbInv, WorkInv, LogInv, DescriptorInv, Working
  <2> QED BY <2>1, <2>2, <2>3 DEF WorkInv
<1>16. UpLogs'
  <2>1. Older' = Older /\ logs'[logFile].records = logs[logFile].records
    BY <1>0, <1>1, <1>4 DEF Older
  <2>2. LogBatches(logs', Older) = LogBatches(logs, Older)
    BY <1>4
  <2> QED BY <2>1, <2>2, <1>0, <1>2 DEF DbInv, UpInv, UpLogs
<1>17. UpLast'
  <2>1. mem \subseteq Batches /\ imm \subseteq Batches
    BY DEF DbInv, ProcessTypes
  <2>2. OnDisk \subseteq Batches
    BY <1>1, OnDiskIsBatches
  <2>3. Upto(mem' \union imm, last')
    <3>1. Upto(mem \union imm, last') BY <2>1, <1>0, <1>13 DEF DbInv, UpInv, UpLast
    <3> QED BY <3>1, <1>0, <1>1, <1>2 DEF Upto
  <2>4. Upto(TableBatches(tables, pinned \union pending), last')
    BY <1>0, <1>13, <1>14 DEF DbInv, UpInv, UpLast
  <2>5. ~error => Upto(OnDisk, last')
    <3>1. ~error => Upto(OnDisk \ W, last) BY <1>0 DEF DbInv, UpInv, UpLast
    <3>2. ~error => Upto(OnDisk \ W, last') BY <3>1, <2>2, <1>13
    <3> QED BY <3>2, <1>0, <1>1, <1>2 DEF Upto
  <2>6. OnDisk' \ W' = OnDisk
    BY <1>2, <1>5
  <2> QED BY <2>3, <2>4, <2>5, <2>6, <1>0 DEF UpLast
<1>18. UpTables' /\ UpMerge'
  BY <1>0 DEF DbInv, UpInv, UpTables, UpMerge
<1>19. UpManifest'
  <2>1. mem' \union imm \union TableBatches(tables, version) \subseteq FoundBy(tables, logs', Report)
    BY <1>0, <1>1, <1>5 DEF DbInv, UpInv, UpManifest
  <2>2. Settled' = Settled
    BY <1>0 DEF Settled
  <2> QED BY <2>1, <2>2, <1>0, <1>6 DEF DbInv, UpInv, UpManifest
<1>20. UpEdit'
  <2>1. UpEdit
    BY DEF DbInv, UpInv
  <2>2. phase = "up" /\ stage \in {"append", "sync"} => EditReady'
    <3>1. SUFFICES ASSUME EditReady PROVE EditReady' BY <2>1 DEF UpEdit
    <3>2. edit \in Edits BY DEF DbInv, ProcessTypes
    <3>3. edit.meta.last \in Nat BY <3>1, <3>2 DEF EditReady, Edits, Metas
    <3>4. edit.meta.last <= last' BY <3>1, <3>3, <1>0, <1>1 DEF EditReady
    <3> QED BY <3>1, <3>4, <1>0, <1>6 DEF EditReady
  <2>3. BuildingEdit'
    BY <2>1, <1>0, BuildingFacts DEF BuildingEdit
  <2>4. IdleEdit' /\ FlushEdit' /\ MergeEdit'
    BY <2>1, <1>0 DEF UpEdit, IdleEdit, FlushEdit, MergeEdit
  <2> QED BY <2>1, <2>2, <2>3, <2>4, <1>0 DEF UpEdit
<1>21. DbInv'
  BY <1>9, <1>11, <1>12, <1>15, <1>16, <1>17, <1>18, <1>19, <1>20 DEF DbInv, UpInv
<1> QED BY <1>0, <1>10, <1>21 DEF b

------------------------
(* The background thread's tables. *)

\* MakeRoomForWrite begins a log and a memtable.
LEMMA SwitchMemTableStep ==
  ASSUME DbInv, SwitchMemTable
  PROVE  DbInv' /\ Recovered' = Recovered
<1>0. /\ phase = "up" /\ stage # "clean" /\ ~error /\ writing = Nil /\ imm = {}
      /\ logs' = Put(logs, nextFile, EmptyFile) /\ logFile' = nextFile /\ nextFile' = nextFile + 1
      /\ imm' = mem /\ mem' = {}
      /\ UNCHANGED <<manifests, tables, current, temps, phase, save, toReplay, version, logNumber, last,
                     manifestFile, descriptor, setup, writes, opens, merges, faults, stage,
                     pinned, pending, edit, merge, writing, error, acked, synced>>
  BY DEF SwitchMemTable, Running, openVars, setVars, counts
<1>1. /\ Readable(current) /\ Working /\ descriptor = TRUE
      /\ manifestFile = current /\ logFile # 0
      /\ logFile \in Nat /\ nextFile \in Nat \ {0} /\ logNumber \in Nat
      /\ logFile \in DOMAIN logs /\ \A n \in From(logs, logNumber) : n <= logFile
      /\ DOMAIN logs \subseteq Nat /\ logNumber <= logFile /\ logFile < nextFile
      /\ \A r \in Possible : r.meta \in Metas /\ r.meta.log <= logFile
      /\ StoredInv
  BY <1>0, UpFacts
<1>2. \A n \in DOMAIN logs : n < nextFile
  <2>1. \A n \in DOMAIN logs : n >= logNumber => n <= logFile
    BY <1>1 DEF From
  <2> QED BY <2>1, <1>1
<1>3. nextFile \in Nat \ {0} /\ nextFile \notin DOMAIN logs /\ nextFile >= logNumber
  BY <1>1, <1>2
<1>4. /\ StoredInv' /\ Report' = Report /\ Possible' = Possible
      /\ Recovered' = Recovered /\ Readable(current)' /\ OnDisk' = OnDisk
      /\ \A ns : LogBatches(logs', ns) = LogBatches(logs, ns)
      /\ \A l : From(logs', l) = From(logs, l) \union (IF nextFile >= l THEN {nextFile} ELSE {})
      /\ \A r : FoundBy(tables', logs', r) = FoundBy(tables, logs, r)
      /\ DOMAIN logs' = DOMAIN logs \union {nextFile} /\ logs'[nextFile] = EmptyFile
      /\ \A m \in DOMAIN logs : logs'[m] = logs[m]
  BY <1>0, <1>1, <1>3, NewLogStored
<1>5. From(logs', logNumber) = From(logs, logNumber) \union {nextFile}
  BY <1>3, <1>4
<1>6. Older' = From(logs, logNumber)
  <2>1. nextFile \notin From(logs, logNumber)
    BY <1>3 DEF From
  <2> QED BY <2>1, <1>0, <1>5 DEF Older
<1>7. LogBatches(logs, From(logs, logNumber)) = mem
  <2>1. From(logs, logNumber) = Older \union {logFile}
    BY <1>1 DEF From, Older
  <2>2. LogBatches(logs, Older) = {} /\ ToSet(logs[logFile].records) = mem
    <3>1. W = {} BY <1>0 DEF W
    <3> QED BY <3>1, <1>0 DEF DbInv, UpInv, UpLogs
  <2>3. LogBatches(logs, Older \union {logFile}) = LogBatches(logs, Older) \union LogBatches(logs, {logFile})
    BY LogFacts
  <2>4. LogBatches(logs, {logFile}) = ToSet(logs[logFile].records)
    BY <1>1, LogFacts
  <2> QED BY <2>1, <2>2, <2>3, <2>4
<1>8. CountTypes' /\ ProcessTypes' /\ WriteNumbers'
  <2>1. CountTypes'
    BY <1>0 DEF DbInv, CountTypes
  <2>2. nextFile' \in Nat \ {0} /\ logFile' \in Nat /\ mem' \subseteq Batches /\ imm' \subseteq Batches
    BY <1>0, <1>1 DEF DbInv, ProcessTypes
  <2>3. ProcessTypes'
    BY <2>2, <1>0 DEF DbInv, ProcessTypes
  <2>4. WriteNumbers'
    BY <1>0 DEF DbInv, WriteNumbers
  <2> QED BY <2>1, <2>3, <2>4
<1>9. BeforeInv' /\ OpeningInv'
  BY <1>0, NotStarting, NotOpening
<1>10. AgreeInv'
  <2>1. /\ manifestFile # 0 /\ manifestFile < nextFile /\ logNumber < nextFile
        /\ Report.meta.next <= nextFile
    BY <1>1 DEF DbInv, WorkInv, AgreeInv
  <2>2. manifestFile \in Nat /\ Report.meta.next \in Nat
    BY <1>1, ReadableFacts DEF DbInv, ProcessTypes, StoredInv, Metas
  <2>3. /\ manifestFile # 0 /\ manifestFile < nextFile' /\ logNumber < nextFile'
        /\ Report.meta.next <= nextFile'
    BY <2>1, <2>2, <1>0, <1>1
  <2> QED
    BY <2>3, <1>0, <1>4 DEF DbInv, WorkInv, AgreeInv, Working, Overtaken, Written, Agrees, After
<1>11. TablesInv'
  <2>1. \A n \in version \union edit.added : n \in Nat /\ n < nextFile
    BY <1>1 DEF DbInv, WorkInv, TablesInv, ProcessTypes, Edits
  <2>2. \A n \in version \union edit.added : n < nextFile'
    BY <2>1, <1>0, <1>1
  <2> QED BY <2>2, <1>0 DEF DbInv, WorkInv, TablesInv, Working
<1>12. LogInv'
  <2>1. logFile' \in DOMAIN logs' /\ logs'[logFile'].end = "whole"
    BY <1>0, <1>4 DEF EmptyFile
  <2>2. \A n \in From(logs', logNumber) : n <= nextFile
    BY <1>1, <1>2, <1>5 DEF From
  <2> QED BY <2>1, <2>2, <1>0, <1>1 DEF LogInv
<1>13. DescriptorInv'
  BY <1>0, <1>1 DEF DbInv, WorkInv, DescriptorInv, Working
<1>14. UpLogs'
  <2>1. imm' = LogBatches(logs', Older')
    BY <1>0, <1>4, <1>6, <1>7
  <2>2. ToSet(logs'[logFile'].records) = {} /\ mem' = {} /\ W' = {}
    BY <1>0, <1>4, EmptyFileFacts DEF W, EmptyFile, ToSet
  <2> QED BY <2>1, <2>2, <1>0, <1>1 DEF DbInv, UpInv, UpLogs
<1>15. UpLast'
  <2>1. W' = W
    BY <1>0 DEF W
  <2> QED BY <2>1, <1>0, <1>4 DEF DbInv, UpInv, UpLast, Upto
<1>16. UpTables'
  <2>1. \A n \in pinned \union pending : n \in Nat /\ n < nextFile
    BY <1>0 DEF DbInv, UpInv, UpTables, ProcessTypes
  <2>2. \A n \in pinned \union pending : n < nextFile'
    BY <2>1, <1>0, <1>1
  <2> QED BY <2>2, <1>0 DEF DbInv, UpInv, UpTables
<1>17. UpMerge'
  BY <1>0 DEF DbInv, UpInv, UpMerge
<1>18. UpManifest'
  <2>1. \A r \in Possible : r.meta.log <= logFile'
    BY <1>0, <1>1 DEF Metas
  <2>2. mem' \union imm' \union TableBatches(tables, version) \subseteq FoundBy(tables', logs', Report)
    BY <1>0, <1>4 DEF DbInv, UpInv, UpManifest
  <2>3. Settled' = Settled
    BY <1>0 DEF Settled
  <2> QED BY <2>1, <2>2, <2>3, <1>0, <1>4 DEF DbInv, UpInv, UpManifest
<1>19. UpEdit'
  <2>1. UpEdit
    BY DEF DbInv, UpInv
  <2>2. stage # "building"
    BY <2>1, <1>0, BuildingFacts
  <2>3. ~(stage \in {"append", "sync"} /\ edit.deleted = {})
    BY <2>1, <1>0 DEF UpEdit, FlushEdit
  <2>4. stage \in {"append", "sync"} => EditReady'
    <3>1. SUFFICES ASSUME EditReady PROVE EditReady' BY <2>1, <1>0 DEF UpEdit
    <3>2. edit \in Edits BY DEF DbInv, ProcessTypes
    <3>3. edit.meta.next \in Nat BY <3>1, <3>2 DEF EditReady, Edits, Metas
    <3>4. edit.meta.next <= nextFile' BY <3>1, <3>3, <1>0, <1>1 DEF EditReady
    <3> QED BY <3>1, <3>4, <1>0, <1>4 DEF EditReady
  <2>5. BuildingEdit' /\ FlushEdit'
    BY <2>2, <2>3, <1>0 DEF BuildingEdit, FlushEdit
  <2>6. IdleEdit' /\ MergeEdit'
    BY <2>1, <1>0 DEF UpEdit, IdleEdit, MergeEdit
  <2> QED BY <2>4, <2>5, <2>6, <1>0 DEF UpEdit
<1> QED
  BY <1>4, <1>8, <1>9, <1>10, <1>11, <1>12, <1>13, <1>14, <1>15, <1>16, <1>17, <1>18, <1>19
  DEF DbInv, UpInv, WorkInv

\* A table is begun: of a flush, or of a compaction.
LEMMA BeginTableStep ==
  ASSUME DbInv, BeginFlush \/ BeginMerge
  PROVE  DbInv' /\ Recovered' = Recovered
<1>0. /\ phase = "up" /\ stage = "idle" /\ ~error
      /\ nextFile' = nextFile + 1 /\ pending' = pending \union {nextFile}
      /\ tables' = Put(tables, nextFile, {})
      /\ stage' \in {"idle", "building"}
      /\ UNCHANGED <<logs, manifests, current, temps, phase, save, toReplay, version, logNumber, last,
                     manifestFile, descriptor, mem, imm, logFile, setup, writes, opens, faults,
                     pinned, writing, error, acked, synced>>
      /\ stage' = "building" => /\ imm # {} /\ edit' = [NoEdit EXCEPT !.added = {nextFile}]
                                /\ merge' = merge /\ merges' = merges
      /\ stage' = "idle" =>
           /\ merges' = merges + 1 /\ edit' = edit
           /\ \E inputs \in SUBSET version :
                /\ Cardinality(inputs) >= 2 /\ merge' = [inputs |-> inputs, output |-> nextFile]
  BY DEF BeginFlush, BeginMerge, Running, openVars, setVars, memVars, counts
<1>1. /\ Readable(current) /\ Working /\ descriptor = TRUE
      /\ manifestFile = current /\ logFile # 0
      /\ nextFile \in Nat \ {0} /\ logNumber \in Nat /\ logFile \in Nat /\ logFile < nextFile
      /\ StoredInv
  BY <1>0, UpFacts
<1>2. edit = NoEdit /\ edit \in Edits /\ edit.added = {} /\ UpEdit
  BY <1>0, NoEditFacts DEF DbInv, UpInv, UpEdit, IdleEdit
<1>3. /\ edit' \in Edits /\ edit'.added \subseteq {nextFile} /\ edit'.deleted = {} /\ edit'.meta = Nil
      /\ stage' = "idle" => edit' = NoEdit
  <2>1. CASE stage' = "building"
    BY <2>1, <1>0, <1>1 DEF NoEdit, Edits
  <2>2. CASE stage' = "idle"
    BY <2>2, <1>0, <1>2, NoEditFacts
  <2> QED BY <2>1, <2>2, <1>0
<1>4. /\ \A n \in version \union pinned \union pending : n \in Nat /\ n < nextFile
      /\ version \subseteq DOMAIN tables /\ pinned \union pending \subseteq DOMAIN tables
  BY <1>1, <1>0 DEF DbInv, WorkInv, TablesInv, UpInv, UpTables, ProcessTypes
<1>5. /\ DOMAIN tables' = DOMAIN tables \union {nextFile} /\ tables'[nextFile] = {}
      /\ \A m \in DOMAIN tables : m # nextFile => tables'[m] = tables[m]
  BY <1>0 DEF Put
<1>6. TableBatches(tables', {nextFile}) = {}
  BY <1>5, TableFacts
<1>7. Bounded({nextFile}) /\ \A n \in {nextFile} : nextFile <= n
  BY <1>1 DEF Bounded
<1>8. /\ StoredInv' /\ Report' = Report /\ Possible' = Possible
      /\ Recovered' = Recovered /\ Readable(current)' /\ OnDisk' \subseteq OnDisk
      /\ \A ns : (\A n \in ns : n < nextFile) => TableBatches(tables', ns) = TableBatches(tables, ns)
  <2>1. TableBatches(tables', {nextFile}) \subseteq OnDisk /\ phase \in {"replay", "up"}
    BY <1>0, <1>6
  <2>2. UNCHANGED <<logs, manifests, current, setup, synced, writes, temps>>
    BY <1>0
  <2>3. \A m \in DOMAIN tables : m \notin {nextFile} => tables'[m] = tables[m]
    BY <1>5
  <2> QED BY <2>1, <2>2, <2>3, <1>5, <1>7, NewTables
<1>9. CountTypes' /\ ProcessTypes' /\ WriteNumbers'
  <2>1. merges' \in Nat
    BY <1>0 DEF DbInv, CountTypes
  <2>2. CountTypes'
    BY <2>1, <1>0 DEF DbInv, CountTypes
  <2>3. nextFile' \in Nat \ {0} /\ pending' \subseteq Nat \ {0}
    BY <1>0, <1>1 DEF DbInv, ProcessTypes
  <2>4. merge' \in Merges \union {Nil}
    <3>1. CASE stage' = "building"
      BY <3>1, <1>0 DEF DbInv, ProcessTypes
    <3>2. CASE stage' = "idle"
      <4>1. PICK inputs \in SUBSET version : merge' = [inputs |-> inputs, output |-> nextFile]
        BY <3>2, <1>0
      <4>2. inputs \in SUBSET (Nat \ {0}) BY DEF DbInv, ProcessTypes
      <4> QED BY <4>1, <4>2, <1>1 DEF Merges
    <3> QED BY <3>1, <3>2, <1>0
  <2>5. ProcessTypes'
    BY <2>3, <2>4, <1>0, <1>3 DEF DbInv, ProcessTypes
  <2>6. WriteNumbers'
    BY <1>0 DEF DbInv, WriteNumbers
  <2> QED BY <2>2, <2>5, <2>6
<1>10. BeforeInv' /\ OpeningInv'
  BY <1>0, NotStarting, NotOpening
<1>11. AgreeInv'
  <2>1. /\ manifestFile # 0 /\ manifestFile < nextFile /\ logNumber < nextFile
        /\ Report.meta.next <= nextFile /\ Agrees
    BY <1>0, <1>1 DEF DbInv, WorkInv, AgreeInv, Overtaken, Written
  <2>2. manifestFile \in Nat /\ Report.meta.next \in Nat
    BY <1>1, ReadableFacts DEF DbInv, ProcessTypes, StoredInv, Metas
  <2>3. /\ manifestFile # 0 /\ manifestFile < nextFile' /\ logNumber < nextFile'
        /\ Report.meta.next <= nextFile'
    BY <2>1, <2>2, <1>0, <1>1
  <2>4. Agrees' /\ ~Overtaken'
    BY <2>1, <1>0, <1>8 DEF Agrees, Overtaken, Written
  <2> QED BY <2>3, <2>4, <1>0, <1>8 DEF AgreeInv
<1>12. TablesInv'
  <2>1. \A n \in version \union edit'.added : n < nextFile'
    BY <1>0, <1>1, <1>3, <1>4
  <2>2. nextFile \notin version
    BY <1>1, <1>4
  <2>3. TableBatches(tables', version) = TableBatches(tables, version)
    BY <1>4, <1>8
  <2>4. Upto(TableBatches(tables, version), last)
    BY <1>1 DEF DbInv, WorkInv, TablesInv
  <2> QED BY <2>1, <2>2, <2>3, <2>4, <1>0, <1>3, <1>4, <1>5 DEF TablesInv
<1>13. LogInv' /\ DescriptorInv'
  BY <1>0, <1>1 DEF DbInv, WorkInv, LogInv, DescriptorInv, Working, From
<1>14. UpLogs'
  <2>1. Older' = Older /\ W' = W
    BY <1>0 DEF Older, From, W
  <2> QED BY <2>1, <1>0 DEF DbInv, UpInv, UpLogs
<1>15. UpLast'
  <2>1. W' = W
    BY <1>0 DEF W
  <2>2. pinned \union pending' = (pinned \union pending) \union {nextFile}
    BY <1>0
  <2>3. TableBatches(tables', (pinned \union pending) \union {nextFile}) =
          TableBatches(tables', pinned \union pending) \union TableBatches(tables', {nextFile})
    BY TableFacts
  <2>4. TableBatches(tables', pinned \union pending) = TableBatches(tables, pinned \union pending)
    BY <1>4, <1>8
  <2>5. Upto(TableBatches(tables', pinned \union pending'), last)
    BY <2>2, <2>3, <2>4, <1>0, <1>6 DEF DbInv, UpInv, UpLast
  <2> QED BY <2>1, <2>5, <1>0, <1>8 DEF DbInv, UpInv, UpLast, Upto
<1>16. UpTables'
  BY <1>0, <1>1, <1>4, <1>5 DEF UpTables
<1>17. UpMerge'
  <2>1. CASE stage' = "building"
    BY <2>1, <1>0 DEF DbInv, UpInv, UpMerge
  <2>2. CASE stage' = "idle"
    <3>1. PICK inputs \in SUBSET version :
            Cardinality(inputs) >= 2 /\ merge' = [inputs |-> inputs, output |-> nextFile]
      BY <2>2, <1>0
    <3>2. inputs # {} BY <3>1, FS_EmptySet
    <3>3. merge'.inputs = inputs /\ merge'.output = nextFile
      BY <3>1
    <3>4. nextFile \notin version \union pinned BY <1>1, <1>4
    <3> QED BY <3>2, <3>3, <3>4, <1>0 DEF UpMerge
  <2> QED BY <2>1, <2>2, <1>0
<1>18. UpManifest'
  <2>1. Settled' = Settled
    BY <1>0 DEF Settled
  <2>2. TableBatches(tables', version) = TableBatches(tables, version)
    BY <1>4, <1>8
  <2>3. FoundBy(tables', logs', Report) = FoundBy(tables, logs, Report)
    <3>1. Recovered = FoundBy(tables, logs, Report) BY <1>1, FoundIsFoundBy
    <3>2. (Recovered = IF Readable(current) THEN FoundBy(tables, logs, Report) ELSE {})'
      BY FoundIsFoundBy, PTL
    <3> QED BY <3>1, <3>2, <1>8
  <2> QED BY <2>1, <2>2, <2>3, <1>0, <1>8 DEF DbInv, UpInv, UpManifest
<1>19. UpEdit'
  <2>1. BuildingEdit'
    <3>1. nextFile \in pending' /\ nextFile \notin pinned
      BY <1>0, <1>1, <1>4
    <3>2. merge # Nil => merge.output # nextFile
      BY <1>0, <1>1, <1>4 DEF DbInv, UpInv, UpMerge
    <3> QED BY <3>1, <3>2, <1>0 DEF BuildingEdit
  <2> QED BY <2>1, <1>0, <1>3 DEF UpEdit, IdleEdit, FlushEdit, MergeEdit
<1> QED
  BY <1>8, <1>9, <1>10, <1>11, <1>12, <1>13, <1>14, <1>15, <1>16, <1>17, <1>18, <1>19
  DEF DbInv, UpInv, WorkInv

\* A table that no version names is filled or removed.
LEMMA OwnTable ==
  ASSUME DbInv, phase = "up", stage \in {"building", "clean"} \/ (stage = "idle" /\ ~error),
         UNCHANGED <<logs, manifests, current, setup, synced, writes, temps>>,
         NEW n, n \notin version,
         DOMAIN tables' \subseteq DOMAIN tables, DOMAIN tables \ {n} \subseteq DOMAIN tables',
         \A m \in DOMAIN tables' : m # n => tables'[m] = tables[m],
         n \in DOMAIN tables' => tables'[n] \subseteq OnDisk
  PROVE  /\ StoredInv' /\ Report' = Report /\ Possible' = Possible
         /\ Recovered' = Recovered /\ Readable(current)' /\ OnDisk' \subseteq OnDisk
         /\ \A ns : n \notin ns => TableBatches(tables', ns) = TableBatches(tables, ns)
         /\ FoundBy(tables', logs', Report) = FoundBy(tables, logs, Report)
         /\ Agrees
<1>1. Readable(current) /\ Working /\ StoredInv
  BY UpFacts
<1>2. Possible = {Report} /\ Agrees
  <2>1. setup.crash = "never" \/ Settled
    BY DEF DbInv, UpInv, UpManifest
  <2>2. Agrees
    BY <1>1 DEF DbInv, WorkInv, AgreeInv, Overtaken, Written
  <2> QED BY <2>1, <2>2, <1>1, ReadableFacts DEF StoredInv
<1>3. ASSUME NEW ns, n \notin ns PROVE TableBatches(tables', ns) = TableBatches(tables, ns)
  <2>1. \A m \in ns : m \in DOMAIN tables' <=> m \in DOMAIN tables
    BY <1>3
  <2>2. \A m \in ns : m \in DOMAIN tables => tables'[m] = tables[m]
    BY <2>1, <1>3
  <2> QED BY <2>1, <2>2, SameTables
<1>4. Report.files = version
  BY <1>2 DEF Agrees
<1>5. OnDisk' \subseteq OnDisk
  <2>1. \A m \in DOMAIN tables' : tables'[m] \subseteq OnDisk
    <3>1. \A m \in DOMAIN tables : tables[m] \subseteq OnDisk
      BY DEF OnDisk, Disk, TableBatches
    <3> QED BY <3>1
  <2>2. TableBatches(tables', DOMAIN tables') \subseteq OnDisk
    BY <2>1 DEF TableBatches
  <2> QED BY <2>2 DEF OnDisk, Disk
<1>6. DiskTypes'
  <2>1. Bounded(DOMAIN tables)'
    BY <1>1, BoundedFacts DEF StoredInv, DiskTypes
  <2>2. \A m \in DOMAIN tables' : tables'[m] \subseteq Batches
    <3>1. OnDisk \subseteq Batches BY <1>1, OnDiskIsBatches
    <3> QED BY <3>1, <1>1 DEF StoredInv, DiskTypes
  <2> QED BY <2>1, <2>2, <1>1 DEF StoredInv, DiskTypes
<1>7. setup.crash = "never" => \A m \in DOMAIN logs' : logs'[m].end = "whole"
  BY <1>1 DEF StoredInv, DiskInv
<1>8. /\ TableBatches(tables', Report.files) = TableBatches(tables, Report.files)
      /\ FoundBy(tables', logs', Report) = FoundBy(tables, logs, Report)
      /\ KeptBy(tables', logs', Report) = KeptBy(tables, logs, Report)
  BY <1>3, <1>4 DEF FoundBy, KeptBy
<1>9. \A r \in Possible : r.meta # Nil =>
        /\ r.files \subseteq DOMAIN tables'
        /\ TableBatches(tables', r.files) = TableBatches(tables, r.files)
        /\ FoundBy(tables', logs', r) = FoundBy(tables, logs, r)
        /\ KeptBy(tables, logs, r) \subseteq KeptBy(tables', logs', r)
  <2>1. version \subseteq DOMAIN tables'
    BY <1>1 DEF DbInv, WorkInv, TablesInv
  <2> QED BY <2>1, <1>2, <1>4, <1>8
<1>10. /\ StoredInv' /\ Report' = Report /\ Possible' = Possible
       /\ Recovered' = Recovered /\ Readable(current)'
  BY <1>1, <1>5, <1>6, <1>7, <1>9, OtherFiles
<1> QED BY <1>2, <1>3, <1>5, <1>8, <1>10

\* What a table of the database's own leaves as it was.
LEMMA OwnTableStep ==
  ASSUME DbInv, phase = "up", stage = "building" \/ (stage = "idle" /\ ~error),
         UNCHANGED <<logs, manifests, current, temps, phase, save, toReplay, version, logNumber, last,
                     manifestFile, descriptor, mem, imm, logFile, setup, writes, opens, merges, merge,
                     pinned, nextFile, writing, acked, synced>>,
         NEW n, n \notin version,
         DOMAIN tables' \subseteq DOMAIN tables, DOMAIN tables \ {n} \subseteq DOMAIN tables',
         \A m \in DOMAIN tables' : m # n => tables'[m] = tables[m],
         n \in DOMAIN tables' => tables'[n] \subseteq OnDisk,
         faults' \in Nat, pending' \subseteq pending, error' \in {error, TRUE}, edit' \in Edits,
         stage' \in {"idle", "append"}, stage' = "idle" => error',
         edit'.added \subseteq DOMAIN tables', edit'.added \intersect version = {},
         \A m \in edit'.added : m < nextFile,
         pinned \union pending' \subseteq DOMAIN tables',
         Upto(TableBatches(tables', pinned \union pending'), last),
         merge # Nil => merge.output \in pending'
  PROVE  /\ CountTypes' /\ ProcessTypes' /\ WriteNumbers' /\ StoredInv' /\ BeforeInv' /\ OpeningInv'
         /\ WorkInv' /\ UpLogs' /\ UpLast' /\ UpTables' /\ UpManifest' /\ UpMerge'
         /\ Recovered' = Recovered /\ Report' = Report
         /\ \A ns : n \notin ns => TableBatches(tables', ns) = TableBatches(tables, ns)
<1>1. /\ Readable(current) /\ Working /\ descriptor = TRUE
      /\ manifestFile = current /\ logFile # 0 /\ StoredInv
  BY UpFacts
<1>2. /\ StoredInv' /\ Report' = Report /\ Possible' = Possible
      /\ Recovered' = Recovered /\ Readable(current)' /\ OnDisk' \subseteq OnDisk
      /\ \A ns : n \notin ns => TableBatches(tables', ns) = TableBatches(tables, ns)
      /\ FoundBy(tables', logs', Report) = FoundBy(tables, logs, Report)
      /\ Agrees
  BY OwnTable
<1>3. error' \in BOOLEAN /\ (error => error')
  BY DEF DbInv, ProcessTypes
<1>4. CountTypes' /\ ProcessTypes' /\ WriteNumbers'
  <2>1. CountTypes'
    BY DEF DbInv, CountTypes
  <2>2. pending' \subseteq Nat \ {0}
    BY DEF DbInv, ProcessTypes
  <2>3. ProcessTypes'
    BY <2>2, <1>3 DEF DbInv, ProcessTypes
  <2>4. WriteNumbers'
    BY DEF DbInv, WriteNumbers
  <2> QED BY <2>1, <2>3, <2>4
<1>5. BeforeInv' /\ OpeningInv'
  BY NotStarting, NotOpening
<1>6. WorkInv'
  <2>1. AgreeInv'
    <3>1. Agrees' /\ ~Overtaken'
      BY <1>2 DEF Agrees, Overtaken, Written
    <3> QED BY <3>1, <1>1, <1>2 DEF DbInv, WorkInv, AgreeInv
  <2>2. TablesInv'
    <3>1. version \subseteq DOMAIN tables' /\ \A m \in version : m < nextFile
      BY <1>1 DEF DbInv, WorkInv, TablesInv
    <3>2. Upto(TableBatches(tables', version), last)
      BY <1>1, <1>2 DEF DbInv, WorkInv, TablesInv
    <3> QED BY <3>1, <3>2 DEF TablesInv
  <2>3. LogInv' /\ DescriptorInv'
    BY <1>1 DEF DbInv, WorkInv, LogInv, DescriptorInv, Working, From
  <2> QED BY <2>1, <2>2, <2>3 DEF WorkInv
<1>7. UpLogs'
  <2>1. Older' = Older /\ W' = W
    BY DEF Older, From, W
  <2> QED BY <2>1, <1>3 DEF DbInv, UpInv, UpLogs
<1>8. UpLast'
  <2>1. W' = W
    BY DEF W
  <2> QED BY <2>1, <1>2, <1>3 DEF DbInv, UpInv, UpLast, Upto
<1>9. UpTables'
  BY DEF DbInv, UpInv, UpTables
<1>10. UpManifest'
  <2>1. TableBatches(tables', version) = TableBatches(tables, version)
    BY <1>2
  <2> QED BY <2>1, <1>2, <1>3 DEF DbInv, UpInv, UpManifest
<1>11. UpMerge'
  BY DEF DbInv, UpInv, UpMerge
<1> QED BY <1>2, <1>4, <1>5, <1>6, <1>7, <1>8, <1>9, <1>10, <1>11

\* The one table that a flush builds is no one else's.
LEMMA BuildFacts ==
  ASSUME DbInv, stage = "building"
  PROVE  /\ phase = "up" /\ imm # {} /\ imm \subseteq OnDisk /\ edit.deleted = {}
         /\ \E x \in pending :
              /\ edit.added = {x} /\ x \notin version /\ x \notin pinned
              /\ x \in Nat /\ x < nextFile /\ x \in DOMAIN tables
              /\ merge # Nil => merge.output # x
<1>1. phase = "up"
  BY DEF DbInv, ProcessTypes, BeforeInv, StartInv, CreateInv, RepairInv, OpeningInv, ReplayInv
<1>2. PICK x \in pending :
              /\ edit.added = {x} /\ edit.deleted = {} /\ x \notin pinned /\ imm # {}
              /\ merge # Nil => x # merge.output
  BY <1>1, BuildingFacts DEF DbInv, UpInv
<1>3. x \in Nat /\ x < nextFile /\ x \in DOMAIN tables
  BY <1>1 DEF DbInv, UpInv, UpTables, ProcessTypes
<1>4. x \notin version
  BY <1>1, <1>2 DEF DbInv, WorkInv, TablesInv, Working
<1>5. imm \subseteq OnDisk
  BY <1>1, OnDiskIsBatches DEF DbInv, UpInv, UpLogs
<1> QED BY <1>1, <1>2, <1>3, <1>4, <1>5

\* WriteLevel0Table builds the table and forms the edit.
LEMMA BuildTableStep ==
  ASSUME DbInv, BuildTable
  PROVE  DbInv' /\ Recovered' = Recovered
<1>1. /\ stage = "building" /\ stage' = "append"
      /\ tables' = [n \in DOMAIN tables |-> IF n \in edit.added THEN imm ELSE tables[n]]
      /\ pending' = pending \ edit.added /\ edit' = [edit EXCEPT !.meta = Meta(logFile)]
      /\ UNCHANGED <<logs, manifests, current, temps, phase, save, toReplay, version, logNumber, last,
                     manifestFile, descriptor, mem, imm, logFile, setup, writes, opens, merges, faults,
                     merge, pinned, nextFile, writing, error, acked, synced>>
  BY DEF BuildTable, openVars, setVars, memVars, counts
<1>0. stage = "building"
  BY <1>1
<1>2. PICK x \in pending :
              /\ edit.added = {x} /\ x \notin version /\ x \notin pinned
              /\ x \in Nat /\ x < nextFile /\ x \in DOMAIN tables
              /\ merge # Nil => merge.output # x
  BY <1>0, BuildFacts, Zenon
<1>3. phase = "up" /\ imm # {} /\ imm \subseteq OnDisk /\ edit.deleted = {}
  BY <1>1, BuildFacts
<1>4. /\ Readable(current) /\ Working /\ manifestFile = current
      /\ nextFile \in Nat \ {0} /\ logFile \in Nat /\ logFile < nextFile /\ last \in 0..MaxWrites
  BY <1>3, UpFacts
<1>5. /\ edit' \in Edits /\ edit'.added = {x} /\ edit'.deleted = {}
      /\ edit'.meta = [log |-> logFile, next |-> nextFile, last |-> last]
  <2>1. edit \in Edits
    BY DEF DbInv, ProcessTypes
  <2>2. [log |-> logFile, next |-> nextFile, last |-> last] \in Metas
    BY <1>4 DEF Metas
  <2> QED BY <2>1, <2>2, <1>1, <1>2, <1>3 DEF Edits, Meta
<1>6. /\ DOMAIN tables' = DOMAIN tables /\ tables'[x] = imm
      /\ \A m \in DOMAIN tables' : m # x => tables'[m] = tables[m]
  BY <1>1, <1>2
<1>7. \A ns : x \notin ns => TableBatches(tables', ns) = TableBatches(tables, ns)
  BY <1>6, SameTables
<1>8. Upto(TableBatches(tables', pinned \union pending'), last)
  <2>1. TableBatches(tables', pinned \union pending') = TableBatches(tables, pinned \union pending')
    BY <1>1, <1>2, <1>7
  <2>2. TableBatches(tables, pinned \union pending') \subseteq TableBatches(tables, pinned \union pending)
    <3>1. pinned \union pending' \subseteq pinned \union pending BY <1>1
    <3> QED BY <3>1, TableFacts
  <2>3. Upto(TableBatches(tables, pinned \union pending), last)
    BY <1>3 DEF DbInv, UpInv, UpLast
  <2> QED BY <2>1, <2>2, <2>3 DEF Upto
<1>9. pinned \union pending \subseteq DOMAIN tables
  BY <1>3 DEF DbInv, UpInv, UpTables
<1>10. merge # Nil => merge.output \in pending'
  BY <1>1, <1>2, <1>3 DEF DbInv, UpInv, UpMerge
<1>11. /\ CountTypes' /\ ProcessTypes' /\ WriteNumbers' /\ StoredInv' /\ BeforeInv' /\ OpeningInv'
       /\ WorkInv' /\ UpLogs' /\ UpLast' /\ UpTables' /\ UpManifest' /\ UpMerge'
       /\ Recovered' = Recovered /\ Report' = Report
  <2>1. faults' \in Nat
    BY <1>1 DEF DbInv, CountTypes
  <2>2. /\ edit'.added \subseteq DOMAIN tables' /\ edit'.added \intersect version = {}
        /\ \A m \in edit'.added : m < nextFile
        /\ pinned \union pending' \subseteq DOMAIN tables' /\ pending' \subseteq pending
        /\ error' \in {error, TRUE} /\ stage' \in {"idle", "append"} /\ (stage' = "idle" => error')
    BY <1>1, <1>2, <1>5, <1>6, <1>9
  <2>3. /\ DOMAIN tables' \subseteq DOMAIN tables /\ DOMAIN tables \ {x} \subseteq DOMAIN tables'
        /\ tables'[x] \subseteq OnDisk
    BY <1>3, <1>6
  <2> QED BY <2>1, <2>2, <2>3, <1>1, <1>2, <1>3, <1>5, <1>6, <1>8, <1>10, OwnTableStep
<1>12. TableBatches(tables', {x}) = imm
  BY <1>2, <1>6, TableFacts
<1>13. EditReady'
  <2>1. Upto(TableBatches(tables', version \union {x}), last)
    <3>1. TableBatches(tables', version \union {x}) =
            TableBatches(tables', version) \union TableBatches(tables', {x})
      BY TableFacts
    <3>2. TableBatches(tables', version) = TableBatches(tables, version)
      BY <1>2, <1>7
    <3>3. Upto(TableBatches(tables, version), last)
      BY <1>4 DEF DbInv, WorkInv, TablesInv
    <3>4. Upto(imm, last) BY <1>3 DEF DbInv, UpInv, UpLast, Upto
    <3> QED BY <3>1, <3>2, <3>3, <3>4, <1>12 DEF Upto
  <2>2. \A n \in version : n < nextFile
    BY <1>4 DEF DbInv, WorkInv, TablesInv
  <2>3. manifestFile < nextFile /\ Report.meta.next <= nextFile
    BY <1>4 DEF DbInv, WorkInv, AgreeInv
  <2>4. edit'.meta # Nil
    <3>1. edit'.meta \in Metas BY <1>4, <1>5 DEF Metas
    <3> QED BY <3>1, NilIsNoMeta
  <2> QED BY <2>1, <2>2, <2>3, <2>4, <1>1, <1>2, <1>4, <1>5, <1>11 DEF EditReady
<1>14. UpEdit'
  <2>1. FlushEdit'
    <3>1. /\ imm' # {} /\ TableBatches(tables', edit'.added) = imm' /\ edit'.meta.log = logFile'
          /\ merge' # Nil => merge'.output \notin edit'.added
      <4>1. imm' # {} /\ TableBatches(tables', edit'.added) = imm' /\ edit'.meta.log = logFile'
        <5>1. imm' = imm /\ logFile' = logFile /\ imm # {}
          BY <1>1, <1>3
        <5>2. edit'.added = {x} /\ edit'.meta.log = logFile
          BY <1>5
        <5> QED BY <5>1, <5>2, <1>12
      <4>2. merge' # Nil => merge'.output \notin edit'.added
        BY <1>1, <1>2, <1>3, <1>5
      <4> QED BY <4>1, <4>2
    <3> QED BY <3>1 DEF FlushEdit
  <2> QED BY <2>1, <1>1, <1>5, <1>13 DEF UpEdit, IdleEdit, BuildingEdit, MergeEdit
<1> QED BY <1>11, <1>14 DEF DbInv, UpInv

\* WriteLevel0Table fails and removes its table.
LEMMA BuildFailsStep ==
  ASSUME DbInv, BuildFails
  PROVE  DbInv' /\ Recovered' = Recovered
<1>1. /\ stage = "building" /\ stage' = "idle" /\ error' = TRUE /\ faults' = faults + 1
      /\ tables' = [n \in DOMAIN tables \ edit.added |-> tables[n]]
      /\ pending' = pending \ edit.added /\ edit' = NoEdit
      /\ UNCHANGED <<logs, manifests, current, temps, phase, save, toReplay, version, logNumber, last,
                     manifestFile, descriptor, mem, imm, logFile, setup, writes, opens, merges,
                     merge, pinned, nextFile, writing, acked, synced>>
  BY DEF BuildFails, Fault, openVars, setVars, memVars
<1>0. stage = "building"
  BY <1>1
<1>2. PICK x \in pending :
              /\ edit.added = {x} /\ x \notin version /\ x \notin pinned
              /\ x \in Nat /\ x < nextFile /\ x \in DOMAIN tables
              /\ merge # Nil => merge.output # x
  BY <1>0, BuildFacts, Zenon
<1>3. phase = "up"
  BY <1>1, BuildFacts
<1>5. edit' \in Edits /\ edit'.added = {} /\ edit'.deleted = {}
  BY <1>1, NoEditFacts
<1>6. /\ DOMAIN tables' = DOMAIN tables \ {x}
      /\ \A m \in DOMAIN tables' : m # x => tables'[m] = tables[m]
  BY <1>1, <1>2
<1>8. Upto(TableBatches(tables', pinned \union pending'), last)
  <2>1. TableBatches(tables', pinned \union pending') = TableBatches(tables, pinned \union pending')
    <3>1. x \notin pinned \union pending' BY <1>1, <1>2
    <3> QED BY <3>1, <1>6, SameTables
  <2>2. TableBatches(tables, pinned \union pending') \subseteq TableBatches(tables, pinned \union pending)
    <3>1. pinned \union pending' \subseteq pinned \union pending BY <1>1
    <3> QED BY <3>1, TableFacts
  <2>3. Upto(TableBatches(tables, pinned \union pending), last)
    BY <1>3 DEF DbInv, UpInv, UpLast
  <2> QED BY <2>1, <2>2, <2>3 DEF Upto
<1>9. pinned \union pending \subseteq DOMAIN tables
  BY <1>3 DEF DbInv, UpInv, UpTables
<1>10. merge # Nil => merge.output \in pending'
  BY <1>1, <1>2, <1>3 DEF DbInv, UpInv, UpMerge
<1>11. /\ CountTypes' /\ ProcessTypes' /\ WriteNumbers' /\ StoredInv' /\ BeforeInv' /\ OpeningInv'
       /\ WorkInv' /\ UpLogs' /\ UpLast' /\ UpTables' /\ UpManifest' /\ UpMerge'
       /\ Recovered' = Recovered /\ Report' = Report
  <2>1. faults' \in Nat
    BY <1>1 DEF DbInv, CountTypes
  <2>2. /\ edit'.added \subseteq DOMAIN tables' /\ edit'.added \intersect version = {}
        /\ \A m \in edit'.added : m < nextFile
        /\ pinned \union pending' \subseteq DOMAIN tables' /\ pending' \subseteq pending
        /\ error' \in {error, TRUE} /\ stage' \in {"idle", "append"} /\ (stage' = "idle" => error')
    BY <1>1, <1>2, <1>5, <1>6, <1>9
  <2>3. /\ DOMAIN tables' \subseteq DOMAIN tables /\ DOMAIN tables \ {x} \subseteq DOMAIN tables'
        /\ x \notin DOMAIN tables'
    BY <1>6
  <2> QED BY <2>1, <2>2, <2>3, <1>1, <1>2, <1>3, <1>5, <1>6, <1>8, <1>10, OwnTableStep
<1>14. UpEdit'
  BY <1>1 DEF UpEdit, IdleEdit, BuildingEdit, MergeEdit, FlushEdit
<1> QED BY <1>11, <1>14 DEF DbInv, UpInv

\* A compaction finishes its table, or fails.
LEMMA FinishMergeStep ==
  ASSUME DbInv, FinishMerge
  PROVE  DbInv' /\ Recovered' = Recovered
<1> DEFINE o == merge.output
<1>1. /\ phase = "up" /\ ~error /\ stage = "idle" /\ merge # Nil /\ stage' = "append"
      /\ tables' = [tables EXCEPT ![o] = BatchesIn(merge.inputs)]
      /\ edit' = [added |-> {o}, deleted |-> merge.inputs, meta |-> Meta(logNumber)]
      /\ UNCHANGED <<logs, manifests, current, temps, phase, save, toReplay, version, logNumber, last,
                     manifestFile, descriptor, mem, imm, logFile, setup, writes, opens, merges, faults,
                     merge, pinned, nextFile, pending, writing, error, acked, synced>>
  BY DEF FinishMerge, Running, openVars, setVars, memVars, counts
<1>2. /\ merge.inputs \subseteq version /\ merge.inputs # {}
      /\ o \in pending /\ o \notin version /\ o \notin pinned
  BY <1>1 DEF DbInv, UpInv, UpMerge
<1>3. o \in Nat \ {0} /\ o < nextFile /\ o \in DOMAIN tables
  BY <1>1, <1>2 DEF DbInv, UpInv, UpTables, ProcessTypes
<1> HIDE DEF o
<1>4. /\ Readable(current) /\ Working /\ manifestFile = current /\ StoredInv
      /\ nextFile \in Nat \ {0} /\ logNumber \in Nat /\ logNumber < nextFile /\ last \in 0..MaxWrites
  BY <1>1, UpFacts
<1>5. /\ edit' \in Edits /\ edit'.added = {o} /\ edit'.deleted = merge.inputs
      /\ edit'.meta = [log |-> logNumber, next |-> nextFile, last |-> last]
  <2>1. merge.inputs \in SUBSET (Nat \ {0})
    BY <1>2 DEF DbInv, ProcessTypes
  <2>2. [log |-> logNumber, next |-> nextFile, last |-> last] \in Metas
    BY <1>4 DEF Metas
  <2> QED BY <2>1, <2>2, <1>1, <1>3 DEF Edits, Meta
<1>6. /\ DOMAIN tables' = DOMAIN tables /\ tables'[o] = TableBatches(tables, merge.inputs)
      /\ \A m \in DOMAIN tables' : m # o => tables'[m] = tables[m]
  BY <1>1, <1>3, FoundIsFoundBy
<1>7. \A ns : o \notin ns => TableBatches(tables', ns) = TableBatches(tables, ns)
  BY <1>6, SameTables
<1>8. tables'[o] \subseteq OnDisk /\ Upto(tables'[o], last)
  <2>1. TableBatches(tables, merge.inputs) \subseteq TableBatches(tables, version)
    BY <1>2, TableFacts
  <2>2. Upto(TableBatches(tables, version), last)
    BY <1>4 DEF DbInv, WorkInv, TablesInv
  <2>3. TableBatches(tables, merge.inputs) \subseteq OnDisk
    BY <1>4, OnDiskIsBatches
  <2> QED BY <2>1, <2>2, <2>3, <1>6 DEF Upto
<1>9. TableBatches(tables', {o}) = tables'[o]
  BY <1>3, <1>6, TableFacts
<1>10. Upto(TableBatches(tables', pinned \union pending'), last)
  <2> DEFINE rest == (pinned \union pending) \ {o}
  <2>1. pinned \union pending' = rest \union {o} /\ o \notin rest /\ rest \subseteq pinned \union pending
    BY <1>1, <1>2
  <2> HIDE DEF rest
  <2>2. TableBatches(tables', rest \union {o}) =
          TableBatches(tables', rest) \union TableBatches(tables', {o})
    BY TableFacts
  <2>3. TableBatches(tables', rest) = TableBatches(tables, rest)
    BY <2>1, <1>7
  <2>4. TableBatches(tables, rest) \subseteq TableBatches(tables, pinned \union pending)
    BY <2>1, TableFacts
  <2>5. Upto(TableBatches(tables, pinned \union pending), last)
    BY <1>1 DEF DbInv, UpInv, UpLast
  <2> QED BY <2>1, <2>2, <2>3, <2>4, <2>5, <1>8, <1>9 DEF Upto
<1>11. pinned \union pending \subseteq DOMAIN tables
  BY <1>1 DEF DbInv, UpInv, UpTables
<1>12. /\ CountTypes' /\ ProcessTypes' /\ WriteNumbers' /\ StoredInv' /\ BeforeInv' /\ OpeningInv'
       /\ WorkInv' /\ UpLogs' /\ UpLast' /\ UpTables' /\ UpManifest' /\ UpMerge'
       /\ Recovered' = Recovered /\ Report' = Report
  <2>1. faults' \in Nat
    BY <1>1 DEF DbInv, CountTypes
  <2>2. /\ edit'.added \subseteq DOMAIN tables' /\ edit'.added \intersect version = {}
        /\ \A m \in edit'.added : m < nextFile
        /\ pinned \union pending' \subseteq DOMAIN tables' /\ pending' \subseteq pending
        /\ error' \in {error, TRUE} /\ stage' \in {"idle", "append"} /\ (stage' = "idle" => error')
    BY <1>1, <1>2, <1>3, <1>5, <1>6, <1>11
  <2>3. /\ DOMAIN tables' \subseteq DOMAIN tables /\ DOMAIN tables \ {o} \subseteq DOMAIN tables'
        /\ tables'[o] \subseteq OnDisk
    BY <1>6, <1>8
  <2>4. merge # Nil => merge.output \in pending'
    BY <1>1, <1>2 DEF o
  <2> QED BY <2>1, <2>2, <2>3, <2>4, <1>1, <1>2, <1>5, <1>6, <1>10, OwnTableStep
<1>13. EditReady'
  <2>1. Upto(TableBatches(tables', version \union {o}), last)
    <3>1. TableBatches(tables', version \union {o}) =
            TableBatches(tables', version) \union TableBatches(tables', {o})
      BY TableFacts
    <3>2. TableBatches(tables', version) = TableBatches(tables, version)
      BY <1>2, <1>7
    <3>3. Upto(TableBatches(tables, version), last)
      BY <1>4 DEF DbInv, WorkInv, TablesInv
    <3> QED BY <3>1, <3>2, <3>3, <1>8, <1>9 DEF Upto
  <2>2. \A n \in version : n < nextFile
    BY <1>4 DEF DbInv, WorkInv, TablesInv
  <2>3. manifestFile < nextFile /\ Report.meta.next <= nextFile
    BY <1>4 DEF DbInv, WorkInv, AgreeInv
  <2>4. edit'.meta # Nil
    <3>1. edit'.meta \in Metas BY <1>4, <1>5 DEF Metas
    <3> QED BY <3>1, NilIsNoMeta
  <2> QED BY <2>1, <2>2, <2>3, <2>4, <1>1, <1>3, <1>4, <1>5, <1>12 DEF EditReady
<1>14. UpEdit'
  <2>1. TableBatches(tables', merge.inputs) = TableBatches(tables, merge.inputs)
    BY <1>2, <1>7
  <2>2. MergeEdit'
    BY <2>1, <1>1, <1>5, <1>6 DEF MergeEdit, o
  <2>3. edit'.deleted # {}
    BY <1>2, <1>5
  <2> QED BY <2>2, <2>3, <1>1, <1>13 DEF UpEdit, IdleEdit, BuildingEdit, FlushEdit
<1> QED BY <1>12, <1>14 DEF DbInv, UpInv

------------------------
(* DeleteObsoleteFiles. *)

\* While obsolete files are removed no edit is on its way, and the manifest agrees with the
\* version.
LEMMA CleanFacts ==
  ASSUME DbInv, stage = "clean"
  PROVE  phase = "up" /\ edit = NoEdit /\ Agrees /\ (setup.crash = "never" \/ Settled) /\ Possible = {Report}
<1>1. phase = "up"
  BY DEF DbInv, ProcessTypes, BeforeInv, StartInv, CreateInv, RepairInv, OpeningInv, ReplayInv
<1>2. edit = NoEdit
  BY <1>1 DEF DbInv, UpInv, UpEdit, IdleEdit
<1>3. Readable(current) /\ StoredInv
  BY <1>1, UpFacts
<1>4. Agrees
  BY <1>1 DEF DbInv, WorkInv, AgreeInv, Working, Overtaken, Written
<1>5. setup.crash = "never" \/ Settled
  BY <1>1 DEF DbInv, UpInv, UpManifest
<1> QED BY <1>1, <1>2, <1>3, <1>4, <1>5, ReadableFacts DEF StoredInv

\* Removing a log that no report counts.
LEMMA LogRemoved ==
  ASSUME DbInv, stage = "clean", NEW n \in DOMAIN logs, n < logNumber, logs' = Without(logs, n),
         UNCHANGED <<manifests, tables, current, temps, setup, synced, writes>>
  PROVE  /\ StoredInv' /\ Report' = Report /\ Possible' = Possible
         /\ Recovered' = Recovered /\ Readable(current)' /\ OnDisk' \subseteq OnDisk
         /\ \A m \in DOMAIN logs' : logs'[m] = logs[m]
         /\ DOMAIN logs' \subseteq DOMAIN logs /\ From(logs', logNumber) = From(logs, logNumber)
<1>1. phase = "up" /\ Agrees /\ Possible = {Report}
  BY CleanFacts
<1>2. StoredInv /\ Readable(current) /\ DOMAIN logs \subseteq Nat /\ logNumber \in Nat
  BY <1>1, UpFacts
<1>3. DOMAIN logs' = DOMAIN logs \ {n} /\ \A m \in DOMAIN logs' : logs'[m] = logs[m]
  BY DEF Without
<1>4. From(logs', logNumber) = From(logs, logNumber)
  BY <1>2, <1>3 DEF From
<1>5. /\ LogBatches(logs', From(logs, logNumber)) = LogBatches(logs, From(logs, logNumber))
      /\ SyncedBatches(logs', From(logs, logNumber)) = SyncedBatches(logs, From(logs, logNumber))
  <2>1. \A m \in From(logs, logNumber) : /\ m \in DOMAIN logs' /\ m \in DOMAIN logs
                                         /\ logs'[m] = logs[m]
    BY <1>3, <1>4 DEF From
  <2> QED BY <2>1, SameLogs, SameSynced
<1>6. OnDisk' \subseteq OnDisk
  <2>1. LogBatches(logs', DOMAIN logs') \subseteq LogBatches(logs, DOMAIN logs)
    BY <1>3 DEF LogBatches
  <2> QED BY <2>1 DEF OnDisk, Disk
<1>7. DiskTypes'
  <2>1. Bounded(DOMAIN logs)'
    BY <1>2, <1>3, BoundedFacts DEF StoredInv, DiskTypes
  <2>2. \A m \in DOMAIN logs' : IsFile(logs'[m], Batches)
    BY <1>2, <1>3 DEF StoredInv, DiskTypes
  <2> QED BY <2>1, <2>2, <1>2 DEF StoredInv, DiskTypes
<1>8. setup.crash = "never" => \A m \in DOMAIN logs' : logs'[m].end = "whole"
  BY <1>2, <1>3 DEF StoredInv, DiskInv
<1>9. \A r \in Possible : r.meta # Nil =>
        /\ r.files \subseteq DOMAIN tables'
        /\ TableBatches(tables', r.files) = TableBatches(tables, r.files)
        /\ FoundBy(tables', logs', r) = FoundBy(tables, logs, r)
        /\ KeptBy(tables, logs, r) \subseteq KeptBy(tables', logs', r)
  <2>1. Report.files = version /\ Report.meta.log = logNumber
    BY <1>1 DEF Agrees
  <2>2. version \subseteq DOMAIN tables
    BY <1>1 DEF DbInv, WorkInv, TablesInv, Working
  <2>3. FoundBy(tables, logs', Report) = FoundBy(tables, logs, Report)
    BY <2>1, <1>4, <1>5 DEF FoundBy
  <2>4. KeptBy(tables, logs', Report) = KeptBy(tables, logs, Report)
    BY <2>1, <1>4, <1>5 DEF KeptBy
  <2> QED BY <2>1, <2>2, <2>3, <2>4, <1>1
<1>10. /\ StoredInv' /\ Report' = Report /\ Possible' = Possible
       /\ Recovered' = Recovered /\ Readable(current)'
  BY <1>2, <1>6, <1>7, <1>8, <1>9, OtherFiles
<1> QED BY <1>3, <1>4, <1>6, <1>10

\* DeleteObsoleteFiles removes one file.
LEMMA DeleteObsoleteFileStep ==
  ASSUME DbInv, DeleteObsoleteFile
  PROVE  DbInv' /\ Recovered' = Recovered
<1>0. /\ stage = "clean" /\ error = FALSE /\ Live = pending \union version \union pinned
      /\ UNCHANGED <<current, phase, save, toReplay, version, logNumber, last, manifestFile, descriptor,
                     mem, imm, logFile, setup, writes, opens, merges, faults, stage, pinned, nextFile,
                     pending, edit, merge, writing, error, acked, synced>>
  BY DEF DeleteObsoleteFile, Live, openVars, setVars, memVars, counts, DbInv, ProcessTypes
<1>1. phase = "up" /\ edit = NoEdit /\ Agrees /\ edit.added = {}
  BY <1>0, CleanFacts, NoEditFacts
<1>2. /\ Readable(current) /\ Working /\ descriptor = TRUE
      /\ manifestFile = current /\ manifests[current].end = "whole" /\ logFile # 0
      /\ logFile \in Nat /\ logNumber \in Nat /\ logFile \in DOMAIN logs /\ logNumber <= logFile
      /\ DOMAIN logs \subseteq Nat /\ StoredInv /\ current \in DOMAIN manifests
  <2>1. current \in DOMAIN manifests
    BY <1>1, UpFacts DEF Readable
  <2> QED BY <2>1, <1>1, UpFacts
<1>3. /\ StoredInv' /\ Report' = Report /\ Possible' = Possible
      /\ Recovered' = Recovered /\ Readable(current)' /\ OnDisk' \subseteq OnDisk
      /\ \A m \in DOMAIN logs' : logs'[m] = logs[m]
      /\ DOMAIN logs' \subseteq DOMAIN logs /\ From(logs', logNumber) = From(logs, logNumber)
      /\ manifests'[current] = manifests[current]
      /\ Live \subseteq DOMAIN tables'
      /\ \A ns : ns \subseteq Live => TableBatches(tables', ns) = TableBatches(tables, ns)
  <2>0. Live \subseteq DOMAIN tables
    BY <1>0, <1>1, <1>2 DEF DbInv, WorkInv, TablesInv, UpInv, UpTables
  <2>1. CASE UNCHANGED <<manifests, tables, temps>> /\ \E n \in ObsoleteLogs : logs' = Without(logs, n)
    <3>1. PICK n \in DOMAIN logs : n < logNumber /\ logs' = Without(logs, n)
      BY <2>1 DEF ObsoleteLogs
    <3>2. UNCHANGED <<manifests, tables, current, temps, setup, synced, writes>>
      BY <2>1, <1>0
    <3>3. /\ StoredInv' /\ Report' = Report /\ Possible' = Possible
          /\ Recovered' = Recovered /\ Readable(current)' /\ OnDisk' \subseteq OnDisk
          /\ \A m \in DOMAIN logs' : logs'[m] = logs[m]
          /\ DOMAIN logs' \subseteq DOMAIN logs /\ From(logs', logNumber) = From(logs, logNumber)
      BY <3>1, <3>2, <1>0, LogRemoved
    <3> QED BY <3>2, <3>3, <2>0
  <2>2. CASE /\ UNCHANGED <<logs, tables, temps>>
             /\ \E n \in {m \in DOMAIN manifests : m < manifestFile} : manifests' = Without(manifests, n)
    <3>1. PICK n \in DOMAIN manifests : n < manifestFile /\ manifests' = Without(manifests, n)
      BY <2>2
    <3>2. n # current BY <3>1, <1>2 DEF StoredInv, DiskTypes
    <3>3. DOMAIN manifests' = DOMAIN manifests \ {n}
          /\ \A m \in DOMAIN manifests' : manifests'[m] = manifests[m]
      BY <3>1 DEF Without
    <3>4. UNCHANGED <<logs, tables, current, setup, synced, writes>> /\ Bounded(temps')
      BY <2>2, <1>0, <1>2 DEF StoredInv, DiskTypes
    <3>5. \A m \in DOMAIN manifests' : m # current =>
           /\ m \in Nat \ {0} /\ IsFile(manifests'[m], Edits)
           /\ manifests'[m].end # "buried"
           /\ setup.crash = "never" => manifests'[m].end \in {"whole", "bad"}
      BY <3>3, <1>2 DEF StoredInv, DiskTypes, DiskInv
    <3>6. current \in DOMAIN manifests' /\ manifests'[current] = manifests[current]
      BY <3>2, <3>3, <1>2
    <3>7. /\ StoredInv' /\ OnDisk' = OnDisk /\ Report' = Report /\ Possible' = Possible
          /\ Recovered' = Recovered /\ Readable(current)'
      BY <3>4, <3>5, <3>6, <1>2, OtherManifests
    <3> QED BY <3>4, <3>6, <3>7, <2>0
  <2>3. CASE UNCHANGED <<logs, manifests, temps>> /\ \E n \in DOMAIN tables \ Live : tables' = Without(tables, n)
    <3>1. PICK n \in DOMAIN tables \ Live : tables' = Without(tables, n) BY <2>3
    <3>2. /\ DOMAIN tables' = DOMAIN tables \ {n} /\ n \notin Live /\ n \notin version
          /\ \A m \in DOMAIN tables' : m # n => tables'[m] = tables[m]
      BY <3>1, <1>0 DEF Without
    <3>3. UNCHANGED <<logs, manifests, current, setup, synced, writes, temps>>
      BY <2>3, <1>0
    <3>4. /\ DOMAIN tables' \subseteq DOMAIN tables /\ DOMAIN tables \ {n} \subseteq DOMAIN tables'
          /\ n \notin DOMAIN tables'
      BY <3>2
    <3>5. /\ StoredInv' /\ Report' = Report /\ Possible' = Possible
          /\ Recovered' = Recovered /\ Readable(current)' /\ OnDisk' \subseteq OnDisk
          /\ \A ns : n \notin ns => TableBatches(tables', ns) = TableBatches(tables, ns)
      BY <3>2, <3>3, <3>4, <1>0, <1>1, OwnTable
    <3> QED BY <3>2, <3>3, <3>5, <2>0
  <2>4. CASE UNCHANGED <<logs, manifests, tables>> /\ \E n \in temps \ Live : temps' = temps \ {n}
    <3>1. UNCHANGED <<logs, manifests, tables, current, setup, synced, writes>>
      BY <2>4, <1>0
    <3>2. Bounded(temps') BY <2>4, <1>2, BoundedFacts DEF StoredInv, DiskTypes
    <3>3. /\ StoredInv' /\ Report' = Report /\ Possible' = Possible /\ OnDisk' = OnDisk
          /\ Recovered' = Recovered /\ Readable(current)'
      BY <3>1, <3>2, <1>2, SameDisk
    <3> QED BY <3>1, <3>3, <2>0
  <2> QED BY <2>1, <2>2, <2>3, <2>4 DEF DeleteObsoleteFile
<1>4. CountTypes' /\ ProcessTypes' /\ WriteNumbers' /\ BeforeInv' /\ OpeningInv'
  <2>1. CountTypes' /\ ProcessTypes' /\ WriteNumbers'
    BY <1>0 DEF DbInv, CountTypes, ProcessTypes, WriteNumbers
  <2> QED BY <2>1, <1>0, <1>1, NotStarting, NotOpening
<1>5. AgreeInv'
  <2>1. Agrees' /\ ~Overtaken'
    BY <1>0, <1>1, <1>3 DEF Agrees, Overtaken, Written
  <2> QED BY <2>1, <1>0, <1>2, <1>3 DEF DbInv, WorkInv, AgreeInv, Working
<1>6. TablesInv'
  <2>1. TableBatches(tables', version) = TableBatches(tables, version) /\ version \subseteq DOMAIN tables'
    BY <1>0, <1>3
  <2> QED BY <2>1, <1>0, <1>1, <1>2 DEF DbInv, WorkInv, TablesInv, Working
<1>7. logFile \in DOMAIN logs' /\ logs'[logFile] = logs[logFile]
  <2>1. logFile \in From(logs, logNumber)
    BY <1>2 DEF From
  <2> QED BY <2>1, <1>3 DEF From
<1>8. LogInv' /\ DescriptorInv'
  BY <1>0, <1>2, <1>3, <1>7 DEF DbInv, WorkInv, LogInv, DescriptorInv, Working
<1>9. UpLogs'
  <2>1. Older' = Older /\ W' = W
    BY <1>0, <1>3 DEF Older, W
  <2>2. LogBatches(logs', Older) = LogBatches(logs, Older)
    <3>1. \A m \in Older : m \in DOMAIN logs' /\ m \in DOMAIN logs /\ logs'[m] = logs[m]
      BY <1>3 DEF Older, From
    <3> QED BY <3>1, SameLogs
  <2> QED BY <2>1, <2>2, <1>0, <1>7 DEF DbInv, UpInv, UpLogs
<1>10. UpLast'
  <2>1. TableBatches(tables', pinned \union pending) = TableBatches(tables, pinned \union pending)
    BY <1>0, <1>3
  <2> QED BY <2>1, <1>0 DEF DbInv, UpInv, UpLast
<1>11. UpTables' /\ UpMerge'
  BY <1>0, <1>3 DEF DbInv, UpInv, UpTables, UpMerge
<1>12. UpManifest'
  <2>1. TableBatches(tables', version) = TableBatches(tables, version)
    BY <1>0, <1>3
  <2>2. FoundBy(tables', logs', Report) = FoundBy(tables, logs, Report)
    <3>1. Recovered = FoundBy(tables, logs, Report) BY <1>2, FoundIsFoundBy
    <3>2. (Recovered = IF Readable(current) THEN FoundBy(tables, logs, Report) ELSE {})'
      BY FoundIsFoundBy, PTL
    <3> QED BY <3>1, <3>2, <1>3
  <2>3. Settled' = Settled
    BY <1>0, <1>3 DEF Settled
  <2> QED BY <2>1, <2>2, <2>3, <1>0, <1>3 DEF DbInv, UpInv, UpManifest
<1>13. UpEdit'
  BY <1>0, <1>1 DEF UpEdit, IdleEdit, BuildingEdit, FlushEdit, MergeEdit
<1> QED BY <1>3, <1>4, <1>5, <1>6, <1>8, <1>9, <1>10, <1>11, <1>12, <1>13 DEF DbInv, WorkInv, UpInv

\* DeleteObsoleteFiles is done.
LEMMA CleanedStep ==
  ASSUME DbInv, Cleaned
  PROVE  DbInv' /\ Recovered' = Recovered
<1>0. /\ stage = "clean" /\ stage' = "idle"
      /\ UNCHANGED <<logs, manifests, tables, current, temps, phase, save, toReplay, version, logNumber, last,
                     manifestFile, descriptor, mem, imm, logFile, setup, writes, opens, merges, faults,
                     pinned, nextFile, pending, edit, merge, writing, error, acked, synced>>
      /\ ~error => ObsoleteLogs = {} /\ DOMAIN tables \subseteq Live
  BY DEF Cleaned, diskVars, openVars, setVars, memVars, counts
<1>1. phase = "up" /\ edit = NoEdit /\ Agrees /\ (setup.crash = "never" \/ Settled)
  BY <1>0, CleanFacts
<1>2. /\ Readable(current) /\ Working /\ descriptor = TRUE /\ manifestFile = current
      /\ manifests[current].end = "whole"
      /\ logFile \in Nat /\ logNumber \in Nat /\ logFile \in DOMAIN logs /\ logNumber <= logFile
      /\ DOMAIN logs \subseteq Nat /\ StoredInv
  BY <1>1, UpFacts
<1>3. /\ StoredInv' /\ Report' = Report /\ Possible' = Possible /\ OnDisk' = OnDisk
      /\ Recovered' = Recovered /\ Readable(current)'
  BY <1>0, <1>2, SameDisk
<1>4. CountTypes' /\ ProcessTypes' /\ WriteNumbers' /\ BeforeInv' /\ OpeningInv'
  <2>1. CountTypes' /\ ProcessTypes' /\ WriteNumbers'
    BY <1>0 DEF DbInv, CountTypes, ProcessTypes, WriteNumbers
  <2> QED BY <2>1, <1>0, <1>1, NotStarting, NotOpening
<1>5. AgreeInv'
  <2>1. Agrees' /\ ~Overtaken'
    BY <1>0, <1>1, <1>3 DEF Agrees, Overtaken, Written
  <2> QED BY <2>1, <1>0, <1>2, <1>3 DEF DbInv, WorkInv, AgreeInv, Working
<1>6. TablesInv' /\ LogInv' /\ DescriptorInv'
  BY <1>0, <1>2 DEF DbInv, WorkInv, TablesInv, LogInv, DescriptorInv, Working, From
<1>7. UpLogs' /\ W' = W
  <2>1. Older' = Older /\ W' = W
    BY <1>0 DEF Older, W, From
  <2> QED BY <2>1, <1>0 DEF DbInv, UpInv, UpLogs
<1>8. ~error => Upto(OnDisk \ W, last)
  <2> SUFFICES ASSUME ~error PROVE Upto(OnDisk \ W, last) OBVIOUS
  <2>1. Upto(TableBatches(tables, DOMAIN tables), last)
    <3>1. DOMAIN tables \subseteq version \union (pinned \union pending)
      BY <1>0 DEF Live
    <3>2. TableBatches(tables, DOMAIN tables) \subseteq TableBatches(tables, version \union (pinned \union pending))
      BY <3>1, TableFacts
    <3>3. TableBatches(tables, version \union (pinned \union pending)) =
            TableBatches(tables, version) \union TableBatches(tables, pinned \union pending)
      BY TableFacts
    <3>4. Upto(TableBatches(tables, version), last) /\ Upto(TableBatches(tables, pinned \union pending), last)
      BY <1>1, <1>2 DEF DbInv, WorkInv, TablesInv, UpInv, UpLast
    <3> QED BY <3>2, <3>3, <3>4 DEF Upto
  <2>2. LogBatches(logs, DOMAIN logs) = imm \union (mem \union W)
    <3>1. DOMAIN logs = Older \union {logFile}
      <4>1. \A n \in DOMAIN logs : ~(n < logNumber) BY <1>0 DEF ObsoleteLogs
      <4> QED BY <4>1, <1>2 DEF Older, From
    <3>2. LogBatches(logs, Older \union {logFile}) = LogBatches(logs, Older) \union LogBatches(logs, {logFile})
      BY LogFacts
    <3>3. LogBatches(logs, {logFile}) = ToSet(logs[logFile].records)
      BY <1>2, LogFacts
    <3>4. imm = LogBatches(logs, Older) /\ mem \union W = ToSet(logs[logFile].records)
      BY <1>1 DEF DbInv, UpInv, UpLogs
    <3> QED BY <3>1, <3>2, <3>3, <3>4
  <2>3. Upto(mem \union imm, last)
    BY <1>1 DEF DbInv, UpInv, UpLast
  <2> QED BY <2>1, <2>2, <2>3 DEF OnDisk, Disk, Upto
<1>9. UpLast'
  BY <1>0, <1>1, <1>3, <1>7, <1>8 DEF DbInv, UpInv, UpLast
<1>10. UpTables' /\ UpMerge'
  BY <1>0 DEF DbInv, UpInv, UpTables, UpMerge
<1>11. UpManifest'
  <2>1. Settled' = Settled
    BY <1>0 DEF Settled
  <2> QED BY <2>1, <1>0, <1>1, <1>3 DEF DbInv, UpInv, UpManifest
<1>12. UpEdit'
  BY <1>0, <1>1 DEF UpEdit, IdleEdit, BuildingEdit, FlushEdit, MergeEdit
<1> QED BY <1>3, <1>4, <1>5, <1>6, <1>7, <1>9, <1>10, <1>11, <1>12 DEF DbInv, WorkInv, UpInv

------------------------
(* Every step. *)

\* A machine without a database satisfies the invariant.
LEMMA InitStep ==
  ASSUME Init
  PROVE  DbInv
<1>1. /\ current = 0 /\ phase = "down" /\ setup \in Setups /\ synced = {} /\ acked = {} /\ temps = {}
      /\ logs = << >> /\ manifests = << >> /\ tables = << >>
      /\ save = FALSE /\ toReplay = {} /\ stage = "idle"
      /\ version = {} /\ pinned = {} /\ logNumber = 0 /\ nextFile = 2 /\ last = 0
      /\ manifestFile = 0 /\ descriptor = FALSE
      /\ mem = {} /\ imm = {} /\ logFile = 0 /\ pending = {}
      /\ edit = NoEdit /\ merge = Nil /\ writing = Nil /\ error = FALSE
      /\ writes = 0 /\ opens = 0 /\ merges = 0 /\ faults = 0
  BY DEF Init
<1>2. DOMAIN logs = {} /\ DOMAIN manifests = {} /\ DOMAIN tables = {} /\ Bounded({})
  <2>1. Bounded({})
    BY DEF Bounded
  <2>2. DOMAIN << >> = {} OBVIOUS
  <2> QED BY <2>1, <2>2, <1>1
<1>3. ~Readable(current)
  BY <1>2 DEF Readable
<1>4. OnDisk = {}
  BY <1>2 DEF OnDisk, Disk, TableBatches, LogBatches
<1>5. StoredInv
  <2>1. DiskTypes
    BY <1>1, <1>2 DEF DiskTypes
  <2>2. BatchNumbers
    BY <1>4 DEF BatchNumbers, Upto
  <2>3. ManifestInv /\ DiskInv
    BY <1>1, <1>2, <1>3, <1>4 DEF ManifestInv, DiskInv
  <2> QED BY <2>1, <2>2, <2>3 DEF StoredInv
<1>6. CountTypes
  BY <1>1, RecoveryAssumption DEF CountTypes
<1>7. ProcessTypes
  <2>1. 0 \in 0..MaxWrites
    BY RecoveryAssumption
  <2>2. edit \in Edits
    BY <1>1, NoEditFacts
  <2>3. /\ phase \in {"down", "create", "read", "replay", "commit", "up", "failed", "repair"}
        /\ stage \in {"idle", "building", "append", "sync", "temp", "rename", "clean",
                      "logs", "scan", "archive", "manifest", "point"}
    BY <1>1
  <2>4. /\ version \subseteq Nat \ {0} /\ pinned \subseteq Nat \ {0} /\ pending \subseteq Nat \ {0}
        /\ toReplay \subseteq Nat \ {0} /\ mem \subseteq Batches /\ imm \subseteq Batches
        /\ logNumber \in Nat /\ nextFile \in Nat \ {0} /\ last \in 0..MaxWrites
        /\ manifestFile \in Nat /\ logFile \in Nat
    BY <2>1, <1>1
  <2>5. descriptor \in BOOLEAN /\ save \in BOOLEAN /\ error \in BOOLEAN
    BY <1>1, Zenon
  <2>6. merge \in Merges \union {Nil} /\ writing \in Writings \union {Nil}
    BY <1>1
  <2> QED BY <2>2, <2>3, <2>4, <2>5, <2>6, Zenon DEF ProcessTypes
<1>8. WriteNumbers
  BY <1>1 DEF WriteNumbers
<1>9. BeforeInv
  BY <1>1 DEF BeforeInv, StartInv, CreateInv, RepairInv, NewProcess, Blank
<1>10. WorkInv
  BY <1>1 DEF WorkInv, AgreeInv, TablesInv, LogInv, DescriptorInv, Working
<1>11. OpeningInv
  BY <1>1 DEF OpeningInv, OpenInv, ReplayInv
<1>12. UpInv
  BY <1>1 DEF UpInv, UpLogs, UpLast, UpTables, UpManifest, UpMerge, UpEdit, IdleEdit, BuildingEdit,
     FlushEdit, MergeEdit
<1> QED BY <1>5, <1>6, <1>7, <1>8, <1>9, <1>10, <1>11, <1>12 DEF DbInv

\* A step that changes nothing.
LEMMA StutterStep ==
  ASSUME DbInv, UNCHANGED vars
  PROVE  DbInv' /\ Recovered' = Recovered
<1>0. UNCHANGED <<setup, logs, manifests, tables, current, temps, phase, stage, version, pinned, logNumber,
                  nextFile, last, manifestFile, descriptor, save, mem, imm, logFile, pending, toReplay,
                  edit, merge, writing, error, acked, synced, writes, opens, merges, faults>>
  BY DEF vars, diskVars, openVars, setVars, memVars, counts
<1>1. /\ StoredInv' /\ Report' = Report /\ Possible' = Possible /\ OnDisk' = OnDisk /\ Harmless' = Harmless
      /\ Recovered' = Recovered /\ Readable(current)' = Readable(current)
  BY <1>0, SameDisk DEF DbInv
<1>2. CountTypes' /\ ProcessTypes' /\ WriteNumbers'
  BY <1>0 DEF DbInv, CountTypes, ProcessTypes, WriteNumbers
<1>3. BeforeInv'
  BY <1>0, <1>1 DEF DbInv, BeforeInv, StartInv, CreateInv, RepairInv, NewProcess, Blank
<1>4. EditReady' = EditReady /\ Older' = Older /\ W' = W /\ Settled' = Settled
  BY <1>0, <1>1 DEF EditReady, Older, From, W, Settled
<1>5. WorkInv'
  BY <1>0, <1>1 DEF DbInv, WorkInv, AgreeInv, TablesInv, LogInv, DescriptorInv, Working, Written,
     Overtaken, Agrees, After, From
<1>6. OpeningInv'
  BY <1>0, <1>1, <1>4 DEF DbInv, OpeningInv, OpenInv, ReplayInv, From
<1>7. UpInv'
  <2>1. UpLogs' /\ UpLast' /\ UpTables' /\ UpMerge'
    BY <1>0, <1>1, <1>4 DEF DbInv, UpInv, UpLogs, UpLast, UpTables, UpMerge
  <2>2. UpManifest'
    BY <1>0, <1>1, <1>4 DEF DbInv, UpInv, UpManifest
  <2>3. UpEdit'
    BY <1>0, <1>1, <1>4 DEF DbInv, UpInv, UpEdit, IdleEdit, BuildingEdit, FlushEdit, MergeEdit
  <2> QED BY <2>1, <2>2, <2>3 DEF UpInv
<1> QED BY <1>1, <1>2, <1>3, <1>5, <1>6, <1>7 DEF DbInv

\* What every step but three leaves alone.
Grows(b) == b \in Batches /\ b \notin Recovered /\ Recovered' = Recovered \union {b} /\ UNCHANGED <<acked, synced>>
Returns(b) == /\ b \in Batches /\ b \in Recovered /\ Recovered' = Recovered
              /\ acked' = acked \union {b} /\ synced' \in {synced, synced \union {b}}
Stops == /\ synced \subseteq Recovered' /\ Recovered' \subseteq Recovered
         /\ acked' = synced /\ synced' = synced
Stays == Recovered' = Recovered /\ UNCHANGED <<acked, synced>>

\* The setup never changes; only an insert acknowledges, and only a stop of the machine
\* takes an acknowledgement back.
LEMMA Kept ==
  ASSUME RepairNext
  PROVE  /\ setup' = setup
         /\ Insert \/ MachineCrash \/ UNCHANGED <<acked, synced>>
<1>1. ASSUME Open \/ NewDB \/ WriteTemp \/ RenameTemp \/ ReadManifest \/ ReplayLog
      PROVE  UNCHANGED <<setup, acked, synced>>
  BY <1>1 DEF Open, NewDB, WriteTemp, RenameTemp, ReadManifest, ReplayLog, counts
<1>2. ASSUME CreateLog \/ OpenFails \/ AppendEdit \/ SyncManifest \/ ManifestFails \/ DeleteObsoleteFile \/ Cleaned
      PROVE  UNCHANGED <<setup, acked, synced>>
  BY <1>2 DEF CreateLog, OpenFails, AppendEdit, SyncManifest, ManifestFails, DeleteObsoleteFile, Cleaned,
     counts, Fault
<1>3. ASSUME (\E sync \in BOOLEAN : AddRecord(sync)) \/ AppendFails \/ LogSyncFails \/ SwitchMemTable \/ Pin \/ Unpin
      PROVE  UNCHANGED <<setup, acked, synced>>
  BY <1>3 DEF AddRecord, AppendFails, LogSyncFails, SwitchMemTable, Pin, Unpin, counts, Fault
<1>4. ASSUME BeginFlush \/ BuildTable \/ BuildFails \/ BeginMerge \/ FinishMerge \/ ProcessEnds
      PROVE  UNCHANGED <<setup, acked, synced>>
  BY <1>4 DEF BeginFlush, BuildTable, BuildFails, BeginMerge, FinishMerge, ProcessEnds, counts, Fault
<1>5. ASSUME Damage \/ RepairDB
      PROVE  UNCHANGED <<setup, acked, synced>>
  BY <1>5 DEF Damage, RepairDB, FindFiles, ConvertLog, ExtractMetaData, ArchiveManifests, InstallManifest,
     PointCurrent, counts, Fault
<1>6. ASSUME Insert \/ MachineCrash
      PROVE  setup' = setup
  BY <1>6 DEF Insert, MachineCrash, counts
<1> QED BY <1>1, <1>2, <1>3, <1>4, <1>5, <1>6 DEF RepairNext, Next

\* Every step keeps the invariant and does to the batches that are found one of four
\* things.
LEMMA EveryStep ==
  ASSUME DbInv, \A s \in Setups : Sound(s), RepairNext
  PROVE  DbInv' /\ (setup.damage \/ Stays \/ Stops \/ \E b \in Batches : Grows(b) \/ Returns(b))
<1>1. setup' = setup /\ (Insert \/ MachineCrash \/ UNCHANGED <<acked, synced>>)
  BY Kept
<1>2. CASE Open \/ NewDB \/ WriteTemp \/ ReadManifest \/ ReplayLog \/ CreateLog
  <2>1. DbInv' /\ Recovered' = Recovered
    BY <1>2, OpenStep, NewDBStep, WriteTempStep, ReadManifestStep, ReplayLogStep, CreateLogStep
  <2>2. UNCHANGED <<acked, synced>>
    BY <1>2 DEF Open, NewDB, WriteTemp, ReadManifest, ReplayLog, CreateLog
  <2> QED BY <2>1, <2>2 DEF Stays
<1>3. CASE AppendEdit \/ SyncManifest \/ ManifestFails \/ DeleteObsoleteFile \/ Cleaned
  <2>1. DbInv' /\ Recovered' = Recovered
    BY <1>3, AppendEditStep, SyncManifestStep, ManifestFailsStep, DeleteObsoleteFileStep, CleanedStep
  <2>2. UNCHANGED <<acked, synced>>
    BY <1>3 DEF AppendEdit, SyncManifest, ManifestFails, DeleteObsoleteFile, Cleaned
  <2> QED BY <2>1, <2>2 DEF Stays
<1>4. CASE AppendFails \/ LogSyncFails \/ SwitchMemTable \/ Pin \/ Unpin
  <2>1. DbInv' /\ Recovered' = Recovered
    BY <1>4, AppendFailsStep, LogSyncFailsStep, SwitchMemTableStep, PinStep
  <2>2. UNCHANGED <<acked, synced>>
    BY <1>4 DEF AppendFails, LogSyncFails, SwitchMemTable, Pin, Unpin
  <2> QED BY <2>1, <2>2 DEF Stays
<1>5. CASE BeginFlush \/ BuildTable \/ BuildFails \/ BeginMerge \/ FinishMerge \/ ProcessEnds
  <2>1. DbInv' /\ Recovered' = Recovered
    BY <1>5, BeginTableStep, BuildTableStep, BuildFailsStep, FinishMergeStep, ProcessEndsStep
  <2>2. UNCHANGED <<acked, synced>>
    BY <1>5 DEF BeginFlush, BuildTable, BuildFails, BeginMerge, FinishMerge, ProcessEnds
  <2> QED BY <2>1, <2>2 DEF Stays
<1>6. CASE FindFiles \/ ConvertLog \/ ExtractMetaData \/ ArchiveManifests
  <2>1. DbInv' /\ Recovered' = Recovered
    BY <1>6, FindFilesStep, ConvertLogStep, ExtractMetaDataStep, ArchiveManifestsStep
  <2>2. UNCHANGED <<acked, synced>>
    BY <1>6 DEF FindFiles, ConvertLog, ExtractMetaData, ArchiveManifests
  <2> QED BY <2>1, <2>2 DEF Stays
<1>7. CASE OpenFails \/ RenameTemp \/ InstallManifest \/ PointCurrent \/ Damage
  <2>1. DbInv' /\ (setup.damage \/ Recovered' = Recovered)
    BY <1>7, OpenFailsStep, RenameTempStep, InstallManifestStep, PointCurrentStep, DamageStep
  <2>2. UNCHANGED <<acked, synced>>
    BY <1>7 DEF OpenFails, RenameTemp, InstallManifest, PointCurrent, Damage
  <2> QED BY <2>1, <2>2 DEF Stays
<1>8. CASE \E sync \in BOOLEAN : AddRecord(sync)
  <2>1. PICK sync \in BOOLEAN : AddRecord(sync)
    BY <1>8
  <2>2. DbInv' /\ \E b \in Batches : b \notin Recovered /\ Recovered' = Recovered \union {b}
    BY <2>1, AddRecordStep
  <2>3. UNCHANGED <<acked, synced>>
    BY <2>1 DEF AddRecord
  <2> QED BY <2>2, <2>3 DEF Grows
<1>9. CASE Insert
  <2>1. /\ DbInv' /\ Recovered' = Recovered /\ acked' = acked \union {writing.batch}
        /\ synced' \in {synced, synced \union {writing.batch}} /\ writing.batch \in Recovered
    BY <1>9, InsertStep
  <2>2. writing.batch \in Batches
    BY <1>9 DEF Insert, DbInv, ProcessTypes, Writings
  <2> QED BY <2>1, <2>2 DEF Returns
<1>10. CASE MachineCrash
  <2>1. DbInv' /\ (setup.damage \/ (synced \subseteq Recovered' /\ Recovered' \subseteq Recovered))
    BY <1>10, MachineCrashStep
  <2>2. acked' = synced /\ synced' = synced
    BY <1>10 DEF MachineCrash
  <2> QED BY <2>1, <2>2 DEF Stops
<1> QED BY <1>2, <1>3, <1>4, <1>5, <1>6, <1>7, <1>8, <1>9, <1>10 DEF RepairNext, Next, RepairDB

------------------------
(* The theorems. *)

\* An open database shows what a recovery would find.
LEMMA OpenShows ==
  ASSUME DbInv, phase = "up"
  PROVE  ShownIsRecovered
<1>1. /\ Readable(current) /\ Working /\ logFile # 0 /\ error \in BOOLEAN
      /\ Recovered = FoundBy(tables, logs, Report)
      /\ BatchesIn(version) = TableBatches(tables, version)
  BY UpFacts, FoundIsFoundBy
<1>0. DiskTypes /\ StoredInv
  BY DEF DbInv, StoredInv
<1>2. ShownIsRecoverable
  BY <1>1 DEF DbInv, UpInv, UpManifest, ShownIsRecoverable
<1>3. ASSUME ~error, writing = Nil PROVE Recovered = mem \union imm \union TableBatches(tables, version)
  <2>1. LogBatches(logs, From(logs, logNumber)) = imm \union mem
    <3>1. LogBatches(logs, From(logs, logNumber)) = LogBatches(logs, Older) \union LogBatches(logs, {logFile})
      <4>1. LogInv /\ logNumber \in Nat /\ logFile \in Nat /\ DOMAIN logs \subseteq Nat
        BY UpFacts DEF DbInv, WorkInv
      <4> QED BY <4>1, <1>1, <1>0, LogsThatCount
    <3>2. LogBatches(logs, {logFile}) = ToSet(logs[logFile].records)
      BY UpFacts, LogFacts
    <3>3. mem = ToSet(logs[logFile].records) /\ imm = LogBatches(logs, Older)
      BY <1>3 DEF DbInv, UpInv, UpLogs, W
    <3> QED BY <3>1, <3>2, <3>3
  <2>2. FoundBy(tables, logs, Report) =
          TableBatches(tables, version) \union LogBatches(logs, From(logs, logNumber))
    <3>1. CASE stage \in {"append", "sync", "temp", "rename"}
      BY <3>1, EditKeeps, FoundAgrees
    <3>2. CASE stage \notin {"append", "sync", "temp", "rename"}
      <4>1. Agrees
        BY <3>2, <1>1, <1>3 DEF DbInv, WorkInv, AgreeInv, Overtaken, Written
      <4> QED BY <4>1 DEF Agrees, FoundBy
    <3> QED BY <3>1, <3>2
  <2> QED BY <2>1, <2>2, <1>1
<1> QED BY <1>1, <1>2, <1>3 DEF ShownIsRecovered, RecoverableIsShown

\* The invariant implies the properties of the Recovery run.
LEMMA InvariantGives ==
  ASSUME DbInv
  PROVE  TypeOK /\ SyncedWritesAreKept /\ ShownIsRecovered /\ NothingIsReused
<1>0. StoredInv
  BY DEF DbInv
<1>1. TypeOK
  <2>1. /\ \A n \in DOMAIN logs : ToSet(logs[n].records) \subseteq Batches
        /\ \A n \in DOMAIN tables : tables[n] \subseteq Batches
    <3>1. OnDisk \subseteq Batches BY <1>0, OnDiskIsBatches
    <3>2. \A n \in DOMAIN logs : ToSet(logs[n].records) \subseteq OnDisk
      BY DEF OnDisk, Disk, LogBatches
    <3> QED BY <3>1, <3>2, <1>0 DEF StoredInv, DiskTypes
  <2>2. /\ phase \in {"down", "create", "read", "replay", "commit", "up", "failed", "repair"}
        /\ stage \in {"idle", "building", "append", "sync", "temp", "rename", "clean",
                      "logs", "scan", "archive", "manifest", "point"}
        /\ version \union pinned \union pending \subseteq Nat
        /\ mem \union imm \subseteq Batches
    BY DEF DbInv, ProcessTypes
  <2>3. synced \subseteq acked /\ acked \subseteq Batches
    BY DEF DbInv, CountTypes
  <2> QED BY <2>1, <2>2, <2>3 DEF TypeOK
<1>2. SyncedWritesAreKept
  <2>1. Readable(current) => synced \subseteq Recovered
    BY <1>0, FoundIsFoundBy DEF StoredInv, ManifestInv
  <2>2. synced \subseteq OnDisk
    <3>1. /\ FoundBy(tables, logs, Report) \subseteq OnDisk
          /\ Lasting(tables, logs, setup.crash) \subseteq OnDisk
      BY <1>0, FoundIsOnDisk DEF OnDisk, StoredInv, DiskTypes
    <3> QED BY <3>1, <1>0 DEF StoredInv, ManifestInv, DiskInv
  <2>3. OnDisk = BatchesIn(DOMAIN tables) \union UNION {ToSet(logs[n].records) : n \in DOMAIN logs}
    <3>1. BatchesIn(DOMAIN tables) = TableBatches(tables, DOMAIN tables)
      BY FoundIsFoundBy
    <3>2. LogBatches(logs, DOMAIN logs) = UNION {ToSet(logs[n].records) : n \in DOMAIN logs}
      BY DEF LogBatches
    <3> QED BY <3>1, <3>2 DEF OnDisk, Disk
  <2> QED
    BY <2>1, <2>2, <2>3 DEF SyncedWritesAreKept, SyncedWritesSurvive, SyncedWritesAreSalvageable
<1>3. ShownIsRecovered
  BY OpenShows DEF ShownIsRecovered, ShownIsRecoverable, RecoverableIsShown
<1>4. NothingIsReused
  <2>1. LiveFilesExist /\ NumbersAreFresh
    <3> SUFFICES ASSUME phase = "up"
                 PROVE  /\ \A n \in version \union pinned \union pending : n \in DOMAIN tables
                        /\ \A n \in version \union pinned \union pending \union {logFile, logNumber} : n < nextFile
      BY DEF LiveFilesExist, NumbersAreFresh
    <3>1. logFile < nextFile /\ logNumber < nextFile
      BY UpFacts
    <3> QED BY <3>1 DEF DbInv, WorkInv, TablesInv, Working, UpInv, UpTables
  <2>2. \A a, b \in Recovered : a[1] = b[1] => a = b
    <3>1. Recovered \subseteq OnDisk
      BY <1>0, FoundIsFoundBy, FoundIsOnDisk DEF OnDisk, StoredInv, DiskTypes
    <3> QED BY <3>1, <1>0 DEF StoredInv, BatchNumbers
  <2>3. ASSUME phase = "up", writing = Nil, ~error PROVE \A b \in Recovered : b[1] <= last
    <3>1. Recovered = mem \union imm \union TableBatches(tables, version)
      BY <2>3, OpenShows, FoundIsFoundBy DEF ShownIsRecovered, RecoverableIsShown
    <3>2. Upto(mem \union imm, last) /\ Upto(TableBatches(tables, version), last)
      BY <2>3 DEF DbInv, UpInv, UpLast, WorkInv, TablesInv, Working
    <3> QED BY <3>1, <3>2 DEF Upto
  <2> QED BY <2>1, <2>2, <2>3 DEF NothingIsReused, SequencesDiffer
<1> QED BY <1>1, <1>2, <1>3, <1>4

\* Files, numbers, manifests, logs and the process's picture of them agree in every
\* reachable state: DbInv is invariant, for any setups without torn appends and without
\* reused logs on machines that stop, and for any number of writes, opens, merges and
\* faults.
THEOREM DatabaseIsConsistent ==
  (\A s \in Setups : Sound(s)) => (RepairSpec => []DbInv)
<1>1. Init => DbInv
  BY InitStep
<1>2. (\A s \in Setups : Sound(s)) /\ DbInv /\ [RepairNext]_vars => DbInv'
  BY EveryStep, StutterStep
<1> SUFFICES ASSUME \A s \in Setups : Sound(s) PROVE RepairSpec => []DbInv OBVIOUS
<1>3. DbInv /\ [RepairNext]_vars => DbInv'
  BY <1>2
<1> QED BY <1>1, <1>3, PTL DEF RepairSpec

\* The type invariant of the Recovery run, from the types in DbInv.
THEOREM RecoveryTypeOK ==
  (\A s \in Setups : Sound(s)) => (RepairSpec => []TypeOK)
<1> SUFFICES ASSUME \A s \in Setups : Sound(s) PROVE RepairSpec => []TypeOK OBVIOUS
<1>1. RepairSpec => []DbInv
  BY DatabaseIsConsistent
<1>2. DbInv => TypeOK
  BY InvariantGives
<1> QED BY <1>1, <1>2, PTL

\* Whatever the order of stops, failures, flushes, merges, removals and repairs: a write
\* that was synced and acknowledged is found by the next recovery, and if CURRENT's
\* manifest was damaged then it is still in a file that RepairDB reads.
THEOREM SyncedWritesStay ==
  (\A s \in Setups : Sound(s)) => (RepairSpec => []SyncedWritesAreKept)
<1> SUFFICES ASSUME \A s \in Setups : Sound(s) PROVE RepairSpec => []SyncedWritesAreKept
  OBVIOUS
<1>1. RepairSpec => []DbInv
  BY DatabaseIsConsistent
<1>2. DbInv => SyncedWritesAreKept
  BY InvariantGives
<1> QED BY <1>1, <1>2, PTL

\* What readers of an open database see is what a recovery would find if the process ended
\* now: DeleteObsoleteFiles, LogAndApply and the memtable switch never let the two come
\* apart.
THEOREM ShownStaysRecovered ==
  (\A s \in Setups : Sound(s)) => (RepairSpec => []ShownIsRecovered)
<1> SUFFICES ASSUME \A s \in Setups : Sound(s) PROVE RepairSpec => []ShownIsRecovered
  OBVIOUS
<1>1. RepairSpec => []DbInv
  BY DatabaseIsConsistent
<1>2. DbInv => ShownIsRecovered
  BY InvariantGives
<1> QED BY <1>1, <1>2, PTL

\* File numbers and sequence numbers are never given twice: no file that is needed has a
\* number that NewFileNumber will return, and no two batches share a sequence number.
THEOREM NothingIsEverReused ==
  (\A s \in Setups : Sound(s)) => (RepairSpec => []NothingIsReused)
<1> SUFFICES ASSUME \A s \in Setups : Sound(s) PROVE RepairSpec => []NothingIsReused
  OBVIOUS
<1>1. RepairSpec => []DbInv
  BY DatabaseIsConsistent
<1>2. DbInv => NothingIsReused
  BY InvariantGives
<1> QED BY <1>1, <1>2, PTL

\* RepairDB ends with every synced write in a table that the new manifest names.
THEOREM RepairsGiveBack ==
  (\A s \in Setups : Sound(s)) => (RepairSpec => RepairGivesBack)
<1> SUFFICES ASSUME \A s \in Setups : Sound(s) PROVE RepairSpec => RepairGivesBack
  OBVIOUS
<1>1. RepairSpec => []DbInv
  BY DatabaseIsConsistent
<1>2. DbInv /\ [RepairNext]_vars => [PointCurrent => synced \subseteq Recovered']_vars
  BY PointCurrentStep
<1> QED BY <1>1, <1>2, PTL DEF RepairSpec, RepairGivesBack

\* A step of the files is a step of the store.
LEMMA StepOfTheStore ==
  ASSUME DbInv, \A s \in Setups : Sound(s), [RepairNext]_vars
  PROVE  [Store!Next]_Store!vars
<1>1. CASE UNCHANGED vars
  <2>1. UNCHANGED <<setup, acked, synced>>
    BY <1>1 DEF vars, counts
  <2> QED BY <2>1, <1>1, StutterStep DEF Store!vars
<1>2. CASE RepairNext /\ setup.damage
  <2>1. setup' = setup
    BY <1>2, Kept
  <2> QED BY <2>1, <1>2 DEF Store!vars
<1>3. CASE RepairNext /\ ~setup.damage
  <2>0. setup' = setup /\ ~setup'.damage
    BY <1>3, Kept
  <2>1. Stays \/ Stops \/ \E b \in Batches : Grows(b) \/ Returns(b)
    BY <1>3, EveryStep
  <2>2. CASE Stays
    BY <2>0, <2>2, <1>3 DEF Stays, Store!vars
  <2>3. CASE Stops
    BY <2>0, <2>3, <1>3 DEF Stops, Store!MachineCrash, Store!Next
  <2>4. ASSUME NEW b \in Batches, Grows(b) PROVE Store!Next
    BY <2>0, <2>4, <1>3 DEF Grows, Store!Write, Store!Next
  <2>5. ASSUME NEW b \in Batches, Returns(b) PROVE Store!Next
    BY <2>0, <2>5, <1>3 DEF Returns, Store!Acknowledge, Store!Next
  <2> QED BY <2>1, <2>2, <2>3, <2>4, <2>5
<1> QED BY <1>1, <1>2, <1>3

\* A machine without a database is an empty store.
LEMMA EmptyStore ==
  ASSUME Init
  PROVE  Store!Init
<1>1. ~Readable(current) /\ acked = {} /\ synced = {}
  BY DEF Init, Readable
<1> QED BY <1>1 DEF Store!Init, Recovered

\* The files implement a store that loses only what was not synced: every step of the write
\* path, the background thread, the recovery and the repair is a write, an acknowledgement
\* or a stop of DurableStore's, or changes nothing that it shows.
THEOREM FilesImplementTheStore ==
  (\A s \in Setups : Sound(s)) => (RepairSpec => ImplementsStore)
<1> SUFFICES ASSUME \A s \in Setups : Sound(s) PROVE RepairSpec => ImplementsStore
  OBVIOUS
<1>1. RepairSpec => []DbInv
  BY DatabaseIsConsistent
<1>2. Init => Store!Init
  BY EmptyStore
<1>3. DbInv /\ [RepairNext]_vars => [Store!Next]_Store!vars
  BY StepOfTheStore
<1> QED BY <1>1, <1>2, <1>3, PTL DEF RepairSpec, ImplementsStore, Store!Spec
=============================================================================
