--------------------------- MODULE ItemDetailsProofs ---------------------------
(***************************************************************************)
(* The item's screen for any reviews, screens and fields: the screen of    *)
(* the form survives its own first review, no own review is met half       *)
(* written, rows, ratings, labels and images come to what they should be.  *)
(*                                                                         *)
(* What makes the invariant inductive is told in lines: the requests are   *)
(* served and the events handled first in, first out, so what an answer    *)
(* will show is known from its place behind the writes of the form.        *)
(***************************************************************************)
EXTENDS ItemDetailsScreen, NaturalsBySets, FiniteSetTheorems, SequenceTheorems, TLAPS

\* What is assumed of the constants: Submit writes something, so that it can be seen.
ItemAssumption ==
  ReviewsAssumption /\ ScreensAssumption /\ FieldsAssumption /\ Fields # {}

AllFields == Fields \cup {"imageURL"}
Elements(q) == {q[i] : i \in DOMAIN q}

------------------------
(* Types. *)

Kinds == {"images", "value", "reviews", "item", "count"}
ReadType == [kind : Kinds, of : Screens]
CountPut == [kind : {"put"}, what : {"count"}, to : Nat \ {0}]
AveragePut == [kind : {"put"}, what : {"average"}, to : Nat]
FieldPut(R) == [kind : {"put"}, what : AllFields, to : R]
PutType(R) == CountPut \cup AveragePut \cup FieldPut(R)
RequestType == ReadType \cup PutType(Mine)
SnapType == [kind : Kinds, of : Screens, snap : NodeType]
AppendType == [kind : {"append"}, of : Screens, snap : Reviews]
EventType == SnapType \cup AppendType

Typed ==
  /\ view \in NodeType
  /\ requests \in Seq(RequestType)
  /\ events \in Seq(EventType)
  /\ remote \in Seq(PutType(Theirs))
  /\ listening \in Nat /\ opened \in 0 .. MaxScreens /\ top \in 0..opened
  /\ listening <= opened
  /\ form \in {"none", "open", "asking"}
  /\ uploads \subseteq Mine
  /\ tasks \subseteq Screens \X Reviews
  /\ firstReview \in [Screens -> BOOLEAN]
  /\ reviews \in [Screens -> Seq(Reviews)]
  /\ ratings \in [Screens -> Seq(Reviews)]
  /\ imageArray \in [Screens -> Seq(Reviews)]
  /\ rows \in [Screens -> Nat]
  /\ numberOfReviews \in [Screens -> Nat]
  /\ trap \in [why : {"no", "average", "field", "image", "download", "row"}, of : Nat]

------------------------
(* The line of requests: what the item will show when its k-th is served. *)

IsField(x, f, r) == x.kind = "put" /\ x.what = f /\ x.to = r
Has(n, q, k, r, f) == f \in n.fields[r] \/ \E i \in DOMAIN q : i < k /\ IsField(q[i], f, r)
Some(n, q, k, r) == \E f \in AllFields : Has(n, q, k, r, f)
All(n, q, k, r) == \A f \in Fields : Has(n, q, k, r, f)
End(q) == Len(q) + 1

\* A review of this user is read with all its fields or none, and gets its image last.
WholeLine(n, q) ==
  \A r \in Mine :
    /\ \A k \in DOMAIN q : q[k].kind = "reviews" /\ Some(n, q, k, r) => All(n, q, k, r)
    /\ \A k \in DOMAIN q : IsField(q[k], "imageURL", r) => All(n, q, k, r)
    /\ Some(n, q, End(q), r) => All(n, q, End(q), r)

WholeInv ==
  /\ WholeLine(view, requests)
  /\ \A r \in uploads : All(view, requests, End(requests), r)
  /\ \A i \in DOMAIN events : events[i].kind = "reviews" =>
       \A r \in Mine : events[i].snap.fields[r] # {} => Fields \subseteq events[i].snap.fields[r]

------------------------
(* The form and its question. *)

\* What is not requested while a form waits for its answer.
Quieter(x) == /\ x.kind \notin {"item", "value", "images"}
              /\ x.kind = "put" => x.what \notin Fields \cup {"average"}

FormInv ==
  /\ form # "none" => top # 0
  /\ \A i \in DOMAIN requests : requests[i].kind = "item" =>
       /\ form = "asking" /\ requests[i].of = top
       /\ \A j \in DOMAIN requests : j > i => Quieter(requests[j])
       /\ \A j \in DOMAIN events : events[j].kind # "item"
  /\ \A i \in DOMAIN events : events[i].kind = "item" =>
       /\ form = "asking" /\ events[i].of = top
       /\ \A j \in DOMAIN requests : Quieter(requests[j])
       /\ \A j \in DOMAIN events : j > i => events[j].kind \notin {"item", "images"}

\* The screens register their listeners in the order they were opened.
ListenInv ==
  /\ \A i \in DOMAIN requests : requests[i].kind = "value" =>
       /\ listening < requests[i].of /\ requests[i].of <= opened
       /\ \A j \in DOMAIN requests : i < j /\ requests[j].kind = "value" =>
            requests[i].of < requests[j].of
  /\ \A k \in listening + 1..opened :
       \E i \in DOMAIN requests : requests[i].kind = "value" /\ requests[i].of = k
  /\ \A i \in DOMAIN events : events[i].kind = "value" => events[i].of <= listening

------------------------
(* The rows. *)

ListedInv ==
  Running /\ top # 0 =>
    \A r \in Mine : Some(view, requests, End(requests), r) =>
      \/ r \in Elements(reviews[top])
      \/ \E i \in DOMAIN events : /\ events[i].kind = "reviews" /\ events[i].of = top
                                  /\ events[i].snap.fields[r] # {}
      \/ \E k \in DOMAIN requests : /\ requests[k].kind = "reviews" /\ requests[k].of = top
                                    /\ Some(view, requests, k, r)

------------------------
(* The labels. *)

IsValue(x, k) == x.kind = "value" /\ x.of = k

\* An item that exists does not cease to, for whoever reads it later.
ExistInv ==
  \A i \in DOMAIN events : events[i].kind # "append" /\ Exists(events[i].snap) =>
    /\ Exists(view)
    /\ \A j \in DOMAIN events : j > i /\ events[j].kind # "append" => Exists(events[j].snap)

\* A number in a label is that of an item that exists.
ShownInv ==
  \A k \in Screens : ~firstReview[k] /\ numberOfReviews[k] # 0 =>
    /\ Exists(view)
    /\ \A i \in DOMAIN events : events[i].kind # "append" => Exists(events[i].snap)

------------------------
(* The first review. *)

Half(n) == Exists(n) /\ ~n.average
HalfAt(n, q, k) ==
  /\ Exists(n) \/ \E j \in DOMAIN q : j < k /\ q[j].kind = "put"
  /\ ~n.average
  /\ \A j \in DOMAIN q : j < k /\ q[j].kind = "put" => q[j].what # "average"
HalfFrom(n, q, k) == \E j \in 1 .. End(q) : k <= j /\ HalfAt(n, q, j)

Ours == remote = <<>> /\ \A r \in Theirs : view.fields[r] = {}

\* fr: whether the screen on display, tp, was told that it wrote the first review.
OursLine(n, q, e, tp, ls, fr) ==
  /\ ~HalfAt(n, q, End(q))
  /\ \A i \in DOMAIN q : q[i].kind \in {"item", "value"} => ~HalfFrom(n, q, i)
  /\ \A i \in DOMAIN q : q[i].kind = "count" => n.average
  /\ \A i \in DOMAIN e : e[i].kind = "count" => n.average
  /\ \A i \in DOMAIN e : IsValue(e[i], tp) /\ Half(e[i].snap) => fr
  /\ \A i \in DOMAIN e : e[i].kind = "item" =>
       /\ ~HalfFrom(n, q, 1)
       /\ \A j \in DOMAIN e : j >= i /\ e[j].kind # "append" => ~Half(e[j].snap)
  /\ HalfFrom(n, q, 1) /\ tp # 0 => fr \/ tp > ls

Told == top # 0 /\ firstReview[top]
OursInv == OursLine(view, requests, events, top, listening, Told)

FirstInv ==
  /\ remote # <<>> => \/ \E r \in Theirs : view.fields[r] # {}
                      \/ \E i \in DOMAIN remote : remote[i].what \in Fields
  /\ Ours /\ Running => OursInv

------------------------
(* Sequences, by their indices. *)

LEMMA TailFacts ==
  ASSUME NEW S, NEW q \in Seq(S), q # <<>>
  PROVE  /\ Tail(q) \in Seq(S) /\ Len(q) \in Nat /\ Len(q) >= 1 /\ Len(Tail(q)) = Len(q) - 1
         /\ DOMAIN q = 1 .. Len(q) /\ DOMAIN Tail(q) = 1..Len(q) - 1
         /\ Head(q) = q[1] /\ 1 \in DOMAIN q /\ Head(q) \in S
         /\ \A i \in DOMAIN Tail(q) : i + 1 \in DOMAIN q /\ Tail(q)[i] = q[i + 1]
         /\ \A i \in DOMAIN q : i # 1 => i - 1 \in DOMAIN Tail(q) /\ q[i] = Tail(q)[i - 1]
OBVIOUS

LEMMA CatFacts ==
  ASSUME NEW S, NEW q \in Seq(S), NEW s \in Seq(S)
  PROVE  /\ q \o s \in Seq(S) /\ Len(q) \in Nat /\ Len(s) \in Nat /\ Len(q \o s) = Len(q) + Len(s)
         /\ DOMAIN q = 1 .. Len(q) /\ DOMAIN s = 1..Len(s)
         /\ DOMAIN (q \o s) = 1..Len(q) + Len(s)
         /\ \A i \in DOMAIN q : i \in DOMAIN (q \o s) /\ (q \o s)[i] = q[i]
         /\ \A i \in DOMAIN s : Len(q) + i \in DOMAIN (q \o s) /\ (q \o s)[Len(q) + i] = s[i]
         /\ \A i \in DOMAIN (q \o s) : i \notin DOMAIN q =>
              i - Len(q) \in DOMAIN s /\ (q \o s)[i] = s[i - Len(q)]
OBVIOUS

LEMMA AppendFacts ==
  ASSUME NEW S, NEW q \in Seq(S), NEW x \in S
  PROVE  /\ Append(q, x) \in Seq(S) /\ Len(q) \in Nat /\ Len(Append(q, x)) = Len(q) + 1
         /\ DOMAIN q = 1 .. Len(q) /\ DOMAIN Append(q, x) = 1..Len(q) + 1
         /\ \A i \in DOMAIN q : i \in DOMAIN Append(q, x) /\ Append(q, x)[i] = q[i]
         /\ Append(q, x)[Len(q) + 1] = x
         /\ \A i \in DOMAIN Append(q, x) : i \notin DOMAIN q => i = Len(q) + 1
OBVIOUS

LEMMA AppendIsCat ==
  ASSUME NEW S, NEW q \in Seq(S), NEW x \in S
  PROVE  Append(q, x) = q \o <<x>> /\ <<x>> \in Seq(S)
OBVIOUS

------------------------
(* The reviews of a node, in the order of their keys. *)

LEMMA ReviewsFacts ==
  ASSUME ItemAssumption
  PROVE  /\ Reviews \subseteq Nat \ {0} /\ IsFiniteSet(Reviews) /\ Mine \subseteq Reviews
         /\ Theirs \subseteq Reviews /\ \A r \in Mine : r \notin Theirs
         /\ Seeded \subseteq Theirs /\ Reviews = Mine \cup Theirs
BY DEF ItemAssumption, ReviewsAssumption, Reviews

Increasing(s) == \A i, j \in DOMAIN s : i < j => s[i] < s[j]

\* A finite set of numbers can be listed in their order.
LEMMA ListingExists ==
  ASSUME NEW F, F \subseteq Nat, IsFiniteSet(F)
  PROVE  \E s \in [1..Cardinality(F) -> F] : Increasing(s)
<1> DEFINE Good(G) == \E s \in [1..Cardinality(G) -> G] : Increasing(s)
           P == {n \in Nat : \A G \in SUBSET F : Cardinality(G) = n => Good(G)}
<1>1. \A G \in SUBSET F : IsFiniteSet(G) /\ Cardinality(G) \in Nat
  BY FS_Subset, FS_CardinalityType
<1>2. 0 \in P
  <2> SUFFICES ASSUME NEW G \in SUBSET F, Cardinality(G) = 0 PROVE Good(G) OBVIOUS
  <2>1. <<>> \in [1 .. 0 -> G] /\ Increasing(<<>>)
    BY DEF Increasing
  <2> QED BY <2>1
<1>3. ASSUME NEW n \in P PROVE n + 1 \in P
  <2> SUFFICES ASSUME NEW G \in SUBSET F, Cardinality(G) = n + 1 PROVE Good(G)
    OBVIOUS
  <2>1. G # {}
    BY <1>1, FS_EmptySet
  <2>2. PICK x \in G : \A y \in G : x <= y
    BY <2>1, LeastNatural
  <2>3. Cardinality(G \ {x}) = n /\ G \ {x} \in SUBSET F
    <3>1. IsFiniteSet(G) /\ n \in Nat
      BY <1>1
    <3>2. Cardinality(G \ {x}) = Cardinality(G) - 1 BY <3>1, FS_RemoveElement
    <3> QED BY <3>1, <3>2
  <2>4. PICK s \in [1..n -> G \ {x}] : Increasing(s)
    BY <2>3
  <2> DEFINE t == [i \in 1..n + 1 |-> IF i = 1 THEN x ELSE s[i - 1]]
  <2>5. t \in [1..n + 1 -> G] OBVIOUS
  <2>6. Increasing(t)
    <3> SUFFICES ASSUME NEW i \in 1..n + 1, NEW j \in 1..n + 1, i < j PROVE t[i] < t[j]
      BY DEF Increasing
    <3>1. CASE i = 1
      <4>1. s[j - 1] \in G \ {x} /\ t[j] = s[j - 1]
        BY <3>1
      <4>2. x <= s[j - 1] /\ x # s[j - 1] /\ x \in Nat /\ s[j - 1] \in Nat
        BY <4>1, <2>2
      <4> QED BY <4>1, <4>2, <3>1
    <3>2. CASE i # 1
      <4>1. i - 1 \in 1 .. n /\ j - 1 \in 1 .. n /\ i - 1 < j - 1
        BY <3>2
      <4>2. s[i - 1] < s[j - 1] BY <4>1, <2>4 DEF Increasing
      <4> QED BY <4>2, <3>2
    <3> QED BY <3>1, <3>2
  <2> HIDE DEF t
  <2> QED BY <2>5, <2>6
<1>4. P = Nat
  <2>1. P \subseteq Nat OBVIOUS
  <2> HIDE DEF P
  <2> QED BY <1>2, <1>3, <2>1, InductionBySet
<1>5. Cardinality(F) \in P
  BY <1>1, <1>4
<1> QED BY <1>5

\* What a reload reads: each review that is there, once.
LEMMA ListedFacts ==
  ASSUME ItemAssumption, NEW n \in NodeType
  PROVE  /\ Listed(n) \in Seq(Reviews)
         /\ \A r \in Reviews : n.fields[r] # {} => \E i \in DOMAIN Listed(n) : Listed(n)[i] = r
<1> DEFINE F == {r \in Reviews : n.fields[r] # {}}
           c == Cardinality(F)
           s == Listed(n)
<1>1. F \subseteq Nat /\ F \subseteq Reviews /\ IsFiniteSet(F) /\ c \in Nat
  BY ReviewsFacts, FS_Subset, FS_CardinalityType
<1>2. s = CHOOSE z \in [1..c -> F] : \A i, j \in DOMAIN z : i < j => z[i] < z[j]
  BY DEF Listed
<1>3. \E z \in [1..c -> F] : \A i, j \in DOMAIN z : i < j => z[i] < z[j]
  <2> HIDE DEF F
  <2> QED BY <1>1, ListingExists DEF Increasing
<1>4. s \in [1 .. c -> F] /\ \A i, j \in DOMAIN s : i < j => s[i] < s[j]
  <2> HIDE DEF F, c
  <2> QED BY <1>2, <1>3
<1> HIDE DEF F, c, s
<1>5. s \in Injection(1..c, F)
  <2> SUFFICES ASSUME NEW i \in 1..c, NEW j \in 1..c, s[i] = s[j] PROVE i = j
    <3>1. \A i, j \in 1..c : s[i] = s[j] => i = j OBVIOUS
    <3>2. s \in [1..c -> F] BY <1>4
    <3> QED BY <3>1, <3>2 DEF Injection, IsInjective
  <2>1. s[i] \in Nat /\ s[j] \in Nat /\ i \in DOMAIN s /\ j \in DOMAIN s
    BY <1>1, <1>4
  <2>2. ~(i < j) /\ ~(j < i)
    BY <2>1, <1>4
  <2> QED BY <2>2, <1>1
<1>6. Cardinality(1..c) = c
  BY <1>1, FS_Interval
<1>7. s \in Surjection(1..c, F)
  BY <1>1, <1>5, <1>6, FS_Injection DEF c
<1>8. s \in Seq(Reviews)
  <2>1. s \in [1..c -> Reviews]
    BY <1>1, <1>4
  <2> QED BY <2>1, <1>1
<1>9. ASSUME NEW r \in Reviews, n.fields[r] # {} PROVE \E i \in DOMAIN s : s[i] = r
  <2>1. r \in F
    BY <1>9 DEF F
  <2> QED BY <2>1, <1>4, <1>7 DEF Surjection
<1> QED BY <1>8, <1>9 DEF s

------------------------
(* What a write does to the node. *)

LEMMA FieldsFacts ==
  ASSUME ItemAssumption
  PROVE  /\ Fields \subseteq {"date", "review", "rating"} /\ Fields # {}
         /\ "imageURL" \notin Fields /\ "count" \notin AllFields /\ "average" \notin AllFields
         /\ \A i \in DOMAIN ReviewFields : ReviewFields[i] \in Fields
         /\ ReviewFields \in Seq(Fields) /\ DOMAIN ReviewFields = 1..Len(ReviewFields)
         /\ Len(ReviewFields) \in Nat
<1> ReviewFields \in Seq({"date", "review", "rating"}) /\ Fields # {}
  BY DEF ItemAssumption, FieldsAssumption
<1>1. \A i \in DOMAIN ReviewFields : ReviewFields[i] \in {"date", "review", "rating"}
  OBVIOUS
<1>2. Fields \subseteq {"date", "review", "rating"}
  BY <1>1 DEF Fields
<1>3. ReviewFields \in Seq(Fields) /\ DOMAIN ReviewFields = 1..Len(ReviewFields)
      /\ Len(ReviewFields) \in Nat
  BY DEF Fields
<1> QED BY <1>1, <1>2, <1>3 DEF Fields, AllFields

Applied(n, put) ==
  CASE put.what = "count"   -> [n EXCEPT !.count = put.to]
    [] put.what = "average" -> [n EXCEPT !.average = TRUE]
    [] OTHER -> [n EXCEPT !.fields[put.to] = @ \cup {put.what}]

LEMMA AppliedFacts ==
  ASSUME ItemAssumption, NEW R \in SUBSET Reviews, NEW n \in NodeType, NEW put \in PutType(R)
  PROVE  /\ Applied(n, put) \in NodeType
         /\ Applied(n, put).count = IF put.what = "count" THEN put.to ELSE n.count
         /\ Applied(n, put).average = (n.average \/ put.what = "average")
         /\ \A r \in Reviews : \A f \in AllFields :
              f \in Applied(n, put).fields[r] <=> f \in n.fields[r] \/ IsField(put, f, r)
         /\ \A r \in Reviews \ R : Applied(n, put).fields[r] = n.fields[r]
         /\ \A r \in Reviews : n.fields[r] \subseteq Applied(n, put).fields[r]
         /\ put.kind = "put"
         /\ put.what \in AllFields => put.to \in R
         /\ put.what \in AllFields \cup {"count", "average"}
<1> USE FieldsFacts
<1>1. CASE put \in CountPut
  BY <1>1 DEF CountPut, Applied, NodeType, IsField, AllFields
<1>2. CASE put \in AveragePut
  BY <1>2 DEF AveragePut, Applied, NodeType, IsField, AllFields
<1>3. CASE put \in FieldPut(R)
  <2>1. put.what \in AllFields /\ put.to \in R /\ put.to \in Reviews /\ put.kind = "put"
    BY <1>3 DEF FieldPut
  <2>2. put.what # "count" /\ put.what # "average"
    BY <2>1
  <2>3. Applied(n, put) = [n EXCEPT !.fields[put.to] = @ \cup {put.what}]
    BY <2>2 DEF Applied
  <2>4. n.fields \in [Reviews -> SUBSET AllFields] /\ n.count \in Nat /\ n.average \in BOOLEAN
    BY DEF NodeType, AllFields
  <2>5. /\ Applied(n, put).count = n.count /\ Applied(n, put).average = n.average
        /\ Applied(n, put).fields = [n.fields EXCEPT ![put.to] = @ \cup {put.what}]
        /\ Applied(n, put) = [count |-> n.count, average |-> n.average, fields |->
                                [n.fields EXCEPT ![put.to] = @ \cup {put.what}]]
    BY <2>3 DEF NodeType
  <2>6. Applied(n, put).fields \in [Reviews -> SUBSET AllFields]
    BY <2>1, <2>4, <2>5
  <2>7. Applied(n, put) \in NodeType
    BY <2>4, <2>5, <2>6 DEF NodeType, AllFields
  <2>8. \A r \in Reviews : Applied(n, put).fields[r] =
            IF r = put.to THEN n.fields[r] \cup {put.what} ELSE n.fields[r]
    BY <2>1, <2>4, <2>5
  <2>9. \A r \in Reviews : \A f \in AllFields :
          f \in Applied(n, put).fields[r] <=> f \in n.fields[r] \/ IsField(put, f, r)
    <3> SUFFICES ASSUME NEW r \in Reviews, NEW f \in AllFields
                 PROVE  f \in Applied(n, put).fields[r] <=> f \in n.fields[r] \/ IsField(put, f, r)
      OBVIOUS
    <3>1. CASE r = put.to
      <4>1. Applied(n, put).fields[r] = n.fields[r] \cup {put.what} BY <3>1, <2>8
      <4>2. IsField(put, f, r) <=> put.what = f BY <3>1, <2>1 DEF IsField
      <4> QED BY <4>1, <4>2
    <3>2. CASE r # put.to
      <4>1. Applied(n, put).fields[r] = n.fields[r] BY <3>2, <2>8
      <4> QED BY <4>1, <3>2 DEF IsField
    <3> QED BY <3>1, <3>2
  <2>10. \A r \in Reviews \ R : Applied(n, put).fields[r] = n.fields[r]
    BY <2>1, <2>8
  <2>11. \A r \in Reviews : n.fields[r] \subseteq Applied(n, put).fields[r]
    BY <2>8
  <2>12. /\ Applied(n, put).count = IF put.what = "count" THEN put.to ELSE n.count
         /\ Applied(n, put).average = (n.average \/ put.what = "average")
    BY <2>2, <2>4, <2>5
  <2> QED BY <2>1, <2>7, <2>9, <2>10, <2>11, <2>12, Zenon
<1> QED BY <1>1, <1>2, <1>3 DEF PutType

\* A node that exists goes on to exist, and a count or a field makes one exist.
LEMMA AppliedExists ==
  ASSUME ItemAssumption, NEW R \in SUBSET Reviews, NEW n \in NodeType, NEW put \in PutType(R)
  PROVE  /\ Exists(n) => Exists(Applied(n, put))
         /\ put.what # "average" => Exists(Applied(n, put))
         /\ n.count > 0 => Exists(n)
         /\ \A r \in Reviews : n.fields[r] # {} => Exists(n)
<1>1. \A r \in Reviews : n.fields[r] \subseteq Applied(n, put).fields[r]
  BY AppliedFacts
<1>2. CASE put \in CountPut
  <2>1. put.to \in Nat \ {0} /\ put.what = "count"
    BY <1>2 DEF CountPut
  <2>2. Applied(n, put).count = put.to
    BY <2>1, AppliedFacts
  <2> QED BY <2>1, <2>2 DEF Exists
<1>3. CASE put \in AveragePut
  <2>1. put.what = "average" /\ Applied(n, put).count = n.count
    BY <1>3, AppliedFacts DEF AveragePut
  <2> QED BY <2>1, <1>1 DEF Exists
<1>4. CASE put \in FieldPut(R)
  <2>1. put.what \in AllFields /\ put.to \in Reviews /\ IsField(put, put.what, put.to)
    BY <1>4 DEF FieldPut, IsField
  <2>2. put.what \in Applied(n, put).fields[put.to]
    BY <2>1, AppliedFacts
  <2> QED BY <2>1, <2>2, <1>1 DEF Exists
<1> QED BY <1>2, <1>3, <1>4 DEF PutType

\* What a write that is applied adds to the events.
Heard(node2) == [k \in 1..listening |-> [kind |-> "value", of |-> k, snap |-> node2]]

LEMMA ShowFacts ==
  ASSUME NEW put, Show(put)
  PROVE  /\ view' = Applied(view, put)
         /\ view' = view => events' = events
         /\ view' # view => events' = events \o Heard(view')
BY DEF Show, Applied, Heard

------------------------
(* Types are kept. *)

LEMMA PutsAreRequests ==
  ASSUME ItemAssumption
  PROVE  /\ \A k \in Kinds, i \in Screens : Read(k, i) \in RequestType
         /\ \A n \in Nat \ {0}, R \in SUBSET Reviews : PutTotal("count", n) \in PutType(R)
         /\ \A R \in SUBSET Reviews : PutTotal("average", 1) \in PutType(R)
         /\ \A R \in SUBSET Reviews : \A r \in R : \A f \in AllFields : PutField(r, f) \in PutType(R)
         /\ PutType(Mine) \subseteq RequestType
<1>1. \A k \in Kinds, i \in Screens : Read(k, i) \in RequestType
  BY DEF Read, ReadType, RequestType
<1>2. \A n \in Nat \ {0} : PutTotal("count", n) \in CountPut
  BY DEF PutTotal, CountPut
<1>3. PutTotal("average", 1) \in AveragePut
  BY DEF PutTotal, AveragePut
<1>4. \A R \in SUBSET Reviews : \A r \in R : \A f \in AllFields : PutField(r, f) \in FieldPut(R)
  BY DEF PutField, FieldPut
<1> QED BY <1>1, <1>2, <1>3, <1>4 DEF PutType, RequestType

LEMMA WritesAreRequests ==
  ASSUME ItemAssumption, NEW R \in SUBSET Reviews, NEW r \in R
  PROVE  /\ ReviewWrites(r) \in Seq(PutType(R))
         /\ DOMAIN ReviewWrites(r) = DOMAIN ReviewFields
         /\ Len(ReviewWrites(r)) = Len(ReviewFields)
         /\ \A i \in DOMAIN ReviewFields : ReviewWrites(r)[i] = PutField(r, ReviewFields[i])
<1>1. /\ DOMAIN ReviewFields = 1 .. Len(ReviewFields) /\ Len(ReviewFields) \in Nat
      /\ \A i \in DOMAIN ReviewFields : ReviewFields[i] \in AllFields
  BY FieldsFacts DEF AllFields
<1>2. \A i \in DOMAIN ReviewFields : PutField(r, ReviewFields[i]) \in PutType(R)
  BY <1>1, PutsAreRequests
<1> DEFINE w == [i \in DOMAIN ReviewFields |-> PutField(r, ReviewFields[i])]
<1>3. w \in [1..Len(ReviewFields) -> PutType(R)]
  BY <1>1, <1>2
<1>4. w \in Seq(PutType(R)) /\ Len(w) = Len(ReviewFields)
  <2> HIDE DEF w
  <2> QED BY <1>1, <1>3
<1> QED BY <1>1, <1>4 DEF ReviewWrites

\* What the form's answer puts into the line: the first review's totals or the read of the
\* count, the review, and the read of the reviews.
Answered(first, r) ==
  (IF first THEN << PutTotal("count", 1), PutTotal("average", 1) >>
   ELSE << Read("count", top) >>) \o ReviewWrites(r) \o << Read("reviews", top) >>

LEMMA AnsweredFacts ==
  ASSUME ItemAssumption, NEW first \in BOOLEAN, NEW r \in Mine, top \in Screens
  PROVE  /\ Answered(first, r) \in Seq(RequestType)
         /\ DOMAIN Answered(first, r) = 1..Len(Answered(first, r))
         /\ Len(Answered(first, r)) \in Nat /\ Len(Answered(first, r)) >= 2
         /\ Answered(first, r)[Len(Answered(first, r))] = Read("reviews", top)
         /\ \A i \in DOMAIN Answered(first, r) : LET x == Answered(first, r)[i] IN
              \/ first /\ i = 1 /\ x = PutTotal("count", 1)
              \/ first /\ i = 2 /\ x = PutTotal("average", 1)
              \/ ~first /\ i = 1 /\ x = Read("count", top)
              \/ /\ i < Len(Answered(first, r)) /\ (first => i > 2)
                 /\ \E f \in Fields : x = PutField(r, f)
              \/ i = Len(Answered(first, r)) /\ (first => i > 2) /\ x = Read("reviews", top)
         /\ first => /\ Len(Answered(first, r)) > 2 /\ Answered(first, r)[1] = PutTotal("count", 1)
                     /\ Answered(first, r)[2] = PutTotal("average", 1)
         /\ \A f \in Fields : \E i \in DOMAIN Answered(first, r) :
              i < Len(Answered(first, r)) /\ Answered(first, r)[i] = PutField(r, f)
<1> DEFINE pre == IF first THEN << PutTotal("count", 1), PutTotal("average", 1) >>
                  ELSE << Read("count", top) >>
           w == ReviewWrites(r)
           z == << Read("reviews", top) >>
           a == Answered(first, r)
<1>1. Mine \in SUBSET Reviews
  BY ReviewsFacts
<1>2. /\ PutTotal("count", 1) \in RequestType /\ PutTotal("average", 1) \in RequestType
      /\ Read("count", top) \in RequestType /\ Read("reviews", top) \in RequestType
  BY <1>1, PutsAreRequests DEF Kinds
<1>3. /\ pre \in Seq(RequestType) /\ z \in Seq(RequestType) /\ Len(z) = 1 /\ z[1] = Read("reviews", top)
      /\ first => /\ Len(pre) = 2 /\ pre[1] = PutTotal("count", 1) /\ pre[2] = PutTotal("average", 1)
      /\ ~first => Len(pre) = 1 /\ pre[1] = Read("count", top)
  BY <1>2
<1>4. /\ w \in Seq(RequestType) /\ Len(w) = Len(ReviewFields) /\ DOMAIN w = 1..Len(w)
      /\ \A i \in DOMAIN w : w[i] = PutField(r, ReviewFields[i]) /\ ReviewFields[i] \in Fields
      /\ Len(w) \in Nat
      /\ \A f \in Fields : \E i \in DOMAIN w : w[i] = PutField(r, f)
  <2>1. ReviewWrites(r) \in Seq(PutType(Mine))
    BY <1>1, WritesAreRequests
  <2>2. PutType(Mine) \subseteq RequestType
    BY PutsAreRequests
  <2>3. w \in Seq(RequestType)
    BY <2>1, <2>2
  <2>4. DOMAIN w = 1 .. Len(w) /\ Len(w) \in Nat
    BY <2>3
  <2>5. /\ Len(w) = Len(ReviewFields) /\ DOMAIN w = DOMAIN ReviewFields
        /\ \A i \in DOMAIN w : w[i] = PutField(r, ReviewFields[i]) /\ ReviewFields[i] \in Fields
    BY <1>1, WritesAreRequests, FieldsFacts DEF Fields
  <2>6. \A f \in Fields : \E i \in DOMAIN w : w[i] = PutField(r, f)
    BY <2>5, WritesAreRequests, FieldsFacts DEF Fields
  <2> QED BY <2>3, <2>4, <2>5, <2>6
<1>5. a = (pre \o w) \o z
  BY DEF Answered
<1> HIDE DEF pre, w, z, a
<1> DEFINE m == pre \o w
<1>6. m \in Seq(RequestType) /\ Len(m) = Len(pre) + Len(w) /\ DOMAIN m = 1..Len(pre) + Len(w)
      /\ (\A i \in DOMAIN pre : m[i] = pre[i])
      /\ (\A i \in DOMAIN w : Len(pre) + i \in DOMAIN m /\ m[Len(pre) + i] = w[i])
      /\ (\A i \in DOMAIN m : i \notin DOMAIN pre => i - Len(pre) \in DOMAIN w /\ m[i] = w[i - Len(pre)])
      /\ DOMAIN pre = 1..Len(pre)
  <2>1. pre \in Seq(RequestType) /\ w \in Seq(RequestType)
    BY <1>3, <1>4
  <2> QED BY <2>1, CatFacts
<1> HIDE DEF m
<1>7. a \in Seq(RequestType) /\ Len(a) = Len(m) + 1 /\ DOMAIN a = 1..Len(m) + 1
      /\ (\A i \in DOMAIN m : a[i] = m[i]) /\ a[Len(m) + 1] = Read("reviews", top)
  <2>1. a = m \o z
    BY <1>5 DEF m
  <2>2. z \in Seq(RequestType) /\ m \in Seq(RequestType)
    BY <1>3, <1>6
  <2>3. DOMAIN m = 1 .. Len(m) /\ Len(m) \in Nat
    BY <2>2, CatFacts
  <2>4. Len(z) = 1 /\ DOMAIN z = 1..1
    BY <2>2, <1>3
  <2>5. /\ m \o z \in Seq(RequestType) /\ Len(m \o z) = Len(m) + Len(z)
        /\ DOMAIN (m \o z) = 1..Len(m) + Len(z)
        /\ \A i \in DOMAIN m : (m \o z)[i] = m[i]
        /\ \A i \in DOMAIN z : (m \o z)[Len(m) + i] = z[i]
    BY <2>2, CatFacts
  <2> QED BY <2>1, <2>3, <2>4, <2>5, <1>3
<1>8. ASSUME NEW i \in DOMAIN a
      PROVE  \/ first /\ i = 1 /\ a[i] = PutTotal("count", 1)
             \/ first /\ i = 2 /\ a[i] = PutTotal("average", 1)
             \/ ~first /\ i = 1 /\ a[i] = Read("count", top)
             \/ /\ i < Len(a) /\ (first => i > 2)
                /\ \E f \in Fields : a[i] = PutField(r, f)
             \/ i = Len(a) /\ (first => i > 2) /\ a[i] = Read("reviews", top)
  <2>1. CASE i \in DOMAIN pre
    <3>1. a[i] = pre[i] /\ i \in DOMAIN m
      BY <2>1, <1>3, <1>4, <1>6, <1>7
    <3> QED BY <3>1, <2>1, <1>3, <1>6
  <2>2. CASE i \in DOMAIN m /\ i \notin DOMAIN pre
    <3>1. i - Len(pre) \in DOMAIN w /\ a[i] = w[i - Len(pre)]
      BY <2>2, <1>6, <1>7
    <3>2. \E f \in Fields : a[i] = PutField(r, f) BY <3>1, <1>4
    <3>3. i < Len(a) /\ (first => i > 2)
      BY <2>2, <1>3, <1>6, <1>7
    <3> QED BY <3>2, <3>3
  <2>3. CASE i \notin DOMAIN m
    <3>1. i = Len(a) /\ i = Len(m) + 1
      <4>1. Len(m) \in Nat /\ DOMAIN m = 1..Len(m)
        BY <1>3, <1>4, <1>6
      <4> QED BY <4>1, <2>3, <1>7
    <3> QED BY <3>1, <1>3, <1>4, <1>6, <1>7
  <2> QED BY <2>1, <2>2, <2>3
<1>9. Len(a) \in Nat /\ Len(a) >= 2 /\ (first => Len(a) > 2)
  BY <1>3, <1>4, <1>6, <1>7
<1>10. ASSUME NEW f \in Fields PROVE \E i \in DOMAIN a : i < Len(a) /\ a[i] = PutField(r, f)
  <2>1. PICK i \in DOMAIN w : w[i] = PutField(r, f)
    BY <1>4
  <2>2. Len(pre) + i \in DOMAIN m /\ m[Len(pre) + i] = w[i]
    BY <1>6
  <2>3. Len(pre) + i \in DOMAIN a /\ Len(pre) + i < Len(a) /\ a[Len(pre) + i] = w[i]
    BY <2>2, <1>6, <1>7
  <2> QED BY <2>1, <2>3
<1>11. first => a[1] = PutTotal("count", 1) /\ a[2] = PutTotal("average", 1)
  <2> SUFFICES ASSUME first PROVE a[1] = PutTotal("count", 1) /\ a[2] = PutTotal("average", 1)
    OBVIOUS
  <2>1. 1 \in DOMAIN pre /\ 2 \in DOMAIN pre /\ 1 \in DOMAIN m /\ 2 \in DOMAIN m
    BY <1>3, <1>4, <1>6
  <2> QED BY <2>1, <1>3, <1>6, <1>7
<1> QED BY <1>7, <1>8, <1>9, <1>10, <1>11 DEF a

LEMMA ScreensFacts ==
  ASSUME ItemAssumption, Typed
  PROVE  /\ MaxScreens \in Nat /\ Screens \subseteq Nat /\ opened \in Nat /\ top \in Nat /\ top <= opened
         /\ top # 0 => top \in Screens
         /\ \A k \in Nat : k # 0 /\ k <= opened => k \in Screens
         /\ opened < MaxScreens => opened + 1 \in Screens
         /\ 0 \notin Screens
BY DEF ItemAssumption, ScreensAssumption, Typed, Screens

LEMMA FormAnsweredFacts ==
  ASSUME ItemAssumption, Typed, FormAnswered, top # 0
  PROVE  \E r \in Unwritten :
           LET first == ~Exists(Head(events).snap) IN
           /\ first \in BOOLEAN
           /\ requests' = requests \o Answered(first, r)
           /\ uploads' = uploads \cup {r} /\ form' = "none"
           /\ firstReview' = [firstReview EXCEPT ![top] = first]
           /\ numberOfReviews' = [numberOfReviews EXCEPT ![top] = IF first THEN 1 ELSE @]
           /\ imageArray' = [imageArray EXCEPT ![top] = Append(@, r)]
           /\ reviews' = [reviews EXCEPT ![top] = <<>>]
<1> DEFINE first == ~Exists(Head(events).snap)
           pre == IF first THEN << PutTotal("count", 1), PutTotal("average", 1) >>
                  ELSE << Read("count", top) >>
           z == << Read("reviews", top) >>
<1>1. PICK r \in Unwritten :
           /\ uploads' = uploads \cup {r}
           /\ Unwind(r, first, pre \o ReviewWrites(r))
  BY DEF FormAnswered
<1>2. r \in Mine /\ top \in Screens /\ first \in BOOLEAN /\ Mine \in SUBSET Reviews
  BY ReviewsFacts, ScreensFacts DEF Unwritten, Exists
<1>3. /\ pre \in Seq(RequestType) /\ z \in Seq(RequestType) /\ ReviewWrites(r) \in Seq(RequestType)
  <2>1. /\ PutTotal("count", 1) \in RequestType /\ PutTotal("average", 1) \in RequestType
        /\ Read("count", top) \in RequestType /\ Read("reviews", top) \in RequestType
    BY <1>2, PutsAreRequests DEF Kinds
  <2>2. ReviewWrites(r) \in Seq(PutType(Mine)) /\ PutType(Mine) \subseteq RequestType
    BY <1>2, PutsAreRequests, WritesAreRequests
  <2> QED BY <2>1, <2>2
<1>4. requests' = (requests \o (pre \o ReviewWrites(r))) \o z
  BY <1>1 DEF Unwind, Reload
<1>5. requests \in Seq(RequestType)
  BY DEF Typed
<1> HIDE DEF pre, z
<1>6. requests' = requests \o ((pre \o ReviewWrites(r)) \o z)
  <2>1. pre \o ReviewWrites(r) \in Seq(RequestType)
    BY <1>3
  <2> QED BY <1>3, <1>4, <1>5, <2>1
<1>7. requests' = requests \o Answered(first, r)
  BY <1>6 DEF Answered, pre, z
<1> QED BY <1>1, <1>2, <1>7 DEF Unwind, Reload

------------------------
(* What the actions do to the two queues and to the node, in one form each. *)

\* The head of the requests is served, or the head of the events is handled.
LEMMA HeadsAreTyped ==
  ASSUME ItemAssumption, Typed
  PROVE  /\ requests # <<>> => Head(requests) \in RequestType /\ Tail(requests) \in Seq(RequestType)
         /\ events # <<>> => Head(events) \in EventType /\ Tail(events) \in Seq(EventType)
         /\ remote # <<>> => Head(remote) \in PutType(Theirs) /\ Tail(remote) \in Seq(PutType(Theirs))
BY TailFacts DEF Typed

LEMMA KindsOfRequests ==
  ASSUME NEW x \in RequestType
  PROVE  /\ x.kind = "put" => x \in PutType(Mine)
         /\ x.kind # "put" => x \in ReadType
BY DEF RequestType, ReadType, PutType, CountPut, AveragePut, FieldPut, Kinds

LEMMA KindsOfEvents ==
  ASSUME NEW x \in EventType
  PROVE  /\ x.kind # "append" => x \in SnapType /\ x.of \in Screens /\ x.snap \in NodeType
         /\ x.kind = "append" => x \in AppendType /\ x.of \in Screens /\ x.snap \in Reviews
BY DEF EventType, SnapType, AppendType, Kinds

LEMMA HeardFacts ==
  ASSUME ItemAssumption, Typed, NEW n \in NodeType
  PROVE  /\ Heard(n) \in Seq(EventType) /\ DOMAIN Heard(n) = 1 .. listening /\ Len(Heard(n)) = listening
         /\ \A k \in 1..listening : Heard(n)[k] = [kind |-> "value", of |-> k, snap |-> n]
<1>1. listening \in Nat /\ \A k \in 1..listening : k \in Screens
  BY ScreensFacts DEF Typed
<1>2. \A k \in 1..listening : [kind |-> "value", of |-> k, snap |-> n] \in EventType
  BY <1>1 DEF EventType, SnapType, Kinds
<1> DEFINE h == [k \in 1..listening |-> [kind |-> "value", of |-> k, snap |-> n]]
<1>3. h \in [1..listening -> EventType]
  BY <1>2
<1>4. h \in Seq(EventType) /\ Len(h) = listening
  <2> HIDE DEF h
  <2> QED BY <1>1, <1>3
<1> QED BY <1>4 DEF Heard

LEMMA IssueWriteFacts ==
  ASSUME ItemAssumption, Typed, IssueWrite
  PROVE  /\ requests # <<>> /\ Head(requests) \in PutType(Mine) /\ requests' = Tail(requests)
         /\ view' = Applied(view, Head(requests)) /\ view' \in NodeType
         /\ view' = view => events' = events
         /\ view' # view => events' = events \o Heard(view')
         /\ events' \in Seq(EventType)
<1>1. requests # <<>> /\ Head(requests) \in PutType(Mine) /\ requests' = Tail(requests)
  BY HeadsAreTyped, KindsOfRequests DEF IssueWrite
<1>2. Show(Head(requests)) /\ Mine \in SUBSET Reviews /\ view \in NodeType
  BY ReviewsFacts DEF IssueWrite, Typed
<1>3. view' \in NodeType
  <2> DEFINE put == Head(requests)
  <2>1. put \in PutType(Mine)
    BY <1>1
  <2> HIDE DEF put
  <2>2. Applied(view, put) \in NodeType
    BY <1>2, <2>1, AppliedFacts
  <2> QED BY <1>2, <2>2, ShowFacts DEF put
<1>4. events \o Heard(view') \in Seq(EventType)
  BY <1>3, HeardFacts, CatFacts DEF Typed
<1> QED BY <1>1, <1>2, <1>3, <1>4, ShowFacts DEF Typed

LEMMA RemoteArrivesFacts ==
  ASSUME ItemAssumption, Typed, RemoteArrives
  PROVE  /\ remote # <<>> /\ Head(remote) \in PutType(Theirs) /\ remote' = Tail(remote)
         /\ view' = Applied(view, Head(remote)) /\ view' \in NodeType
         /\ view' = view => events' = events
         /\ view' # view => events' = events \o Heard(view')
         /\ events' \in Seq(EventType)
<1>1. remote # <<>> /\ Head(remote) \in PutType(Theirs) /\ remote' = Tail(remote)
  BY HeadsAreTyped DEF RemoteArrives
<1>2. Show(Head(remote)) /\ Theirs \in SUBSET Reviews /\ view \in NodeType
  BY ReviewsFacts DEF RemoteArrives, Typed
<1>3. view' \in NodeType
  <2> DEFINE put == Head(remote)
  <2>1. put \in PutType(Theirs)
    BY <1>1
  <2> HIDE DEF put
  <2>2. Applied(view, put) \in NodeType
    BY <1>2, <2>1, AppliedFacts
  <2> QED BY <1>2, <2>2, ShowFacts DEF put
<1>4. events \o Heard(view') \in Seq(EventType)
  BY <1>3, HeardFacts, CatFacts DEF Typed
<1> QED BY <1>1, <1>2, <1>3, <1>4, ShowFacts DEF Typed

LEMMA ServeReadFacts ==
  ASSUME ItemAssumption, Typed, ServeRead
  PROVE  LET x == Head(requests) IN
         /\ requests # <<>> /\ x \in ReadType /\ requests' = Tail(requests)
         /\ Answer(x) \in SnapType /\ Answer(x) \in EventType /\ events' = Append(events, Answer(x))
         /\ Answer(x).kind = x.kind /\ Answer(x).of = x.of /\ Answer(x).snap = view
         /\ view' = view
         /\ listening' = IF x.kind = "value" THEN x.of ELSE listening
<1>1. Head(requests) \in ReadType
  BY HeadsAreTyped, KindsOfRequests DEF ServeRead
<1>2. Answer(Head(requests)) \in SnapType
  BY <1>1 DEF Answer, ReadType, SnapType, Typed
<1> QED BY <1>1, <1>2 DEF ServeRead, Answer, EventType, node

------------------------
\* The types are kept by each action.
LEMMA TypedStep ==
  ASSUME ItemAssumption, Typed, FormInv, ListenInv, [Next]_vars
  PROVE  Typed'
<1> USE DEF Typed
<1>0. /\ \A k \in Kinds, i \in Screens : Read(k, i) \in RequestType
      /\ Mine \in SUBSET Reviews /\ Theirs \in SUBSET Reviews
      /\ PutType(Mine) \subseteq RequestType
      /\ \A n \in Nat \ {0}, R \in SUBSET Reviews : PutTotal("count", n) \in PutType(R)
      /\ \A R \in SUBSET Reviews : \A r \in R : \A f \in AllFields : PutField(r, f) \in PutType(R)
  BY PutsAreRequests, ReviewsFacts
<1>1. CASE OpenItem
  <2>0. opened < MaxScreens /\ opened' = opened + 1 /\ top' = opened'
    BY <1>1 DEF OpenItem
  <2>1. opened + 1 \in Screens /\ opened + 1 \in 0 .. MaxScreens /\ opened' = opened + 1 /\ top' = opened + 1
    BY <2>0, ScreensFacts DEF Screens
  <2>2. << Read("images", top'), Read("value", top'), Read("reviews", top') >> \in Seq(RequestType)
    BY <1>0, <2>1 DEF Kinds
  <2>3. requests' \in Seq(RequestType)
    BY <1>1, <2>2, CatFacts DEF OpenItem
  <2>4. listening \in Nat /\ listening <= opened' /\ opened' \in 0 .. MaxScreens /\ top' \in 0..opened'
    BY <2>1
  <2>5. UNCHANGED <<node, events, listening, uploads, tasks, form, table, labels, trap>>
    BY <1>1 DEF OpenItem
  <2> QED BY <2>3, <2>4, <2>5 DEF node, table, labels
<1>2. CASE Back \/ RateItem
  <2>1. top' \in 0 .. opened /\ form' \in {"none", "open", "asking"}
    <3>1. 0 \in 0..opened BY ScreensFacts
    <3> QED BY <1>2, <3>1 DEF Back, RateItem
  <2>2. UNCHANGED <<node, queues, opened, table, labels, trap>>
    BY <1>2 DEF Back, RateItem
  <2> QED BY <2>1, <2>2 DEF node, queues, table, labels
<1>3. CASE SubmitPressed
  <2>1. top \in Screens
    BY <1>3, ScreensFacts DEF FormInv, SubmitPressed
  <2>2. requests' \in Seq(RequestType)
    BY <1>0, <1>3, <2>1, AppendFacts DEF SubmitPressed, Kinds
  <2> QED BY <1>3, <2>2 DEF SubmitPressed, node, table, labels
<1>4. CASE RowDisplayed
  BY <1>4, ScreensFacts DEF RowDisplayed, Trap, node, queues, stack, table, labels
<1>5. CASE FormAnswered
  <2>1. events # <<>> /\ Head(events).kind = "item" /\ events' = Tail(events)
    BY <1>5 DEF FormAnswered, Callback
  <2>2. top # 0 /\ top \in Screens
    <3>1. 1 \in DOMAIN events /\ events[1].kind = "item"
      BY <2>1, TailFacts
    <3> QED BY <3>1, ScreensFacts DEF FormInv
  <2>3. PICK r \in Unwritten, first \in BOOLEAN :
           /\ requests' = requests \o Answered(first, r)
           /\ uploads' = uploads \cup {r} /\ form' = "none"
           /\ firstReview' = [firstReview EXCEPT ![top] = first]
           /\ numberOfReviews' = [numberOfReviews EXCEPT ![top] = IF first THEN 1 ELSE @]
           /\ imageArray' = [imageArray EXCEPT ![top] = Append(@, r)]
           /\ reviews' = [reviews EXCEPT ![top] = <<>>]
    BY <1>5, <2>2, FormAnsweredFacts
  <2>4. r \in Mine /\ r \in Reviews
    BY <1>0 DEF Unwritten
  <2>5. requests' \in Seq(RequestType)
    BY <2>2, <2>3, <2>4, AnsweredFacts, CatFacts
  <2>6. events' \in Seq(EventType)
    BY <2>1, HeadsAreTyped
  <2>7. imageArray' \in [Screens -> Seq(Reviews)]
    BY <2>2, <2>3, <2>4
  <2>8. /\ firstReview' \in [Screens -> BOOLEAN] /\ numberOfReviews' \in [Screens -> Nat]
        /\ reviews' \in [Screens -> Seq(Reviews)] /\ uploads' \subseteq Mine
    BY <2>2, <2>3, <2>4
  <2>9. UNCHANGED <<node, listening, opened, top, tasks, trap, ratings, rows>>
    BY <1>5 DEF FormAnswered, Callback, Unwind, Reload
  <2> QED BY <2>3, <2>5, <2>6, <2>7, <2>8, <2>9 DEF node
<1>6. CASE CountAnswered
  <2>1. events # <<>> /\ Head(events).kind = "count" /\ events' = Tail(events)
    BY <1>6 DEF CountAnswered, Callback
  <2>2. Head(events).snap.count \in Nat
    BY <2>1, HeadsAreTyped, KindsOfEvents DEF NodeType
  <2>3. PutTotal("count", Head(events).snap.count + 1) \in RequestType
    BY <1>0, <2>2
  <2>4. requests' \in Seq(RequestType)
    BY <1>6, <2>3, AppendFacts DEF CountAnswered
  <2>5. events' \in Seq(EventType)
    BY <2>1, HeadsAreTyped
  <2> QED BY <1>6, <2>4, <2>5 DEF CountAnswered, Callback, node, table, labels
<1>7. CASE ListenerFired
  <2>1. events # <<>> /\ Head(events).kind = "value" /\ events' = Tail(events)
    BY <1>7 DEF ListenerFired, Callback
  <2>2. Head(events).snap.count \in Nat /\ Head(events).of \in Screens /\ Head(events).of \in Nat
    BY <2>1, HeadsAreTyped, KindsOfEvents, ScreensFacts DEF NodeType
  <2>3. events' \in Seq(EventType)
    BY <2>1, HeadsAreTyped
  <2>4. numberOfReviews' \in [Screens -> Nat]
    BY <1>7, <2>2 DEF ListenerFired
  <2>5. trap' \in [why : {"no", "average", "field", "image", "download", "row"}, of : Nat]
    BY <1>7, <2>2 DEF ListenerFired, Trap
  <2> QED BY <1>7, <2>3, <2>4, <2>5 DEF ListenerFired, Callback, node, table
<1>8. CASE ReviewsAnswered
  <2>1. events # <<>> /\ Head(events).kind = "reviews" /\ events' = Tail(events)
    BY <1>8 DEF ReviewsAnswered, Callback
  <2>2. Head(events).snap \in NodeType /\ Head(events).of \in Screens
    BY <2>1, HeadsAreTyped, KindsOfEvents
  <2>3. events' \in Seq(EventType)
    BY <2>1, HeadsAreTyped
  <2>4. Listed(Head(events).snap) \in Seq(Reviews)
    BY <2>2, ListedFacts
  <2> DEFINE k == Head(events).of
             l == Listed(Head(events).snap)
  <2>5. CASE UNCHANGED table
    <3>1. trap' \in [why : {"no", "average", "field", "image", "download", "row"}, of : Nat]
      <4>1. \A r \in Reviews : r \in Nat BY ReviewsFacts
      <4>2. trap' = trap \/ \E r \in Reviews : Trap("field", r)
        BY <1>8, <2>5, Zenon DEF ReviewsAnswered
      <4> QED BY <4>1, <4>2 DEF Trap
    <3> QED BY <1>8, <2>3, <2>5, <3>1 DEF ReviewsAnswered, Callback, node, table, labels
  <2>6. CASE /\ reviews' = [reviews EXCEPT ![k] = @ \o l]
             /\ ratings' = [ratings EXCEPT ![k] = @ \o l]
             /\ rows' = [rows EXCEPT ![k] = IF l = <<>> THEN @ ELSE Len(reviews'[k])]
             /\ UNCHANGED trap
    <3> HIDE DEF l
    <3>1. l \in Seq(Reviews) BY <2>4 DEF l
    <3>2. \A s \in Seq(Reviews) : s \o l \in Seq(Reviews) BY <3>1, CatFacts
    <3>3. reviews' \in [Screens -> Seq(Reviews)] /\ ratings' \in [Screens -> Seq(Reviews)]
      BY <2>2, <2>6, <3>2
    <3>4. rows' \in [Screens -> Nat] BY <2>2, <2>6, <3>3
    <3> QED BY <1>8, <2>3, <2>6, <3>3, <3>4 DEF ReviewsAnswered, Callback, node, labels
  <2> QED BY <1>8, <2>5, <2>6 DEF ReviewsAnswered
<1>9. CASE ImagesAnswered
  <2>1. events # <<>> /\ Head(events).kind = "images" /\ events' = Tail(events)
    BY <1>9 DEF ImagesAnswered, Callback
  <2>2. Head(events).of \in Screens
    BY <2>1, HeadsAreTyped, KindsOfEvents
  <2>3. events' \in Seq(EventType)
    BY <2>1, HeadsAreTyped
  <2>4. tasks' \subseteq Screens \X Reviews
    BY <1>9, <2>2 DEF ImagesAnswered
  <2>5. trap' \in [why : {"no", "average", "field", "image", "download", "row"}, of : Nat]
    BY <1>9, ReviewsFacts DEF ImagesAnswered, Trap
  <2> QED BY <1>9, <2>3, <2>4, <2>5 DEF ImagesAnswered, Callback, node, table, labels
<1>10. CASE ImageAppended
  <2>1. events # <<>> /\ Head(events).kind = "append" /\ events' = Tail(events)
    BY <1>10 DEF ImageAppended, Callback
  <2>2. Head(events).of \in Screens /\ Head(events).snap \in Reviews
    BY <2>1, HeadsAreTyped, KindsOfEvents
  <2>3. events' \in Seq(EventType)
    BY <2>1, HeadsAreTyped
  <2>4. imageArray' \in [Screens -> Seq(Reviews)]
    BY <1>10, <2>2 DEF ImageAppended
  <2> QED BY <1>10, <2>3, <2>4 DEF ImageAppended, Callback, node, table
<1>11. ASSUME NEW t \in Screens \X Reviews, NEW ok \in BOOLEAN, DownloadFinished(t, ok)
       PROVE  Typed'
  <2>1. [kind |-> "append", of |-> t[1], snap |-> t[2]] \in EventType
    BY DEF EventType, AppendType
  <2>2. events' \in Seq(EventType)
    <3> DEFINE e == [kind |-> "append", of |-> t[1], snap |-> t[2]]
    <3>1. events' = events \/ events' = Append(events, e)
      BY <1>11 DEF DownloadFinished
    <3> HIDE DEF e
    <3>2. Append(events, e) \in Seq(EventType) BY <2>1, AppendFacts DEF e
    <3> QED BY <3>1, <3>2
  <2>3. t[1] \in Nat
    BY ScreensFacts
  <2>4. trap' \in [why : {"no", "average", "field", "image", "download", "row"}, of : Nat]
    BY <1>11, <2>3 DEF DownloadFinished, Trap
  <2> QED BY <1>11, <2>2, <2>4 DEF DownloadFinished, node, stack, table, labels
<1>12. ASSUME NEW r \in Mine, NEW ok \in BOOLEAN, UploadFinished(r, ok)
       PROVE  Typed'
  <2>1. PutField(r, "imageURL") \in RequestType
    BY <1>0 DEF AllFields
  <2>2. requests' \in Seq(RequestType)
    BY <1>12, <2>1, AppendFacts DEF UploadFinished
  <2> QED BY <1>12, <2>2 DEF UploadFinished, node, stack, table, labels
<1>13. CASE ServeRead
  <2>1. events' \in Seq(EventType) /\ requests' \in Seq(RequestType)
    <3> DEFINE e == Answer(Head(requests))
    <3>1. e \in EventType /\ events' = Append(events, e) /\ requests # <<>> /\ requests' = Tail(requests)
      BY <1>13, ServeReadFacts
    <3> HIDE DEF e
    <3>2. Append(events, e) \in Seq(EventType) BY <3>1, AppendFacts
    <3> QED BY <3>1, <3>2, HeadsAreTyped
  <2>2. listening' \in Nat /\ listening' <= opened
    <3>1. 1 \in DOMAIN requests /\ Head(requests) = requests[1]
      BY <1>13, TailFacts DEF ServeRead
    <3>2. requests[1].kind = "value" => requests[1].of <= opened
      BY <3>1 DEF ListenInv
    <3>3. Head(requests).of \in Nat
      BY <1>13, ServeReadFacts, ScreensFacts DEF ReadType
    <3> QED BY <1>13, <3>1, <3>2, <3>3, ServeReadFacts
  <2> QED BY <1>13, <2>1, <2>2 DEF ServeRead, node, stack, table, labels
<1>14. CASE IssueWrite
  BY <1>14, IssueWriteFacts, HeadsAreTyped DEF IssueWrite, stack, table, labels
<1>15. CASE RemoteArrives
  BY <1>15, RemoteArrivesFacts, HeadsAreTyped DEF RemoteArrives, stack, table, labels
<1>16. ASSUME NEW r \in Theirs, RemoteSubmits(r)
       PROVE  Typed'
  <2>1. /\ PutTotal("count", 1) \in PutType(Theirs) /\ PutTotal("average", 1) \in PutType(Theirs)
        /\ PutTotal("count", view.count + 1) \in PutType(Theirs)
        /\ PutField(r, "imageURL") \in PutType(Theirs)
    <3>1. view.count + 1 \in Nat \ {0} /\ 1 \in Nat \ {0} /\ "imageURL" \in AllFields
      BY DEF NodeType, AllFields
    <3>2. \A R \in SUBSET Reviews : PutTotal("average", 1) \in PutType(R)
      BY PutsAreRequests
    <3> HIDE DEF Typed
    <3> QED BY <1>0, <3>1, <3>2
  <2>2. ReviewWrites(r) \in Seq(PutType(Theirs))
    BY <1>0, WritesAreRequests
  <2>3. PICK url \in {<<>>, << PutField(r, "imageURL") >>} :
         remote' = (IF Exists(view) THEN ReviewWrites(r) \o << PutTotal("count", view.count + 1) >>
                    ELSE << PutTotal("count", 1), PutTotal("average", 1) >> \o ReviewWrites(r))
                   \o url
    BY <1>16 DEF RemoteSubmits
  <2>4. url \in Seq(PutType(Theirs))
    <3>1. <<>> \in Seq(PutType(Theirs)) /\ << PutField(r, "imageURL") >> \in Seq(PutType(Theirs))
      BY <2>1
    <3> QED BY <2>3, <3>1
  <2>5. << PutTotal("count", view.count + 1) >> \in Seq(PutType(Theirs))
        /\ << PutTotal("count", 1), PutTotal("average", 1) >> \in Seq(PutType(Theirs))
    BY <2>1
  <2>6. /\ ReviewWrites(r) \o << PutTotal("count", view.count + 1) >> \in Seq(PutType(Theirs))
        /\ << PutTotal("count", 1), PutTotal("average", 1) >> \o ReviewWrites(r) \in Seq(PutType(Theirs))
    BY <2>2, <2>5, CatFacts
  <2>7. remote' \in Seq(PutType(Theirs))
    BY <2>3, <2>4, <2>6, CatFacts
  <2> QED BY <1>16, <2>7 DEF RemoteSubmits, queues, stack, table, labels
<1>17. CASE UNCHANGED vars
  BY <1>17 DEF vars, node, queues, stack, table, labels
<1> QED BY <1>1, <1>2, <1>3, <1>4, <1>5, <1>6, <1>7, <1>8, <1>9, <1>10, <1>11, <1>12, <1>13, <1>14,
           <1>15, <1>16, <1>17 DEF Next

------------------------
(* What a review will have when a request is served, as the line moves. *)

\* The head of the line of requests is served: n becomes m.
Served(n, q, m) ==
  \/ Head(q).kind # "put" /\ m = n
  \/ Head(q).kind = "put" /\ m = Applied(n, Head(q))

LEMMA HasServed ==
  ASSUME ItemAssumption, NEW n \in NodeType, NEW q \in Seq(RequestType), q # <<>>, NEW m, Served(n, q, m)
  PROVE  \A k \in Nat \ {0}, r \in Reviews, f \in AllFields :
           Has(m, Tail(q), k, r, f) <=> Has(n, q, k + 1, r, f)
<1> SUFFICES ASSUME NEW k \in Nat \ {0}, NEW r \in Reviews, NEW f \in AllFields
             PROVE  Has(m, Tail(q), k, r, f) <=> Has(n, q, k + 1, r, f)
  OBVIOUS
<1>1. /\ \A i \in DOMAIN Tail(q) : i \in Nat /\ i + 1 \in DOMAIN q /\ Tail(q)[i] = q[i + 1]
      /\ \A i \in DOMAIN q : i \in Nat /\ (i # 1 => i - 1 \in DOMAIN Tail(q) /\ q[i] = Tail(q)[i - 1])
      /\ Head(q) = q[1] /\ 1 \in DOMAIN q /\ Head(q) \in RequestType
  BY TailFacts
<1>2. f \in m.fields[r] <=> f \in n.fields[r] \/ IsField(q[1], f, r)
  <2>1. CASE Head(q).kind # "put"
    <3>1. m = n BY <2>1 DEF Served
    <3> QED BY <2>1, <3>1, <1>1 DEF IsField
  <2>2. CASE Head(q).kind = "put"
    <3> DEFINE put == Head(q)
    <3>1. put \in PutType(Mine) /\ Mine \in SUBSET Reviews /\ m = Applied(n, put)
      BY <2>2, <1>1, KindsOfRequests, ReviewsFacts DEF Served
    <3> HIDE DEF put
    <3>2. f \in Applied(n, put).fields[r] <=> f \in n.fields[r] \/ IsField(put, f, r)
      BY <3>1, AppliedFacts
    <3> QED BY <3>1, <3>2, <1>1 DEF put
  <2> QED BY <2>1, <2>2
<1>3. (\E i \in DOMAIN Tail(q) : i < k /\ IsField(Tail(q)[i], f, r))
        <=> (\E i \in DOMAIN q : i # 1 /\ i < k + 1 /\ IsField(q[i], f, r))
  <2>1. ASSUME NEW i \in DOMAIN Tail(q), i < k, IsField(Tail(q)[i], f, r)
        PROVE  \E j \in DOMAIN q : j # 1 /\ j < k + 1 /\ IsField(q[j], f, r)
    <3>1. i \in DOMAIN Tail(q) /\ i >= 1
      BY TailFacts
    <3>2. i + 1 \in DOMAIN q /\ i + 1 # 1 /\ i + 1 < k + 1 /\ IsField(q[i + 1], f, r)
      BY <2>1, <3>1, <1>1
    <3> QED BY <3>2
  <2>2. ASSUME NEW j \in DOMAIN q, j # 1, j < k + 1, IsField(q[j], f, r)
        PROVE  \E i \in DOMAIN Tail(q) : i < k /\ IsField(Tail(q)[i], f, r)
    <3>1. j - 1 \in DOMAIN Tail(q) /\ j - 1 < k /\ IsField(Tail(q)[j - 1], f, r)
      BY <2>2, <1>1
    <3> QED BY <3>1
  <2> QED BY <2>1, <2>2
<1>4. (\E i \in DOMAIN q : i < k + 1 /\ IsField(q[i], f, r))
        <=> IsField(q[1], f, r) \/ (\E i \in DOMAIN q : i # 1 /\ i < k + 1 /\ IsField(q[i], f, r))
  BY <1>1
<1> QED BY <1>2, <1>3, <1>4 DEF Has

LEMMA SomeServed ==
  ASSUME ItemAssumption, NEW n \in NodeType, NEW q \in Seq(RequestType), q # <<>>, NEW m, Served(n, q, m)
  PROVE  \A k \in Nat \ {0}, r \in Reviews :
           /\ Some(m, Tail(q), k, r) <=> Some(n, q, k + 1, r)
           /\ All(m, Tail(q), k, r) <=> All(n, q, k + 1, r)
<1>1. \A k \in Nat \ {0}, r \in Reviews, f \in AllFields :
           Has(m, Tail(q), k, r, f) <=> Has(n, q, k + 1, r, f)
  BY HasServed
<1>2. Fields \subseteq AllFields
  BY DEF AllFields
<1> QED BY <1>1, <1>2 DEF Some, All

LEMMA EndServed ==
  ASSUME NEW S, NEW q \in Seq(S), q # <<>>
  PROVE  End(Tail(q)) \in Nat \ {0} /\ End(Tail(q)) + 1 = End(q) /\ End(q) \in Nat \ {0}
BY TailFacts DEF End

\* Requests are added at the end of the line.
LEMMA HasCat ==
  ASSUME ItemAssumption, NEW n, NEW q \in Seq(RequestType), NEW s \in Seq(RequestType), NEW r, NEW f
  PROVE  /\ \A k \in Nat : k <= End(q) => (Has(n, q \o s, k, r, f) <=> Has(n, q, k, r, f))
         /\ \A j \in Nat \ {0} : Has(n, q \o s, Len(q) + j, r, f)
              <=> Has(n, q, End(q), r, f) \/ \E i \in DOMAIN s : i < j /\ IsField(s[i], f, r)
<1>1. /\ Len(q) \in Nat /\ Len(s) \in Nat
      /\ DOMAIN q = 1 .. Len(q) /\ DOMAIN s = 1 .. Len(s) /\ DOMAIN (q \o s) = 1..Len(q) + Len(s)
      /\ \A i \in DOMAIN q : i \in DOMAIN (q \o s) /\ (q \o s)[i] = q[i]
      /\ \A i \in DOMAIN s : Len(q) + i \in DOMAIN (q \o s) /\ (q \o s)[Len(q) + i] = s[i]
      /\ \A i \in DOMAIN (q \o s) : i \notin DOMAIN q =>
              i - Len(q) \in DOMAIN s /\ (q \o s)[i] = s[i - Len(q)]
  BY CatFacts
<1> DEFINE t == q \o s
<1> HIDE DEF t
<1>2. ASSUME NEW k \in Nat, k <= End(q) PROVE Has(n, t, k, r, f) <=> Has(n, q, k, r, f)
  <2>1. \A i : i \in DOMAIN t /\ i < k <=> i \in DOMAIN q /\ i < k
    BY <1>1, <1>2 DEF End, t
  <2>2. \A i \in DOMAIN q : t[i] = q[i]
    BY <1>1 DEF t
  <2> QED BY <2>1, <2>2 DEF Has
<1>3. ASSUME NEW j \in Nat \ {0}
      PROVE  Has(n, t, Len(q) + j, r, f)
               <=> Has(n, q, End(q), r, f) \/ \E i \in DOMAIN s : i < j /\ IsField(s[i], f, r)
  <2>1. ASSUME NEW i \in DOMAIN t, i < Len(q) + j, IsField(t[i], f, r)
        PROVE  \/ \E h \in DOMAIN q : h < End(q) /\ IsField(q[h], f, r)
               \/ \E h \in DOMAIN s : h < j /\ IsField(s[h], f, r)
    <3>1. CASE i \in DOMAIN q
      <4>1. i < End(q) /\ t[i] = q[i]
        BY <3>1, <1>1 DEF End, t
      <4> QED BY <4>1, <3>1, <2>1
    <3>2. CASE i \notin DOMAIN q
      <4>1. i - Len(q) \in DOMAIN s /\ t[i] = s[i - Len(q)] /\ i \in Nat
        BY <3>2, <1>1 DEF t
      <4>2. i - Len(q) < j BY <4>1, <2>1, <1>1
      <4> QED BY <4>1, <4>2, <2>1
    <3> QED BY <3>1, <3>2
  <2>2. ASSUME NEW h \in DOMAIN q, IsField(q[h], f, r)
        PROVE  \E i \in DOMAIN t : i < Len(q) + j /\ IsField(t[i], f, r)
    <3>1. h \in DOMAIN t /\ t[h] = q[h] /\ h < Len(q) + j
      BY <1>1 DEF t
    <3> QED BY <3>1, <2>2
  <2>3. ASSUME NEW h \in DOMAIN s, h < j, IsField(s[h], f, r)
        PROVE  \E i \in DOMAIN t : i < Len(q) + j /\ IsField(t[i], f, r)
    <3>1. Len(q) + h \in DOMAIN t /\ t[Len(q) + h] = s[h] /\ Len(q) + h < Len(q) + j
      BY <1>1, <2>3 DEF t
    <3> QED BY <3>1, <2>3
  <2>4. (\E i \in DOMAIN t : i < Len(q) + j /\ IsField(t[i], f, r))
          <=> \/ \E h \in DOMAIN q : h < End(q) /\ IsField(q[h], f, r)
              \/ \E h \in DOMAIN s : h < j /\ IsField(s[h], f, r)
    BY <2>1, <2>2, <2>3
  <2> QED BY <2>4 DEF Has
<1> QED BY <1>2, <1>3 DEF t

\* No field of r is among the requests that are added.
Plain(s, r) == \A i \in DOMAIN s : \A f \in AllFields : ~IsField(s[i], f, r)

LEMMA SomeCat ==
  ASSUME ItemAssumption, NEW n, NEW q \in Seq(RequestType), NEW s \in Seq(RequestType), NEW r
  PROVE  /\ \A k \in Nat : k <= End(q) => /\ Some(n, q \o s, k, r) <=> Some(n, q, k, r)
                                          /\ All(n, q \o s, k, r) <=> All(n, q, k, r)
         /\ Plain(s, r) => \A j \in Nat \ {0} :
              /\ Some(n, q \o s, Len(q) + j, r) <=> Some(n, q, End(q), r)
              /\ All(n, q \o s, Len(q) + j, r) <=> All(n, q, End(q), r)
         /\ \A j \in Nat \ {0} : All(n, q, End(q), r) => All(n, q \o s, Len(q) + j, r)
         /\ \A j \in Nat \ {0} : Some(n, q, End(q), r) => Some(n, q \o s, Len(q) + j, r)
<1> DEFINE H(t, k, f) == Has(n, t, k, r, f)
<1>1. /\ \A f : \A k \in Nat : k <= End(q) => (H(q \o s, k, f) <=> H(q, k, f))
      /\ \A f : \A j \in Nat \ {0} : H(q \o s, Len(q) + j, f)
              <=> H(q, End(q), f) \/ \E i \in DOMAIN s : i < j /\ IsField(s[i], f, r)
  BY HasCat
<1>2. Fields \subseteq AllFields
  BY DEF AllFields
<1> DEFINE S(t, k) == \E f \in AllFields : H(t, k, f)
           A(t, k) == \A f \in Fields : H(t, k, f)
<1>3. \A t, k : (Some(n, t, k, r) <=> S(t, k)) /\ (All(n, t, k, r) <=> A(t, k))
  BY DEF Some, All
<1> HIDE DEF H
<1>4. \A k \in Nat : k <= End(q) => (S(q \o s, k) <=> S(q, k)) /\ (A(q \o s, k) <=> A(q, k))
  BY <1>1, <1>2
<1>5. Plain(s, r) => \A j \in Nat \ {0} : /\ S(q \o s, Len(q) + j) <=> S(q, End(q))
                                          /\ A(q \o s, Len(q) + j) <=> A(q, End(q))
  BY <1>1, <1>2 DEF Plain
<1>6. \A j \in Nat \ {0} : /\ A(q, End(q)) => A(q \o s, Len(q) + j)
                           /\ S(q, End(q)) => S(q \o s, Len(q) + j)
  BY <1>1
<1> HIDE DEF S, A
<1> QED BY <1>3, <1>4, <1>5, <1>6

\* A write of someone else gives this user's reviews nothing.
LEMMA SomeRemote ==
  ASSUME ItemAssumption, NEW n \in NodeType, NEW put \in PutType(Theirs), NEW r \in Mine, NEW q, NEW k
  PROVE  /\ \A f \in AllFields : Has(Applied(n, put), q, k, r, f) <=> Has(n, q, k, r, f)
         /\ Some(Applied(n, put), q, k, r) <=> Some(n, q, k, r)
         /\ All(Applied(n, put), q, k, r) <=> All(n, q, k, r)
<1>1. r \in Reviews \ Theirs /\ Theirs \in SUBSET Reviews
  BY ReviewsFacts
<1>2. Applied(n, put).fields[r] = n.fields[r]
  BY <1>1, AppliedFacts
<1>3. \A f : Has(Applied(n, put), q, k, r, f) <=> Has(n, q, k, r, f)
  BY <1>2 DEF Has
<1> HIDE DEF Has
<1> QED BY <1>3 DEF Some, All

\* What a snapshot shows is what the review has by the end of the line.
LEMMA NowFacts ==
  ASSUME ItemAssumption, NEW n \in NodeType, NEW q \in Seq(RequestType), NEW r \in Reviews
  PROVE  /\ n.fields[r] # {} <=> Some(n, q, 1, r)
         /\ Fields \subseteq n.fields[r] <=> All(n, q, 1, r)
         /\ n.fields[r] # {} => Some(n, q, End(q), r)
<1>1. \A i \in DOMAIN q : ~(i < 1) OBVIOUS
<1>2. \A f : (Has(n, q, 1, r, f) <=> f \in n.fields[r]) /\ (f \in n.fields[r] => Has(n, q, End(q), r, f))
  BY <1>1 DEF Has
<1>3. n.fields[r] \subseteq AllFields
  BY DEF NodeType, AllFields
<1> HIDE DEF Has
<1> QED BY <1>2, <1>3 DEF Some, All

------------------------
(* How a step moves the two queues. *)

\* Every step serves the first request, adds requests, or applies a write of someone else.
LineMoves ==
  \/ /\ requests # <<>> /\ requests' = Tail(requests) /\ Served(view, requests, view')
     /\ uploads' = uploads
  \/ requests' = requests /\ view' = view /\ uploads' \subseteq uploads
  \/ requests' = requests /\ uploads' = uploads
     /\ \E put \in PutType(Theirs) : view' = Applied(view, put)
  \/ OpenItem \/ SubmitPressed \/ FormAnswered \/ CountAnswered
  \/ \E r \in uploads : /\ requests' = Append(requests, PutField(r, "imageURL"))
                        /\ view' = view /\ uploads' = uploads \ {r}

\* Every step handles the first event, or adds the answer to a read, an image, or the
\* node to every listener.
EventsMove ==
  \/ events' = events
  \/ events # <<>> /\ events' = Tail(events) /\ Callback(Head(events).kind)
  \/ \E x \in AppendType : events' = Append(events, x)
  \/ /\ requests # <<>> /\ Head(requests).kind # "put" /\ view' = view
     /\ requests' = Tail(requests) /\ events' = Append(events, Answer(Head(requests)))
     /\ Answer(Head(requests)) \in SnapType
  \/ view' # view /\ view' \in NodeType /\ events' = events \o Heard(view')

LEMMA EveryStepMoves ==
  ASSUME ItemAssumption, Typed, [Next]_vars
  PROVE  LineMoves /\ EventsMove
<1>1. CASE OpenItem \/ SubmitPressed \/ Back \/ RateItem \/ RowDisplayed
  BY <1>1 DEF OpenItem, SubmitPressed, Back, RateItem, RowDisplayed, LineMoves, EventsMove, node, queues
<1>2. CASE FormAnswered \/ CountAnswered
  BY <1>2 DEF FormAnswered, CountAnswered, Callback, LineMoves, EventsMove
<1>3. CASE ListenerFired \/ ReviewsAnswered \/ ImagesAnswered \/ ImageAppended
  BY <1>3 DEF ListenerFired, ReviewsAnswered, ImagesAnswered, ImageAppended, Callback, LineMoves,
              EventsMove, node
<1>4. ASSUME NEW t \in Screens \X Reviews, NEW ok \in BOOLEAN, DownloadFinished(t, ok)
      PROVE  LineMoves /\ EventsMove
  <2>1. [kind |-> "append", of |-> t[1], snap |-> t[2]] \in AppendType
    BY DEF AppendType
  <2> QED BY <1>4, <2>1 DEF DownloadFinished, LineMoves, EventsMove, node
<1>5. ASSUME NEW r \in Mine, NEW ok \in BOOLEAN, UploadFinished(r, ok)
      PROVE  LineMoves /\ EventsMove
  BY <1>5 DEF UploadFinished, LineMoves, EventsMove, node
<1>6. CASE ServeRead
  BY <1>6, ServeReadFacts DEF ServeRead, LineMoves, EventsMove, Served
<1>7. CASE IssueWrite
  BY <1>7, IssueWriteFacts DEF IssueWrite, LineMoves, EventsMove, Served
<1>8. CASE RemoteArrives
  <2>1. /\ Head(remote) \in PutType(Theirs) /\ view' = Applied(view, Head(remote)) /\ view' \in NodeType
        /\ view' = view => events' = events
        /\ view' # view => events' = events \o Heard(view')
    BY <1>8, RemoteArrivesFacts
  <2>2. requests' = requests /\ uploads' = uploads
    BY <1>8 DEF RemoteArrives
  <2> QED BY <2>1, <2>2 DEF LineMoves, EventsMove
<1>9. ASSUME NEW r \in Theirs, RemoteSubmits(r)
      PROVE  LineMoves /\ EventsMove
  BY <1>9 DEF RemoteSubmits, LineMoves, EventsMove, queues
<1>10. CASE UNCHANGED vars
  BY <1>10 DEF vars, node, queues, LineMoves, EventsMove
<1> QED BY <1>1, <1>2, <1>3, <1>4, <1>5, <1>6, <1>7, <1>8, <1>9, <1>10 DEF Next

\* A sequence all of whose elements are in a set.
LEMMA SeqIn ==
  ASSUME NEW S, NEW W, NEW q \in Seq(S), \A i \in DOMAIN q : q[i] \in W
  PROVE  q \in Seq(W)
OBVIOUS

LEMMA SeqOut ==
  ASSUME NEW W, NEW q \in Seq(W), NEW i \in DOMAIN q
  PROVE  q[i] \in W
OBVIOUS

------------------------
(* Reviews are read whole. *)

LEMMA WholeCat ==
  ASSUME ItemAssumption, NEW n, NEW q \in Seq(RequestType), NEW s \in Seq(RequestType),
         WholeLine(n, q),
         \A r \in Mine :
           \/ Plain(s, r)
           \/ /\ \A j \in DOMAIN s : s[j].kind = "reviews" \/ IsField(s[j], "imageURL", r) =>
                   All(n, q \o s, Len(q) + j, r)
              /\ All(n, q \o s, End(q \o s), r)
  PROVE  WholeLine(n, q \o s)
<1>1. /\ q \o s \in Seq(RequestType) /\ Len(q) \in Nat /\ Len(s) \in Nat /\ Len(q \o s) = Len(q) + Len(s)
      /\ DOMAIN q = 1 .. Len(q) /\ DOMAIN s = 1 .. Len(s) /\ DOMAIN (q \o s) = 1..Len(q) + Len(s)
      /\ \A i \in DOMAIN q : i \in DOMAIN (q \o s) /\ (q \o s)[i] = q[i]
      /\ \A i \in DOMAIN (q \o s) : i \notin DOMAIN q =>
              i - Len(q) \in DOMAIN s /\ (q \o s)[i] = s[i - Len(q)]
  BY CatFacts
<1> DEFINE t == q \o s
<1>2. End(t) = Len(q) + (Len(s) + 1) /\ Len(s) + 1 \in Nat \ {0}
  BY <1>1 DEF End
<1> SUFFICES ASSUME NEW r \in Mine
             PROVE  /\ \A k \in DOMAIN t : t[k].kind = "reviews" /\ Some(n, t, k, r) => All(n, t, k, r)
                    /\ \A k \in DOMAIN t : IsField(t[k], "imageURL", r) => All(n, t, k, r)
                    /\ Some(n, t, End(t), r) => All(n, t, End(t), r)
  BY DEF WholeLine
<1>3. /\ \A k \in DOMAIN q : q[k].kind = "reviews" /\ Some(n, q, k, r) => All(n, q, k, r)
      /\ \A k \in DOMAIN q : IsField(q[k], "imageURL", r) => All(n, q, k, r)
      /\ Some(n, q, End(q), r) => All(n, q, End(q), r)
  BY DEF WholeLine
<1>4. \A k \in DOMAIN q : /\ Some(n, t, k, r) <=> Some(n, q, k, r)
                          /\ All(n, t, k, r) <=> All(n, q, k, r)
  <2>1. \A k \in DOMAIN q : k \in Nat /\ k <= End(q)
    BY <1>1 DEF End
  <2> QED BY <2>1, SomeCat
<1>5. CASE Plain(s, r)
  <2>1. \A j \in Nat \ {0} : /\ Some(n, t, Len(q) + j, r) <=> Some(n, q, End(q), r)
                             /\ All(n, t, Len(q) + j, r) <=> All(n, q, End(q), r)
    BY <1>5, SomeCat
  <2>2. \A j \in DOMAIN s : ~IsField(s[j], "imageURL", r)
    BY <1>5 DEF Plain, AllFields
  <2> HIDE DEF t
  <2>3. Some(n, t, End(t), r) => All(n, t, End(t), r)
    BY <2>1, <1>2, <1>3
  <2>4. ASSUME NEW k \in DOMAIN t
        PROVE  /\ t[k].kind = "reviews" /\ Some(n, t, k, r) => All(n, t, k, r)
               /\ IsField(t[k], "imageURL", r) => All(n, t, k, r)
    <3>1. CASE k \in DOMAIN q
      <4>1. t[k] = q[k] BY <3>1, <1>1 DEF t
      <4> QED BY <3>1, <4>1, <1>3, <1>4
    <3>2. CASE k \notin DOMAIN q
      <4>1. k - Len(q) \in DOMAIN s /\ t[k] = s[k - Len(q)] /\ k \in Nat
        BY <3>2, <1>1 DEF t
      <4>2. k - Len(q) \in Nat \ {0} /\ k = Len(q) + (k - Len(q))
        BY <4>1, <1>1
      <4>3. /\ Some(n, t, k, r) <=> Some(n, q, End(q), r)
            /\ All(n, t, k, r) <=> All(n, q, End(q), r)
        BY <2>1, <4>2
      <4> QED BY <4>1, <4>3, <1>3, <2>2
    <3> QED BY <3>1, <3>2
  <2> QED BY <2>3, <2>4
<1>6. CASE /\ \A j \in DOMAIN s : s[j].kind = "reviews" \/ IsField(s[j], "imageURL", r) =>
                   All(n, t, Len(q) + j, r)
           /\ All(n, t, End(t), r)
  <2> HIDE DEF t
  <2>1. ASSUME NEW k \in DOMAIN t
        PROVE  /\ t[k].kind = "reviews" /\ Some(n, t, k, r) => All(n, t, k, r)
               /\ IsField(t[k], "imageURL", r) => All(n, t, k, r)
    <3>1. CASE k \in DOMAIN q
      <4>1. t[k] = q[k] BY <3>1, <1>1 DEF t
      <4> QED BY <3>1, <4>1, <1>3, <1>4
    <3>2. CASE k \notin DOMAIN q
      <4>1. k - Len(q) \in DOMAIN s /\ t[k] = s[k - Len(q)] /\ k \in Nat
        BY <3>2, <1>1 DEF t
      <4>2. k = Len(q) + (k - Len(q)) BY <4>1, <1>1
      <4>3. t[k].kind = "reviews" \/ IsField(t[k], "imageURL", r) => All(n, t, k, r)
        BY <1>6, <4>1, <4>2
      <4> QED BY <4>3
    <3> QED BY <3>1, <3>2
  <2> QED BY <2>1, <1>6
<1> QED BY <1>5, <1>6

LEMMA WholeServed ==
  ASSUME ItemAssumption, NEW n \in NodeType, NEW q \in Seq(RequestType), q # <<>>, NEW m,
         Served(n, q, m), WholeLine(n, q)
  PROVE  WholeLine(m, Tail(q))
<1> DEFINE t == Tail(q)
<1>1. \A k \in Nat \ {0}, r \in Reviews :
           /\ Some(m, t, k, r) <=> Some(n, q, k + 1, r)
           /\ All(m, t, k, r) <=> All(n, q, k + 1, r)
  BY SomeServed
<1>2. /\ End(t) \in Nat \ {0} /\ End(t) + 1 = End(q)
      /\ \A k \in DOMAIN t : k \in Nat \ {0} /\ k + 1 \in DOMAIN q /\ t[k] = q[k + 1]
      /\ Mine \subseteq Reviews
  BY EndServed, TailFacts, ReviewsFacts
<1> HIDE DEF t
<1>3. ASSUME NEW r \in Mine, NEW k \in DOMAIN t
      PROVE  /\ t[k].kind = "reviews" /\ Some(m, t, k, r) => All(m, t, k, r)
             /\ IsField(t[k], "imageURL", r) => All(m, t, k, r)
  <2>1. k + 1 \in DOMAIN q /\ t[k] = q[k + 1] /\ k \in Nat \ {0} /\ r \in Reviews
    BY <1>2
  <2>2. /\ Some(m, t, k, r) <=> Some(n, q, k + 1, r)
        /\ All(m, t, k, r) <=> All(n, q, k + 1, r)
    BY <2>1, <1>1
  <2> QED BY <2>1, <2>2 DEF WholeLine
<1>4. ASSUME NEW r \in Mine PROVE Some(m, t, End(t), r) => All(m, t, End(t), r)
  BY <1>1, <1>2 DEF WholeLine
<1> QED BY <1>3, <1>4 DEF WholeLine, t

\* An event that is the answer to a read of the reviews shows this user's whole or not at all.
WholeEvents ==
  {e \in EventType : e.kind = "reviews" =>
     \A r \in Mine : e.snap.fields[r] # {} => Fields \subseteq e.snap.fields[r]}

LEMMA PlainFacts ==
  ASSUME NEW r, NEW x
  PROVE  /\ x.kind # "put" => Plain(<<x>>, r)
         /\ x.kind = "put" /\ x.what = "count" /\ "count" \notin AllFields => Plain(<<x>>, r)
         /\ Plain(<<>>, r)
BY DEF Plain, IsField

\* What the form's answer puts into the line, for the review written and for the others.
LEMMA AnsweredIsPlain ==
  ASSUME ItemAssumption, NEW first \in BOOLEAN, NEW r \in Mine, top \in Screens, NEW o, o # r
  PROVE  Plain(Answered(first, r), o)
<1> DEFINE s == Answered(first, r)
<1>1. \A i \in DOMAIN s :
              \/ s[i] = PutTotal("count", 1)
              \/ s[i] = PutTotal("average", 1)
              \/ s[i] = Read("count", top)
              \/ \E f \in Fields : s[i] = PutField(r, f)
              \/ s[i] = Read("reviews", top)
  BY AnsweredFacts
<1> HIDE DEF s
<1>2. ASSUME NEW i \in DOMAIN s, NEW f \in AllFields PROVE ~IsField(s[i], f, o)
  <2>1. f # "count" /\ f # "average"
    BY FieldsFacts
  <2> QED BY <1>1, <2>1 DEF IsField, PutTotal, Read, PutField
<1> QED BY <1>2 DEF Plain, s

LEMMA AnsweredIsWhole ==
  ASSUME ItemAssumption, NEW n, NEW q \in Seq(RequestType), NEW first \in BOOLEAN, NEW r \in Mine,
         top \in Screens
  PROVE  LET s == Answered(first, r) IN
         /\ \A j \in DOMAIN s : s[j].kind = "reviews" \/ IsField(s[j], "imageURL", r) =>
              j = Len(s) /\ All(n, q \o s, Len(q) + j, r)
         /\ All(n, q \o s, End(q \o s), r)
<1> DEFINE s == Answered(first, r)
<1>1. /\ s \in Seq(RequestType) /\ Len(s) \in Nat /\ Len(s) >= 2 /\ DOMAIN s = 1..Len(s)
      /\ \A i \in DOMAIN s :
              \/ s[i] = PutTotal("count", 1)
              \/ s[i] = PutTotal("average", 1)
              \/ s[i] = Read("count", top)
              \/ \E f \in Fields : s[i] = PutField(r, f)
              \/ i = Len(s)
      /\ \A f \in Fields : \E i \in DOMAIN s : i < Len(s) /\ s[i] = PutField(r, f)
  BY AnsweredFacts
<1>a. s[Len(s)] = Read("reviews", top)
  BY AnsweredFacts
<1> HIDE DEF s
<1>2. \A j \in Nat \ {0} : j >= Len(s) => All(n, q \o s, Len(q) + j, r)
  <2> SUFFICES ASSUME NEW j \in Nat \ {0}, j >= Len(s), NEW f \in Fields
               PROVE  Has(n, q \o s, Len(q) + j, r, f)
    BY DEF All
  <2>1. PICK i \in DOMAIN s : i < Len(s) /\ s[i] = PutField(r, f)
    BY <1>1
  <2>2. i < j /\ IsField(s[i], f, r)
    BY <2>1, <1>1 DEF IsField, PutField
  <2>3. Has(n, q \o s, Len(q) + j, r, f)
          <=> Has(n, q, End(q), r, f) \/ \E h \in DOMAIN s : h < j /\ IsField(s[h], f, r)
    BY <1>1, HasCat
  <2> QED BY <2>2, <2>3
<1>3. \A j \in DOMAIN s : s[j].kind = "reviews" \/ IsField(s[j], "imageURL", r) => j = Len(s)
  <2>1. "imageURL" \notin Fields
    BY FieldsFacts
  <2> QED BY <1>1, <2>1 DEF IsField, PutTotal, Read, PutField
<1>4. End(q \o s) = Len(q) + (Len(s) + 1) /\ Len(q) \in Nat
  BY <1>1, CatFacts DEF End
<1>5. All(n, q \o s, End(q \o s), r)
  <2>1. Len(s) + 1 \in Nat \ {0} /\ Len(s) + 1 >= Len(s)
    BY <1>1
  <2> QED BY <2>1, <1>2, <1>4
<1>6. \A j \in DOMAIN s : s[j].kind = "reviews" \/ IsField(s[j], "imageURL", r) =>
         j = Len(s) /\ All(n, q \o s, Len(q) + j, r)
  <2>1. Len(s) \in Nat \ {0} /\ Len(s) >= Len(s)
    BY <1>1
  <2> QED BY <2>1, <1>2, <1>3
<1> QED BY <1>5, <1>6 DEF s

LEMMA WholeStep ==
  ASSUME ItemAssumption, Typed, FormInv, WholeInv, [Next]_vars
  PROVE  WholeInv'
<1>0. view \in NodeType /\ requests \in Seq(RequestType) /\ events \in Seq(EventType)
      /\ uploads \subseteq Mine /\ Mine \subseteq Reviews
  BY ReviewsFacts DEF Typed
<1>1. WholeLine(view, requests) /\ \A r \in uploads : All(view, requests, End(requests), r)
  BY DEF WholeInv
<1>2. LineMoves /\ EventsMove
  BY EveryStepMoves
<1>3. WholeLine(view, requests)' /\ \A r \in uploads' : All(view', requests', End(requests'), r)
  <2>1. CASE requests # <<>> /\ requests' = Tail(requests) /\ Served(view, requests, view') /\ uploads' = uploads
    <3>1. WholeLine(view', requests') BY <2>1, <1>0, <1>1, WholeServed
    <3>2. /\ End(Tail(requests)) \in Nat \ {0} /\ End(Tail(requests)) + 1 = End(requests)
      BY <2>1, <1>0, EndServed
    <3>3. \A k \in Nat \ {0}, r \in Reviews : All(view', Tail(requests), k, r) <=> All(view, requests, k + 1, r)
      BY <2>1, <1>0, SomeServed
    <3> QED BY <2>1, <3>1, <3>2, <3>3, <1>0, <1>1
  <2>2. CASE requests' = requests /\ view' = view /\ uploads' \subseteq uploads
    BY <2>2, <1>1
  <2>3. ASSUME NEW put \in PutType(Theirs), requests' = requests, uploads' = uploads, view' = Applied(view, put)
        PROVE  WholeLine(view, requests)' /\ \A r \in uploads' : All(view', requests', End(requests'), r)
    <3>1. \A r \in Mine : \A k : /\ Some(view', requests, k, r) <=> Some(view, requests, k, r)
                                 /\ All(view', requests, k, r) <=> All(view, requests, k, r)
      BY <2>3, <1>0, SomeRemote
    <3> QED BY <2>3, <3>1, <1>0, <1>1 DEF WholeLine
  <2>4. ASSUME NEW s \in Seq(RequestType), requests' = requests \o s, view' = view, uploads' = uploads,
               \A r \in Mine : Plain(s, r)
        PROVE  WholeLine(view, requests)' /\ \A r \in uploads' : All(view', requests', End(requests'), r)
    <3>1. WholeLine(view', requests') BY <2>4, <1>0, <1>1, WholeCat
    <3>2. End(requests') = Len(requests) + (Len(s) + 1) /\ Len(s) + 1 \in Nat \ {0}
      BY <2>4, <1>0, CatFacts DEF End
    <3>3. \A r : \A j \in Nat \ {0} : All(view, requests, End(requests), r) => All(view, requests \o s, Len(requests) + j, r)
      BY <1>0, SomeCat
    <3> QED BY <2>4, <3>1, <3>2, <3>3, <1>1
  <2>5. CASE OpenItem
    <3> DEFINE s == << Read("images", top'), Read("value", top'), Read("reviews", top') >>
    <3>1. opened' = opened + 1 /\ top' = opened' /\ opened < MaxScreens /\ requests' = requests \o s
          /\ view' = view /\ uploads' = uploads
      BY <2>5 DEF OpenItem, node
    <3>2. top' \in Screens BY <3>1, ScreensFacts
    <3>3. /\ Read("images", top') \in RequestType /\ Read("value", top') \in RequestType
          /\ Read("reviews", top') \in RequestType
      BY <3>2, PutsAreRequests DEF Kinds
    <3>4. s \in Seq(RequestType) BY <3>3
    <3>5. \A r \in Mine : Plain(s, r) BY DEF Plain, IsField, Read
    <3> HIDE DEF s
    <3> QED BY <3>1, <3>4, <3>5, <2>4
  <2>6. CASE SubmitPressed
    <3> DEFINE x == Read("item", top)
    <3>1. x \in RequestType /\ x.kind # "put"
      <4>1. top \in Screens BY <2>6, ScreensFacts DEF FormInv, SubmitPressed
      <4> QED BY <4>1, PutsAreRequests DEF Kinds, Read
    <3>2. requests' = Append(requests, x) /\ view' = view /\ uploads' = uploads
      BY <2>6 DEF SubmitPressed, node
    <3> HIDE DEF x
    <3>3. requests' = requests \o <<x>> /\ <<x>> \in Seq(RequestType)
      BY <3>1, <3>2, <1>0, AppendIsCat
    <3> QED BY <3>1, <3>2, <3>3, <2>4, PlainFacts
  <2>7. CASE CountAnswered
    <3> DEFINE x == PutTotal("count", Head(events).snap.count + 1)
    <3>1. requests' = Append(requests, x) /\ view' = view /\ uploads' = uploads /\ events # <<>>
          /\ Head(events).kind = "count"
      BY <2>7 DEF CountAnswered, Callback, node
    <3>2. Head(events).snap.count \in Nat
      BY <3>1, HeadsAreTyped, KindsOfEvents DEF NodeType
    <3>3. x \in RequestType /\ x.kind = "put" /\ x.what = "count" /\ "count" \notin AllFields
      BY <3>2, PutsAreRequests, FieldsFacts, ReviewsFacts DEF PutTotal
    <3> HIDE DEF x
    <3>4. requests' = requests \o <<x>> /\ <<x>> \in Seq(RequestType)
      BY <3>1, <3>3, <1>0, AppendIsCat
    <3> QED BY <3>1, <3>3, <3>4, <2>4, PlainFacts
  <2>8. CASE FormAnswered
    <3>1. top # 0 /\ top \in Screens
      <4>1. events # <<>> /\ Head(events).kind = "item"
        BY <2>8 DEF FormAnswered, Callback
      <4>2. 1 \in DOMAIN events /\ events[1].kind = "item"
        BY <4>1, <1>0, TailFacts
      <4> QED BY <4>2, ScreensFacts DEF FormInv
    <3>2. PICK r \in Unwritten, first \in BOOLEAN :
             requests' = requests \o Answered(first, r) /\ uploads' = uploads \cup {r}
      BY <2>8, <3>1, FormAnsweredFacts
    <3>3. r \in Mine /\ view' = view
      BY <2>8 DEF Unwritten, FormAnswered, Callback, node
    <3> DEFINE s == Answered(first, r)
    <3>4. s \in Seq(RequestType) BY <3>1, <3>3, AnsweredFacts
    <3>5. /\ \A j \in DOMAIN s : s[j].kind = "reviews" \/ IsField(s[j], "imageURL", r) =>
              All(view, requests \o s, Len(requests) + j, r)
          /\ All(view, requests \o s, End(requests \o s), r)
      BY <3>1, <3>3, <1>0, AnsweredIsWhole
    <3>6. \A o \in Mine : o # r => Plain(s, o) BY <3>1, <3>3, AnsweredIsPlain
    <3> HIDE DEF s
    <3>7. WholeLine(view, requests \o s) BY <3>4, <3>5, <3>6, <1>0, <1>1, WholeCat
    <3>8. End(requests \o s) = Len(requests) + (Len(s) + 1) /\ Len(s) + 1 \in Nat \ {0}
      BY <3>4, <1>0, CatFacts DEF End
    <3>9. \A o : All(view, requests, End(requests), o) => All(view, requests \o s, End(requests \o s), o)
      <4>1. \A o : \A j \in Nat \ {0} : All(view, requests, End(requests), o) => All(view, requests \o s, Len(requests) + j, o)
        BY <3>4, <1>0, SomeCat
      <4> QED BY <3>8, <4>1
    <3>10. requests' = requests \o s BY <3>2 DEF s
    <3> QED BY <3>2, <3>3, <3>5, <3>7, <3>9, <3>10, <1>1
  <2>9. ASSUME NEW r \in uploads, requests' = Append(requests, PutField(r, "imageURL")), view' = view,
               uploads' = uploads \ {r}
        PROVE  WholeLine(view, requests)' /\ \A o \in uploads' : All(view', requests', End(requests'), o)
    <3> DEFINE x == PutField(r, "imageURL")
               s == <<x>>
    <3>1. x \in RequestType /\ r \in Mine
      <4>1. r \in Mine /\ Mine \in SUBSET Reviews /\ "imageURL" \in AllFields
        BY <1>0 DEF AllFields
      <4> QED BY <4>1, PutsAreRequests
    <3>2. \A f, o : IsField(x, f, o) => o = r BY DEF IsField, PutField
    <3> HIDE DEF x
    <3>3. requests' = requests \o s /\ s \in Seq(RequestType) /\ Len(s) = 1 /\ DOMAIN s = 1 .. 1 /\ s[1] = x
      BY <3>1, <2>9, <1>0, AppendIsCat DEF x
    <3> HIDE DEF s
    <3>4. \A o \in Mine : o # r => Plain(s, o) BY <3>2, <3>3 DEF Plain
    <3>5. End(requests \o s) = Len(requests) + 2 /\ Len(requests) \in Nat
      <4>1. Len(requests \o s) = Len(requests) + Len(s) /\ Len(requests) \in Nat
        BY <3>3, <1>0, CatFacts
      <4> QED BY <4>1, <3>3 DEF End
    <3>6. \A o : \A j \in Nat \ {0} : All(view, requests, End(requests), o) => All(view, requests \o s, Len(requests) + j, o)
      BY <3>3, <1>0, SomeCat
    <3>7. \A o \in uploads : All(view, requests \o s, Len(requests) + 1, o) /\ All(view, requests \o s, End(requests \o s), o)
      BY <3>5, <3>6, <1>1
    <3>8. \A j \in DOMAIN s : All(view, requests \o s, Len(requests) + j, r)
      BY <3>3, <3>7
    <3>9. WholeLine(view, requests \o s)
      BY <3>3, <3>4, <3>7, <3>8, <1>0, <1>1, WholeCat
    <3> QED BY <3>3, <3>7, <3>9, <2>9
  <2> QED BY <1>2, <2>1, <2>2, <2>3, <2>5, <2>6, <2>7, <2>8, <2>9 DEF LineMoves
<1>4. events' \in Seq(WholeEvents)
  <2>1. events \in Seq(WholeEvents)
    <3>1. \A i \in DOMAIN events : events[i] \in WholeEvents
      BY <1>0, SeqOut DEF WholeInv, WholeEvents
    <3> QED BY <3>1, <1>0, SeqIn
  <2>2. CASE events' = events
    BY <2>1, <2>2
  <2>3. CASE events # <<>> /\ events' = Tail(events)
    BY <2>1, <2>3, TailFacts
  <2>4. ASSUME NEW x \in AppendType, events' = Append(events, x) PROVE events' \in Seq(WholeEvents)
    <3>1. x \in WholeEvents BY DEF AppendType, EventType, WholeEvents
    <3> QED BY <2>1, <2>4, <3>1, AppendFacts
  <2>5. CASE /\ requests # <<>> /\ events' = Append(events, Answer(Head(requests)))
             /\ Answer(Head(requests)) \in SnapType
    <3> DEFINE x == Answer(Head(requests))
    <3>1. x \in EventType /\ x.kind = Head(requests).kind /\ x.snap = view
      BY <2>5 DEF EventType, Answer
    <3>2. 1 \in DOMAIN requests /\ Head(requests) = requests[1]
      BY <2>5, <1>0, TailFacts
    <3>3. ASSUME x.kind = "reviews", NEW r \in Mine, view.fields[r] # {}
          PROVE  Fields \subseteq view.fields[r]
      <4>1. Some(view, requests, 1, r) => All(view, requests, 1, r)
        BY <3>1, <3>2, <3>3, <1>1 DEF WholeLine
      <4>2. r \in Reviews BY <1>0
      <4> QED BY <4>1, <4>2, <3>3, <1>0, NowFacts
    <3>4. x \in WholeEvents BY <3>1, <3>3 DEF WholeEvents
    <3> HIDE DEF x
    <3> QED BY <2>1, <2>5, <3>4, AppendFacts DEF x
  <2>6. CASE view' \in NodeType /\ events' = events \o Heard(view')
    <3> DEFINE h == Heard(view')
    <3>1. h \in Seq(EventType) /\ DOMAIN h = 1..listening
          /\ \A k \in 1..listening : h[k] = [kind |-> "value", of |-> k, snap |-> view']
      BY <2>6, HeardFacts
    <3> HIDE DEF h
    <3>2. \A k \in DOMAIN h : h[k] \in WholeEvents
      <4>1. \A k \in DOMAIN h : h[k] \in EventType BY <3>1, SeqOut
      <4> QED BY <3>1, <4>1 DEF WholeEvents
    <3>3. h \in Seq(WholeEvents) BY <3>1, <3>2, SeqIn
    <3> QED BY <2>1, <2>6, <3>3, CatFacts DEF h
  <2> QED BY <1>2, <2>2, <2>3, <2>4, <2>5, <2>6 DEF EventsMove
<1>5. \A i \in DOMAIN events' : events'[i] \in WholeEvents
  BY <1>4, SeqOut
<1> QED BY <1>3, <1>5 DEF WholeInv, WholeEvents

\* A reload never reads a review of this user half written.
LEMMA OwnReviewsAreWholeStep ==
  ASSUME ItemAssumption, Typed, WholeInv, OwnReviewsAreWhole, [Next]_vars
  PROVE  OwnReviewsAreWhole'
<1>1. CASE trap' = trap
  BY <1>1 DEF OwnReviewsAreWhole
<1>2. CASE trap'.why # "field"
  BY <1>2 DEF OwnReviewsAreWhole
<1>3. CASE ReviewsAnswered /\ trap' # trap
  <2>1. events # <<>> /\ Head(events).kind = "reviews"
    BY <1>3 DEF ReviewsAnswered, Callback
  <2>2. 1 \in DOMAIN events /\ events[1] = Head(events)
    BY <2>1, TailFacts DEF Typed
  <2>3. PICK r \in Reviews : /\ Head(events).snap.fields[r] # {}
                             /\ ~(Fields \subseteq Head(events).snap.fields[r])
                             /\ Trap("field", r)
    BY <1>3 DEF ReviewsAnswered
  <2>4. r \notin Mine
    BY <2>1, <2>2, <2>3 DEF WholeInv
  <2>5. r \in Theirs
    BY <2>4, ReviewsFacts
  <2> QED BY <2>3, <2>5 DEF OwnReviewsAreWhole, Trap
<1> QED
  <2>1. CASE OpenItem \/ Back \/ RateItem \/ SubmitPressed \/ RowDisplayed \/ FormAnswered
             \/ CountAnswered \/ ListenerFired \/ ImagesAnswered \/ ImageAppended \/ ServeRead
             \/ IssueWrite \/ RemoteArrives \/ UNCHANGED vars
    <3>1. ASSUME OpenItem \/ Back \/ RateItem \/ SubmitPressed \/ RowDisplayed \/ UNCHANGED vars
          PROVE  trap' = trap \/ trap'.why # "field"
      BY <3>1 DEF OpenItem, Back, RateItem, SubmitPressed, RowDisplayed, vars, Trap
    <3>2. ASSUME FormAnswered \/ CountAnswered \/ ListenerFired
          PROVE  trap' = trap \/ trap'.why # "field"
      BY <3>2 DEF FormAnswered, CountAnswered, ListenerFired, Trap
    <3>3. ASSUME ImagesAnswered \/ ImageAppended \/ ServeRead \/ IssueWrite \/ RemoteArrives
          PROVE  trap' = trap \/ trap'.why # "field"
      BY <3>3 DEF ImagesAnswered, ImageAppended, ServeRead, IssueWrite, RemoteArrives, Trap
    <3> QED BY <1>1, <1>2, <2>1, <3>1, <3>2, <3>3
  <2>2. ASSUME NEW t \in Screens \X Reviews, NEW ok \in BOOLEAN, DownloadFinished(t, ok)
        PROVE  OwnReviewsAreWhole'
    BY <1>1, <1>2, <2>2 DEF DownloadFinished, Trap
  <2>3. ASSUME NEW r \in Mine, NEW ok \in BOOLEAN, UploadFinished(r, ok) PROVE OwnReviewsAreWhole'
    BY <1>1, <2>3 DEF UploadFinished
  <2>4. ASSUME NEW r \in Theirs, RemoteSubmits(r) PROVE OwnReviewsAreWhole'
    BY <1>1, <2>4 DEF RemoteSubmits
  <2> QED BY <1>1, <1>3, <2>1, <2>2, <2>3, <2>4 DEF Next

------------------------
(* The form's question. *)

FormLine(q, e) ==
  /\ \A i \in DOMAIN q : q[i].kind = "item" =>
       /\ form = "asking" /\ q[i].of = top
       /\ \A j \in DOMAIN q : j > i => Quieter(q[j])
       /\ \A j \in DOMAIN e : e[j].kind # "item"
  /\ \A i \in DOMAIN e : e[i].kind = "item" =>
       /\ form = "asking" /\ e[i].of = top
       /\ \A j \in DOMAIN q : Quieter(q[j])
       /\ \A j \in DOMAIN e : j > i => e[j].kind \notin {"item", "images"}

NoItem(q) == \A i \in DOMAIN q : q[i].kind # "item"

LEMMA FormLineTails ==
  ASSUME NEW S, NEW T, NEW q \in Seq(S), NEW e \in Seq(T), FormLine(q, e)
  PROVE  /\ q # <<>> => FormLine(Tail(q), e)
         /\ e # <<>> => FormLine(q, Tail(e))
<1>1. ASSUME q # <<>> PROVE FormLine(Tail(q), e)
  <2>1. /\ \A i \in DOMAIN Tail(q) : i \in Nat /\ i + 1 \in DOMAIN q /\ Tail(q)[i] = q[i + 1]
    BY <1>1, TailFacts
  <2> DEFINE t == Tail(q)
  <2> HIDE DEF t
  <2>2. \A i, j \in DOMAIN t : j > i => j + 1 > i + 1
    BY <2>1 DEF t
  <2>3. \A i \in DOMAIN t : i + 1 \in DOMAIN q /\ t[i] = q[i + 1]
    BY <2>1 DEF t
  <2> QED BY <2>2, <2>3 DEF FormLine, t
<1>2. ASSUME e # <<>> PROVE FormLine(q, Tail(e))
  <2>1. /\ \A i \in DOMAIN Tail(e) : i \in Nat /\ i + 1 \in DOMAIN e /\ Tail(e)[i] = e[i + 1]
    BY <1>2, TailFacts
  <2> DEFINE t == Tail(e)
  <2> HIDE DEF t
  <2>2. \A i, j \in DOMAIN t : j > i => j + 1 > i + 1
    BY <2>1 DEF t
  <2>3. \A i \in DOMAIN t : i + 1 \in DOMAIN e /\ t[i] = e[i + 1]
    BY <2>1 DEF t
  <2> QED BY <2>2, <2>3 DEF FormLine, t
<1> QED BY <1>1, <1>2

LEMMA FormLineCats ==
  ASSUME NEW S, NEW T, NEW q \in Seq(S), NEW e \in Seq(T), FormLine(q, e)
  PROVE  /\ \A s \in Seq(S) : (\A i \in DOMAIN s : Quieter(s[i])) => FormLine(q \o s, e)
         /\ \A s \in Seq(T) : (\A i \in DOMAIN s : s[i].kind \notin {"item", "images"}) => FormLine(q, e \o s)
<1>1. ASSUME NEW s \in Seq(S), \A i \in DOMAIN s : Quieter(s[i]) PROVE FormLine(q \o s, e)
  <2> DEFINE t == q \o s
  <2>1. \A i \in DOMAIN t : \/ i \in DOMAIN q /\ t[i] = q[i]
                            \/ Quieter(t[i])
    <3>1. /\ \A i \in DOMAIN q : t[i] = q[i]
          /\ \A i \in DOMAIN t : i \notin DOMAIN q => i - Len(q) \in DOMAIN s /\ t[i] = s[i - Len(q)]
      BY CatFacts
    <3> HIDE DEF t
    <3> QED BY <1>1, <3>1
  <2> HIDE DEF t
  <2>2. \A x : Quieter(x) => x.kind # "item"
    BY DEF Quieter
  <2>3. \A i \in DOMAIN t : t[i].kind = "item" => i \in DOMAIN q /\ q[i].kind = "item" /\ t[i] = q[i]
    BY <2>1, <2>2
  <2> HIDE DEF Quieter
  <2> QED BY <2>1, <2>3 DEF FormLine, t
<1>2. ASSUME NEW s \in Seq(T), \A i \in DOMAIN s : s[i].kind \notin {"item", "images"} PROVE FormLine(q, e \o s)
  <2> DEFINE t == e \o s
  <2>1. \A i \in DOMAIN t : \/ i \in DOMAIN e /\ t[i] = e[i]
                            \/ t[i].kind \notin {"item", "images"}
    <3>1. /\ \A i \in DOMAIN e : t[i] = e[i]
          /\ \A i \in DOMAIN t : i \notin DOMAIN e => i - Len(e) \in DOMAIN s /\ t[i] = s[i - Len(e)]
      BY CatFacts
    <3> HIDE DEF t
    <3> QED BY <1>2, <3>1
  <2> HIDE DEF t
  <2> QED BY <2>1 DEF FormLine, t
<1> QED BY <1>1, <1>2

\* The head of the line is answered.
LEMMA FormLineAnswered ==
  ASSUME NEW S, NEW T, NEW q \in Seq(S), NEW e \in Seq(T), FormLine(q, e), q # <<>>, NEW x \in T,
         x.kind = Head(q).kind, x.of = Head(q).of
  PROVE  FormLine(Tail(q), Append(e, x))
<1> DEFINE t == Tail(q)
           u == Append(e, x)
<1>1. /\ \A i \in DOMAIN t : i \in Nat /\ i + 1 \in DOMAIN q /\ t[i] = q[i + 1] /\ i + 1 > 1
      /\ 1 \in DOMAIN q /\ Head(q) = q[1]
  BY TailFacts
<1>2. /\ \A i \in DOMAIN e : i \in Nat /\ i < Len(e) + 1 /\ u[i] = e[i]
      /\ u[Len(e) + 1] = x /\ Len(e) \in Nat
      /\ \A i \in DOMAIN u : i \in DOMAIN e \/ i = Len(e) + 1
  BY AppendFacts
<1> HIDE DEF t, u
<1>3. FormLine(t, e)
  BY FormLineTails DEF t
<1>4. CASE Head(q).kind = "item"
  <2>1. /\ form = "asking" /\ x.of = top /\ \A j \in DOMAIN t : Quieter(t[j])
        /\ \A j \in DOMAIN e : e[j].kind # "item"
    BY <1>1, <1>4 DEF FormLine
  <2>2. \A j \in DOMAIN t : t[j].kind # "item"
    BY <2>1 DEF Quieter
  <2>3. \A i \in DOMAIN u : u[i].kind = "item" => i = Len(e) + 1
    BY <1>2, <2>1
  <2>4. \A j \in DOMAIN u : ~(j > Len(e) + 1)
    BY <1>2
  <2> QED BY <2>1, <2>2, <2>3, <2>4, <1>2 DEF FormLine, t, u
<1>5. CASE Head(q).kind # "item"
  <2>1. ASSUME NEW i \in DOMAIN e, e[i].kind = "item" PROVE x.kind \notin {"item", "images"}
    <3>1. Quieter(q[1]) BY <1>1, <2>1 DEF FormLine
    <3> QED BY <3>1, <1>1 DEF Quieter
  <2>2. \A i \in DOMAIN u : \/ i \in DOMAIN e /\ u[i] = e[i]
                            \/ i = Len(e) + 1 /\ u[i] = x /\ x.kind # "item"
    BY <1>2, <1>5
  <2>3. ASSUME NEW i \in DOMAIN t, t[i].kind = "item"
        PROVE  /\ form = "asking" /\ t[i].of = top
               /\ \A j \in DOMAIN t : j > i => Quieter(t[j])
               /\ \A j \in DOMAIN u : u[j].kind # "item"
    BY <2>2, <2>3, <1>3 DEF FormLine
  <2>4. ASSUME NEW i \in DOMAIN u, u[i].kind = "item"
        PROVE  /\ form = "asking" /\ u[i].of = top
               /\ \A j \in DOMAIN t : Quieter(t[j])
               /\ \A j \in DOMAIN u : j > i => u[j].kind \notin {"item", "images"}
    <3>1. i \in DOMAIN e /\ u[i] = e[i] /\ e[i].kind = "item"
      BY <2>2, <2>4
    <3>2. x.kind \notin {"item", "images"} BY <2>1, <3>1
    <3> QED BY <2>2, <3>1, <3>2, <1>3 DEF FormLine
  <2> QED BY <2>3, <2>4 DEF FormLine, t, u
<1> QED BY <1>4, <1>5

LEMMA FormStep ==
  ASSUME ItemAssumption, Typed, FormInv, [Next]_vars
  PROVE  FormInv'
<1>0. requests \in Seq(RequestType) /\ events \in Seq(EventType) /\ FormLine(requests, events)
      /\ (form # "none" => top # 0)
  BY DEF Typed, FormInv, FormLine
<1>1. form # "asking" => NoItem(requests) /\ NoItem(events)
  BY <1>0 DEF FormLine, NoItem
<1>2. NoItem(requests') /\ NoItem(events') => FormLine(requests, events)'
  BY DEF FormLine, NoItem
<1>3. SUFFICES FormLine(requests, events)' /\ (form' # "none" => top' # 0)
  BY DEF FormInv, FormLine
<1>4. EventsMove
  BY EveryStepMoves
<1>5. ASSUME UNCHANGED <<form, top>> PROVE \A q, e : FormLine(q, e)' <=> FormLine(q, e)
  BY <1>5 DEF FormLine
<1>6. CASE OpenItem \/ SubmitPressed
  <2>1. /\ form # "asking" /\ events' = events
        /\ form' # "none" => top' # 0
    BY <1>6, <1>0, ScreensFacts DEF OpenItem, SubmitPressed
  <2>2. CASE OpenItem
    <3> DEFINE s == << Read("images", top'), Read("value", top'), Read("reviews", top') >>
    <3>1. NoItem(requests')
      <4>1. \A i \in DOMAIN s : s[i].kind # "item" BY DEF Read
      <4>2. \A i \in DOMAIN (requests \o s) : \/ i \in DOMAIN requests /\ (requests \o s)[i] = requests[i]
                                              \/ \E j \in DOMAIN s : (requests \o s)[i] = s[j]
        <5>1. s \in Seq({Read("images", top'), Read("value", top'), Read("reviews", top')} \cup RequestType)
          OBVIOUS
        <5>2. requests \in Seq({Read("images", top'), Read("value", top'), Read("reviews", top')} \cup RequestType)
          BY <1>0
        <5> HIDE DEF s
        <5> QED BY <5>1, <5>2, CatFacts
      <4>3. requests' = requests \o s BY <2>2 DEF OpenItem
      <4> HIDE DEF s
      <4> QED BY <4>1, <4>2, <4>3, <2>1, <1>1 DEF NoItem
    <3> QED BY <2>1, <3>1, <1>1, <1>2
  <2>3. CASE SubmitPressed
    <3>1. /\ form' = "asking" /\ top' = top /\ requests' = Append(requests, Read("item", top)) /\ events' = events
      BY <2>3 DEF SubmitPressed
    <3>2. /\ \A i \in DOMAIN requests : requests'[i] = requests[i]
          /\ Len(requests) \in Nat /\ requests'[Len(requests) + 1] = Read("item", top)
          /\ \A i \in DOMAIN requests' : i \in DOMAIN requests \/ i = Len(requests) + 1
      <4>1. top \in Screens BY <2>3, <1>0, ScreensFacts DEF SubmitPressed
      <4>2. Read("item", top) \in RequestType BY <4>1, PutsAreRequests DEF Kinds
      <4>3. Append(requests, Read("item", top)) = requests' BY <3>1
      <4> QED BY <4>2, <4>3, <1>0, AppendFacts
    <3>3. \A i \in DOMAIN requests' : requests'[i].kind = "item" => i = Len(requests) + 1
      BY <3>2, <2>1, <1>1 DEF NoItem
    <3>4. \A j \in DOMAIN requests' : ~(j > Len(requests) + 1)
      <4>1. \A j \in DOMAIN requests : ~(j > Len(requests) + 1) BY <1>0
      <4> QED BY <3>2, <4>1
    <3>5. NoItem(events') BY <2>1, <1>1
    <3>6. Read("item", top).of = top BY DEF Read
    <3> QED BY <2>1, <3>1, <3>2, <3>3, <3>4, <3>5, <3>6 DEF FormLine, NoItem
  <2> QED BY <1>6, <2>2, <2>3
<1>7. CASE Back \/ RateItem
  <2>1. form # "asking" /\ UNCHANGED <<requests, events>> /\ (form' # "none" => top' # 0)
    BY <1>7 DEF Back, RateItem, queues
  <2> QED BY <2>1, <1>1, <1>2
<1>8. CASE FormAnswered
  <2>1. events # <<>> /\ Head(events).kind = "item" /\ events' = Tail(events) /\ form' = "none"
    BY <1>8 DEF FormAnswered, Callback, Unwind
  <2>2. 1 \in DOMAIN events /\ events[1].kind = "item"
        /\ \A i \in DOMAIN Tail(events) : i + 1 \in DOMAIN events /\ i + 1 > 1 /\ Tail(events)[i] = events[i + 1]
    BY <2>1, <1>0, TailFacts
  <2>3. /\ top # 0 /\ \A j \in DOMAIN requests : Quieter(requests[j])
        /\ \A j \in DOMAIN events : j > 1 => events[j].kind # "item"
    BY <2>2, <1>0 DEF FormLine
  <2>4. NoItem(requests) /\ NoItem(events')
    BY <2>1, <2>2, <2>3 DEF NoItem, Quieter
  <2>5. top \in Screens
    BY <2>3, ScreensFacts
  <2>6. PICK r \in Unwritten, first \in BOOLEAN : requests' = requests \o Answered(first, r)
    BY <1>8, <2>3, FormAnsweredFacts
  <2> DEFINE s == Answered(first, r)
  <2>7. s \in Seq(RequestType) /\ \A i \in DOMAIN s : s[i].kind # "item"
    <3>1. r \in Mine BY DEF Unwritten
    <3>2. s \in Seq(RequestType)
          /\ \A i \in DOMAIN s :
              \/ s[i] = PutTotal("count", 1)
              \/ s[i] = PutTotal("average", 1)
              \/ s[i] = Read("count", top)
              \/ \E f \in Fields : s[i] = PutField(r, f)
              \/ s[i] = Read("reviews", top)
      BY <2>5, <3>1, AnsweredFacts
    <3> HIDE DEF s
    <3> QED BY <3>2 DEF PutTotal, Read, PutField
  <2> HIDE DEF s
  <2>8. requests' = requests \o s
    BY <2>6 DEF s
  <2>9. \A i \in DOMAIN requests' : \/ i \in DOMAIN requests /\ requests'[i] = requests[i]
                                    \/ i - Len(requests) \in DOMAIN s /\ requests'[i] = s[i - Len(requests)]
    <3>1. /\ \A i \in DOMAIN requests : (requests \o s)[i] = requests[i]
          /\ \A i \in DOMAIN (requests \o s) : i \notin DOMAIN requests =>
              i - Len(requests) \in DOMAIN s /\ (requests \o s)[i] = s[i - Len(requests)]
      BY <2>7, <1>0, CatFacts
    <3> QED BY <3>1, <2>8
  <2>10. NoItem(requests')
    BY <2>4, <2>7, <2>9 DEF NoItem
  <2> QED BY <2>1, <2>4, <2>10, <1>2
<1>9. CASE CountAnswered
  <2>1. UNCHANGED <<form, top>> /\ events # <<>> /\ events' = Tail(events)
        /\ Head(events).kind = "count"
        /\ requests' = Append(requests, PutTotal("count", Head(events).snap.count + 1))
    BY <1>9 DEF CountAnswered, Callback
  <2>2. Head(events).snap.count \in Nat
    BY <2>1, HeadsAreTyped, KindsOfEvents DEF NodeType
  <2> DEFINE x == PutTotal("count", Head(events).snap.count + 1)
  <2>3. x \in RequestType /\ Quieter(x)
    <3>1. x \in RequestType BY <2>2, PutsAreRequests, ReviewsFacts
    <3>2. "count" \notin Fields BY FieldsFacts
    <3> QED BY <3>1, <3>2 DEF PutTotal, Quieter
  <2> HIDE DEF x
  <2>4. requests' = requests \o <<x>> /\ <<x>> \in Seq(RequestType) /\ \A i \in DOMAIN <<x>> : Quieter(<<x>>[i])
    <3>1. requests' = requests \o <<x>> /\ <<x>> \in Seq(RequestType)
      BY <2>1, <2>3, <1>0, AppendIsCat DEF x
    <3>2. \A i \in DOMAIN <<x>> : <<x>>[i] = x OBVIOUS
    <3> QED BY <3>1, <3>2, <2>3
  <2>5. FormLine(requests, events')
    BY <2>1, <1>0, FormLineTails
  <2>6. events' \in Seq(EventType)
    BY <2>1, HeadsAreTyped
  <2>7. FormLine(requests', events')
    BY <2>4, <2>5, <2>6, <1>0, FormLineCats
  <2> QED BY <2>1, <2>7, <1>0, <1>5
<1>10. CASE ListenerFired \/ ReviewsAnswered \/ ImagesAnswered \/ ImageAppended
  <2>1. UNCHANGED <<form, top, requests>> /\ events # <<>> /\ events' = Tail(events)
    BY <1>10 DEF ListenerFired, ReviewsAnswered, ImagesAnswered, ImageAppended, Callback
  <2>2. FormLine(requests, events')
    BY <2>1, <1>0, FormLineTails
  <2> QED BY <2>1, <2>2, <1>0, <1>5
<1>11. ASSUME NEW t \in Screens \X Reviews, NEW ok \in BOOLEAN, DownloadFinished(t, ok)
       PROVE  FormLine(requests, events)' /\ (form' # "none" => top' # 0)
  <2> DEFINE x == [kind |-> "append", of |-> t[1], snap |-> t[2]]
  <2>1. UNCHANGED <<form, top, requests>> /\ (events' = events \/ events' = Append(events, x))
    BY <1>11 DEF DownloadFinished, stack
  <2>2. x \in EventType /\ x.kind \notin {"item", "images"}
    BY DEF EventType, AppendType
  <2> HIDE DEF x
  <2>3. Append(events, x) = events \o <<x>> /\ <<x>> \in Seq(EventType) /\ \A i \in DOMAIN <<x>> : <<x>>[i] = x
    BY <2>2, <1>0, AppendIsCat
  <2>4. FormLine(requests, events \o <<x>>)
    BY <2>2, <2>3, <1>0, FormLineCats
  <2> QED BY <2>1, <2>3, <2>4, <1>0, <1>5
<1>12. ASSUME NEW r \in Mine, NEW ok \in BOOLEAN, UploadFinished(r, ok)
       PROVE  FormLine(requests, events)' /\ (form' # "none" => top' # 0)
  <2> DEFINE x == PutField(r, "imageURL")
  <2>1. UNCHANGED <<form, top, events>> /\ (requests' = requests \/ requests' = Append(requests, x))
    BY <1>12 DEF UploadFinished, stack
  <2>2. x \in RequestType /\ Quieter(x)
    <3>1. x \in RequestType BY PutsAreRequests, ReviewsFacts DEF AllFields
    <3>2. "imageURL" \notin Fields BY FieldsFacts
    <3> QED BY <3>1, <3>2 DEF PutField, Quieter
  <2> HIDE DEF x
  <2>3. Append(requests, x) = requests \o <<x>> /\ <<x>> \in Seq(RequestType) /\ \A i \in DOMAIN <<x>> : <<x>>[i] = x
    BY <2>2, <1>0, AppendIsCat
  <2>4. FormLine(requests \o <<x>>, events)
    BY <2>2, <2>3, <1>0, FormLineCats
  <2> QED BY <2>1, <2>3, <2>4, <1>0, <1>5
<1>13. CASE ServeRead
  <2> DEFINE x == Answer(Head(requests))
  <2>1. /\ requests # <<>> /\ requests' = Tail(requests) /\ x \in EventType /\ events' = Append(events, x)
        /\ x.kind = Head(requests).kind /\ x.of = Head(requests).of
    BY <1>13, ServeReadFacts
  <2>2. UNCHANGED <<form, top>>
    BY <1>13 DEF ServeRead, stack
  <2> HIDE DEF x
  <2>3. FormLine(Tail(requests), Append(events, x))
    BY <2>1, <1>0, FormLineAnswered
  <2> QED BY <2>1, <2>2, <2>3, <1>0, <1>5
<1>14. ASSUME NEW q \in Seq(RequestType), FormLine(q, events), requests' = q, UNCHANGED <<form, top>>,
              view' \in NodeType, events' = events \/ events' = events \o Heard(view')
       PROVE  FormLine(requests, events)' /\ (form' # "none" => top' # 0)
  <2> DEFINE h == Heard(view')
  <2>1. h \in Seq(EventType) /\ \A i \in DOMAIN h : h[i].kind \notin {"item", "images"}
    <3>1. /\ h \in Seq(EventType) /\ DOMAIN h = 1..listening
          /\ \A k \in 1..listening : h[k] = [kind |-> "value", of |-> k, snap |-> view']
      BY <1>14, HeardFacts
    <3> HIDE DEF h
    <3> QED BY <3>1
  <2> HIDE DEF h
  <2>2. FormLine(q, events \o h)
    BY <2>1, <1>0, <1>14, FormLineCats
  <2> QED BY <2>2, <1>0, <1>5, <1>14 DEF h
<1>15. CASE IssueWrite
  <2>1. requests # <<>> /\ requests' = Tail(requests) /\ view' \in NodeType
        /\ (events' = events \/ events' = events \o Heard(view'))
    BY <1>15, IssueWriteFacts
  <2>2. UNCHANGED <<form, top>>
    BY <1>15 DEF IssueWrite, stack
  <2>3. Tail(requests) \in Seq(RequestType) /\ FormLine(Tail(requests), events)
    BY <2>1, <1>0, HeadsAreTyped, FormLineTails
  <2> QED BY <2>1, <2>2, <2>3, <1>14
<1>16. CASE RemoteArrives
  <2>1. view' \in NodeType /\ (events' = events \/ events' = events \o Heard(view'))
    BY <1>16, RemoteArrivesFacts
  <2>2. UNCHANGED <<form, top, requests>>
    BY <1>16 DEF RemoteArrives, stack
  <2> QED BY <2>1, <2>2, <1>0, <1>14
<1>17. CASE RowDisplayed \/ (\E r \in Theirs : RemoteSubmits(r)) \/ UNCHANGED vars
  <2>1. UNCHANGED <<form, top, requests, events>>
    BY <1>17 DEF RowDisplayed, RemoteSubmits, vars, queues, stack
  <2> QED BY <2>1, <1>0, <1>5
<1> QED BY <1>6, <1>7, <1>8, <1>9, <1>10, <1>11, <1>12, <1>13, <1>15, <1>16, <1>17 DEF Next

------------------------
(* The listeners are registered in the order of the screens. *)

ListenLine(q, l) ==
  /\ \A i \in DOMAIN q : q[i].kind = "value" =>
       /\ l < q[i].of /\ q[i].of <= opened
       /\ \A j \in DOMAIN q : i < j /\ q[j].kind = "value" => q[i].of < q[j].of
  /\ \A k \in l + 1 .. opened : \E i \in DOMAIN q : q[i].kind = "value" /\ q[i].of = k

Heeded(l) == {e \in EventType : e.kind = "value" => e.of <= l}

LEMMA ListenLineTail ==
  ASSUME NEW S, NEW q \in Seq(S), q # <<>>, NEW l \in Nat, ListenLine(q, l), opened \in Nat,
         Head(q).kind = "value" => Head(q).of \in Nat
  PROVE  IF Head(q).kind = "value" THEN ListenLine(Tail(q), Head(q).of) /\ l < Head(q).of
         ELSE ListenLine(Tail(q), l)
<1> DEFINE t == Tail(q)
<1>1. /\ \A i \in DOMAIN t : i \in Nat /\ i + 1 \in DOMAIN q /\ t[i] = q[i + 1] /\ i + 1 > 1
      /\ \A i \in DOMAIN q : i # 1 => i - 1 \in DOMAIN t /\ q[i] = t[i - 1]
      /\ 1 \in DOMAIN q /\ Head(q) = q[1]
  BY TailFacts
<1> HIDE DEF t
<1>2. \A i, j \in DOMAIN t : i < j => i + 1 < j + 1
  BY <1>1
<1>3. ASSUME NEW i \in DOMAIN t, t[i].kind = "value"
      PROVE  /\ l < t[i].of /\ t[i].of <= opened
             /\ \A j \in DOMAIN t : i < j /\ t[j].kind = "value" => t[i].of < t[j].of
             /\ Head(q).kind = "value" => Head(q).of < t[i].of
  BY <1>1, <1>2, <1>3 DEF ListenLine
<1>4. ASSUME NEW k \in l + 1..opened, Head(q).kind = "value" => Head(q).of # k
      PROVE  \E i \in DOMAIN t : t[i].kind = "value" /\ t[i].of = k
  <2>1. PICK i \in DOMAIN q : q[i].kind = "value" /\ q[i].of = k
    BY DEF ListenLine
  <2>2. i # 1
    BY <1>1, <1>4, <2>1
  <2> QED BY <2>1, <2>2, <1>1
<1>5. CASE Head(q).kind = "value"
  <2>1. l < Head(q).of /\ Head(q).of \in Nat
    BY <1>1, <1>5 DEF ListenLine
  <2>2. \A k \in Head(q).of + 1 .. opened : k \in l + 1 .. opened /\ Head(q).of # k
    BY <2>1
  <2> QED BY <2>1, <2>2, <1>3, <1>4, <1>5 DEF ListenLine, t
<1>6. CASE Head(q).kind # "value"
  <2> QED BY <1>3, <1>4, <1>6 DEF ListenLine, t
<1> QED BY <1>5, <1>6

LEMMA ListenLineCat ==
  ASSUME NEW S, NEW q \in Seq(S), NEW s \in Seq(S), NEW l, ListenLine(q, l),
         \A i \in DOMAIN s : s[i].kind # "value"
  PROVE  ListenLine(q \o s, l)
<1> DEFINE t == q \o s
<1>1. /\ \A i \in DOMAIN q : i \in DOMAIN t /\ t[i] = q[i]
      /\ \A i \in DOMAIN t : i \notin DOMAIN q => i - Len(q) \in DOMAIN s /\ t[i] = s[i - Len(q)]
  BY CatFacts
<1> HIDE DEF t
<1>2. \A i \in DOMAIN t : t[i].kind = "value" => i \in DOMAIN q /\ t[i] = q[i] /\ q[i].kind = "value"
  BY <1>1
<1>3. \A i \in DOMAIN q : q[i].kind = "value" => i \in DOMAIN t /\ t[i] = q[i]
  BY <1>1
<1> QED BY <1>2, <1>3 DEF ListenLine, t

LEMMA ListenStep ==
  ASSUME ItemAssumption, Typed, FormInv, ListenInv, [Next]_vars
  PROVE  ListenInv'
<1>0. requests \in Seq(RequestType) /\ events \in Seq(EventType) /\ ListenLine(requests, listening)
      /\ listening \in Nat /\ opened \in Nat
  BY ScreensFacts DEF Typed, ListenInv, ListenLine
<1>1. \A q, l : opened' = opened => (ListenLine(q, l)' <=> ListenLine(q, l))
  BY DEF ListenLine
<1>2. ListenLine(requests, listening)'
  <2>1. CASE OpenItem
    <3> DEFINE a == Read("images", top')
               b == Read("value", top')
               c == Read("reviews", top')
               s == << a, b, c >>
    <3>1. opened' = opened + 1 /\ top' = opened' /\ requests' = requests \o s /\ opened < MaxScreens
          /\ listening' = listening /\ listening <= opened
      BY <2>1 DEF OpenItem, Typed
    <3>2. top' \in Screens BY <3>1, ScreensFacts
    <3>3. a \in RequestType /\ b \in RequestType /\ c \in RequestType
      BY <3>2, PutsAreRequests DEF Kinds
    <3>4. a.kind # "value" /\ b.kind = "value" /\ b.of = opened + 1 /\ c.kind # "value"
      BY <3>1 DEF Read
    <3> HIDE DEF a, b, c
    <3>5. s \in Seq(RequestType) /\ Len(s) = 3 /\ s[1] = a /\ s[2] = b /\ s[3] = c /\ DOMAIN s = 1..3
      BY <3>3
    <3> HIDE DEF s
    <3> DEFINE n == Len(requests)
    <3>6. /\ n \in Nat /\ DOMAIN requests = 1 .. n /\ DOMAIN requests' = 1..n + 3
          /\ \A i \in 1..n : requests'[i] = requests[i]
          /\ requests'[n + 1] = a /\ requests'[n + 2] = b /\ requests'[n + 3] = c
      <4>0. s \in Seq(RequestType) /\ requests \in Seq(RequestType)
        BY <3>5, <1>0
      <4>1. /\ Len(requests) \in Nat /\ DOMAIN requests = 1..Len(requests)
            /\ DOMAIN (requests \o s) = 1..Len(requests) + Len(s)
            /\ \A i \in DOMAIN requests : (requests \o s)[i] = requests[i]
            /\ \A i \in DOMAIN s : (requests \o s)[Len(requests) + i] = s[i]
        BY <4>0, CatFacts
      <4>2. 1 \in DOMAIN s /\ 2 \in DOMAIN s /\ 3 \in DOMAIN s
        BY <3>5
      <4> QED BY <3>1, <3>5, <4>1, <4>2
    <3> HIDE DEF n
    <3>7. \A i \in DOMAIN requests' : requests'[i].kind = "value" =>
            \/ i \in 1 .. n /\ requests[i].kind = "value" /\ requests'[i] = requests[i]
            \/ i = n + 2 /\ requests'[i].of = opened + 1
      <4>1. \A i \in 1 .. n + 3 : i \in 1 .. n \/ i = n + 1 \/ i = n + 2 \/ i = n + 3
        BY <3>6
      <4> QED BY <4>1, <3>4, <3>6
    <3>8. \A i \in 1..n : requests[i].kind = "value" =>
            /\ listening < requests[i].of /\ requests[i].of <= opened
            /\ \A j \in 1 .. n : i < j /\ requests[j].kind = "value" => requests[i].of < requests[j].of
      BY <1>0, <3>6 DEF ListenLine
    <3>a. \A i \in 1..n : requests[i].kind = "value" => requests[i].of \in Nat
      <4>1. \A i \in 1..n : requests[i] \in RequestType BY <1>0, <3>6, SeqOut
      <4>2. \A i \in 1..n : requests[i].kind = "value" => requests[i] \in ReadType
        BY <4>1, KindsOfRequests
      <4> QED BY <4>2, ScreensFacts DEF ReadType
    <3>9. ASSUME NEW i \in DOMAIN requests', requests'[i].kind = "value"
          PROVE  /\ listening < requests'[i].of /\ requests'[i].of <= opened + 1
                 /\ \A j \in DOMAIN requests' : i < j /\ requests'[j].kind = "value" => requests'[i].of < requests'[j].of
      <4>1. CASE i \in 1 .. n /\ requests[i].kind = "value" /\ requests'[i] = requests[i]
        <5>1. listening < requests[i].of /\ requests[i].of <= opened /\ requests[i].of \in Nat
          BY <4>1, <3>8, <3>a
        <5>2. ASSUME NEW j \in DOMAIN requests', i < j, requests'[j].kind = "value" PROVE requests[i].of < requests'[j].of
          <6>1. CASE j \in 1 .. n /\ requests[j].kind = "value" /\ requests'[j] = requests[j]
            BY <6>1, <4>1, <5>2, <3>8
          <6>2. CASE j = n + 2 /\ requests'[j].of = opened + 1
            BY <6>2, <5>1, <1>0
          <6> QED BY <6>1, <6>2, <5>2, <3>7
        <5> QED BY <4>1, <5>1, <5>2, <1>0
      <4>2. CASE i = n + 2 /\ requests'[i].of = opened + 1
        <5>1. listening < opened + 1 BY <1>0, <3>1
        <5>2. \A j \in 1..n : ~(n + 2 < j) BY <3>6
        <5>3. \A j \in DOMAIN requests' : requests'[j].kind = "value" => ~(n + 2 < j)
          BY <5>2, <3>6, <3>7
        <5> QED BY <4>2, <5>1, <5>3, <1>0
      <4> QED BY <3>7, <3>9, <4>1, <4>2
    <3>10. ASSUME NEW k \in listening + 1..opened + 1
           PROVE  \E i \in DOMAIN requests' : requests'[i].kind = "value" /\ requests'[i].of = k
      <4>1. CASE k = opened + 1
        <5>1. n + 2 \in DOMAIN requests' BY <3>6
        <5> QED BY <4>1, <5>1, <3>4, <3>6
      <4>2. CASE k # opened + 1
        <5>1. k \in listening + 1..opened BY <4>2, <1>0
        <5>2. PICK i \in DOMAIN requests : requests[i].kind = "value" /\ requests[i].of = k
          BY <5>1, <1>0 DEF ListenLine
        <5>3. i \in DOMAIN requests' /\ requests'[i] = requests[i]
          BY <3>6
        <5> QED BY <5>2, <5>3
      <4> QED BY <4>1, <4>2
    <3> QED BY <3>1, <3>9, <3>10 DEF ListenLine
  <2>2. CASE opened' = opened /\ listening' = listening /\ requests' = requests
    BY <2>2, <1>0, <1>1
  <2>3. ASSUME NEW s \in Seq(RequestType), requests' = requests \o s, \A i \in DOMAIN s : s[i].kind # "value",
               opened' = opened, listening' = listening
        PROVE  ListenLine(requests, listening)'
    <3>1. ListenLine(requests \o s, listening) BY <2>3, <1>0, ListenLineCat
    <3> QED BY <2>3, <3>1, <1>1
  <2>4. ASSUME NEW x \in RequestType, requests' = Append(requests, x), x.kind # "value",
               opened' = opened, listening' = listening
        PROVE  ListenLine(requests, listening)'
    <3>1. requests' = requests \o <<x>> /\ <<x>> \in Seq(RequestType) /\ \A i \in DOMAIN <<x>> : <<x>>[i] = x
      BY <2>4, <1>0, AppendIsCat
    <3> QED BY <2>3, <2>4, <3>1
  <2>5. CASE SubmitPressed
    <3>1. top \in Screens BY <2>5, ScreensFacts DEF FormInv, SubmitPressed
    <3>2. Read("item", top) \in RequestType /\ Read("item", top).kind # "value"
      BY <3>1, PutsAreRequests DEF Kinds, Read
    <3>3. requests' = Append(requests, Read("item", top)) /\ opened' = opened /\ listening' = listening
      BY <2>5 DEF SubmitPressed
    <3> QED BY <3>2, <3>3, <2>4
  <2>6. CASE FormAnswered
    <3>1. top # 0 /\ top \in Screens
      <4>1. events # <<>> /\ Head(events).kind = "item"
        BY <2>6 DEF FormAnswered, Callback
      <4>2. 1 \in DOMAIN events /\ events[1].kind = "item"
        BY <4>1, <1>0, TailFacts
      <4> QED BY <4>2, ScreensFacts DEF FormInv
    <3>2. PICK r \in Unwritten, first \in BOOLEAN : requests' = requests \o Answered(first, r)
      BY <2>6, <3>1, FormAnsweredFacts
    <3> DEFINE s == Answered(first, r)
    <3>3. s \in Seq(RequestType) /\ \A i \in DOMAIN s : s[i].kind # "value"
      <4>1. r \in Mine BY DEF Unwritten
      <4>2. s \in Seq(RequestType)
          /\ \A i \in DOMAIN s :
              \/ s[i] = PutTotal("count", 1)
              \/ s[i] = PutTotal("average", 1)
              \/ s[i] = Read("count", top)
              \/ \E f \in Fields : s[i] = PutField(r, f)
              \/ s[i] = Read("reviews", top)
        BY <3>1, <4>1, AnsweredFacts
      <4> HIDE DEF s
      <4> QED BY <4>2 DEF PutTotal, Read, PutField
    <3> HIDE DEF s
    <3>4. requests' = requests \o s /\ opened' = opened /\ listening' = listening
      BY <2>6, <3>2 DEF s, FormAnswered, Callback
    <3> QED BY <3>3, <3>4, <2>3
  <2>7. CASE CountAnswered
    <3>1. /\ opened' = opened /\ listening' = listening /\ events # <<>> /\ Head(events).kind = "count"
          /\ requests' = Append(requests, PutTotal("count", Head(events).snap.count + 1))
      BY <2>7 DEF CountAnswered, Callback
    <3>2. Head(events).snap.count \in Nat
      BY <3>1, HeadsAreTyped, KindsOfEvents DEF NodeType
    <3> DEFINE x == PutTotal("count", Head(events).snap.count + 1)
    <3>3. x \in RequestType /\ x.kind # "value"
      BY <3>2, PutsAreRequests, ReviewsFacts DEF PutTotal
    <3> HIDE DEF x
    <3> QED BY <3>1, <3>3, <2>4 DEF x
  <2>8. ASSUME NEW r \in Mine, NEW ok \in BOOLEAN, UploadFinished(r, ok)
        PROVE  ListenLine(requests, listening)'
    <3> DEFINE x == PutField(r, "imageURL")
    <3>1. UNCHANGED <<opened, listening>> /\ (requests' = requests \/ requests' = Append(requests, x))
      BY <2>8 DEF UploadFinished, stack
    <3>2. x \in RequestType /\ x.kind # "value"
      BY PutsAreRequests, ReviewsFacts DEF PutField, AllFields
    <3> HIDE DEF x
    <3> QED BY <3>1, <3>2, <2>2, <2>4
  <2>9. CASE ServeRead
    <3>1. /\ requests # <<>> /\ requests' = Tail(requests) /\ Head(requests) \in ReadType
          /\ opened' = opened
          /\ listening' = IF Head(requests).kind = "value" THEN Head(requests).of ELSE listening
      <4>1. opened' = opened BY <2>9 DEF ServeRead, stack
      <4>2. requests # <<>> /\ requests' = Tail(requests) /\ Head(requests) \in ReadType
          /\ listening' = IF Head(requests).kind = "value" THEN Head(requests).of ELSE listening
        BY <2>9, ServeReadFacts
      <4> QED BY <4>1, <4>2
    <3>2. Head(requests).of \in Nat BY <3>1, ScreensFacts DEF ReadType
    <3>3. IF Head(requests).kind = "value" THEN ListenLine(Tail(requests), Head(requests).of)
          ELSE ListenLine(Tail(requests), listening)
      BY <3>1, <3>2, <1>0, ListenLineTail
    <3>4. CASE Head(requests).kind = "value"
      <4>1. ListenLine(Tail(requests), Head(requests).of) /\ listening' = Head(requests).of
        BY <3>1, <3>3, <3>4
      <4> HIDE DEF ListenLine
      <4>2. ListenLine(requests', listening') <=> ListenLine(requests, listening)'
        BY <3>1 DEF ListenLine
      <4> QED BY <3>1, <4>1, <4>2
    <3>5. CASE Head(requests).kind # "value"
      <4>1. ListenLine(Tail(requests), listening) /\ listening' = listening
        BY <3>1, <3>3, <3>5
      <4>2. ListenLine(requests', listening') <=> ListenLine(requests, listening)'
        BY <3>1 DEF ListenLine
      <4> QED BY <3>1, <4>1, <4>2
    <3> QED BY <3>4, <3>5
  <2>10. CASE IssueWrite
    <3>1. requests # <<>> /\ requests' = Tail(requests) /\ Head(requests).kind # "value"
          /\ UNCHANGED <<opened, listening>>
      BY <2>10 DEF IssueWrite, stack
    <3>2. ListenLine(Tail(requests), listening) BY <3>1, <1>0, ListenLineTail
    <3> QED BY <3>1, <3>2, <1>1
  <2>11. CASE Back \/ RateItem \/ RowDisplayed \/ ListenerFired \/ ReviewsAnswered \/ ImagesAnswered
              \/ ImageAppended \/ RemoteArrives \/ UNCHANGED vars
    BY <2>11, <2>2 DEF Back, RateItem, RowDisplayed, ListenerFired, ReviewsAnswered, ImagesAnswered,
       ImageAppended, RemoteArrives, Callback, vars, queues, stack
  <2>12. ASSUME NEW t \in Screens \X Reviews, NEW ok \in BOOLEAN, DownloadFinished(t, ok)
         PROVE  ListenLine(requests, listening)'
    BY <2>12, <2>2 DEF DownloadFinished, stack
  <2>13. ASSUME NEW r \in Theirs, RemoteSubmits(r) PROVE ListenLine(requests, listening)'
    BY <2>13, <2>2 DEF RemoteSubmits, queues, stack
  <2> QED BY <2>1, <2>5, <2>6, <2>7, <2>8, <2>9, <2>10, <2>11, <2>12, <2>13 DEF Next
<1>3. events' \in Seq(Heeded(listening'))
  <2>1. listening' \in Nat /\ listening <= listening'
    <3>1. CASE ServeRead
      <4>1. requests # <<>> /\ Head(requests) \in ReadType
          /\ listening' = IF Head(requests).kind = "value" THEN Head(requests).of ELSE listening
        BY <3>1, ServeReadFacts
      <4>2. Head(requests).of \in Nat BY <4>1, ScreensFacts DEF ReadType
      <4>3. Head(requests).kind = "value" => listening < Head(requests).of
        BY <4>1, <4>2, <1>0, ListenLineTail
      <4> QED BY <4>1, <4>2, <4>3, <1>0
    <3>2. CASE listening' = listening
      BY <3>2, <1>0
    <3>3. listening' = listening \/ ServeRead
      BY DEF Next, OpenItem, Back, RateItem, SubmitPressed, RowDisplayed, FormAnswered, CountAnswered,
         ListenerFired, ReviewsAnswered, ImagesAnswered, ImageAppended, DownloadFinished, UploadFinished,
         IssueWrite, RemoteArrives, RemoteSubmits, Callback, queues, vars
    <3> QED BY <3>1, <3>2, <3>3
  <2>2. events \in Seq(Heeded(listening'))
    <3>1. \A i \in DOMAIN events : events[i] \in EventType BY <1>0, SeqOut
    <3>2. \A i \in DOMAIN events : events[i].kind = "value" => events[i].of <= listening /\ events[i].of \in Nat
      BY <3>1, KindsOfEvents, ScreensFacts DEF ListenInv
    <3>3. \A i \in DOMAIN events : events[i] \in Heeded(listening')
      BY <3>1, <3>2, <2>1, <1>0 DEF Heeded
    <3> QED BY <3>3, <1>0, SeqIn
  <2>3. EventsMove
    BY EveryStepMoves
  <2>4. CASE events' = events
    BY <2>2, <2>4
  <2>5. CASE events # <<>> /\ events' = Tail(events)
    BY <2>2, <2>5, TailFacts
  <2>6. ASSUME NEW x \in AppendType, events' = Append(events, x) PROVE events' \in Seq(Heeded(listening'))
    <3>1. x \in Heeded(listening') BY DEF AppendType, EventType, Heeded
    <3> QED BY <2>2, <2>6, <3>1, AppendFacts
  <2>7. CASE /\ requests # <<>> /\ Head(requests).kind # "put" /\ requests' = Tail(requests)
             /\ events' = Append(events, Answer(Head(requests)))
             /\ Answer(Head(requests)) \in SnapType
    <3> DEFINE x == Answer(Head(requests))
    <3>1. x \in EventType /\ x.kind = Head(requests).kind /\ x.of = Head(requests).of /\ x.of \in Nat
      BY <2>7, ScreensFacts DEF EventType, Answer, SnapType
    <3>2. x.kind = "value" => x.of <= listening'
      <4>1. CASE ServeRead
        BY <3>1, <4>1, ServeReadFacts
      <4>2. CASE listening' = listening /\ ~ServeRead
        <5>1. Len(events') = Len(events) + 1 /\ Len(Tail(requests)) # Len(requests)
          BY <2>7, <3>1, <1>0, AppendFacts, TailFacts
        <5>2. ~(\E t \in Screens \X Reviews, ok \in BOOLEAN : DownloadFinished(t, ok))
          BY <5>1, <2>7 DEF DownloadFinished
        <5>3. ~(IssueWrite) BY <2>7 DEF IssueWrite
        <5>4. ~RemoteArrives BY <2>7, <5>1 DEF RemoteArrives
        <5>5. events' # events /\ requests' # requests
          BY <5>1, <2>7
        <5>6. ~(events # <<>> /\ events' = Tail(events))
          BY <5>1, <1>0, TailFacts
        <5>7. FALSE
          BY <5>2, <5>3, <5>4, <5>5, <5>6, <4>2 DEF Next, OpenItem, Back, RateItem, SubmitPressed,
             RowDisplayed, FormAnswered, CountAnswered, ListenerFired, ReviewsAnswered, ImagesAnswered,
             ImageAppended, UploadFinished, RemoteSubmits, Callback, queues, vars
        <5> QED BY <5>7
      <4>3. listening' = listening \/ ServeRead
        BY DEF Next, OpenItem, Back, RateItem, SubmitPressed, RowDisplayed, FormAnswered, CountAnswered,
         ListenerFired, ReviewsAnswered, ImagesAnswered, ImageAppended, DownloadFinished, UploadFinished,
         IssueWrite, RemoteArrives, RemoteSubmits, Callback, queues, vars
      <4> QED BY <4>1, <4>2, <4>3
    <3>3. x \in Heeded(listening') BY <3>1, <3>2 DEF Heeded
    <3> HIDE DEF x
    <3> QED BY <2>2, <2>7, <3>3, AppendFacts DEF x
  <2>8. CASE view' \in NodeType /\ events' = events \o Heard(view')
    <3> DEFINE h == Heard(view')
    <3>1. h \in Seq(EventType) /\ DOMAIN h = 1..listening
          /\ \A k \in 1..listening : h[k] = [kind |-> "value", of |-> k, snap |-> view']
      BY <2>8, HeardFacts
    <3> HIDE DEF h
    <3>2. \A k \in DOMAIN h : h[k] \in Heeded(listening')
      <4>1. \A k \in DOMAIN h : h[k] \in EventType BY <3>1, SeqOut
      <4>2. \A k \in 1..listening : k <= listening' BY <1>0, <2>1
      <4> QED BY <3>1, <4>1, <4>2 DEF Heeded
    <3>3. h \in Seq(Heeded(listening')) BY <3>1, <3>2, SeqIn
    <3> QED BY <2>2, <2>8, <3>3, CatFacts DEF h
  <2> QED BY <2>3, <2>4, <2>5, <2>6, <2>7, <2>8 DEF EventsMove
<1>4. \A i \in DOMAIN events' : events'[i] \in Heeded(listening')
  BY <1>3, SeqOut
<1> QED BY <1>2, <1>4 DEF ListenInv, ListenLine, Heeded

------------------------
(* The rows and their ratings. *)

EndsWith(a, b) ==
  LET surplus == Len(a) - Len(b)
  IN  surplus >= 0 /\ \A i \in DOMAIN b : a[surplus + i] = b[i]

LEMMA EndsWithCat ==
  ASSUME NEW S, NEW a \in Seq(S), NEW b \in Seq(S), NEW l \in Seq(S), EndsWith(a, b)
  PROVE  EndsWith(a \o l, b \o l)
<1>1. /\ a \o l \in Seq(S) /\ b \o l \in Seq(S)
      /\ Len(a) \in Nat /\ Len(b) \in Nat /\ Len(l) \in Nat
      /\ Len(a \o l) = Len(a) + Len(l) /\ Len(b \o l) = Len(b) + Len(l)
      /\ DOMAIN a = 1 .. Len(a) /\ DOMAIN b = 1 .. Len(b) /\ DOMAIN l = 1..Len(l)
      /\ DOMAIN (b \o l) = 1..Len(b) + Len(l)
      /\ \A i \in DOMAIN a : (a \o l)[i] = a[i]
      /\ \A i \in DOMAIN b : (b \o l)[i] = b[i]
      /\ \A i \in DOMAIN l : (a \o l)[Len(a) + i] = l[i]
      /\ \A i \in DOMAIN l : (b \o l)[Len(b) + i] = l[i]
  BY CatFacts
<1> DEFINE c == a \o l
           d == b \o l
           n == Len(a) - Len(b)
<1> HIDE DEF c, d
<1>2. n >= 0 /\ n \in Nat /\ \A i \in DOMAIN b : a[n + i] = b[i]
  BY <1>1 DEF EndsWith
<1>3. Len(c) - Len(d) = n
  BY <1>1 DEF c, d
<1>4. ASSUME NEW i \in DOMAIN d PROVE c[n + i] = d[i]
  <2>1. CASE i <= Len(b)
    <3>1. i \in DOMAIN b /\ n + i \in DOMAIN a
      BY <2>1, <1>1, <1>2 DEF d
    <3> QED BY <3>1, <1>1, <1>2 DEF c, d
  <2>2. CASE ~(i <= Len(b))
    <3> DEFINE j == i - Len(b)
    <3>1. j \in DOMAIN l /\ i = Len(b) + j /\ n + i = Len(a) + j
      BY <2>2, <1>1 DEF d
    <3> QED BY <3>1, <1>1 DEF c, d
  <2> QED BY <2>1, <2>2
<1> QED BY <1>2, <1>3, <1>4 DEF EndsWith, c, d

LEMMA RatingsStep ==
  ASSUME ItemAssumption, Typed, FormInv, RatingsEndWithTheRows, [Next]_vars
  PROVE  RatingsEndWithTheRows'
<1>0. \A k \in Screens : /\ ratings[k] \in Seq(Reviews) /\ reviews[k] \in Seq(Reviews)
                         /\ EndsWith(ratings[k], reviews[k])
  BY DEF Typed, RatingsEndWithTheRows, EndsWith
<1>1. SUFFICES \A k \in Screens : EndsWith(ratings'[k], reviews'[k])
  BY DEF RatingsEndWithTheRows, EndsWith
<1>2. CASE UNCHANGED <<reviews, ratings>>
  BY <1>0, <1>2
<1>3. CASE FormAnswered
  <2>1. reviews' = [reviews EXCEPT ![top] = <<>>] /\ ratings' = ratings
    BY <1>3 DEF FormAnswered, Unwind, Reload
  <2>2. \A k \in Screens : reviews'[k] = reviews[k] \/ reviews'[k] = <<>>
    BY <2>1 DEF Typed
  <2>3. \A a \in Seq(Reviews) : EndsWith(a, <<>>)
    BY DEF EndsWith
  <2> QED BY <1>0, <2>1, <2>2, <2>3
<1>4. CASE ReviewsAnswered
  <2>1. events # <<>> /\ Head(events).kind = "reviews"
    BY <1>4 DEF ReviewsAnswered, Callback
  <2>2. Head(events).snap \in NodeType /\ Head(events).of \in Screens
    BY <2>1, HeadsAreTyped, KindsOfEvents
  <2> DEFINE l == Listed(Head(events).snap)
             h == Head(events).of
  <2>3. l \in Seq(Reviews)
    BY <2>2, ListedFacts
  <2>4. \/ UNCHANGED <<reviews, ratings>>
        \/ reviews' = [reviews EXCEPT ![h] = @ \o l] /\ ratings' = [ratings EXCEPT ![h] = @ \o l]
    BY <1>4 DEF ReviewsAnswered, table
  <2> HIDE DEF l, h
  <2>5. ASSUME reviews' = [reviews EXCEPT ![h] = @ \o l], ratings' = [ratings EXCEPT ![h] = @ \o l],
               NEW k \in Screens
        PROVE  EndsWith(ratings'[k], reviews'[k])
    <3>1. CASE k = h
      <4>1. ratings'[k] = ratings[k] \o l /\ reviews'[k] = reviews[k] \o l
        BY <3>1, <2>5 DEF Typed
      <4> QED BY <4>1, <2>3, <1>0, EndsWithCat
    <3>2. CASE k # h
      <4>1. ratings'[k] = ratings[k] /\ reviews'[k] = reviews[k]
        BY <3>2, <2>5 DEF Typed
      <4> QED BY <4>1, <1>0
    <3> QED BY <3>1, <3>2
  <2> QED BY <2>4, <2>5, <1>2
<1> QED
  BY <1>2, <1>3, <1>4 DEF Next, OpenItem, Back, RateItem, SubmitPressed, RowDisplayed, CountAnswered,
     ListenerFired, ImagesAnswered, ImageAppended, DownloadFinished, UploadFinished, ServeRead,
     IssueWrite, RemoteArrives, RemoteSubmits, table, vars

------------------------
(* Every review written has its row, or its row is on the way. *)

Brings(x, k, r) == x.kind = "reviews" /\ x.of = k /\ x.snap.fields[r] # {}
Coming(n, q, e, k, r) ==
  \/ \E i \in DOMAIN e : Brings(e[i], k, r)
  \/ \E i \in DOMAIN q : q[i].kind = "reviews" /\ q[i].of = k /\ Some(n, q, i, r)

LEMMA ComingEvents ==
  ASSUME NEW T, NEW e \in Seq(T), NEW n, NEW q, NEW k, NEW r, Coming(n, q, e, k, r)
  PROVE  /\ \A s \in Seq(T) : Coming(n, q, e \o s, k, r)
         /\ e # <<>> /\ ~Brings(Head(e), k, r) => Coming(n, q, Tail(e), k, r)
<1>1. ASSUME NEW s \in Seq(T) PROVE Coming(n, q, e \o s, k, r)
  <2>1. \A i \in DOMAIN e : i \in DOMAIN (e \o s) /\ (e \o s)[i] = e[i]
    BY CatFacts
  <2> QED BY <2>1 DEF Coming
<1>2. ASSUME e # <<>>, ~Brings(Head(e), k, r) PROVE Coming(n, q, Tail(e), k, r)
  <2>1. Head(e) = e[1] /\ \A i \in DOMAIN e : i # 1 => i - 1 \in DOMAIN Tail(e) /\ e[i] = Tail(e)[i - 1]
    BY <1>2, TailFacts
  <2>2. \A i \in DOMAIN e : Brings(e[i], k, r) => \E j \in DOMAIN Tail(e) : Brings(Tail(e)[j], k, r)
    BY <2>1, <1>2
  <2> QED BY <2>2 DEF Coming
<1> QED BY <1>1, <1>2

LEMMA ComingCat ==
  ASSUME ItemAssumption, NEW n, NEW q \in Seq(RequestType), NEW s \in Seq(RequestType), NEW e, NEW k, NEW r,
         Coming(n, q, e, k, r)
  PROVE  Coming(n, q \o s, e, k, r)
<1>1. \A i \in DOMAIN q : /\ i \in DOMAIN (q \o s) /\ (q \o s)[i] = q[i]
                          /\ Some(n, q \o s, i, r) <=> Some(n, q, i, r)
  <2>1. \A i \in DOMAIN q : i \in DOMAIN (q \o s) /\ (q \o s)[i] = q[i]
    BY CatFacts
  <2>2. \A i \in DOMAIN q : i \in Nat /\ i <= End(q)
    BY DEF End
  <2>3. \A i \in Nat : i <= End(q) => (Some(n, q \o s, i, r) <=> Some(n, q, i, r))
    BY SomeCat
  <2> QED BY <2>1, <2>2, <2>3
<1> QED BY <1>1 DEF Coming

LEMMA ComingServed ==
  ASSUME ItemAssumption, NEW n \in NodeType, NEW q \in Seq(RequestType), q # <<>>, NEW m, Served(n, q, m),
         NEW e, NEW k, NEW r \in Reviews, Coming(n, q, e, k, r)
  PROVE  \/ Coming(m, Tail(q), e, k, r)
         \/ Head(q).kind = "reviews" /\ Head(q).of = k /\ n.fields[r] # {}
<1>1. Head(q) = q[1] /\ \A i \in DOMAIN q : i # 1 => i \in Nat /\ i - 1 \in DOMAIN Tail(q) /\ q[i] = Tail(q)[i - 1]
  BY TailFacts
<1>2. \A i \in DOMAIN Tail(q) : i \in Nat \ {0}
  BY TailFacts
<1>3. \A j \in Nat \ {0} : Some(m, Tail(q), j, r) <=> Some(n, q, j + 1, r)
  BY SomeServed
<1>4. ASSUME NEW i \in DOMAIN q, i # 1, q[i].kind = "reviews" /\ q[i].of = k /\ Some(n, q, i, r)
      PROVE  Coming(m, Tail(q), e, k, r)
  <2>1. i - 1 \in DOMAIN Tail(q) /\ q[i] = Tail(q)[i - 1] /\ i - 1 \in Nat \ {0} /\ (i - 1) + 1 = i
    BY <1>1, <1>2, <1>4
  <2>2. Some(m, Tail(q), i - 1, r)
    BY <2>1, <1>3, <1>4
  <2> QED BY <2>1, <2>2, <1>4 DEF Coming
<1>5. ASSUME Some(n, q, 1, r) PROVE n.fields[r] # {}
  BY <1>5, NowFacts
<1> QED BY <1>1, <1>4, <1>5 DEF Coming

ListedLine(n, q, e, k, v) ==
  \A r \in Mine : Some(n, q, End(q), r) => r \in Elements(v) \/ Coming(n, q, e, k, r)

LEMMA ListedStep ==
  ASSUME ItemAssumption, Typed, FormInv, WholeInv, ListedInv, [Next]_vars
  PROVE  ListedInv'
<1>0. /\ view \in NodeType /\ requests \in Seq(RequestType) /\ events \in Seq(EventType)
      /\ uploads \subseteq Mine /\ Mine \subseteq Reviews /\ End(requests) \in Nat \ {0}
      /\ reviews \in [Screens -> Seq(Reviews)]
  BY ReviewsFacts DEF Typed, End
<1>1. Running /\ top # 0 => ListedLine(view, requests, events, top, reviews[top])
  BY DEF ListedInv, ListedLine, Coming, Brings
<1>2. SUFFICES ASSUME Running', top' # 0
               PROVE  ListedLine(view', requests', events', top', reviews'[top'])
  <2>1. ASSUME NEW r \in Mine, Coming(view', requests', events', top', r)
        PROVE  \/ \E i \in DOMAIN events' : /\ events'[i].kind = "reviews" /\ events'[i].of = top'
                                  /\ events'[i].snap.fields[r] # {}
               \/ \E k \in DOMAIN requests' : /\ requests'[k].kind = "reviews" /\ requests'[k].of = top'
                                    /\ Some(view', requests', k, r)
    BY <2>1 DEF Coming, Brings
  <2> QED BY <2>1 DEF ListedInv, ListedLine
\* What is added to the line is no field of a review, or makes its row come.
<1>3. ASSUME NEW s \in Seq(RequestType), requests' = requests \o s, view' = view, events' = events,
             top' = top, reviews' = reviews, Running, \A r \in Mine : Plain(s, r) \/ Some(view, requests, End(requests), r)
      PROVE  ListedLine(view', requests', events', top', reviews'[top'])
  <2> SUFFICES ASSUME NEW r \in Mine, Some(view, requests \o s, End(requests \o s), r)
               PROVE  r \in Elements(reviews[top]) \/ Coming(view, requests \o s, events, top, r)
    BY <1>3 DEF ListedLine
  <2>1. End(requests \o s) = Len(requests) + (Len(s) + 1) /\ Len(s) + 1 \in Nat \ {0}
    BY <1>0, CatFacts DEF End
  <2>2. Plain(s, r) => \A j \in Nat \ {0} : Some(view, requests \o s, Len(requests) + j, r) <=> Some(view, requests, End(requests), r)
    BY <1>0, SomeCat
  <2>3. Some(view, requests, End(requests), r)
    BY <2>1, <2>2, <1>3
  <2>4. r \in Elements(reviews[top]) \/ Coming(view, requests, events, top, r)
    BY <2>3, <1>1, <1>2, <1>3 DEF ListedLine
  <2> QED BY <2>4, <1>0, ComingCat
<1>4. CASE OpenItem
  <2> DEFINE s == << Read("images", top'), Read("value", top'), Read("reviews", top') >>
  <2>1. opened' = opened + 1 /\ top' = opened' /\ opened < MaxScreens /\ requests' = requests \o s
        /\ view' = view
    BY <1>4 DEF OpenItem, node
  <2>2. top' \in Screens
    BY <2>1, ScreensFacts
  <2>3. /\ Read("images", top') \in RequestType /\ Read("value", top') \in RequestType
        /\ Read("reviews", top') \in RequestType
    BY <2>2, PutsAreRequests DEF Kinds
  <2>4. s \in Seq(RequestType) /\ Len(s) = 3 /\ DOMAIN s = 1 .. 3 /\ s[3] = Read("reviews", top')
    BY <2>3
  <2>5. \A r \in Mine : Plain(s, r)
    BY DEF Plain, IsField, Read
  <2> HIDE DEF s
  <2>6. /\ End(requests \o s) = Len(requests) + 4
        /\ Len(requests) + 3 \in DOMAIN (requests \o s) /\ (requests \o s)[Len(requests) + 3] = Read("reviews", top')
    <3>1. Len(requests \o s) = Len(requests) + Len(s) /\ Len(requests) \in Nat
          /\ \A i \in DOMAIN s : Len(requests) + i \in DOMAIN (requests \o s) /\ (requests \o s)[Len(requests) + i] = s[i]
      <4>1. s \in Seq(RequestType) /\ requests \in Seq(RequestType)
        BY <2>4, <1>0
      <4> QED BY <4>1, CatFacts
    <3> QED BY <3>1, <2>4 DEF End
  <2>7. ASSUME NEW r \in Mine, Some(view, requests \o s, End(requests \o s), r)
        PROVE  Coming(view, requests \o s, events', top', r)
    <3>1. \A j \in Nat \ {0} : Some(view, requests \o s, Len(requests) + j, r) <=> Some(view, requests, End(requests), r)
      BY <2>4, <2>5, <1>0, SomeCat
    <3>2. Some(view, requests \o s, Len(requests) + 3, r) BY <3>1, <2>6, <2>7
    <3> QED BY <3>2, <2>6 DEF Coming, Read
  <2> QED BY <2>1, <2>7 DEF ListedLine
<1>5. CASE Back \/ RateItem
  <2>1. requests' = requests \o <<>> /\ UNCHANGED <<view, events, reviews>> /\ <<>> \in Seq(RequestType) /\ Running
    BY <1>0, <1>5 DEF Back, RateItem, queues, node, table
  <2>2. top' = top
    BY <1>2, <1>5 DEF Back, RateItem
  <2> QED BY <2>1, <2>2, <1>3, PlainFacts
<1>6. CASE SubmitPressed
  <2> DEFINE x == Read("item", top)
  <2>1. x \in RequestType /\ x.kind # "put"
    <3>1. top \in Screens BY <1>6, ScreensFacts DEF FormInv, SubmitPressed
    <3> QED BY <3>1, PutsAreRequests DEF Kinds, Read
  <2>2. requests' = Append(requests, x) /\ UNCHANGED <<view, events, reviews, top>> /\ Running
    BY <1>6 DEF SubmitPressed, node, table
  <2> HIDE DEF x
  <2>3. requests' = requests \o <<x>> /\ <<x>> \in Seq(RequestType)
    BY <2>1, <2>2, <1>0, AppendIsCat
  <2> QED BY <2>1, <2>2, <2>3, <1>3, PlainFacts
<1>7. CASE FormAnswered
  <2>1. top # 0 /\ top \in Screens /\ top' = top
    <3>1. events # <<>> /\ Head(events).kind = "item" /\ top' = top
      BY <1>7 DEF FormAnswered, Callback
    <3> QED BY <1>2, <3>1, ScreensFacts
  <2>2. PICK r \in Unwritten, first \in BOOLEAN : requests' = requests \o Answered(first, r)
    BY <1>7, <2>1, FormAnsweredFacts
  <2> DEFINE s == Answered(first, r)
             n == Len(requests) + Len(s)
  <2>3. s \in Seq(RequestType) /\ Len(s) \in Nat /\ Len(s) >= 2 /\ DOMAIN s = 1 .. Len(s) /\ s[Len(s)] = Read("reviews", top)
    <3>1. r \in Mine BY DEF Unwritten
    <3> QED BY <2>1, <3>1, AnsweredFacts
  <2>4. requests' = requests \o s /\ view' = view
    BY <2>2, <1>7 DEF FormAnswered, Callback, node
  <2> HIDE DEF s
  <2>5. /\ Len(requests') = n /\ n \in DOMAIN requests' /\ requests'[n] = Read("reviews", top) /\ n \in Nat
        /\ requests' \in Seq(RequestType)
    <3>1. Len(requests \o s) = Len(requests) + Len(s) /\ Len(requests) \in Nat /\ requests \o s \in Seq(RequestType)
          /\ \A i \in DOMAIN s : Len(requests) + i \in DOMAIN (requests \o s) /\ (requests \o s)[Len(requests) + i] = s[i]
      BY <2>3, <1>0, CatFacts
    <3>2. Len(s) \in DOMAIN s BY <2>3
    <3> QED BY <3>1, <3>2, <2>3, <2>4
  <2> HIDE DEF n
  <2>6. ASSUME NEW o \in Mine, Some(view, requests', End(requests'), o)
        PROVE  Coming(view, requests', events', top, o)
    <3>1. PICK f \in AllFields : Has(view, requests', End(requests'), o, f)
      BY <2>6 DEF Some
    <3>2. Has(view, requests', n, o, f)
      <4>1. CASE f \in view.fields[o]
        BY <4>1 DEF Has
      <4>2. ASSUME NEW i \in DOMAIN requests', IsField(requests'[i], f, o) PROVE i < n
        <5>1. i # n BY <4>2, <2>5 DEF IsField, Read
        <5> QED BY <5>1, <2>5
      <4> QED BY <3>1, <4>1, <4>2 DEF Has
    <3>3. Some(view, requests', n, o) BY <3>2 DEF Some
    <3> QED BY <3>3, <2>5 DEF Coming, Read
  <2> QED BY <2>1, <2>4, <2>6 DEF ListedLine
\* An event is handled that brings no row to the screen on display.
<1>8. ASSUME events # <<>>, events' = Tail(events), Head(events).kind # "reviews", view' = view,
             top' = top, reviews' = reviews, Running, requests' = requests
      PROVE  ListedLine(view', requests', events', top', reviews'[top'])
  <2>1. \A r : ~Brings(Head(events), top, r)
    BY <1>8 DEF Brings
  <2>2. \A r : Coming(view, requests, events, top, r) => Coming(view, requests, Tail(events), top, r)
    BY <2>1, <1>0, <1>8, ComingEvents
  <2> QED BY <2>2, <1>1, <1>2, <1>8 DEF ListedLine
<1>9. CASE CountAnswered
  <2> DEFINE x == PutTotal("count", Head(events).snap.count + 1)
  <2>1. requests' = Append(requests, x) /\ UNCHANGED <<view, top, reviews>> /\ events # <<>> /\ Running
        /\ Head(events).kind = "count" /\ events' = Tail(events)
    BY <1>9 DEF CountAnswered, Callback, node, table
  <2>2. Head(events).snap.count \in Nat
    BY <2>1, HeadsAreTyped, KindsOfEvents DEF NodeType
  <2>3. x \in RequestType /\ x.kind = "put" /\ x.what = "count" /\ "count" \notin AllFields
    BY <2>2, PutsAreRequests, FieldsFacts, ReviewsFacts DEF PutTotal
  <2> HIDE DEF x
  <2>4. requests' = requests \o <<x>> /\ <<x>> \in Seq(RequestType)
    BY <2>1, <2>3, <1>0, AppendIsCat
  <2>5. \A r : Plain(<<x>>, r)
    BY <2>3, PlainFacts
  <2> SUFFICES ASSUME NEW r \in Mine, Some(view, requests', End(requests'), r)
               PROVE  r \in Elements(reviews[top]) \/ Coming(view, requests', events', top, r)
    BY <2>1 DEF ListedLine
  <2>6. End(requests \o <<x>>) = Len(requests) + (Len(<<x>>) + 1) /\ Len(<<x>>) + 1 \in Nat \ {0}
    BY <1>0, <2>4, CatFacts DEF End
  <2>7. \A j \in Nat \ {0} : Some(view, requests \o <<x>>, Len(requests) + j, r) <=> Some(view, requests, End(requests), r)
    BY <1>0, <2>4, <2>5, SomeCat
  <2>8. r \in Elements(reviews[top]) \/ Coming(view, requests, events, top, r)
    BY <2>4, <2>6, <2>7, <2>1, <1>1, <1>2 DEF ListedLine
  <2>9. ~Brings(Head(events), top, r)
    BY <2>1 DEF Brings
  <2>10. Coming(view, requests, events, top, r) => Coming(view, requests, events', top, r)
    BY <2>1, <2>9, <1>0, ComingEvents
  <2>11. Coming(view, requests, events', top, r) => Coming(view, requests', events', top, r)
    BY <2>4, <1>0, ComingCat
  <2> QED BY <2>8, <2>10, <2>11
<1>10. CASE ListenerFired \/ ImagesAnswered \/ ImageAppended
  <2>1. events # <<>> /\ events' = Tail(events) /\ Head(events).kind # "reviews" /\ UNCHANGED <<view, top, reviews, requests>>
        /\ Running
    BY <1>10 DEF ListenerFired, ImagesAnswered, ImageAppended, Callback, node, table
  <2> QED BY <2>1, <1>8
<1>11. CASE ReviewsAnswered
  <2>1. /\ events # <<>> /\ Head(events).kind = "reviews" /\ events' = Tail(events) /\ Running
        /\ UNCHANGED <<view, top, requests>>
    BY <1>11 DEF ReviewsAnswered, Callback, node
  <2>2. Head(events).snap \in NodeType /\ Head(events).of \in Screens /\ top \in Screens
    BY <2>1, <1>2, HeadsAreTyped, KindsOfEvents, ScreensFacts
  <2> DEFINE l == Listed(Head(events).snap)
             h == Head(events).of
  <2>3. l \in Seq(Reviews) /\ \A r \in Reviews : Head(events).snap.fields[r] # {} => \E i \in DOMAIN l : l[i] = r
    BY <2>2, ListedFacts
  <2>4. reviews' = [reviews EXCEPT ![h] = @ \o l]
    <3>1. trap'.why = "no" BY <1>2 DEF Running
    <3>2. ~(\E r : Trap("field", r)) BY <3>1 DEF Trap
    <3> QED BY <1>11, <3>2 DEF ReviewsAnswered
  <2> HIDE DEF l
  <2>5. ASSUME NEW r \in Mine, r \in Elements(reviews[top]) PROVE r \in Elements(reviews'[top])
    <3>1. PICK i \in DOMAIN reviews[top] : reviews[top][i] = r BY <2>5 DEF Elements
    <3>2. reviews[top] \in Seq(Reviews) BY <1>0, <2>2
    <3>3. i \in DOMAIN (reviews[top] \o l) /\ (reviews[top] \o l)[i] = r
      BY <3>1, <3>2, <2>3, CatFacts
    <3>4. reviews'[top] = reviews[top] \/ reviews'[top] = reviews[top] \o l
      BY <2>2, <2>4, <1>0
    <3> QED BY <3>1, <3>3, <3>4 DEF Elements
  <2>6. ASSUME NEW r \in Mine, Brings(Head(events), top, r) PROVE r \in Elements(reviews'[top])
    <3>1. PICK i \in DOMAIN l : l[i] = r BY <2>3, <2>6, <1>0 DEF Brings
    <3>2. reviews[top] \in Seq(Reviews) BY <1>0, <2>2
    <3>3. Len(reviews[top]) + i \in DOMAIN (reviews[top] \o l) /\ (reviews[top] \o l)[Len(reviews[top]) + i] = r
      BY <3>1, <3>2, <2>3, CatFacts
    <3>4. reviews'[top] = reviews[top] \o l BY <2>2, <2>4, <2>6, <1>0 DEF Brings
    <3> QED BY <3>3, <3>4 DEF Elements
  <2>7. \A r : ~Brings(Head(events), top, r) /\ Coming(view, requests, events, top, r) => Coming(view, requests, Tail(events), top, r)
    BY <2>1, <1>0, ComingEvents
  <2> QED BY <2>1, <2>5, <2>6, <2>7, <1>1, <1>2 DEF ListedLine
<1>12. ASSUME NEW t \in Screens \X Reviews, NEW ok \in BOOLEAN, DownloadFinished(t, ok)
       PROVE  ListedLine(view', requests', events', top', reviews'[top'])
  <2> DEFINE x == [kind |-> "append", of |-> t[1], snap |-> t[2]]
  <2>1. UNCHANGED <<view, top, requests, reviews>> /\ (events' = events \/ events' = Append(events, x)) /\ Running
    BY <1>12 DEF DownloadFinished, stack, node, table
  <2>2. x \in EventType
    BY DEF EventType, AppendType
  <2> HIDE DEF x
  <2>3. Append(events, x) = events \o <<x>> /\ <<x>> \in Seq(EventType)
    BY <2>2, <1>0, AppendIsCat
  <2>4. \A r : Coming(view, requests, events, top, r) => Coming(view, requests, events \o <<x>>, top, r)
    BY <2>3, <1>0, ComingEvents
  <2> QED BY <2>1, <2>3, <2>4, <1>1, <1>2 DEF ListedLine
<1>13. ASSUME NEW r \in Mine, NEW ok \in BOOLEAN, UploadFinished(r, ok)
       PROVE  ListedLine(view', requests', events', top', reviews'[top'])
  <2> DEFINE x == PutField(r, "imageURL")
  <2>1. UNCHANGED <<view, top, events, reviews>> /\ (requests' = requests \/ requests' = Append(requests, x))
        /\ Running /\ r \in uploads
    BY <1>13 DEF UploadFinished, stack, node, table
  <2>2. x \in RequestType /\ \A f, o : IsField(x, f, o) => o = r
    BY PutsAreRequests, ReviewsFacts DEF AllFields, IsField, PutField
  <2> HIDE DEF x
  <2>3. Append(requests, x) = requests \o <<x>> /\ <<x>> \in Seq(RequestType) /\ \A i \in DOMAIN <<x>> : <<x>>[i] = x
    BY <2>2, <1>0, AppendIsCat
  <2>4. \A o \in Mine : Plain(<<x>>, o) \/ Some(view, requests, End(requests), o)
    <3>1. Some(view, requests, End(requests), r)
      <4>1. All(view, requests, End(requests), r) BY <2>1 DEF WholeInv
      <4>2. PICK f \in Fields : TRUE BY FieldsFacts
      <4> QED BY <4>1, <4>2 DEF All, Some, AllFields
    <3>2. \A o \in Mine : o # r => Plain(<<x>>, o) BY <2>2, <2>3 DEF Plain
    <3> QED BY <3>1, <3>2
  <2>5. requests \o <<>> = requests /\ <<>> \in Seq(RequestType) /\ \A o : Plain(<<>>, o)
    <3>1. requests \o <<>> = requests /\ <<>> \in Seq(RequestType)
      BY <1>0
    <3>2. \A o : Plain(<<>>, o) BY DEF Plain
    <3> QED BY <3>1, <3>2
  <2> QED BY <2>1, <2>3, <2>4, <2>5, <1>3
<1>14. CASE ServeRead
  <2> DEFINE x == Answer(Head(requests))
  <2>1. /\ requests # <<>> /\ requests' = Tail(requests) /\ x \in EventType /\ events' = Append(events, x)
        /\ x.kind = Head(requests).kind /\ x.of = Head(requests).of /\ x.snap = view /\ view' = view
    BY <1>14, ServeReadFacts
  <2>2. UNCHANGED <<top, reviews>> /\ Head(requests).kind # "put" /\ Running
    BY <1>14 DEF ServeRead, stack, table
  <2> HIDE DEF x
  <2>3. Append(events, x) = events \o <<x>> /\ <<x>> \in Seq(EventType)
        /\ Len(events) + 1 \in DOMAIN Append(events, x) /\ Append(events, x)[Len(events) + 1] = x
    BY <2>1, <1>0, AppendIsCat, AppendFacts
  <2>4. Served(view, requests, view)
    BY <2>2 DEF Served
  <2>5. ASSUME NEW r \in Mine, Some(view, requests', End(requests'), r)
        PROVE  r \in Elements(reviews[top]) \/ Coming(view, requests', events', top, r)
    <3>1. Some(view, requests, End(requests), r)
      <4>1. \A k \in Nat \ {0} : Some(view, Tail(requests), k, r) <=> Some(view, requests, k + 1, r)
        BY <2>1, <2>4, <1>0, SomeServed
      <4> QED BY <4>1, <2>1, <2>5, <1>0, EndServed
    <3>2. r \in Elements(reviews[top]) \/ Coming(view, requests, events, top, r)
      BY <3>1, <2>2, <1>1, <1>2 DEF ListedLine
    <3>3. Coming(view, requests, events, top, r) =>
            \/ Coming(view, Tail(requests), events, top, r)
            \/ Head(requests).kind = "reviews" /\ Head(requests).of = top /\ view.fields[r] # {}
      BY <2>1, <2>4, <1>0, ComingServed
    <3>4. Coming(view, Tail(requests), events, top, r) => Coming(view, Tail(requests), events \o <<x>>, top, r)
      BY <2>3, <1>0, ComingEvents
    <3>5. ASSUME Head(requests).kind = "reviews" /\ Head(requests).of = top /\ view.fields[r] # {}
          PROVE  Coming(view, requests', events', top, r)
      <4>1. Brings(x, top, r) BY <3>5, <2>1 DEF Brings
      <4> QED BY <4>1, <2>1, <2>3 DEF Coming
    <3> QED BY <3>2, <3>3, <3>4, <3>5, <2>1, <2>3
  <2> QED BY <2>1, <2>2, <2>5 DEF ListedLine
<1>15. ASSUME view' \in NodeType, events' = events \/ events' = events \o Heard(view')
       PROVE  \A q, n, r : Coming(n, q, events, top, r) => Coming(n, q, events', top, r)
  <2>1. Heard(view') \in Seq(EventType)
    BY <1>15, HeardFacts
  <2> QED BY <2>1, <1>0, <1>15, ComingEvents
<1>16. CASE IssueWrite
  <2>1. requests # <<>> /\ requests' = Tail(requests) /\ view' \in NodeType /\ Head(requests).kind = "put"
        /\ (events' = events \/ events' = events \o Heard(view')) /\ Served(view, requests, view')
    BY <1>16, IssueWriteFacts DEF Served, IssueWrite
  <2>2. UNCHANGED <<top, reviews>> /\ Running
    BY <1>16 DEF IssueWrite, stack, table
  <2>3. ASSUME NEW r \in Mine, Some(view', requests', End(requests'), r)
        PROVE  r \in Elements(reviews[top]) \/ Coming(view', requests', events', top, r)
    <3>1. Some(view, requests, End(requests), r)
      <4>1. \A k \in Nat \ {0} : Some(view', Tail(requests), k, r) <=> Some(view, requests, k + 1, r)
        BY <2>1, <1>0, SomeServed
      <4> QED BY <4>1, <2>1, <2>3, <1>0, EndServed
    <3>2. r \in Elements(reviews[top]) \/ Coming(view, requests, events, top, r)
      BY <3>1, <2>2, <1>1, <1>2 DEF ListedLine
    <3>3. Coming(view, requests, events, top, r) => Coming(view', Tail(requests), events, top, r)
      BY <2>1, <1>0, ComingServed
    <3>4. Coming(view', Tail(requests), events, top, r) => Coming(view', Tail(requests), events', top, r)
      BY <2>1, <1>15
    <3> QED BY <3>2, <3>3, <3>4, <2>1
  <2> QED BY <2>2, <2>3 DEF ListedLine
<1>17. CASE RemoteArrives
  <2>1. /\ Head(remote) \in PutType(Theirs) /\ view' = Applied(view, Head(remote)) /\ view' \in NodeType
        /\ (events' = events \/ events' = events \o Heard(view'))
    BY <1>17, RemoteArrivesFacts
  <2>2. UNCHANGED <<top, reviews, requests>> /\ Running
    BY <1>17 DEF RemoteArrives, stack, table
  <2>3. \A r \in Mine : \A k : Some(view', requests, k, r) <=> Some(view, requests, k, r)
    BY <2>1, <1>0, SomeRemote
  <2>4. ASSUME NEW r \in Mine, Some(view', requests, End(requests), r)
        PROVE  r \in Elements(reviews[top]) \/ Coming(view', requests, events', top, r)
    <3>1. r \in Elements(reviews[top]) \/ Coming(view, requests, events, top, r)
      BY <2>3, <2>4, <2>2, <1>1, <1>2 DEF ListedLine
    <3>2. Coming(view, requests, events, top, r) => Coming(view', requests, events, top, r)
      BY <2>3 DEF Coming
    <3> QED BY <3>1, <3>2, <2>1, <1>15
  <2> QED BY <2>2, <2>4 DEF ListedLine
<1>18. CASE RowDisplayed
  BY <1>2, <1>18 DEF RowDisplayed, Trap, Running
<1>19. CASE (\E r \in Theirs : RemoteSubmits(r)) \/ UNCHANGED vars
  <2>1. UNCHANGED <<view, top, requests, events, reviews, trap>>
    BY <1>19 DEF RemoteSubmits, vars, queues, stack, node, table
  <2> QED BY <2>1, <1>1, <1>2 DEF Running
<1> QED BY <1>4, <1>5, <1>6, <1>7, <1>9, <1>10, <1>11, <1>12, <1>13, <1>14, <1>16, <1>17, <1>18, <1>19 DEF Next

------------------------
(* An item that exists goes on to exist. *)

\* The node of a step exists if it did before.
LEMMA ViewExists ==
  ASSUME ItemAssumption, Typed, [Next]_vars, Exists(view)
  PROVE  Exists(view')
<1>1. \/ view' = view
      \/ \E put \in PutType(Mine) : view' = Applied(view, put)
      \/ \E put \in PutType(Theirs) : view' = Applied(view, put)
  <2>1. LineMoves
    BY EveryStepMoves
  <2>2. ASSUME requests # <<>>, Served(view, requests, view')
        PROVE  view' = view \/ \E put \in PutType(Mine) : view' = Applied(view, put)
    BY <2>2, HeadsAreTyped, KindsOfRequests DEF Served
  <2>3. CASE OpenItem \/ SubmitPressed \/ FormAnswered \/ CountAnswered
    BY <2>3 DEF OpenItem, SubmitPressed, FormAnswered, CountAnswered, Callback, node
  <2> QED BY <2>1, <2>2, <2>3 DEF LineMoves
<1>2. view \in NodeType /\ Mine \in SUBSET Reviews /\ Theirs \in SUBSET Reviews
  BY ReviewsFacts DEF Typed
<1>3. \A put \in PutType(Mine) : Exists(Applied(view, put))
  BY <1>2, AppliedExists
<1>4. \A put \in PutType(Theirs) : Exists(Applied(view, put))
  BY <1>2, AppliedExists
<1> QED BY <1>1, <1>3, <1>4

ExistLine(n, e) ==
  \A i \in DOMAIN e : e[i].kind # "append" /\ Exists(e[i].snap) =>
    /\ Exists(n)
    /\ \A j \in DOMAIN e : j > i /\ e[j].kind # "append" => Exists(e[j].snap)

LEMMA ExistLineTail ==
  ASSUME NEW T, NEW n, NEW e \in Seq(T), e # <<>>, ExistLine(n, e)
  PROVE  /\ ExistLine(n, Tail(e))
         /\ Head(e).kind # "append" /\ Exists(Head(e).snap) =>
              /\ Exists(n)
              /\ \A i \in DOMAIN Tail(e) : Tail(e)[i].kind # "append" => Exists(Tail(e)[i].snap)
<1> DEFINE t == Tail(e)
<1>1. /\ \A i \in DOMAIN t : i \in Nat /\ i + 1 \in DOMAIN e /\ t[i] = e[i + 1] /\ i + 1 > 1
      /\ 1 \in DOMAIN e /\ Head(e) = e[1]
  BY TailFacts
<1> HIDE DEF t
<1>2. \A i, j \in DOMAIN t : j > i => j + 1 > i + 1
  BY <1>1
<1> QED BY <1>1, <1>2 DEF ExistLine, t

LEMMA ExistLineCat ==
  ASSUME NEW T, NEW n, NEW e \in Seq(T), NEW s \in Seq(T), ExistLine(n, e),
         \A i \in DOMAIN s : s[i].kind # "append" => (Exists(s[i].snap) <=> Exists(n))
  PROVE  ExistLine(n, e \o s)
<1> DEFINE t == e \o s
<1>1. /\ \A i \in DOMAIN e : t[i] = e[i]
      /\ \A i \in DOMAIN t : i \notin DOMAIN e => i - Len(e) \in DOMAIN s /\ t[i] = s[i - Len(e)]
  BY CatFacts
<1> HIDE DEF t
<1>2. \A i \in DOMAIN t : \/ i \in DOMAIN e /\ t[i] = e[i]
                          \/ t[i].kind # "append" => (Exists(t[i].snap) <=> Exists(n))
  BY <1>1
<1> HIDE DEF Exists
<1> QED BY <1>2 DEF ExistLine, t

LEMMA ExistStep ==
  ASSUME ItemAssumption, Typed, ExistInv, [Next]_vars
  PROVE  ExistInv'
<1>0. events \in Seq(EventType) /\ view \in NodeType
  BY DEF Typed
<1>1. ExistLine(view, events)
  BY DEF ExistInv, ExistLine
<1>2. Exists(view) => Exists(view')
  BY ViewExists
<1>3. SUFFICES ExistLine(view', events')
  BY DEF ExistInv, ExistLine
<1>4. \A e : ExistLine(view, e) => ExistLine(view', e)
  <2> HIDE DEF Exists
  <2> QED BY <1>2 DEF ExistLine
<1>5. EventsMove
  BY EveryStepMoves
<1>6. CASE events' = events
  BY <1>1, <1>4, <1>6
<1>7. CASE events # <<>> /\ events' = Tail(events)
  <2>1. ExistLine(view, Tail(events))
    BY <1>0, <1>1, <1>7, ExistLineTail
  <2> QED BY <2>1, <1>4, <1>7
<1>8. ASSUME NEW x \in AppendType, events' = Append(events, x) PROVE ExistLine(view', events')
  <2>1. x \in EventType /\ x.kind = "append"
    BY DEF AppendType, EventType
  <2>2. Append(events, x) = events \o <<x>> /\ <<x>> \in Seq(EventType) /\ \A i \in DOMAIN <<x>> : <<x>>[i] = x
    BY <2>1, <1>0, AppendIsCat
  <2>3. ExistLine(view, events \o <<x>>)
    BY <2>1, <2>2, <1>0, <1>1, ExistLineCat
  <2> QED BY <2>2, <2>3, <1>4, <1>8
<1>9. CASE /\ requests # <<>> /\ events' = Append(events, Answer(Head(requests)))
           /\ Answer(Head(requests)) \in SnapType
  <2> DEFINE x == Answer(Head(requests))
  <2>1. x \in EventType /\ x.snap = view
    BY <1>9 DEF EventType, Answer
  <2> HIDE DEF x
  <2>2. Append(events, x) = events \o <<x>> /\ <<x>> \in Seq(EventType) /\ \A i \in DOMAIN <<x>> : <<x>>[i] = x
    BY <2>1, <1>0, AppendIsCat
  <2>3. ExistLine(view, events \o <<x>>)
    BY <2>1, <2>2, <1>0, <1>1, ExistLineCat
  <2> QED BY <2>2, <2>3, <1>4, <1>9 DEF x
<1>10. CASE view' \in NodeType /\ events' = events \o Heard(view')
  <2> DEFINE h == Heard(view')
  <2>1. h \in Seq(EventType) /\ \A i \in DOMAIN h : h[i].snap = view'
    <3>1. /\ h \in Seq(EventType) /\ DOMAIN h = 1..listening
          /\ \A k \in 1..listening : h[k] = [kind |-> "value", of |-> k, snap |-> view']
      BY <1>10, HeardFacts
    <3> HIDE DEF h
    <3> QED BY <3>1
  <2> HIDE DEF h
  <2> DEFINE t == events \o h
  <2>2. \A i \in DOMAIN t : \/ i \in DOMAIN events /\ t[i] = events[i]
                            \/ t[i].snap = view'
    <3>1. /\ \A i \in DOMAIN events : t[i] = events[i]
          /\ \A i \in DOMAIN t : i \notin DOMAIN events => i - Len(events) \in DOMAIN h /\ t[i] = h[i - Len(events)]
      BY <1>0, <2>1, CatFacts
    <3> HIDE DEF t
    <3> QED BY <2>1, <3>1
  <2>3. events' = t
    BY <1>10 DEF h
  <2> HIDE DEF t
  <2>4. ExistLine(view', t)
    <3> HIDE DEF Exists
    <3>1. ASSUME NEW i \in DOMAIN t, t[i].kind # "append", Exists(t[i].snap)
          PROVE  Exists(view') /\ \A j \in DOMAIN t : j > i /\ t[j].kind # "append" => Exists(t[j].snap)
      <4>1. Exists(view') BY <1>1, <1>2, <2>2, <3>1 DEF ExistLine
      <4>2. ASSUME NEW j \in DOMAIN t, j > i, t[j].kind # "append" PROVE Exists(t[j].snap)
        <5>1. CASE t[j].snap = view'
          BY <4>1, <5>1
        <5>2. CASE j \in DOMAIN events /\ t[j] = events[j]
          <6>1. CASE i \in DOMAIN events /\ t[i] = events[i]
            BY <6>1, <5>2, <4>2, <3>1, <1>1 DEF ExistLine
          <6>2. CASE i \notin DOMAIN events
            <7>1. DOMAIN events = 1 .. Len(events) /\ Len(events) \in Nat /\ i \in Nat /\ i >= 1
              <8>1. t \in Seq(EventType) BY <1>0, <2>1, CatFacts DEF t
              <8> QED BY <1>0, <8>1
            <7> QED BY <7>1, <6>2, <5>2, <4>2
          <6>3. i \in DOMAIN events => t[i] = events[i]
            BY <1>0, <2>1, CatFacts DEF t
          <6> QED BY <6>1, <6>2, <6>3
        <5> QED BY <5>1, <5>2, <2>2
      <4> QED BY <4>1, <4>2
    <3> QED BY <3>1 DEF ExistLine
  <2> QED BY <2>3, <2>4
<1> QED BY <1>5, <1>6, <1>7, <1>8, <1>9, <1>10 DEF EventsMove
\* The number in a label.
LEMMA ShownStep ==
  ASSUME ItemAssumption, Typed, FormInv, ExistInv, ShownInv, [Next]_vars
  PROVE  ShownInv'
<1>0. events \in Seq(EventType) /\ view \in NodeType
      /\ numberOfReviews \in [Screens -> Nat] /\ firstReview \in [Screens -> BOOLEAN]
  BY DEF Typed
<1>1. Exists(view) => Exists(view')
  BY ViewExists
<1> HIDE DEF Exists
<1> DEFINE Seen(n, e) == Exists(n) /\ \A i \in DOMAIN e : e[i].kind # "append" => Exists(e[i].snap)
<1>2. Seen(view, events) => Seen(view', events')
  <2> SUFFICES ASSUME Seen(view, events) PROVE Seen(view', events') OBVIOUS
  <2> DEFINE W == {x \in EventType : x.kind # "append" => Exists(x.snap)}
  <2>1. \A i \in DOMAIN events : events[i] \in W
    BY <1>0, SeqOut
  <2>2. events \in Seq(W) /\ Exists(view')
    BY <2>1, <1>0, <1>1, SeqIn
  <2>3. events' \in Seq(W)
    <3>1. EventsMove BY EveryStepMoves
    <3>2. CASE events # <<>> /\ events' = Tail(events)
      BY <3>2, <2>2, TailFacts
    <3>3. ASSUME NEW x \in AppendType, events' = Append(events, x) PROVE events' \in Seq(W)
      <4>1. x \in W BY DEF AppendType, EventType
      <4> QED BY <4>1, <3>3, <2>2, AppendFacts
    <3>4. CASE /\ requests # <<>> /\ events' = Append(events, Answer(Head(requests)))
               /\ Answer(Head(requests)) \in SnapType
      <4> DEFINE x == Answer(Head(requests))
      <4>1. x \in EventType /\ x.snap = view
        BY <3>4 DEF EventType, Answer
      <4> HIDE DEF x
      <4>2. x \in W BY <4>1
      <4> QED BY <4>2, <3>4, <2>2, AppendFacts DEF x
    <3>5. CASE view' \in NodeType /\ events' = events \o Heard(view')
      <4> DEFINE h == Heard(view')
      <4>1. h \in Seq(EventType) /\ \A i \in DOMAIN h : h[i].snap = view'
        <5>1. /\ h \in Seq(EventType) /\ DOMAIN h = 1..listening
              /\ \A k \in 1..listening : h[k] = [kind |-> "value", of |-> k, snap |-> view']
          BY <3>5, HeardFacts
        <5> HIDE DEF h
        <5> QED BY <5>1
      <4> HIDE DEF h
      <4>2. \A i \in DOMAIN h : h[i] \in W
        <5>1. \A i \in DOMAIN h : h[i] \in EventType BY <4>1, SeqOut
        <5> QED BY <5>1, <4>1, <2>2
      <4>3. h \in Seq(W) BY <4>1, <4>2, SeqIn
      <4> HIDE DEF W
      <4> QED BY <4>3, <3>5, <2>2, CatFacts DEF h
    <3> HIDE DEF W
    <3> QED BY <3>1, <3>2, <3>3, <3>4, <3>5, <2>2 DEF EventsMove
  <2>4. \A i \in DOMAIN events' : events'[i] \in W
    <3> HIDE DEF W
    <3> QED BY <2>3, SeqOut
  <2> QED BY <2>2, <2>4
\* An event that shows an item that exists is handled.
<1>3. ASSUME events # <<>>, Head(events).kind # "append", Exists(Head(events).snap), events' = Tail(events),
             view' = view
      PROVE  Seen(view', events')
  <2>1. ExistLine(view, events)
    BY DEF ExistInv, ExistLine
  <2> QED BY <2>1, <1>3, <1>0, ExistLineTail
<1> HIDE DEF Seen
<1>4. \A k \in Screens : ~firstReview[k] /\ numberOfReviews[k] # 0 => Seen(view, events)
  BY DEF ShownInv, Seen
<1>5. SUFFICES ASSUME NEW k \in Screens, ~firstReview'[k], numberOfReviews'[k] # 0 PROVE Seen(view', events')
  BY DEF ShownInv, Seen
<1>6. CASE UNCHANGED <<firstReview, numberOfReviews>>
  BY <1>2, <1>4, <1>5, <1>6
<1>7. CASE ListenerFired
  <2>1. /\ events # <<>> /\ events' = Tail(events) /\ Head(events).kind = "value" /\ view' = view
        /\ firstReview' = firstReview
    BY <1>7 DEF ListenerFired, Callback, node
  <2>2. CASE Exists(Head(events).snap)
    BY <2>1, <2>2, <1>3
  <2>3. CASE ~Exists(Head(events).snap)
    <3>1. numberOfReviews' = [numberOfReviews EXCEPT ![Head(events).of] = @]
      BY <1>7, <2>3 DEF ListenerFired
    <3>2. numberOfReviews'[k] = numberOfReviews[k] BY <3>1, <1>0
    <3> QED BY <2>1, <3>2, <1>2, <1>4, <1>5
  <2> QED BY <2>2, <2>3
<1>8. CASE FormAnswered
  <2>1. /\ events # <<>> /\ events' = Tail(events) /\ Head(events).kind = "item" /\ view' = view
    BY <1>8 DEF FormAnswered, Callback, node
  <2>2. CASE Exists(Head(events).snap)
    BY <2>1, <2>2, <1>3
  <2>3. CASE ~Exists(Head(events).snap)
    <3>1. firstReview' = [firstReview EXCEPT ![top] = TRUE]
          /\ numberOfReviews' = [numberOfReviews EXCEPT ![top] = 1]
      BY <1>8, <2>3 DEF FormAnswered, Unwind
    <3>2. k # top BY <3>1, <1>0, <1>5
    <3>3. firstReview'[k] = firstReview[k] /\ numberOfReviews'[k] = numberOfReviews[k]
      BY <3>1, <3>2, <1>0
    <3> QED BY <3>3, <1>2, <1>4, <1>5
  <2> QED BY <2>2, <2>3
<1> QED
  BY <1>6, <1>7, <1>8 DEF Next, OpenItem, Back, RateItem, SubmitPressed, RowDisplayed, CountAnswered,
     ReviewsAnswered, ImagesAnswered, ImageAppended, DownloadFinished, UploadFinished, ServeRead,
     IssueWrite, RemoteArrives, RemoteSubmits, labels, vars

------------------------
(* The first review's screen. *)

LEMMA HalfServed ==
  ASSUME ItemAssumption, NEW n \in NodeType, NEW q \in Seq(RequestType), q # <<>>, NEW m, Served(n, q, m)
  PROVE  /\ \A k \in Nat \ {0} : HalfAt(m, Tail(q), k) <=> HalfAt(n, q, k + 1)
         /\ \A k \in Nat \ {0} : HalfFrom(m, Tail(q), k) => HalfFrom(n, q, k + 1)
         /\ n.average => m.average
<1> DEFINE t == Tail(q)
<1>1. /\ \A i \in DOMAIN t : i \in Nat /\ i >= 1 /\ i + 1 \in DOMAIN q /\ t[i] = q[i + 1]
      /\ \A i \in DOMAIN q : i \in Nat /\ (i # 1 => i - 1 \in DOMAIN t /\ q[i] = t[i - 1])
      /\ Head(q) = q[1] /\ 1 \in DOMAIN q /\ q[1] \in RequestType
  BY TailFacts
<1>a. End(t) \in Nat \ {0} /\ End(t) + 1 = End(q)
  BY EndServed
<1> HIDE DEF t
<1>2. ASSUME q[1].kind = "put"
      PROVE  /\ q[1].what # "average" => Exists(m) /\ (m.average <=> n.average)
             /\ q[1].what = "average" => m.average
             /\ n.average => m.average
  <2> DEFINE put == q[1]
  <2>1. put \in PutType(Mine) /\ Mine \in SUBSET Reviews /\ m = Applied(n, put)
    BY <1>1, <1>2, KindsOfRequests, ReviewsFacts DEF Served
  <2> HIDE DEF put
  <2>2. Applied(n, put).average = (n.average \/ put.what = "average")
    BY <2>1, AppliedFacts
  <2>3. put.what # "average" => Exists(Applied(n, put))
    BY <2>1, AppliedExists
  <2>4. n.average \in BOOLEAN
    BY DEF NodeType
  <2> HIDE DEF Exists
  <2> QED BY <2>1, <2>2, <2>3, <2>4 DEF put
<1>3. q[1].kind # "put" => m = n
  BY <1>1 DEF Served
<1>4. ASSUME NEW k \in Nat \ {0} PROVE HalfAt(m, t, k) <=> HalfAt(n, q, k + 1)
  <2> DEFINE A == \E j \in DOMAIN t : j < k /\ t[j].kind = "put"
             B == \A j \in DOMAIN t : j < k /\ t[j].kind = "put" => t[j].what # "average"
  <2>1. (\E j \in DOMAIN q : j < k + 1 /\ q[j].kind = "put") <=> q[1].kind = "put" \/ A
    <3>1. ASSUME NEW j \in DOMAIN q, j < k + 1, q[j].kind = "put" PROVE q[1].kind = "put" \/ A
      <4>1. CASE j # 1
        <5>1. j - 1 \in DOMAIN t /\ t[j - 1] = q[j] /\ j - 1 < k
          BY <4>1, <3>1, <1>1
        <5> QED BY <5>1, <3>1
      <4> QED BY <4>1, <3>1
    <3>2. ASSUME NEW j \in DOMAIN t, j < k, t[j].kind = "put" PROVE \E i \in DOMAIN q : i < k + 1 /\ q[i].kind = "put"
      <4>1. j + 1 \in DOMAIN q /\ j + 1 < k + 1 /\ q[j + 1].kind = "put"
        BY <3>2, <1>1
      <4> QED BY <4>1
    <3>3. 1 < k + 1 OBVIOUS
    <3> QED BY <3>1, <3>2, <3>3, <1>1
  <2>2. (\A j \in DOMAIN q : j < k + 1 /\ q[j].kind = "put" => q[j].what # "average")
          <=> (q[1].kind = "put" => q[1].what # "average") /\ B
    <3>1. ASSUME B, q[1].kind = "put" => q[1].what # "average", NEW j \in DOMAIN q, j < k + 1, q[j].kind = "put"
          PROVE  q[j].what # "average"
      <4>1. CASE j # 1
        <5>1. j - 1 \in DOMAIN t /\ t[j - 1] = q[j] /\ j - 1 < k
          BY <4>1, <3>1, <1>1
        <5> QED BY <5>1, <3>1
      <4> QED BY <4>1, <3>1
    <3>2. ASSUME \A j \in DOMAIN q : j < k + 1 /\ q[j].kind = "put" => q[j].what # "average",
                 NEW j \in DOMAIN t, j < k, t[j].kind = "put"
          PROVE  t[j].what # "average"
      <4>1. j + 1 \in DOMAIN q /\ j + 1 < k + 1 /\ q[j + 1] = t[j]
        BY <3>2, <1>1
      <4> QED BY <4>1, <3>2
    <3>3. 1 < k + 1 OBVIOUS
    <3> QED BY <3>1, <3>2, <3>3, <1>1
  <2>3. HalfAt(n, q, k + 1) <=> /\ Exists(n) \/ q[1].kind = "put" \/ A
                                /\ ~n.average
                                /\ (q[1].kind = "put" => q[1].what # "average") /\ B
    BY <2>1, <2>2 DEF HalfAt
  <2>4. HalfAt(m, t, k) <=> (Exists(m) \/ A) /\ ~m.average /\ B
    BY DEF HalfAt
  <2> HIDE DEF A, B, Exists
  <2> QED BY <2>3, <2>4, <1>2, <1>3
<1>5. ASSUME NEW k \in Nat \ {0}, HalfFrom(m, t, k) PROVE HalfFrom(n, q, k + 1)
  <2>1. PICK j \in 1 .. End(t) : k <= j /\ HalfAt(m, t, j)
    BY <1>5 DEF HalfFrom
  <2>2. j \in Nat \ {0} /\ j + 1 \in 1 .. End(q) /\ k + 1 <= j + 1
    BY <2>1, <1>a
  <2>3. HalfAt(n, q, j + 1)
    BY <2>1, <2>2, <1>4
  <2> QED BY <2>2, <2>3 DEF HalfFrom
<1> QED BY <1>2, <1>3, <1>4, <1>5 DEF t

LEMMA HalfCat ==
  ASSUME ItemAssumption, NEW n, NEW q \in Seq(RequestType), NEW s \in Seq(RequestType)
  PROVE  /\ \A k \in Nat : k <= End(q) => (HalfAt(n, q \o s, k) <=> HalfAt(n, q, k))
         /\ \A k \in Nat \ {0} : HalfAt(n, q \o s, Len(q) + k) <=>
              /\ \/ Exists(n) \/ \E j \in DOMAIN q : q[j].kind = "put"
                 \/ \E j \in DOMAIN s : j < k /\ s[j].kind = "put"
              /\ ~n.average
              /\ \A j \in DOMAIN q : q[j].kind = "put" => q[j].what # "average"
              /\ \A j \in DOMAIN s : j < k /\ s[j].kind = "put" => s[j].what # "average"
         /\ HalfAt(n, q, End(q)) <=>
              /\ Exists(n) \/ \E j \in DOMAIN q : q[j].kind = "put"
              /\ ~n.average
              /\ \A j \in DOMAIN q : q[j].kind = "put" => q[j].what # "average"
<1> DEFINE t == q \o s
<1>1. /\ Len(q) \in Nat /\ Len(s) \in Nat
      /\ DOMAIN q = 1 .. Len(q) /\ DOMAIN s = 1 .. Len(s) /\ DOMAIN t = 1..Len(q) + Len(s)
      /\ \A i \in DOMAIN q : i \in DOMAIN t /\ t[i] = q[i]
      /\ \A i \in DOMAIN s : Len(q) + i \in DOMAIN t /\ t[Len(q) + i] = s[i]
      /\ \A i \in DOMAIN t : i \notin DOMAIN q => i - Len(q) \in DOMAIN s /\ t[i] = s[i - Len(q)]
  BY CatFacts
<1> HIDE DEF t
<1>2. ASSUME NEW k \in Nat, k <= End(q) PROVE HalfAt(n, t, k) <=> HalfAt(n, q, k)
  <2>1. \A i : i \in DOMAIN t /\ i < k <=> i \in DOMAIN q /\ i < k
    BY <1>1, <1>2 DEF End
  <2>2. \A i \in DOMAIN q : t[i] = q[i]
    BY <1>1
  <2> HIDE DEF Exists
  <2> QED BY <2>1, <2>2 DEF HalfAt
<1>3. ASSUME NEW k \in Nat \ {0}
      PROVE  \A i \in DOMAIN t : i < Len(q) + k <=> \/ i \in DOMAIN q
                                                    \/ i \notin DOMAIN q /\ i - Len(q) < k
  BY <1>1
<1>4. ASSUME NEW k \in Nat \ {0}
      PROVE  /\ (\E i \in DOMAIN t : i < Len(q) + k /\ t[i].kind = "put") <=>
                  \/ \E j \in DOMAIN q : q[j].kind = "put"
                  \/ \E j \in DOMAIN s : j < k /\ s[j].kind = "put"
             /\ (\A i \in DOMAIN t : i < Len(q) + k /\ t[i].kind = "put" => t[i].what # "average") <=>
                  /\ \A j \in DOMAIN q : q[j].kind = "put" => q[j].what # "average"
                  /\ \A j \in DOMAIN s : j < k /\ s[j].kind = "put" => s[j].what # "average"
  <2>1. \A i \in DOMAIN t : i < Len(q) + k =>
          \/ i \in DOMAIN q /\ t[i] = q[i]
          \/ i - Len(q) \in DOMAIN s /\ i - Len(q) < k /\ t[i] = s[i - Len(q)]
    BY <1>1, <1>3
  <2>2. \A j \in DOMAIN q : j \in DOMAIN t /\ t[j] = q[j] /\ j < Len(q) + k
    BY <1>1
  <2>3. \A j \in DOMAIN s : j < k => Len(q) + j \in DOMAIN t /\ t[Len(q) + j] = s[j] /\ Len(q) + j < Len(q) + k
    BY <1>1
  <2>4. ASSUME NEW j \in DOMAIN s, j < k, s[j].kind = "put"
        PROVE  \E i \in DOMAIN t : i < Len(q) + k /\ t[i].kind = "put" /\ t[i] = s[j]
    BY <2>3, <2>4
  <2>5. ASSUME NEW j \in DOMAIN q, q[j].kind = "put"
        PROVE  \E i \in DOMAIN t : i < Len(q) + k /\ t[i].kind = "put" /\ t[i] = q[j]
    BY <2>2, <2>5
  <2>6. (\E i \in DOMAIN t : i < Len(q) + k /\ t[i].kind = "put") =>
                  \/ \E j \in DOMAIN q : q[j].kind = "put"
                  \/ \E j \in DOMAIN s : j < k /\ s[j].kind = "put"
    BY <2>1
  <2>7. (/\ \A j \in DOMAIN q : q[j].kind = "put" => q[j].what # "average"
         /\ \A j \in DOMAIN s : j < k /\ s[j].kind = "put" => s[j].what # "average")
        => (\A i \in DOMAIN t : i < Len(q) + k /\ t[i].kind = "put" => t[i].what # "average")
    BY <2>1
  <2>8. (\A i \in DOMAIN t : i < Len(q) + k /\ t[i].kind = "put" => t[i].what # "average") =>
         /\ \A j \in DOMAIN q : q[j].kind = "put" => q[j].what # "average"
         /\ \A j \in DOMAIN s : j < k /\ s[j].kind = "put" => s[j].what # "average"
    BY <2>2, <2>3
  <2> QED BY <2>4, <2>5, <2>6, <2>7, <2>8
<1>5. ASSUME NEW k \in Nat \ {0}
      PROVE  HalfAt(n, t, Len(q) + k) <=>
              /\ \/ Exists(n) \/ \E j \in DOMAIN q : q[j].kind = "put"
                 \/ \E j \in DOMAIN s : j < k /\ s[j].kind = "put"
              /\ ~n.average
              /\ \A j \in DOMAIN q : q[j].kind = "put" => q[j].what # "average"
              /\ \A j \in DOMAIN s : j < k /\ s[j].kind = "put" => s[j].what # "average"
  <2> HIDE DEF Exists
  <2>1. HalfAt(n, t, Len(q) + k) <=>
          /\ Exists(n) \/ \E j \in DOMAIN t : j < Len(q) + k /\ t[j].kind = "put"
          /\ ~n.average
          /\ \A j \in DOMAIN t : j < Len(q) + k /\ t[j].kind = "put" => t[j].what # "average"
    BY DEF HalfAt
  <2> QED BY <2>1, <1>4
<1>6. HalfAt(n, q, End(q)) <=>
              /\ Exists(n) \/ \E j \in DOMAIN q : q[j].kind = "put"
              /\ ~n.average
              /\ \A j \in DOMAIN q : q[j].kind = "put" => q[j].what # "average"
  <2>1. \A j \in DOMAIN q : j < End(q)
    BY <1>1 DEF End
  <2> HIDE DEF Exists
  <2> QED BY <2>1 DEF HalfAt
<1> QED BY <1>2, <1>5, <1>6 DEF t

LEMMA HalfAfter ==
  ASSUME ItemAssumption, NEW n, NEW q \in Seq(RequestType), NEW s \in Seq(RequestType), NEW k \in Nat \ {0},
         HalfAt(n, q \o s, Len(q) + k)
  PROVE  /\ ~n.average
         /\ \A j \in DOMAIN s : j < k /\ s[j].kind = "put" => s[j].what # "average"
<1> DEFINE t == q \o s
<1>1. \A i \in DOMAIN s : Len(q) + i \in DOMAIN t /\ t[Len(q) + i] = s[i] /\ i \in Nat
  BY CatFacts
<1>2. ~n.average /\ \A i \in DOMAIN t : i < Len(q) + k /\ t[i].kind = "put" => t[i].what # "average"
  BY DEF HalfAt
<1> HIDE DEF t
<1>3. \A j \in DOMAIN s : j < k => Len(q) + j < Len(q) + k
  BY <1>1
<1> QED BY <1>1, <1>2, <1>3

\* With an average there, nothing is half written.
LEMMA AverageIsWhole ==
  ASSUME NEW n, n.average
  PROVE  \A q, k : ~HalfAt(n, q, k) /\ ~HalfFrom(n, q, k)
BY DEF HalfAt, HalfFrom

\* Requests are added between which and after which nothing is half written.
LEMMA OursCat ==
  ASSUME ItemAssumption, NEW n, NEW q \in Seq(RequestType), NEW s \in Seq(RequestType), NEW e, NEW tp, NEW ls, NEW fr,
         OursLine(n, q, e, tp, ls, fr),
         \A j \in 1..Len(s) + 1 : ~HalfAt(n, q \o s, Len(q) + j),
         \A i \in DOMAIN s : s[i].kind = "count" => n.average
  PROVE  OursLine(n, q \o s, e, tp, ls, fr)
<1> DEFINE t == q \o s
<1>1. /\ Len(q) \in Nat /\ Len(s) \in Nat /\ Len(t) = Len(q) + Len(s)
      /\ DOMAIN q = 1 .. Len(q) /\ DOMAIN s = 1 .. Len(s) /\ DOMAIN t = 1..Len(q) + Len(s)
      /\ \A i \in DOMAIN q : i \in DOMAIN t /\ t[i] = q[i]
      /\ \A i \in DOMAIN t : i \notin DOMAIN q => i - Len(q) \in DOMAIN s /\ t[i] = s[i - Len(q)]
  BY CatFacts
<1>2. \A k \in Nat : k <= End(q) => (HalfAt(n, t, k) <=> HalfAt(n, q, k))
  BY HalfCat
<1> HIDE DEF t
<1>3. End(t) = Len(q) + Len(s) + 1 /\ End(q) = Len(q) + 1
  BY <1>1 DEF End
<1>4. \A j \in 1..End(t) : j > Len(q) => ~HalfAt(n, t, j)
  <2> SUFFICES ASSUME NEW j \in 1..End(t), j > Len(q) PROVE ~HalfAt(n, t, j) OBVIOUS
  <2>1. j - Len(q) \in 1 .. Len(s) + 1 /\ j = Len(q) + (j - Len(q))
    BY <1>1, <1>3
  <2> QED BY <2>1 DEF t
<1>5. \A k \in Nat : HalfFrom(n, t, k) => HalfFrom(n, q, k) /\ k <= Len(q)
  <2> SUFFICES ASSUME NEW k \in Nat, NEW j \in 1 .. End(t), k <= j, HalfAt(n, t, j) PROVE HalfFrom(n, q, k) /\ k <= Len(q)
    BY DEF HalfFrom
  <2>1. j <= Len(q)
    BY <1>4, <1>1
  <2>2. HalfAt(n, q, j) /\ j \in 1..End(q)
    BY <2>1, <1>1, <1>2, <1>3
  <2> QED BY <2>1, <2>2, <1>1 DEF HalfFrom
<1>6. ~HalfAt(n, t, End(t))
  <2>1. End(t) \in 1 .. End(t) /\ End(t) > Len(q)
    BY <1>1, <1>3
  <2> QED BY <2>1, <1>4
<1>7. ASSUME NEW i \in DOMAIN t, t[i].kind \in {"item", "value"} PROVE ~HalfFrom(n, t, i)
  <2>1. CASE i \in DOMAIN q
    <3>1. t[i] = q[i] /\ i \in Nat
      BY <2>1, <1>1
    <3>2. ~HalfFrom(n, q, i) BY <2>1, <3>1, <1>7 DEF OursLine
    <3> QED BY <3>1, <3>2, <1>5
  <2>2. CASE i \notin DOMAIN q
    <3>1. i \in Nat /\ ~(i <= Len(q))
      BY <2>2, <1>1
    <3> QED BY <3>1, <1>5
  <2> QED BY <2>1, <2>2
<1>8. ASSUME NEW i \in DOMAIN t, t[i].kind = "count" PROVE n.average
  <2>1. \/ i \in DOMAIN q /\ t[i] = q[i]
        \/ i - Len(q) \in DOMAIN s /\ t[i] = s[i - Len(q)]
    BY <1>1
  <2> QED BY <2>1, <1>8 DEF OursLine
<1>9. HalfFrom(n, t, 1) => HalfFrom(n, q, 1)
  BY <1>5
<1> HIDE DEF HalfFrom, HalfAt, Half
<1>10. OursLine(n, q, e, tp, ls, fr) OBVIOUS
<1> QED BY <1>6, <1>7, <1>8, <1>9, <1>10 DEF OursLine, t

\* Events that are no answers are handled or added.
LEMMA OursEvents ==
  ASSUME NEW T, NEW e \in Seq(T), NEW n, NEW q, NEW tp, NEW ls, NEW fr, OursLine(n, q, e, tp, ls, fr)
  PROVE  /\ e # <<>> => OursLine(n, q, Tail(e), tp, ls, fr)
         /\ \A s \in Seq(T) : (\A i \in DOMAIN s : s[i].kind = "append") => OursLine(n, q, e \o s, tp, ls, fr)
<1> HIDE DEF HalfFrom, HalfAt, Half
<1>1. ASSUME e # <<>> PROVE OursLine(n, q, Tail(e), tp, ls, fr)
  <2> DEFINE t == Tail(e)
  <2>1. /\ \A i \in DOMAIN t : i \in Nat /\ i + 1 \in DOMAIN e /\ t[i] = e[i + 1]
    BY <1>1, TailFacts
  <2> HIDE DEF t
  <2>2. \A i, j \in DOMAIN t : j >= i => j + 1 >= i + 1
    BY <2>1
  <2>3. \A i \in DOMAIN t : i + 1 \in DOMAIN e /\ t[i] = e[i + 1]
    BY <2>1
  <2> QED BY <2>2, <2>3 DEF OursLine, t
<1>2. ASSUME NEW s \in Seq(T), \A i \in DOMAIN s : s[i].kind = "append" PROVE OursLine(n, q, e \o s, tp, ls, fr)
  <2> DEFINE t == e \o s
  <2>1. \A i \in DOMAIN t : \/ i \in DOMAIN e /\ t[i] = e[i]
                            \/ t[i].kind = "append"
    <3>1. /\ \A i \in DOMAIN e : t[i] = e[i]
          /\ \A i \in DOMAIN t : i \notin DOMAIN e => i - Len(e) \in DOMAIN s /\ t[i] = s[i - Len(e)]
      BY CatFacts
    <3> HIDE DEF t
    <3> QED BY <1>2, <3>1
  <2> HIDE DEF t
  <2>2. \A i \in DOMAIN t : t[i].kind # "append" => i \in DOMAIN e /\ t[i] = e[i]
    BY <2>1
  <2> QED BY <2>2 DEF OursLine, t, IsValue
<1> QED BY <1>1, <1>2

\* The head of the line is served, and what is told of it shows the node it leads to.
LEMMA OursServed ==
  ASSUME ItemAssumption, NEW n \in NodeType, NEW q \in Seq(RequestType), q # <<>>, NEW m, Served(n, q, m),
         NEW e \in Seq(EventType), NEW s \in Seq(EventType), NEW tp, NEW ls, NEW ls2, NEW fr,
         OursLine(n, q, e, tp, ls, fr),
         \A i \in DOMAIN s : /\ s[i].snap = m
                             /\ s[i].kind \in {"item", "count"} => Head(q).kind = s[i].kind
                             /\ IsValue(s[i], tp) => \/ Head(q).kind = "value"
                                                     \/ tp # 0 /\ ~(tp > ls),
         ls2 = ls \/ Head(q).kind = "value"
  PROVE  OursLine(m, Tail(q), e \o s, tp, ls2, fr)
<1> DEFINE t == Tail(q)
           u == e \o s
<1>1. /\ \A i \in DOMAIN t : i \in Nat /\ i >= 1 /\ i + 1 \in DOMAIN q /\ t[i] = q[i + 1]
      /\ Head(q) = q[1] /\ 1 \in DOMAIN q
  BY TailFacts
<1>2. End(t) \in Nat \ {0} /\ End(t) + 1 = End(q)
  BY EndServed
<1>3. /\ \A k \in Nat \ {0} : HalfAt(m, t, k) <=> HalfAt(n, q, k + 1)
      /\ \A k \in Nat \ {0} : HalfFrom(m, t, k) => HalfFrom(n, q, k + 1)
      /\ n.average => m.average
  BY HalfServed
<1>4. \A i \in DOMAIN u : \/ i \in DOMAIN e /\ u[i] = e[i]
                          \/ i \notin DOMAIN e /\ i - Len(e) \in DOMAIN s /\ u[i] = s[i - Len(e)]
  BY CatFacts
<1> HIDE DEF t, u
<1>5. HalfFrom(m, t, 1) => HalfFrom(n, q, 1)
  <2>1. HalfFrom(n, q, 2) => HalfFrom(n, q, 1)
    BY DEF HalfFrom
  <2> QED BY <2>1, <1>3
\* What is shown half written was about to be.
<1>6. Half(m) => HalfFrom(n, q, 1)
  <2> SUFFICES ASSUME Half(m) PROVE HalfFrom(n, q, 1) OBVIOUS
  <2>1. HalfAt(m, t, 1)
    <3>1. \A j \in DOMAIN t : ~(j < 1) BY <1>1
    <3> HIDE DEF Exists
    <3> QED BY <3>1 DEF HalfAt, Half
  <2>2. HalfAt(n, q, 2)
    BY <2>1, <1>3
  <2>3. 2 \in 1 .. End(q) /\ 1 <= 2
    BY <1>2
  <2> QED BY <2>2, <2>3 DEF HalfFrom
<1>7. Head(q).kind \in {"item", "value"} => ~HalfFrom(n, q, 1)
  BY <1>1 DEF OursLine
<1> HIDE DEF Half
<1>8. ~HalfAt(m, t, End(t))
  BY <1>2, <1>3 DEF OursLine
<1> HIDE DEF HalfAt
<1>9. \A i \in DOMAIN t : t[i].kind \in {"item", "value"} => ~HalfFrom(m, t, i)
  <2> SUFFICES ASSUME NEW i \in DOMAIN t, t[i].kind \in {"item", "value"}, HalfFrom(m, t, i) PROVE FALSE
    OBVIOUS
  <2>1. i \in Nat \ {0} /\ i + 1 \in DOMAIN q /\ t[i] = q[i + 1]
    BY <1>1
  <2>2. HalfFrom(n, q, i + 1)
    BY <2>1, <1>3
  <2> QED BY <2>1, <2>2 DEF OursLine
<1> HIDE DEF HalfFrom
<1>10. \A i \in DOMAIN t : t[i].kind = "count" => m.average
  BY <1>1, <1>3 DEF OursLine
<1>11. \A i \in DOMAIN u : u[i].kind = "count" => m.average
  <2>1. Head(q).kind = "count" => n.average
    BY <1>1 DEF OursLine
  <2> QED BY <2>1, <1>3, <1>4 DEF OursLine
<1>12. \A i \in DOMAIN u : IsValue(u[i], tp) /\ Half(u[i].snap) => fr
  <2> SUFFICES ASSUME NEW i \in DOMAIN u, IsValue(u[i], tp), Half(u[i].snap) PROVE fr
    OBVIOUS
  <2>1. CASE i \in DOMAIN e /\ u[i] = e[i]
    BY <2>1 DEF OursLine
  <2>2. CASE i - Len(e) \in DOMAIN s /\ u[i] = s[i - Len(e)]
    <3>1. HalfFrom(n, q, 1) BY <2>2, <1>6
    <3>2. tp # 0 /\ ~(tp > ls)
      BY <2>2, <3>1, <1>7
    <3> QED BY <3>1, <3>2 DEF OursLine
  <2> QED BY <2>1, <2>2, <1>4
<1>13. ASSUME NEW i \in DOMAIN u, u[i].kind = "item"
       PROVE  /\ ~HalfFrom(m, t, 1)
              /\ \A j \in DOMAIN u : j >= i /\ u[j].kind # "append" => ~Half(u[j].snap)
  <2>1. CASE i \in DOMAIN e /\ u[i] = e[i]
    <3>1. /\ ~HalfFrom(n, q, 1)
          /\ \A j \in DOMAIN e : j >= i /\ e[j].kind # "append" => ~Half(e[j].snap)
      BY <2>1, <1>13 DEF OursLine
    <3>2. ~Half(m) BY <3>1, <1>6
    <3> QED BY <3>1, <3>2, <1>4, <1>5
  <2>2. CASE i \notin DOMAIN e /\ i - Len(e) \in DOMAIN s /\ u[i] = s[i - Len(e)]
    <3>1. ~HalfFrom(n, q, 1) BY <2>2, <1>7, <1>13
    <3>2. ~Half(m) BY <3>1, <1>6
    <3>3. ASSUME NEW j \in DOMAIN u, j >= i PROVE j \notin DOMAIN e
      <4>1. i \in Nat /\ i >= 1 /\ j \in Nat
        <5>1. u \in Seq(EventType) BY CatFacts DEF u
        <5> QED BY <5>1
      <4>2. DOMAIN e = 1 .. Len(e) /\ Len(e) \in Nat OBVIOUS
      <4> QED BY <4>1, <4>2, <2>2, <3>3
    <3> QED BY <3>1, <3>2, <3>3, <1>4, <1>5
  <2> QED BY <2>1, <2>2, <1>4
<1>14. HalfFrom(m, t, 1) /\ tp # 0 => fr \/ tp > ls2
  <2>1. HalfFrom(n, q, 1) /\ tp # 0 => fr \/ tp > ls
    BY DEF OursLine
  <2> QED BY <2>1, <1>5, <1>7
<1> QED BY <1>8, <1>9, <1>10, <1>11, <1>12, <1>13, <1>14, Zenon DEF OursLine, t, u

\* A read is answered.
LEMMA OursAnswered ==
  ASSUME ItemAssumption, NEW n \in NodeType, NEW q \in Seq(RequestType), q # <<>>, Head(q).kind # "put",
         NEW e \in Seq(EventType), NEW s \in Seq(EventType), NEW tp, NEW ls, NEW ls2, NEW fr,
         OursLine(n, q, e, tp, ls, fr),
         \A i \in DOMAIN s : s[i].snap = n /\ s[i].kind = Head(q).kind,
         ls2 = ls \/ Head(q).kind = "value"
  PROVE  OursLine(n, Tail(q), e \o s, tp, ls2, fr)
<1>1. \A i \in DOMAIN s : /\ s[i].snap = n
                          /\ s[i].kind \in {"item", "count"} => Head(q).kind = s[i].kind
                          /\ IsValue(s[i], tp) => \/ Head(q).kind = "value"
                                                  \/ tp # 0 /\ ~(tp > ls)
  BY DEF IsValue
<1>2. \E m \in NodeType : m = n /\ Served(n, q, m)
  BY DEF Served
<1> HIDE DEF OursLine
<1> QED BY <1>1, <1>2, OursServed

\* What someone else has on the way is, or will be, a review.
RemoteInv ==
  remote # <<>> => \/ \E r \in Theirs : view.fields[r] # {}
                   \/ \E i \in DOMAIN remote : remote[i].what \in Fields

LEMMA ViewGrows ==
  ASSUME ItemAssumption, Typed, [Next]_vars
  PROVE  \A r \in Reviews : view.fields[r] \subseteq view'.fields[r]
<1>1. \/ view' = view
      \/ \E put \in PutType(Mine) : view' = Applied(view, put)
      \/ \E put \in PutType(Theirs) : view' = Applied(view, put)
  <2>1. LineMoves
    BY EveryStepMoves
  <2>2. ASSUME requests # <<>>, Served(view, requests, view')
        PROVE  view' = view \/ \E put \in PutType(Mine) : view' = Applied(view, put)
    BY <2>2, HeadsAreTyped, KindsOfRequests DEF Served
  <2>3. CASE OpenItem \/ SubmitPressed \/ FormAnswered \/ CountAnswered
    BY <2>3 DEF OpenItem, SubmitPressed, FormAnswered, CountAnswered, Callback, node
  <2> QED BY <2>1, <2>2, <2>3 DEF LineMoves
<1>2. view \in NodeType /\ Mine \in SUBSET Reviews /\ Theirs \in SUBSET Reviews
  BY ReviewsFacts DEF Typed
<1>3. \A put \in PutType(Mine) : \A r \in Reviews : view.fields[r] \subseteq Applied(view, put).fields[r]
  BY <1>2, AppliedFacts
<1>4. \A put \in PutType(Theirs) : \A r \in Reviews : view.fields[r] \subseteq Applied(view, put).fields[r]
  BY <1>2, AppliedFacts
<1> QED BY <1>1, <1>3, <1>4

LEMMA RemoteSubmitsSomething ==
  ASSUME ItemAssumption, Typed, NEW r \in Theirs, RemoteSubmits(r)
  PROVE  RemoteInv' /\ ~Ours'
<1> DEFINE w == ReviewWrites(r)
           a == << PutTotal("count", view.count + 1) >>
           b == << PutTotal("count", 1), PutTotal("average", 1) >>
<1>1. PICK url \in {<<>>, << PutField(r, "imageURL") >>} :
       remote' = (IF Exists(view) THEN w \o a ELSE b \o w) \o url
  BY DEF RemoteSubmits
<1>2. Theirs \in SUBSET Reviews
  BY ReviewsFacts
<1>3. /\ w \in Seq(PutType(Theirs)) /\ DOMAIN w = DOMAIN ReviewFields
      /\ \A i \in DOMAIN ReviewFields : w[i] = PutField(r, ReviewFields[i])
  BY <1>2, WritesAreRequests
<1>4. a \in Seq(PutType(Theirs)) /\ b \in Seq(PutType(Theirs)) /\ url \in Seq(PutType(Theirs))
  <2>1. view.count + 1 \in Nat \ {0}
    BY DEF Typed, NodeType
  <2>2. /\ PutTotal("count", 1) \in PutType(Theirs) /\ PutTotal("average", 1) \in PutType(Theirs)
        /\ PutTotal("count", view.count + 1) \in PutType(Theirs)
    BY <1>2, <2>1, PutsAreRequests
  <2>3. PutField(r, "imageURL") \in PutType(Theirs)
    BY <1>2, PutsAreRequests DEF AllFields
  <2>4. <<>> \in Seq(PutType(Theirs)) /\ << PutField(r, "imageURL") >> \in Seq(PutType(Theirs))
    BY <2>3
  <2>5. url \in Seq(PutType(Theirs))
    BY <1>1, <2>4
  <2> QED BY <2>2, <2>5
<1>5. PICK f \in DOMAIN w : w[f].what \in Fields
  <2>1. PICK i \in DOMAIN ReviewFields : ReviewFields[i] \in Fields
    BY FieldsFacts DEF Fields
  <2> QED BY <2>1, <1>3 DEF PutField
<1> HIDE DEF w, a, b
<1>6. \E i \in DOMAIN (w \o a) : (w \o a)[i].what \in Fields
  <2>1. f \in DOMAIN (w \o a) /\ (w \o a)[f] = w[f]
    BY <1>3, <1>4, CatFacts
  <2> QED BY <2>1, <1>5
<1>7. \E i \in DOMAIN (b \o w) : (b \o w)[i].what \in Fields
  <2>1. Len(b) + f \in DOMAIN (b \o w) /\ (b \o w)[Len(b) + f] = w[f]
    BY <1>3, <1>4, CatFacts
  <2> QED BY <2>1, <1>5
<1> DEFINE c == IF Exists(view) THEN w \o a ELSE b \o w
<1>8. c \in Seq(PutType(Theirs)) /\ \E i \in DOMAIN c : c[i].what \in Fields
  <2>1. w \o a \in Seq(PutType(Theirs)) /\ b \o w \in Seq(PutType(Theirs))
    BY <1>3, <1>4, CatFacts
  <2> QED BY <2>1, <1>6, <1>7
<1>9. remote' = c \o url
  BY <1>1
<1> HIDE DEF c
<1>10. PICK i \in DOMAIN c : c[i].what \in Fields
  BY <1>8
<1>11. i \in DOMAIN (c \o url) /\ (c \o url)[i] = c[i]
  BY <1>4, <1>8, CatFacts
<1>12. i \in DOMAIN remote' /\ remote'[i].what \in Fields
  BY <1>9, <1>10, <1>11
<1>13. remote' # <<>>
  BY <1>12
<1> QED BY <1>12, <1>13 DEF RemoteInv, Ours

LEMMA RemoteStep ==
  ASSUME ItemAssumption, Typed, RemoteInv, [Next]_vars
  PROVE  /\ RemoteInv'
         /\ Ours' => Ours /\ remote' = remote
<1>1. \A r \in Theirs : view.fields[r] \subseteq view'.fields[r]
  BY ViewGrows, ReviewsFacts
<1>2. CASE remote' = remote
  BY <1>1, <1>2 DEF RemoteInv, Ours
<1>3. CASE RemoteArrives
  <2> DEFINE put == Head(remote)
  <2>1. /\ remote # <<>> /\ put \in PutType(Theirs) /\ remote' = Tail(remote) /\ view' = Applied(view, put)
    BY <1>3, RemoteArrivesFacts
  <2>2. Head(remote) = remote[1] /\ \A i \in DOMAIN remote : i # 1 =>
          i - 1 \in DOMAIN Tail(remote) /\ remote[i] = Tail(remote)[i - 1]
    BY <2>1, TailFacts DEF Typed
  <2>3. ASSUME put.what \in Fields PROVE \E r \in Theirs : view'.fields[r] # {}
    <3>0. put.what \in AllFields /\ put.what # "count" /\ put.what # "average"
      BY <2>3, FieldsFacts DEF AllFields
    <3>1. put \in FieldPut(Theirs) BY <3>0, <2>1 DEF PutType, CountPut, AveragePut
    <3>2. put.to \in Theirs /\ IsField(put, put.what, put.to)
      BY <3>1 DEF FieldPut, IsField
    <3>3. view \in NodeType /\ Theirs \in SUBSET Reviews /\ put.to \in Reviews
      BY <3>2, ReviewsFacts DEF Typed
    <3> HIDE DEF put
    <3>4. put.what \in Applied(view, put).fields[put.to]
      BY <2>1, <3>0, <3>2, <3>3, AppliedFacts
    <3> QED BY <3>2, <3>4, <2>1
  <2>4. \/ \E r \in Theirs : view'.fields[r] # {}
        \/ \E i \in DOMAIN remote' : remote'[i].what \in Fields
    <3>1. CASE \E r \in Theirs : view.fields[r] # {}
      BY <3>1, <1>1
    <3>2. ASSUME NEW i \in DOMAIN remote, remote[i].what \in Fields, i # 1
          PROVE  \E j \in DOMAIN remote' : remote'[j].what \in Fields
      BY <3>2, <2>1, <2>2
    <3> QED BY <3>1, <3>2, <2>1, <2>2, <2>3 DEF RemoteInv
  <2>5. ~Ours'
    <3>1. remote' = <<>> => \A i \in DOMAIN remote' : FALSE OBVIOUS
    <3> QED BY <3>1, <2>4 DEF Ours
  <2> QED BY <2>4, <2>5 DEF RemoteInv
<1>4. \A r \in Theirs : RemoteSubmits(r) => RemoteInv' /\ ~Ours'
  BY RemoteSubmitsSomething
<1>5. remote' = remote \/ RemoteArrives \/ \E r \in Theirs : RemoteSubmits(r)
  BY DEF Next, OpenItem, Back, RateItem, SubmitPressed, RowDisplayed, FormAnswered, CountAnswered,
     ListenerFired, ReviewsAnswered, ImagesAnswered, ImageAppended, DownloadFinished, UploadFinished,
     ServeRead, IssueWrite, Callback, node, vars
<1> QED BY <1>2, <1>3, <1>4, <1>5

------------------------
LEMMA FirstStep ==
  ASSUME ItemAssumption, Typed, FormInv, ListenInv, WholeInv, ExistInv, FirstInv, [Next]_vars
  PROVE  FirstInv'
<1>a. RemoteInv' /\ (Ours' => Ours /\ remote' = remote)
  <2>1. RemoteInv
    BY DEF FirstInv, RemoteInv
  <2> QED BY <2>1, RemoteStep
<1>b. SUFFICES ASSUME Ours', Running' PROVE OursLine(view', requests', events', top', listening', Told')
  BY <1>a DEF FirstInv, RemoteInv, OursInv
<1>0. /\ view \in NodeType /\ requests \in Seq(RequestType) /\ events \in Seq(EventType)
      /\ listening \in Nat /\ opened \in Nat /\ top \in Nat /\ listening <= opened /\ top <= opened
      /\ firstReview \in [Screens -> BOOLEAN] /\ uploads \subseteq Mine
  BY ScreensFacts DEF Typed
<1>c. CASE UNCHANGED vars
  <2>1. OursLine(view, requests, events, top, listening, Told)
    BY <1>a, <1>b, <1>c DEF FirstInv, OursInv, vars, Running
  <2> QED BY <2>1, <1>c DEF vars, node, queues, stack, labels, Told
<1> USE <1>0
<1>1. OursLine(view, requests, events, top, listening, Told) /\ Ours /\ remote' = remote
  <2>1. Running
    BY <1>b DEF Next, OpenItem, Back, RateItem, SubmitPressed, RowDisplayed, FormAnswered, CountAnswered,
     ListenerFired, ReviewsAnswered, ImagesAnswered, ImageAppended, DownloadFinished, UploadFinished,
     ServeRead, IssueWrite, RemoteArrives, RemoteSubmits, Callback, vars, Running
  <2> QED BY <2>1, <1>a, <1>b DEF FirstInv, OursInv
\* A read is added.
<1>2. ASSUME NEW s \in Seq(RequestType), \A i \in DOMAIN s : s[i].kind \notin {"put", "count"}
      PROVE  OursLine(view, requests \o s, events, top, listening, Told)
  <2>1. \A j \in 1..Len(s) + 1 : ~HalfAt(view, requests \o s, Len(requests) + j)
    <3> SUFFICES ASSUME NEW j \in 1..Len(s) + 1, HalfAt(view, requests \o s, Len(requests) + j) PROVE FALSE
      OBVIOUS
    <3>1. j \in Nat \ {0} OBVIOUS
    <3>2. HalfAt(view, requests, End(requests))
      <4> HIDE DEF Exists
      <4> QED BY <3>1, <1>2, HalfCat
    <3> QED BY <3>2, <1>1 DEF OursLine
  <2> QED BY <2>1, <1>1, <1>2, OursCat
<1>3. CASE OpenItem
  <2> DEFINE s == << Read("images", top'), Read("value", top'), Read("reviews", top') >>
  <2>1. opened' = opened + 1 /\ top' = opened' /\ opened < MaxScreens /\ requests' = requests \o s
        /\ UNCHANGED <<view, events, listening, firstReview>>
    BY <1>3 DEF OpenItem, node, labels
  <2>2. top' \in Screens
    BY <2>1, ScreensFacts
  <2>3. /\ Read("images", top') \in RequestType /\ Read("value", top') \in RequestType
        /\ Read("reviews", top') \in RequestType
    BY <2>2, PutsAreRequests DEF Kinds
  <2>4. s \in Seq(RequestType) /\ \A i \in DOMAIN s : s[i].kind \notin {"put", "count"}
    <3>1. s \in Seq(RequestType) BY <2>3
    <3> QED BY <3>1 DEF Read
  <2> HIDE DEF s
  <2>5. OursLine(view, requests \o s, events, top, listening, Told)
    BY <2>4, <1>2
  <2>6. \A i \in DOMAIN events : ~IsValue(events[i], top')
    <3>1. \A i \in DOMAIN events : events[i].kind = "value" => events[i].of <= listening /\ events[i].of \in Nat
      <4>1. \A i \in DOMAIN events : events[i] \in EventType BY SeqOut
      <4> QED BY <4>1, KindsOfEvents, ScreensFacts DEF ListenInv
    <3> QED BY <3>1, <2>1 DEF IsValue
  <2>7. top' > listening
    BY <2>1
  <2> HIDE DEF HalfFrom, HalfAt, Half, IsValue
  <2> QED BY <2>1, <2>5, <2>6, <2>7 DEF OursLine
<1>4. CASE Back
  <2>1. top' = 0 /\ UNCHANGED <<view, requests, events, listening>>
    BY <1>4 DEF Back, node, queues
  <2>2. \A i \in DOMAIN events : ~IsValue(events[i], 0)
    <3>1. \A i \in DOMAIN events : events[i] \in EventType BY SeqOut
    <3> QED BY <3>1, KindsOfEvents, ScreensFacts DEF IsValue
  <2> HIDE DEF HalfFrom, HalfAt, Half, IsValue
  <2> QED BY <2>1, <2>2, <1>1 DEF OursLine
<1>5. CASE RateItem \/ RowDisplayed
  BY <1>1, <1>5 DEF RateItem, RowDisplayed, node, queues, stack, labels, Told
<1>6. CASE SubmitPressed
  <2> DEFINE x == Read("item", top)
  <2>1. x \in RequestType /\ x.kind \notin {"put", "count"}
    <3>1. top \in Screens BY <1>6, ScreensFacts DEF FormInv, SubmitPressed
    <3> QED BY <3>1, PutsAreRequests DEF Kinds, Read
  <2>2. requests' = Append(requests, x) /\ UNCHANGED <<view, events, listening, top, firstReview>>
    BY <1>6 DEF SubmitPressed, node, labels
  <2> HIDE DEF x
  <2>3. requests' = requests \o <<x>> /\ <<x>> \in Seq(RequestType) /\ \A i \in DOMAIN <<x>> : <<x>>[i] = x
    BY <2>1, <2>2, AppendIsCat
  <2>4. OursLine(view, requests \o <<x>>, events, top, listening, Told)
    BY <2>1, <2>3, <1>2
  <2> QED BY <2>2, <2>3, <2>4 DEF Told
\* An event is handled that adds no request.
<1>7. ASSUME events # <<>> PROVE OursLine(view, requests, Tail(events), top, listening, Told)
  BY <1>1, <1>7, OursEvents
<1>8. CASE ListenerFired \/ ReviewsAnswered \/ ImagesAnswered \/ ImageAppended
  <2>1. events # <<>> /\ events' = Tail(events) /\ UNCHANGED <<view, requests, listening, top, firstReview>>
    BY <1>8 DEF ListenerFired, ReviewsAnswered, ImagesAnswered, ImageAppended, Callback, node, labels
  <2> QED BY <2>1, <1>7 DEF Told
<1>9. CASE CountAnswered
  <2> DEFINE x == PutTotal("count", Head(events).snap.count + 1)
  <2>1. requests' = Append(requests, x) /\ events # <<>> /\ UNCHANGED <<view, listening, top, firstReview>>
        /\ Head(events).kind = "count" /\ events' = Tail(events)
    BY <1>9 DEF CountAnswered, Callback, node, labels
  <2>2. Head(events).snap.count \in Nat
    BY <2>1, HeadsAreTyped, KindsOfEvents DEF NodeType
  <2>3. x \in RequestType
    BY <2>2, PutsAreRequests, ReviewsFacts
  <2> HIDE DEF x
  <2>4. requests' = requests \o <<x>> /\ <<x>> \in Seq(RequestType)
    BY <2>1, <2>3, AppendIsCat
  <2>5. view.average
    <3>1. 1 \in DOMAIN events /\ events[1] = Head(events)
      BY <2>1, TailFacts
    <3> QED BY <3>1, <2>1, <1>1 DEF OursLine
  <2>6. \A j : ~HalfAt(view, requests \o <<x>>, j)
    BY <2>5, AverageIsWhole
  <2>7. OursLine(view, requests, Tail(events), top, listening, Told)
    BY <2>1, <1>7
  <2>8. OursLine(view, requests \o <<x>>, Tail(events), top, listening, Told)
    <3> HIDE DEF OursLine
    <3>1. \A j \in 1..Len(<<x>>) + 1 : ~HalfAt(view, requests \o <<x>>, Len(requests) + j)
      BY <2>6
    <3>2. \A i \in DOMAIN <<x>> : <<x>>[i].kind = "count" => view.average BY <2>5
    <3> QED BY <2>4, <2>7, <3>1, <3>2, OursCat
  <2> QED BY <2>1, <2>4, <2>8 DEF Told
<1>10. CASE FormAnswered
  <2>1. /\ events # <<>> /\ Head(events).kind = "item" /\ events' = Tail(events)
        /\ UNCHANGED <<view, listening, top>>
    BY <1>10 DEF FormAnswered, Callback, node
  <2>2. /\ 1 \in DOMAIN events /\ events[1] = Head(events)
        /\ \A i \in DOMAIN Tail(events) : i + 1 \in DOMAIN events /\ i + 1 > 1 /\ i + 1 >= 1 /\ Tail(events)[i] = events[i + 1]
    BY <2>1, TailFacts
  <2>3. /\ top # 0 /\ \A j \in DOMAIN requests : Quieter(requests[j])
        /\ \A j \in DOMAIN events : j > 1 => events[j].kind # "item"
    BY <2>1, <2>2 DEF FormInv
  <2>4. top \in Screens
    BY <2>3, ScreensFacts
  <2>5. PICK r \in Unwritten : LET first == ~Exists(Head(events).snap) IN
             first \in BOOLEAN /\ requests' = requests \o Answered(first, r)
             /\ firstReview' = [firstReview EXCEPT ![top] = first]
    BY <1>10, <2>3, FormAnsweredFacts
  <2> DEFINE first == ~Exists(Head(events).snap)
             s == Answered(first, r)
             t == Tail(events)
  <2>6. /\ r \in Mine /\ first \in BOOLEAN
        /\ Told' = first
    <3>1. Told' = (top # 0 /\ firstReview'[top])
      BY <2>1 DEF Told
    <3>2. firstReview'[top] = first BY <2>4, <2>5
    <3> QED BY <2>3, <2>5, <3>1, <3>2 DEF Unwritten
  <2>7. /\ s \in Seq(RequestType) /\ DOMAIN s = 1 .. Len(s) /\ Len(s) \in Nat
        /\ \A i \in DOMAIN s :
              \/ first /\ i = 1 /\ s[i] = PutTotal("count", 1)
              \/ first /\ i = 2 /\ s[i] = PutTotal("average", 1)
              \/ ~first /\ i = 1 /\ s[i] = Read("count", top)
              \/ \E f \in Fields : s[i] = PutField(r, f)
              \/ s[i] = Read("reviews", top)
        /\ first => Len(s) > 2 /\ s[2] = PutTotal("average", 1)
    BY <2>4, <2>6, AnsweredFacts
  <2>8. OursLine(view, requests, t, top, listening, Told)
    BY <2>1, <1>7
  <2>9. /\ ~HalfFrom(view, requests, 1)
        /\ \A i \in DOMAIN t : t[i].kind # "append" => ~Half(t[i].snap)
        /\ ~Half(Head(events).snap)
    <3>1. \A j \in DOMAIN events : j >= 1 /\ events[j].kind # "append" => ~Half(events[j].snap)
      BY <2>1, <2>2, <1>1 DEF OursLine
    <3> HIDE DEF Half
    <3> QED BY <3>1, <2>1, <2>2, <1>1 DEF OursLine
  <2>10. \A i \in DOMAIN requests : requests[i].kind \notin {"item", "value", "images"}
    BY <2>3 DEF Quieter
  <2>11. \A i \in DOMAIN t : t[i].kind # "item"
    BY <2>2, <2>3
  <2>12. requests' = requests \o s /\ events' = t
    BY <2>1, <2>5
  <2>13. /\ Len(requests) \in Nat /\ Len(requests \o s) = Len(requests) + Len(s)
         /\ \A i \in DOMAIN (requests \o s) : \/ i \in DOMAIN requests /\ (requests \o s)[i] = requests[i]
                                              \/ i - Len(requests) \in DOMAIN s /\ (requests \o s)[i] = s[i - Len(requests)]
    BY <2>7, CatFacts
  <2>14. \A k \in Nat \ {0} : HalfAt(view, requests \o s, Len(requests) + k) =>
           /\ ~view.average
           /\ \A j \in DOMAIN s : j < k /\ s[j].kind = "put" => s[j].what # "average"
    <3>1. s \in Seq(RequestType) BY <2>7
    <3> HIDE DEF s, HalfAt
    <3> QED BY <3>1, HalfAfter
  <2> HIDE DEF s, t, first, HalfAt
  <2>15. CASE first
    <3>1. s[2] = PutTotal("average", 1) /\ 2 \in DOMAIN s /\ Len(s) > 2
      BY <2>7, <2>15
    <3>2. ~HalfAt(view, requests \o s, End(requests \o s))
      <4>1. End(requests \o s) = Len(requests) + (Len(s) + 1) /\ Len(s) + 1 \in Nat \ {0} /\ 2 < Len(s) + 1
        BY <2>7, <2>13, <3>1 DEF End
      <4>2. s[2].kind = "put" /\ s[2].what = "average"
        BY <3>1 DEF PutTotal
      <4>3. ~HalfAt(view, requests \o s, Len(requests) + (Len(s) + 1))
        BY <4>1, <4>2, <3>1, <2>14
      <4> QED BY <4>1, <4>3
    <3>3. \A i \in DOMAIN (requests \o s) : (requests \o s)[i].kind \notin {"item", "value"}
                 /\ ((requests \o s)[i].kind = "count" => view.average)
      <4>1. \A i \in DOMAIN s : s[i].kind \notin {"item", "value", "count"}
        BY <2>7, <2>15 DEF PutTotal, PutField, Read
      <4>2. \A i \in DOMAIN requests : requests[i].kind = "count" => view.average
        BY <2>8 DEF OursLine
      <4> QED BY <4>1, <4>2, <2>10, <2>13
    <3>4. Told' = TRUE BY <2>6, <2>15
    <3> HIDE DEF HalfFrom, Half
    <3>5. \A i \in DOMAIN t : t[i].kind = "count" => view.average
      BY <2>8 DEF OursLine
    <3>6. OursLine(view, requests \o s, t, top, listening, TRUE)
      BY <3>2, <3>3, <3>5, <2>11 DEF OursLine
    <3> QED BY <2>1, <2>12, <3>4, <3>6
  <2>16. CASE ~first
    <3>1. view.average
      <4>1. Exists(Head(events).snap) BY <2>16 DEF first
      <4>2. Exists(view) BY <4>1, <2>1, <2>2 DEF ExistInv
      <4>3. \A j \in DOMAIN requests : ~(j < 1) OBVIOUS
      <4>4. 1 \in 1..End(requests) BY DEF End
      <4>5. ~HalfAt(view, requests, 1) BY <4>4, <2>9 DEF HalfFrom
      <4> HIDE DEF Exists
      <4> QED BY <4>2, <4>3, <4>5 DEF HalfAt
    <3>2. \A q, k : ~HalfAt(view, q, k) /\ ~HalfFrom(view, q, k)
      BY <3>1, AverageIsWhole
    <3>3. Told' = FALSE BY <2>6, <2>16
    <3>4. \A i \in DOMAIN t : IsValue(t[i], top) => ~Half(t[i].snap)
      BY <2>9 DEF IsValue
    <3> HIDE DEF HalfFrom, Half
    <3>5. OursLine(view, requests \o s, t, top, listening, FALSE)
      BY <3>1, <3>2, <3>4, <2>11 DEF OursLine
    <3> QED BY <2>1, <2>12, <3>3, <3>5
  <2> QED BY <2>15, <2>16
<1>11. ASSUME NEW t \in Screens \X Reviews, NEW ok \in BOOLEAN, DownloadFinished(t, ok)
       PROVE  OursLine(view', requests', events', top', listening', Told')
  <2> DEFINE x == [kind |-> "append", of |-> t[1], snap |-> t[2]]
  <2>1. UNCHANGED <<view, top, requests, listening, firstReview>> /\ (events' = events \/ events' = Append(events, x))
    BY <1>11 DEF DownloadFinished, stack, node, labels
  <2>2. x \in EventType /\ x.kind = "append"
    BY DEF EventType, AppendType
  <2> HIDE DEF x
  <2>3. Append(events, x) = events \o <<x>> /\ <<x>> \in Seq(EventType) /\ \A i \in DOMAIN <<x>> : <<x>>[i] = x
    BY <2>2, AppendIsCat
  <2>4. OursLine(view, requests, events \o <<x>>, top, listening, Told)
    BY <2>2, <2>3, <1>1, OursEvents
  <2> QED BY <2>1, <2>3, <2>4, <1>1 DEF Told
<1>12. ASSUME NEW r \in Mine, NEW ok \in BOOLEAN, UploadFinished(r, ok)
       PROVE  OursLine(view', requests', events', top', listening', Told')
  <2> DEFINE x == PutField(r, "imageURL")
  <2>1. UNCHANGED <<view, top, events, listening, firstReview>> /\ (requests' = requests \/ requests' = Append(requests, x))
        /\ r \in uploads
    BY <1>12 DEF UploadFinished, stack, node, labels
  <2>2. x \in RequestType /\ x.kind = "put" /\ x.what = "imageURL"
    BY PutsAreRequests, ReviewsFacts DEF AllFields, PutField
  <2> HIDE DEF x
  <2>3. Append(requests, x) = requests \o <<x>> /\ <<x>> \in Seq(RequestType) /\ \A i \in DOMAIN <<x>> : <<x>>[i] = x
    BY <2>2, AppendIsCat
  <2>4. Exists(view) \/ \E j \in DOMAIN requests : requests[j].kind = "put"
    <3>1. All(view, requests, End(requests), r) BY <2>1 DEF WholeInv
    <3>2. PICK f \in Fields : Has(view, requests, End(requests), r, f)
      BY <3>1, FieldsFacts DEF All
    <3>3. r \in Reviews BY ReviewsFacts
    <3> QED BY <3>2, <3>3 DEF Has, IsField, Exists
  <2>5. \A j \in 1..Len(<<x>>) + 1 : ~HalfAt(view, requests \o <<x>>, Len(requests) + j)
    <3> SUFFICES ASSUME NEW j \in 1..Len(<<x>>) + 1, HalfAt(view, requests \o <<x>>, Len(requests) + j) PROVE FALSE
      OBVIOUS
    <3>1. j \in Nat \ {0} OBVIOUS
    <3>2. HalfAt(view, requests, End(requests))
      <4> HIDE DEF Exists
      <4> QED BY <2>3, <2>4, <3>1, HalfCat
    <3> QED BY <3>2, <1>1 DEF OursLine
  <2>6. OursLine(view, requests \o <<x>>, events, top, listening, Told)
    <3>1. \A i \in DOMAIN <<x>> : <<x>>[i].kind # "count" BY <2>2, <2>3
    <3> HIDE DEF OursLine
    <3> QED BY <2>3, <2>5, <3>1, <1>1, OursCat
  <2> QED BY <2>1, <2>3, <2>6, <1>1 DEF Told
<1>13. CASE ServeRead
  <2> DEFINE x == Answer(Head(requests))
  <2>1. /\ requests # <<>> /\ requests' = Tail(requests) /\ x \in EventType /\ events' = Append(events, x)
        /\ x.kind = Head(requests).kind /\ x.of = Head(requests).of /\ x.snap = view /\ view' = view
        /\ listening' = IF Head(requests).kind = "value" THEN Head(requests).of ELSE listening
    BY <1>13, ServeReadFacts
  <2>2. UNCHANGED <<top, firstReview>> /\ Head(requests).kind # "put"
    BY <1>13 DEF ServeRead, stack, labels
  <2> HIDE DEF x
  <2>3. Append(events, x) = events \o <<x>> /\ <<x>> \in Seq(EventType) /\ \A i \in DOMAIN <<x>> : <<x>>[i] = x
    BY <2>1, AppendIsCat
  <2> DEFINE s == <<x>>
             ls2 == listening'
  <2>4. s \in Seq(EventType) /\ \A i \in DOMAIN s : s[i].snap = view /\ s[i].kind = Head(requests).kind
    BY <2>1, <2>3
  <2>5. ls2 = listening \/ Head(requests).kind = "value"
    BY <2>1
  <2> HIDE DEF s, ls2, OursLine
  <2>6. OursLine(view, Tail(requests), events \o s, top, ls2, Told)
    BY <2>1, <2>2, <2>4, <2>5, <1>1, OursAnswered
  <2>7. OursLine(view, Tail(requests), events \o <<x>>, top, listening', Told)
    BY <2>6 DEF s, ls2
  <2> QED BY <2>1, <2>2, <2>3, <2>7 DEF Told
<1>14. CASE IssueWrite
  <2>1. requests # <<>> /\ requests' = Tail(requests) /\ view' \in NodeType /\ Head(requests).kind = "put"
        /\ (events' = events \/ events' = events \o Heard(view')) /\ Served(view, requests, view')
    BY <1>14, IssueWriteFacts DEF Served, IssueWrite
  <2>2. UNCHANGED <<top, firstReview, listening>>
    BY <1>14 DEF IssueWrite, stack, labels
  <2> DEFINE h == Heard(view')
  <2>3. /\ h \in Seq(EventType) /\ DOMAIN h = 1..listening
        /\ \A k \in 1..listening : h[k] = [kind |-> "value", of |-> k, snap |-> view']
    BY <2>1, HeardFacts
  <2> HIDE DEF h
  <2>4. \A i \in DOMAIN h : /\ h[i].snap = view'
                            /\ h[i].kind \in {"item", "count"} => Head(requests).kind = h[i].kind
                            /\ IsValue(h[i], top) => \/ Head(requests).kind = "value"
                                                     \/ top # 0 /\ ~(top > listening)
    BY <2>3 DEF IsValue
  <2>5. OursLine(view', Tail(requests), events \o h, top, listening, Told)
    <3> HIDE DEF OursLine
    <3> QED BY <2>1, <2>3, <2>4, <1>1, OursServed
  <2>6. OursLine(view', Tail(requests), events, top, listening, Told)
    <3> HIDE DEF OursLine
    <3>1. events \o <<>> = events /\ <<>> \in Seq(EventType) /\ DOMAIN <<>> = {}
      OBVIOUS
    <3>2. OursLine(view', Tail(requests), events \o <<>>, top, listening, Told)
      BY <2>1, <3>1, <1>1, OursServed
    <3> QED BY <3>1, <3>2
  <2> QED BY <2>1, <2>2, <2>5, <2>6 DEF Told, h
<1>15. CASE RemoteArrives \/ \E r \in Theirs : RemoteSubmits(r)
  <2>1. remote' # remote
    <3>1. CASE RemoteArrives
      BY <3>1, TailFacts DEF RemoteArrives, Typed
    <3>2. ASSUME NEW r \in Theirs, RemoteSubmits(r) PROVE FALSE
      <4>1. remote = <<>> /\ remote' = <<>>
        BY <1>1, <3>2 DEF RemoteSubmits
      <4>2. ~Ours' BY <3>2, RemoteSubmitsSomething
      <4> QED BY <4>2, <1>b
    <3> QED BY <3>1, <3>2, <1>15
  <2> QED BY <2>1, <1>1
<1> QED BY <1>c, <1>3, <1>4, <1>5, <1>6, <1>8, <1>9, <1>10, <1>11, <1>12, <1>13, <1>14, <1>15 DEF Next

------------------------
(* A queue holds none, or at most one, of a set. *)

None(q, W) == \A i \in DOMAIN q : q[i] \notin W
Once(q, W) == \A i, j \in DOMAIN q : q[i] \in W /\ q[j] \in W => i = j

LEMMA OnceTail ==
  ASSUME NEW T, NEW q \in Seq(T), q # <<>>, NEW W
  PROVE  /\ None(q, W) => None(Tail(q), W) /\ Head(q) \notin W
         /\ Once(q, W) => Once(Tail(q), W)
         /\ Once(q, W) /\ Head(q) \in W => None(Tail(q), W)
<1> DEFINE t == Tail(q)
<1>1. /\ \A i \in DOMAIN t : i \in Nat /\ i + 1 \in DOMAIN q /\ t[i] = q[i + 1] /\ i + 1 # 1
      /\ 1 \in DOMAIN q /\ Head(q) = q[1]
  BY TailFacts
<1> HIDE DEF t
<1>2. \A i, j \in DOMAIN t : i + 1 = j + 1 => i = j
  BY <1>1
<1> QED BY <1>1, <1>2 DEF None, Once, t

LEMMA OnceCat ==
  ASSUME NEW T, NEW q \in Seq(T), NEW s \in Seq(T), NEW W
  PROVE  /\ None(q, W) /\ None(s, W) => None(q \o s, W)
         /\ None(q \o s, W) => None(q, W) /\ None(s, W)
         /\ Once(q, W) /\ None(s, W) => Once(q \o s, W)
         /\ None(q, W) /\ Once(s, W) => Once(q \o s, W)
<1> DEFINE t == q \o s
<1>1. /\ Len(q) \in Nat /\ \A i \in DOMAIN q : i \in DOMAIN t /\ t[i] = q[i]
      /\ \A i \in DOMAIN s : Len(q) + i \in DOMAIN t /\ t[Len(q) + i] = s[i]
      /\ \A i \in DOMAIN t : \/ i \in DOMAIN q /\ t[i] = q[i]
                             \/ i \in Nat /\ i - Len(q) \in DOMAIN s /\ t[i] = s[i - Len(q)]
  BY CatFacts
<1> HIDE DEF t
<1>2. \A i, j \in DOMAIN t : i \in Nat /\ j \in Nat /\ i - Len(q) = j - Len(q) => i = j
  BY <1>1
<1>3. None(q, W) /\ None(s, W) => None(t, W)
  BY <1>1 DEF None
<1>4. None(t, W) => None(q, W) /\ None(s, W)
  BY <1>1 DEF None
<1>5. Once(q, W) /\ None(s, W) => Once(t, W)
  BY <1>1 DEF None, Once
<1>6. None(q, W) /\ Once(s, W) => Once(t, W)
  <2> SUFFICES ASSUME None(q, W), Once(s, W), NEW i \in DOMAIN t, NEW j \in DOMAIN t, t[i] \in W, t[j] \in W
               PROVE  i = j
    BY DEF Once
  <2>1. /\ i \in Nat /\ i - Len(q) \in DOMAIN s /\ t[i] = s[i - Len(q)]
        /\ j \in Nat /\ j - Len(q) \in DOMAIN s /\ t[j] = s[j - Len(q)]
    BY <1>1 DEF None
  <2>2. i - Len(q) = j - Len(q)
    BY <2>1 DEF Once
  <2> QED BY <2>1, <2>2, <1>2
<1> QED BY <1>3, <1>4, <1>5, <1>6 DEF t

LEMMA OnceOne ==
  ASSUME NEW x, NEW W
  PROVE  Once(<<x>>, W) /\ (None(<<x>>, W) <=> x \notin W) /\ None(<<>>, W)
BY DEF None, Once

\* A queue loses its head or gains what is not of the set.
Moved(q, q2, T, W) ==
  \/ q2 = q
  \/ q # <<>> /\ q2 = Tail(q)
  \/ \E s \in Seq(T) : q2 = q \o s /\ None(s, W)

LEMMA OnceMoved ==
  ASSUME NEW T, NEW q \in Seq(T), NEW q2, NEW W, Moved(q, q2, T, W)
  PROVE  /\ None(q, W) => None(q2, W)
         /\ Once(q, W) => Once(q2, W)
<1>1. CASE q2 = q
  BY <1>1
<1>2. CASE q # <<>> /\ q2 = Tail(q)
  BY <1>2, OnceTail
<1>3. ASSUME NEW s \in Seq(T), q2 = q \o s, None(s, W)
      PROVE  /\ None(q, W) => None(q2, W)
             /\ Once(q, W) => Once(q2, W)
  BY <1>3, OnceCat
<1> QED BY <1>1, <1>2, <1>3 DEF Moved

LEMMA MovedByOne ==
  ASSUME NEW T, NEW q \in Seq(T), NEW x \in T, NEW W, x \notin W
  PROVE  Moved(q, Append(q, x), T, W)
<1>1. Append(q, x) = q \o <<x>> /\ <<x>> \in Seq(T) /\ None(<<x>>, W)
  BY AppendIsCat, OnceOne
<1> QED BY <1>1 DEF Moved

LEMMA AddedOne ==
  ASSUME NEW T, NEW q \in Seq(T), NEW x \in T, NEW W, None(q, W)
  PROVE  Once(Append(q, x), W)
<1>1. Append(q, x) = q \o <<x>> /\ <<x>> \in Seq(T) /\ Once(<<x>>, W)
  BY AppendIsCat, OnceOne
<1> QED BY <1>1, OnceCat

------------------------
(* The images. *)

Appended(k, r) == [kind |-> "append", of |-> k, snap |-> r]
Fetched(k) == {x \in EventType : x.kind = "images" /\ x.of = k}
Fetch(k) == {Read("images", k)}

\* Nothing has come, or is on its way, of the one fetch of a screen.
NoImages(k, e, t, a) ==
  a[k] = <<>> /\ \A r \in Reviews : <<k, r>> \notin t /\ None(e, {Appended(k, r)})

\* The images of a screen are asked for once, while it has none.
FetchLine(k, q, e, t, a, o) ==
  /\ Once(q, Fetch(k)) /\ Once(e, Fetched(k))
  /\ None(q, Fetch(k)) \/ None(e, Fetched(k))
  /\ k > o => None(q, Fetch(k)) /\ None(e, Fetched(k))
  /\ NoImages(k, e, t, a) \/ (k <= o /\ None(q, Fetch(k)) /\ None(e, Fetched(k)))

\* An image is being downloaded, waits for the main queue, or is shown: one of these.
ImageLine(k, r, n, q, e, t, a) ==
  /\ <<k, r>> \in t => n.fields[r] # {} /\ None(e, {Appended(k, r)}) /\ r \notin Elements(a[k])
  /\ Once(e, {Appended(k, r)})
  /\ None(e, {Appended(k, r)}) \/ (n.fields[r] # {} /\ r \notin Elements(a[k]))
  /\ r \in Mine /\ r \in Elements(a[k]) => Some(n, q, End(q), r)

FoundLine(n, e) ==
  \A i \in DOMAIN e : e[i].kind = "images" =>
    \A r \in Reviews : e[i].snap.fields[r] # {} => n.fields[r] # {}

ImageInv ==
  /\ FoundLine(view, events)
  /\ \A k \in Screens : FetchLine(k, requests, events, tasks, imageArray, opened)
  /\ \A k \in Screens, r \in Reviews : ImageLine(k, r, view, requests, events, tasks, imageArray)

\* What the steps add to the requests.
LEMMA OpenAdds ==
  ASSUME ItemAssumption, Typed, OpenItem
  PROVE  \E s \in Seq(RequestType) :
           /\ requests' = requests \o s /\ view' = view
           /\ \A k : Once(s, Fetch(k)) /\ (k # opened + 1 => None(s, Fetch(k)))
<1> DEFINE a == Read("images", top')
           b == Read("value", top')
           c == Read("reviews", top')
           s == << a, b, c >>
<1>1. top' = opened + 1 /\ requests' = requests \o s /\ opened < MaxScreens /\ view' = view
  BY DEF OpenItem, node
<1>2. a \in RequestType /\ b \in RequestType /\ c \in RequestType
  <2>1. top' \in Screens
    BY <1>1, ScreensFacts
  <2> QED BY <2>1, PutsAreRequests DEF Kinds
<1>3. \A k : b \notin Fetch(k) /\ c \notin Fetch(k) /\ (a \in Fetch(k) => k = opened + 1)
  BY <1>1 DEF Fetch, Read
<1> HIDE DEF a, b, c
<1>4. s \in Seq(RequestType) /\ s[1] = a /\ s[2] = b /\ s[3] = c /\ DOMAIN s = {1, 2, 3}
  BY <1>2
<1> HIDE DEF s
<1>5. \A k : Once(s, Fetch(k)) /\ (k # opened + 1 => None(s, Fetch(k)))
  BY <1>3, <1>4 DEF Once, None
<1> QED BY <1>1, <1>4, <1>5

LEMMA FormAdds ==
  ASSUME ItemAssumption, Typed, FormInv, FormAnswered
  PROVE  /\ events # <<>> /\ events' = Tail(events) /\ Head(events).kind = "item"
         /\ view' = view /\ opened' = opened /\ tasks' = tasks /\ top \in Screens
         /\ \A j \in DOMAIN requests : Quieter(requests[j])
         /\ \A j \in DOMAIN Tail(events) : Tail(events)[j].kind \notin {"item", "images"}
         /\ \E s \in Seq(RequestType), r \in Unwritten :
              /\ requests' = requests \o s
              /\ \A k : None(s, Fetch(k))
              /\ imageArray' = [imageArray EXCEPT ![top] = Append(@, r)]
              /\ Some(view, requests \o s, End(requests \o s), r)
<1>1. /\ events # <<>> /\ Head(events).kind = "item" /\ events' = Tail(events)
      /\ UNCHANGED <<view, opened, tasks>>
  BY DEF FormAnswered, Callback, node
<1>2. events \in Seq(EventType) /\ requests \in Seq(RequestType)
  BY DEF Typed
<1>3. /\ 1 \in DOMAIN events /\ events[1] = Head(events)
      /\ \A i \in DOMAIN Tail(events) : i \in Nat /\ i >= 1 /\ i + 1 \in DOMAIN events /\ i + 1 > 1 /\ Tail(events)[i] = events[i + 1]
  BY <1>1, <1>2, TailFacts
<1>4. /\ top # 0 /\ \A j \in DOMAIN requests : Quieter(requests[j])
      /\ \A j \in DOMAIN events : j > 1 => events[j].kind \notin {"item", "images"}
  BY <1>1, <1>3 DEF FormInv
<1>5. top \in Screens
  BY <1>4, ScreensFacts
<1>6. \A j \in DOMAIN Tail(events) : Tail(events)[j].kind \notin {"item", "images"}
  BY <1>3, <1>4
<1>7. PICK r \in Unwritten : \E first \in BOOLEAN :
           /\ requests' = requests \o Answered(first, r)
           /\ imageArray' = [imageArray EXCEPT ![top] = Append(@, r)]
  BY <1>4, FormAnsweredFacts
<1>8. PICK first \in BOOLEAN :
           /\ requests' = requests \o Answered(first, r)
           /\ imageArray' = [imageArray EXCEPT ![top] = Append(@, r)]
  BY <1>7
<1> DEFINE s == Answered(first, r)
<1>9. r \in Mine
  BY DEF Unwritten
<1>10. /\ s \in Seq(RequestType)
       /\ \A i \in DOMAIN s :
              \/ first /\ i = 1 /\ s[i] = PutTotal("count", 1)
              \/ first /\ i = 2 /\ s[i] = PutTotal("average", 1)
              \/ ~first /\ i = 1 /\ s[i] = Read("count", top)
              \/ \E f \in Fields : s[i] = PutField(r, f)
              \/ s[i] = Read("reviews", top)
  BY <1>5, <1>9, AnsweredFacts
<1>11. All(view, requests \o s, End(requests \o s), r)
  BY <1>2, <1>5, <1>9, AnsweredIsWhole
<1> HIDE DEF s
<1>12. \A k : None(s, Fetch(k))
  <2>1. \A i \in DOMAIN s : s[i].kind # "images"
    BY <1>10 DEF PutTotal, Read, PutField
  <2> QED BY <2>1 DEF None, Fetch, Read
<1>13. Some(view, requests \o s, End(requests \o s), r)
  <2>1. PICK f \in Fields : TRUE
    BY FieldsFacts
  <2> QED BY <2>1, <1>11 DEF All, Some, AllFields
<1>14. requests' = requests \o s
  BY <1>8 DEF s
<1> QED BY <1>1, <1>4, <1>5, <1>6, <1>8, <1>10, <1>12, <1>13, <1>14

LEMMA OthersAdd ==
  ASSUME ItemAssumption, Typed, FormInv,
         SubmitPressed \/ CountAnswered \/ \E r \in Mine, ok \in BOOLEAN : UploadFinished(r, ok)
  PROVE  \E s \in Seq(RequestType) : requests' = requests \o s /\ view' = view /\ \A k : None(s, Fetch(k))
<1>a. requests \in Seq(RequestType)
  BY DEF Typed
<1>b. requests \o <<>> = requests /\ <<>> \in Seq(RequestType)
  BY <1>a
<1>c. \A k : None(<<>>, Fetch(k))
  BY OnceOne
<1>1. requests \in Seq(RequestType) /\ requests \o <<>> = requests /\ <<>> \in Seq(RequestType) /\ \A k : None(<<>>, Fetch(k))
  BY <1>a, <1>b, <1>c
<1>2. ASSUME NEW x \in RequestType, x.kind # "images", requests' = Append(requests, x), view' = view
      PROVE  \E s \in Seq(RequestType) : requests' = requests \o s /\ view' = view /\ \A k : None(s, Fetch(k))
  <2>1. Append(requests, x) = requests \o <<x>> /\ <<x>> \in Seq(RequestType)
    BY <1>1, AppendIsCat
  <2>2. \A k : None(<<x>>, Fetch(k))
    BY <1>2 DEF None, Fetch, Read
  <2> QED BY <2>1, <2>2, <1>2
<1>3. CASE SubmitPressed
  <2> DEFINE x == Read("item", top)
  <2>1. top # 0 /\ requests' = Append(requests, x) /\ view' = view
    BY <1>3 DEF FormInv, SubmitPressed, node
  <2>2. x \in RequestType /\ x.kind = "item"
    <3>1. top \in Screens BY <2>1, ScreensFacts
    <3> QED BY <3>1, PutsAreRequests DEF Kinds, Read
  <2> HIDE DEF x
  <2> QED BY <2>1, <2>2, <1>2
<1>4. CASE CountAnswered
  <2> DEFINE x == PutTotal("count", Head(events).snap.count + 1)
  <2>1. requests' = Append(requests, x) /\ events # <<>> /\ view' = view /\ Head(events).kind = "count"
    BY <1>4 DEF CountAnswered, Callback, node
  <2>2. Head(events).snap.count \in Nat
    BY <2>1, HeadsAreTyped, KindsOfEvents DEF NodeType
  <2>3. x \in RequestType /\ x.kind = "put"
    BY <2>2, PutsAreRequests, ReviewsFacts DEF PutTotal
  <2> HIDE DEF x
  <2> QED BY <2>1, <2>3, <1>2
<1>5. ASSUME NEW r \in Mine, NEW ok \in BOOLEAN, UploadFinished(r, ok)
      PROVE  \E s \in Seq(RequestType) : requests' = requests \o s /\ view' = view /\ \A k : None(s, Fetch(k))
  <2> DEFINE x == PutField(r, "imageURL")
  <2>1. (requests' = requests \/ requests' = Append(requests, x)) /\ view' = view
    BY <1>5 DEF UploadFinished, node
  <2>2. x \in RequestType /\ x.kind = "put"
    BY PutsAreRequests, ReviewsFacts DEF AllFields, PutField
  <2> HIDE DEF x
  <2> QED BY <2>1, <2>2, <1>1, <1>2
<1> QED BY <1>3, <1>4, <1>5

\* What this user has written stays written.
LEMMA SomeGoesOn ==
  ASSUME ItemAssumption, Typed, FormInv, [Next]_vars, NEW r \in Mine, Some(view, requests, End(requests), r)
  PROVE  Some(view', requests', End(requests'), r)
<1>1. LineMoves
  BY EveryStepMoves
<1>2. r \in Reviews /\ view \in NodeType /\ requests \in Seq(RequestType)
  BY ReviewsFacts DEF Typed
<1>3. ASSUME requests # <<>>, requests' = Tail(requests), Served(view, requests, view')
      PROVE  Some(view', requests', End(requests'), r)
  <2>1. \A k \in Nat \ {0} : Some(view', Tail(requests), k, r) <=> Some(view, requests, k + 1, r)
    BY <1>2, <1>3, SomeServed
  <2>2. End(Tail(requests)) \in Nat \ {0} /\ End(Tail(requests)) + 1 = End(requests)
    BY <1>2, <1>3, EndServed
  <2> QED BY <1>3, <2>1, <2>2
<1>4. ASSUME requests' = requests, NEW put \in PutType(Theirs), view' = Applied(view, put)
      PROVE  Some(view', requests', End(requests'), r)
  BY <1>2, <1>4, SomeRemote
<1>5. ASSUME view' = view, NEW s \in Seq(RequestType), requests' = requests \o s
      PROVE  Some(view', requests', End(requests'), r)
  <2>1. \A j \in Nat \ {0} : Some(view, requests, End(requests), r) => Some(view, requests \o s, Len(requests) + j, r)
    BY <1>2, SomeCat
  <2>2. End(requests \o s) = Len(requests) + (Len(s) + 1) /\ Len(s) + 1 \in Nat \ {0}
    <3>1. Len(requests \o s) = Len(requests) + Len(s) /\ Len(s) \in Nat /\ Len(requests) \in Nat
      BY <1>2, CatFacts
    <3> QED BY <3>1 DEF End
  <2> QED BY <2>1, <2>2, <1>5
<1>6. CASE OpenItem \/ SubmitPressed \/ FormAnswered \/ CountAnswered
  <2>1. \E s \in Seq(RequestType) : requests' = requests \o s /\ view' = view
    BY <1>6, OpenAdds, FormAdds, OthersAdd
  <2> QED BY <2>1, <1>5
<1>7. ASSUME NEW u \in uploads, requests' = Append(requests, PutField(u, "imageURL")), view' = view
      PROVE  Some(view', requests', End(requests'), r)
  <2> DEFINE x == PutField(u, "imageURL")
  <2>1. x \in RequestType
    <3>1. u \in Mine BY DEF Typed
    <3> QED BY <3>1, PutsAreRequests, ReviewsFacts DEF AllFields
  <2> HIDE DEF x
  <2>2. Append(requests, x) = requests \o <<x>> /\ <<x>> \in Seq(RequestType)
    BY <2>1, <1>2, AppendIsCat
  <2> QED BY <2>2, <1>5, <1>7 DEF x
<1> QED BY <1>1, <1>3, <1>4, <1>5, <1>6, <1>7 DEF LineMoves

\* An image that is on the way, or shown, stays so while its queue only moves.
LEMMA ImageLineKept ==
  ASSUME NEW k, NEW r \in Reviews, NEW n, NEW n2, NEW q, NEW q2, NEW T, NEW e \in Seq(T), NEW e2, NEW t, NEW t2, NEW a, NEW a2,
         ImageLine(k, r, n, q, e, t, a), Moved(e, e2, T, {Appended(k, r)}),
         \A o \in Reviews : n.fields[o] \subseteq n2.fields[o],
         r \in Mine /\ Some(n, q, End(q), r) => Some(n2, q2, End(q2), r),
         <<k, r>> \in t2 => <<k, r>> \in t,
         r \in Elements(a2[k]) => r \in Elements(a[k])
  PROVE  ImageLine(k, r, n2, q2, e2, t2, a2)
<1> DEFINE W == {Appended(k, r)}
<1>1. /\ None(e, W) => None(e2, W)
      /\ Once(e, W) => Once(e2, W)
  BY OnceMoved
<1>2. n.fields[r] # {} => n2.fields[r] # {} OBVIOUS
<1> HIDE DEF W
<1>3. /\ <<k, r>> \in t => n.fields[r] # {} /\ None(e, W) /\ r \notin Elements(a[k])
      /\ Once(e, W)
      /\ None(e, W) \/ (n.fields[r] # {} /\ r \notin Elements(a[k]))
      /\ r \in Mine /\ r \in Elements(a[k]) => Some(n, q, End(q), r)
  BY DEF ImageLine, W
<1>4. /\ <<k, r>> \in t2 => n2.fields[r] # {} /\ None(e2, W) /\ r \notin Elements(a2[k])
      /\ Once(e2, W)
      /\ None(e2, W) \/ (n2.fields[r] # {} /\ r \notin Elements(a2[k]))
      /\ r \in Mine /\ r \in Elements(a2[k]) => Some(n2, q2, End(q2), r)
  BY <1>1, <1>2, <1>3
<1> QED BY <1>4 DEF ImageLine, W

\* How the events of a step move, for those of a set that holds no answer and no news.
LEMMA EventsMoved ==
  ASSUME ItemAssumption, Typed, [Next]_vars, NEW W,
         ServeRead => Answer(Head(requests)) \notin W,
         \A x \in EventType : x.kind = "value" => x \notin W,
         \A t \in tasks : DownloadFinished(t, TRUE) => Appended(t[1], t[2]) \notin W
  PROVE  Moved(events, events', EventType, W)
<1>0. events \in Seq(EventType)
  BY DEF Typed
<1>1. CASE events' = events \/ (events # <<>> /\ events' = Tail(events))
  BY <1>1 DEF Moved
<1>2. CASE ServeRead
  BY <1>0, <1>2, ServeReadFacts, MovedByOne
<1>3. ASSUME view' \in NodeType, events' = events \o Heard(view')
      PROVE  Moved(events, events', EventType, W)
  <2> DEFINE h == Heard(view')
  <2>1. /\ h \in Seq(EventType) /\ DOMAIN h = 1..listening
        /\ \A k \in 1..listening : h[k] = [kind |-> "value", of |-> k, snap |-> view']
    BY <1>3, HeardFacts
  <2> HIDE DEF h
  <2>2. \A i \in DOMAIN h : h[i].kind = "value" /\ h[i] \in EventType
    <3>1. \A i \in DOMAIN h : h[i].kind = "value" BY <2>1
    <3>2. \A i \in DOMAIN h : h[i] \in EventType BY <2>1, SeqOut
    <3> QED BY <3>1, <3>2
  <2>3. None(h, W)
    BY <2>2 DEF None
  <2> QED BY <2>1, <2>3, <1>3 DEF Moved, h
<1>4. CASE IssueWrite \/ RemoteArrives
  <2>1. view' \in NodeType /\ (view' = view => events' = events) /\ (view' # view => events' = events \o Heard(view'))
    BY <1>4, IssueWriteFacts, RemoteArrivesFacts
  <2> QED BY <2>1, <1>1, <1>3
<1>5. ASSUME NEW t \in Screens \X Reviews, NEW ok \in BOOLEAN, DownloadFinished(t, ok)
      PROVE  Moved(events, events', EventType, W)
  <2>1. t \in tasks /\ (ok => events' = Append(events, Appended(t[1], t[2]))) /\ (~ok => events' = events)
    BY <1>5 DEF DownloadFinished, Appended
  <2>2. Appended(t[1], t[2]) \in EventType
    BY DEF Appended, EventType, AppendType
  <2>3. CASE ok
    <3>1. DownloadFinished(t, TRUE) BY <1>5, <2>3
    <3> QED BY <3>1, <2>1, <2>2, <2>3, <1>0, MovedByOne
  <2> QED BY <2>1, <2>3, <1>1
<1>6. CASE FormAnswered \/ CountAnswered \/ ListenerFired \/ ReviewsAnswered \/ ImagesAnswered \/ ImageAppended
  BY <1>6, <1>1 DEF FormAnswered, CountAnswered, ListenerFired, ReviewsAnswered, ImagesAnswered, ImageAppended, Callback
<1>7. CASE OpenItem \/ Back \/ RateItem \/ SubmitPressed \/ RowDisplayed \/ (\E r \in Mine, ok \in BOOLEAN : UploadFinished(r, ok))
           \/ (\E r \in Theirs : RemoteSubmits(r)) \/ UNCHANGED vars
  BY <1>7, <1>1 DEF OpenItem, Back, RateItem, SubmitPressed, RowDisplayed, UploadFinished, RemoteSubmits, vars, queues
<1> QED BY <1>2, <1>4, <1>5, <1>6, <1>7 DEF Next

LEMMA FoundStep ==
  ASSUME ItemAssumption, Typed, FoundLine(view, events), [Next]_vars
  PROVE  FoundLine(view', events')
<1>0. events \in Seq(EventType) /\ \A r \in Reviews : view.fields[r] # {} => view'.fields[r] # {}
  BY ViewGrows DEF Typed
<1>1. FoundLine(view', events)
  BY <1>0 DEF FoundLine
<1> DEFINE W == {x \in EventType : x.kind = "images" /\ ~(\A r \in Reviews : x.snap.fields[r] # {} => view'.fields[r] # {})}
<1>2. None(events, W)
  BY <1>1 DEF None, FoundLine
<1>3. Moved(events, events', EventType, W)
  <2>1. ServeRead => Answer(Head(requests)) \notin W
    <3>1. ServeRead => Answer(Head(requests)).snap = view BY DEF Answer
    <3> QED BY <3>1, <1>0
  <2>2. \A x \in EventType : x.kind = "value" => x \notin W OBVIOUS
  <2>3. \A t \in tasks : Appended(t[1], t[2]) \notin W
    BY DEF Appended
  <2> HIDE DEF W
  <2> QED BY <2>1, <2>2, <2>3, EventsMoved
<1>4. None(events', W) /\ events' \in Seq(EventType)
  <2>1. None(events', W)
    <3> HIDE DEF W
    <3> QED BY <1>0, <1>2, <1>3, OnceMoved
  <2>2. events' \in Seq(EventType)
    <3>1. CASE events # <<>> /\ events' = Tail(events)
      BY <1>0, <3>1, TailFacts
    <3>2. CASE \E s \in Seq(EventType) : events' = events \o s
      BY <1>0, <3>2, CatFacts
    <3> QED BY <1>0, <1>3, <3>1, <3>2 DEF Moved
  <2> QED BY <2>1, <2>2
<1>5. \A i \in DOMAIN events' : events'[i] \in EventType
  BY <1>4, SeqOut
<1> QED BY <1>4, <1>5 DEF None, FoundLine

\* A review that is not written yet is not shown, nor on its way.
LEMMA UnwrittenFacts ==
  ASSUME ItemAssumption, Typed, FormInv, WholeInv, FormAnswered, NEW r \in Unwritten
  PROVE  r \in Mine /\ view.fields[r] = {} /\ ~Some(view, requests, End(requests), r)
<1>1. r \in Mine /\ r \in Reviews /\ view.fields[r] = {}
  BY ReviewsFacts DEF Unwritten
<1>2. \A j \in DOMAIN requests : Quieter(requests[j])
  BY FormAdds
<1>3. \A j \in DOMAIN requests : \A f \in Fields : ~IsField(requests[j], f, r)
  BY <1>2 DEF Quieter, IsField
<1>4. \A k, f : f \in Fields => ~Has(view, requests, k, r, f)
  BY <1>1, <1>3 DEF Has
<1>5. \A j \in DOMAIN requests : ~IsField(requests[j], "imageURL", r)
  <2>1. \A k \in DOMAIN requests : IsField(requests[k], "imageURL", r) => All(view, requests, k, r)
    BY <1>1 DEF WholeInv, WholeLine
  <2>2. \A k : ~All(view, requests, k, r)
    BY <1>4, FieldsFacts DEF All
  <2> QED BY <2>1, <2>2
<1>6. \A k : ~Some(view, requests, k, r)
  BY <1>1, <1>3, <1>5 DEF Some, Has, AllFields
<1> QED BY <1>1, <1>6

LEMMA ElementsAppend ==
  ASSUME NEW T, NEW q \in Seq(T), NEW x \in T
  PROVE  Elements(Append(q, x)) = Elements(q) \cup {x}
<1>1. /\ DOMAIN Append(q, x) = 1 .. Len(q) + 1 /\ Len(q) \in Nat /\ DOMAIN q = 1..Len(q)
      /\ \A i \in DOMAIN q : i \in DOMAIN Append(q, x) /\ Append(q, x)[i] = q[i]
      /\ Append(q, x)[Len(q) + 1] = x
      /\ \A i \in DOMAIN Append(q, x) : i \notin DOMAIN q => i = Len(q) + 1
  BY AppendFacts
<1> DEFINE t == Append(q, x)
<1> HIDE DEF t
<1>2. \A y : y \in Elements(t) <=> \E i \in DOMAIN t : t[i] = y
  BY DEF Elements
<1>3. \A y : y \in Elements(q) <=> \E i \in DOMAIN q : q[i] = y
  BY DEF Elements
<1>4. Len(q) + 1 \in DOMAIN t
  BY <1>1 DEF t
<1>5. \A y : y \in Elements(t) <=> y \in Elements(q) \/ y = x
  BY <1>1, <1>2, <1>3, <1>4 DEF t
<1> QED BY <1>5 DEF t

\* The images of a screen that are downloaded.
LEMMA ImagesAnsweredFacts ==
  ASSUME ItemAssumption, Typed, ImagesAnswered
  PROVE  /\ events # <<>> /\ events' = Tail(events) /\ Head(events) \in Fetched(Head(events).of)
         /\ UNCHANGED <<view, requests, imageArray, opened>>
         /\ \A k, r : <<k, r>> \in tasks' =>
              \/ <<k, r>> \in tasks
              \/ k = Head(events).of /\ r \in Reviews /\ Head(events).snap.fields[r] # {}
<1>1. /\ events # <<>> /\ events' = Tail(events) /\ Head(events).kind = "images"
      /\ UNCHANGED <<view, requests, imageArray, opened>>
  BY DEF ImagesAnswered, Callback, node, labels
<1>2. Head(events) \in EventType
  BY <1>1, HeadsAreTyped
<1> DEFINE found == {r \in Reviews : Head(events).snap.fields[r] # {}}
<1>3. tasks' = tasks \/ tasks' = tasks \cup ({Head(events).of} \X found)
  BY DEF ImagesAnswered
<1>4. Head(events) \in Fetched(Head(events).of)
  BY <1>1, <1>2 DEF Fetched
<1>5. ASSUME NEW k, NEW r, <<k, r>> \in tasks', <<k, r>> \notin tasks
      PROVE  k = Head(events).of /\ r \in Reviews /\ Head(events).snap.fields[r] # {}
  <2>1. <<k, r>> \in {Head(events).of} \X found
    BY <1>3, <1>5
  <2> QED BY <2>1
<1> HIDE DEF found
<1> QED BY <1>1, <1>4, <1>5

LEMMA ImageAppendedFacts ==
  ASSUME ItemAssumption, Typed, ImageAppended
  PROVE  /\ events # <<>> /\ events' = Tail(events) /\ Head(events) = Appended(Head(events).of, Head(events).snap)
         /\ Head(events).of \in Screens /\ Head(events).snap \in Reviews
         /\ UNCHANGED <<view, requests, tasks, opened>>
         /\ imageArray' = [imageArray EXCEPT ![Head(events).of] = Append(@, Head(events).snap)]
<1>1. /\ events # <<>> /\ events' = Tail(events) /\ Head(events).kind = "append"
      /\ UNCHANGED <<view, requests, tasks, opened>>
      /\ imageArray' = [imageArray EXCEPT ![Head(events).of] = Append(@, Head(events).snap)]
  BY DEF ImageAppended, Callback, node
<1>2. Head(events) \in AppendType /\ Head(events).of \in Screens /\ Head(events).snap \in Reviews
  BY <1>1, HeadsAreTyped, KindsOfEvents
<1>3. Head(events) = Appended(Head(events).of, Head(events).snap)
  BY <1>2 DEF AppendType, Appended
<1> QED BY <1>1, <1>2, <1>3

LEMMA ImageLineStep ==
  ASSUME ItemAssumption, Typed, FormInv, WholeInv, ImageInv, [Next]_vars, NEW k \in Screens, NEW r \in Reviews
  PROVE  ImageLine(k, r, view', requests', events', tasks', imageArray')
<1> DEFINE W == {Appended(k, r)}
<1>0. /\ events \in Seq(EventType) /\ requests \in Seq(RequestType) /\ view \in NodeType
      /\ imageArray \in [Screens -> Seq(Reviews)]
      /\ \A o \in Reviews : view.fields[o] \subseteq view'.fields[o]
      /\ r \in Mine /\ Some(view, requests, End(requests), r) => Some(view', requests', End(requests'), r)
  BY ViewGrows, SomeGoesOn DEF Typed
<1>1. ImageLine(k, r, view, requests, events, tasks, imageArray)
  BY DEF ImageInv
<1>2. /\ <<k, r>> \in tasks => view.fields[r] # {} /\ None(events, W) /\ r \notin Elements(imageArray[k])
      /\ Once(events, W)
      /\ None(events, W) \/ (view.fields[r] # {} /\ r \notin Elements(imageArray[k]))
      /\ r \in Mine /\ r \in Elements(imageArray[k]) => Some(view, requests, End(requests), r)
  BY <1>1 DEF ImageLine
<1>a. ~(Answer(Head(requests)) \in W /\ ServeRead)
  BY ServeReadFacts DEF SnapType, Kinds, Appended
<1>b. \A x \in EventType : x.kind = "value" => x \notin W
  BY DEF Appended
<1>c. \A t \in tasks : t # <<k, r>> => Appended(t[1], t[2]) \notin W
  <2> SUFFICES ASSUME NEW t \in tasks, t # <<k, r>> PROVE Appended(t[1], t[2]) # Appended(k, r)
    OBVIOUS
  <2>1. t = <<t[1], t[2]>>
    BY DEF Typed
  <2>2. t[1] # k \/ t[2] # r
    BY <2>1
  <2> QED BY <2>2 DEF Appended
<1> HIDE DEF W
\* Neither the downloads nor the images change.
<1>3. ASSUME UNCHANGED <<tasks, imageArray>>, \A t \in tasks : ~DownloadFinished(t, TRUE)
      PROVE  ImageLine(k, r, view', requests', events', tasks', imageArray')
  <2>1. Moved(events, events', EventType, W)
    BY <1>3, <1>a, <1>b, EventsMoved
  <2>2. /\ <<k, r>> \in tasks' => <<k, r>> \in tasks
        /\ r \in Elements(imageArray'[k]) => r \in Elements(imageArray[k])
    BY <1>3
  <2> QED BY <2>1, <2>2, <1>0, <1>1, ImageLineKept DEF W
<1>4. CASE FormAnswered
  <2>1. /\ events # <<>> /\ events' = Tail(events) /\ tasks' = tasks /\ top \in Screens
        /\ \E s \in Seq(RequestType), o \in Unwritten :
              /\ requests' = requests \o s
              /\ imageArray' = [imageArray EXCEPT ![top] = Append(@, o)]
              /\ Some(view, requests \o s, End(requests \o s), o)
        /\ view' = view
    BY <1>4, FormAdds
  <2>2. PICK o \in Unwritten :
              /\ imageArray' = [imageArray EXCEPT ![top] = Append(@, o)]
              /\ Some(view', requests', End(requests'), o)
    BY <2>1
  <2>3. o \in Mine /\ o \in Reviews /\ view.fields[o] = {}
    BY <1>4, UnwrittenFacts, ReviewsFacts
  <2>4. Elements(imageArray'[k]) = IF k = top THEN Elements(imageArray[k]) \cup {o} ELSE Elements(imageArray[k])
    <3>1. Elements(Append(imageArray[k], o)) = Elements(imageArray[k]) \cup {o}
      BY <2>3, <1>0, ElementsAppend
    <3>2. imageArray'[k] = IF k = top THEN Append(imageArray[k], o) ELSE imageArray[k]
      BY <2>2, <1>0
    <3> QED BY <3>1, <3>2
  <2>5. CASE k = top /\ o = r
    <3>1. <<k, r>> \notin tasks' /\ None(events, W) /\ Once(events, W)
      BY <2>1, <2>3, <2>5, <1>2
    <3>2. None(events', W) /\ Once(events', W)
      BY <3>1, <2>1, <1>0, OnceTail
    <3> QED BY <3>1, <3>2, <2>2, <2>5 DEF ImageLine, W
  <2>6. CASE ~(k = top /\ o = r)
    <3>1. r \in Elements(imageArray'[k]) => r \in Elements(imageArray[k])
      BY <2>4, <2>6
    <3>2. Moved(events, events', EventType, W) BY <2>1 DEF Moved
    <3>3. <<k, r>> \in tasks' => <<k, r>> \in tasks BY <2>1
    <3> QED BY <3>1, <3>2, <3>3, <1>0, <1>1, ImageLineKept DEF W
  <2> QED BY <2>5, <2>6
<1>5. CASE ImagesAnswered
  <2>1. /\ events # <<>> /\ events' = Tail(events) /\ Head(events) \in Fetched(Head(events).of)
        /\ imageArray' = imageArray
        /\ <<k, r>> \in tasks' => \/ <<k, r>> \in tasks
                                  \/ k = Head(events).of /\ Head(events).snap.fields[r] # {}
    BY <1>5, ImagesAnsweredFacts
  <2>2. Moved(events, events', EventType, W)
    BY <2>1 DEF Moved
  <2>3. CASE <<k, r>> \in tasks' => <<k, r>> \in tasks
    BY <2>1, <2>2, <2>3, <1>0, <1>1, ImageLineKept DEF W
  <2>4. CASE k = Head(events).of /\ Head(events).snap.fields[r] # {}
    <3>1. ~None(events, Fetched(k)) BY <2>1, <2>4, <1>0, OnceTail
    <3>2. NoImages(k, events, tasks, imageArray) BY <3>1 DEF ImageInv, FetchLine
    <3>3. imageArray[k] = <<>> /\ None(events, W)
      BY <3>2 DEF NoImages, W
    <3>4. view.fields[r] # {}
      <4>1. 1 \in DOMAIN events /\ events[1] = Head(events)
        BY <2>1, <1>0, TailFacts
      <4>2. FoundLine(view, events) /\ Head(events).kind = "images"
        BY <2>1 DEF ImageInv, Fetched
      <4> QED BY <4>1, <4>2, <2>4 DEF FoundLine
    <3>5. view'.fields[r] # {} BY <3>4, <1>0
    <3>6. r \notin Elements(imageArray'[k]) BY <3>3, <2>1 DEF Elements
    <3>7. None(events', W) /\ Once(events', W)
      BY <3>3, <1>2, <2>2, <1>0, OnceMoved
    <3> QED BY <3>5, <3>6, <3>7 DEF ImageLine, W
  <2> QED BY <2>1, <2>3, <2>4
<1>6. CASE ImageAppended
  <2> DEFINE h == Head(events).of
             o == Head(events).snap
  <2>1. /\ events # <<>> /\ events' = Tail(events) /\ Head(events) = Appended(h, o) /\ h \in Screens /\ o \in Reviews
        /\ UNCHANGED <<view, requests, tasks>>
        /\ imageArray' = [imageArray EXCEPT ![h] = Append(@, o)]
    BY <1>6, ImageAppendedFacts
  <2> HIDE DEF h, o
  <2>2. Elements(imageArray'[k]) = IF k = h THEN Elements(imageArray[k]) \cup {o} ELSE Elements(imageArray[k])
    <3>1. Elements(Append(imageArray[k], o)) = Elements(imageArray[k]) \cup {o}
      BY <2>1, <1>0, ElementsAppend
    <3>2. imageArray'[k] = IF k = h THEN Append(imageArray[k], o) ELSE imageArray[k]
      BY <2>1, <1>0
    <3> QED BY <3>1, <3>2
  <2>3. Moved(events, events', EventType, W)
    BY <2>1 DEF Moved
  <2>4. CASE k = h /\ r = o
    <3>1. Head(events) \in W BY <2>1, <2>4 DEF W
    <3>2. ~None(events, W) /\ None(events', W) /\ Once(events', W)
      BY <3>1, <2>1, <2>3, <1>0, <1>2, OnceTail, OnceMoved
    <3>3. <<k, r>> \notin tasks' /\ view.fields[r] # {}
      BY <3>2, <2>1, <1>2
    <3>4. Some(view', requests', End(requests'), r) BY <3>3, <2>1, <1>0, NowFacts
    <3> QED BY <3>2, <3>3, <3>4 DEF ImageLine, W
  <2>5. CASE ~(k = h /\ r = o)
    <3>1. r \in Elements(imageArray'[k]) => r \in Elements(imageArray[k])
      BY <2>2, <2>5
    <3>2. <<k, r>> \in tasks' => <<k, r>> \in tasks BY <2>1
    <3> QED BY <3>1, <3>2, <2>3, <1>0, <1>1, ImageLineKept DEF W
  <2> QED BY <2>4, <2>5
<1>7. ASSUME NEW t \in Screens \X Reviews, NEW ok \in BOOLEAN, DownloadFinished(t, ok)
      PROVE  ImageLine(k, r, view', requests', events', tasks', imageArray')
  <2>1. /\ t \in tasks /\ tasks' = tasks \ {t} /\ UNCHANGED <<view, requests, imageArray>>
        /\ events' = events \/ events' = Append(events, Appended(t[1], t[2]))
    BY <1>7 DEF DownloadFinished, node, labels, Appended
  <2>2. Appended(t[1], t[2]) \in EventType
    BY DEF Appended, EventType, AppendType
  <2>3. CASE t = <<k, r>>
    <3>1. view.fields[r] # {} /\ None(events, W) /\ r \notin Elements(imageArray[k]) /\ Once(events, W)
      BY <2>1, <2>3, <1>2
    <3>2. Once(events', W) BY <3>1, <2>1, <2>2, <1>0, AddedOne
    <3>3. <<k, r>> \notin tasks' /\ view'.fields[r] # {} /\ r \notin Elements(imageArray'[k])
      BY <3>1, <2>1, <2>3
    <3> QED BY <3>2, <3>3 DEF ImageLine, W
  <2>4. CASE t # <<k, r>>
    <3>1. Appended(t[1], t[2]) \notin W BY <2>1, <2>4, <1>c
    <3>2. Moved(events, Append(events, Appended(t[1], t[2])), EventType, W)
      BY <3>1, <2>2, <1>0, MovedByOne
    <3>3. Moved(events, events', EventType, W) BY <3>2, <2>1 DEF Moved
    <3>4. /\ <<k, r>> \in tasks' => <<k, r>> \in tasks
          /\ r \in Elements(imageArray'[k]) => r \in Elements(imageArray[k])
      BY <2>1
    <3> QED BY <3>3, <3>4, <1>0, <1>1, ImageLineKept DEF W
  <2> QED BY <2>3, <2>4
<1>8. ASSUME \A t \in tasks : ~DownloadFinished(t, TRUE), ~FormAnswered, ~ImagesAnswered, ~ImageAppended,
             ~(\E t \in Screens \X Reviews, ok \in BOOLEAN : DownloadFinished(t, ok))
      PROVE  UNCHANGED <<tasks, imageArray>>
  BY <1>8 DEF Next, OpenItem, Back, RateItem, SubmitPressed, RowDisplayed, CountAnswered,
     ReviewsAnswered, ListenerFired, UploadFinished, ServeRead,
     IssueWrite, RemoteArrives, RemoteSubmits, labels, vars, queues
<1>9. tasks \subseteq Screens \X Reviews /\ TRUE \in BOOLEAN
  BY DEF Typed
<1> QED BY <1>3, <1>4, <1>5, <1>6, <1>7, <1>8, <1>9

\* A screen without images keeps having none while its events only move.
LEMMA NoImagesKept ==
  ASSUME NEW k, NEW T, NEW e \in Seq(T), NEW e2, NEW t, NEW t2, NEW a, NEW a2,
         NoImages(k, e, t, a), a2[k] = a[k],
         \A r \in Reviews : Moved(e, e2, T, {Appended(k, r)}) /\ (<<k, r>> \in t2 => <<k, r>> \in t)
  PROVE  NoImages(k, e2, t2, a2)
<1>1. \A r \in Reviews : None(e2, {Appended(k, r)})
  <2> SUFFICES ASSUME NEW r \in Reviews PROVE None(e2, {Appended(k, r)}) OBVIOUS
  <2>1. None(e, {Appended(k, r)}) /\ Moved(e, e2, T, {Appended(k, r)})
    BY DEF NoImages
  <2> QED BY <2>1, OnceMoved
<1> HIDE DEF Moved, None
<1> QED BY <1>1 DEF NoImages

\* So it does in every step but those that bring it one.
LEMMA NoImagesStep ==
  ASSUME ItemAssumption, Typed, FormInv, [Next]_vars, NEW k \in Screens,
         NoImages(k, events, tasks, imageArray), ImagesAnswered => Head(events) \notin Fetched(k), FormAnswered => k # top
  PROVE  NoImages(k, events', tasks', imageArray')
<1>0. /\ events \in Seq(EventType) /\ tasks \subseteq Screens \X Reviews
      /\ imageArray \in [Screens -> Seq(Reviews)]
  BY DEF Typed
<1>1. \A r \in Reviews : <<k, r>> \notin tasks /\ None(events, {Appended(k, r)})
  BY DEF NoImages
<1>2. ASSUME NEW r \in Reviews PROVE Moved(events, events', EventType, {Appended(k, r)})
  <2>1. ~(Answer(Head(requests)) \in {Appended(k, r)} /\ ServeRead)
    BY ServeReadFacts DEF SnapType, Kinds, Appended
  <2>2. \A x \in EventType : x.kind = "value" => x \notin {Appended(k, r)}
    BY DEF Appended
  <2>3. \A t \in tasks : Appended(t[1], t[2]) # Appended(k, r)
    <3> SUFFICES ASSUME NEW t \in tasks PROVE Appended(t[1], t[2]) # Appended(k, r)
      OBVIOUS
    <3>1. t = <<t[1], t[2]>> BY <1>0
    <3>2. t[1] # k \/ t[2] # r
      BY <3>1, <1>1
    <3> QED BY <3>2 DEF Appended
  <2> QED BY <2>1, <2>2, <2>3, EventsMoved
<1>3. ASSUME NEW r \in Reviews, <<k, r>> \in tasks' PROVE <<k, r>> \in tasks
  <2>1. CASE ImagesAnswered
    <3>1. /\ events # <<>> /\ Head(events) \in Fetched(Head(events).of)
          /\ <<k, r>> \in tasks \/ k = Head(events).of
      BY <2>1, <1>3, ImagesAnsweredFacts
    <3> QED BY <2>1, <3>1
  <2>2. ASSUME NEW t \in Screens \X Reviews, NEW ok \in BOOLEAN, DownloadFinished(t, ok) PROVE <<k, r>> \in tasks
    BY <2>2, <1>3 DEF DownloadFinished
  <2>3. CASE ~ImagesAnswered /\ ~(\E t \in Screens \X Reviews, ok \in BOOLEAN : DownloadFinished(t, ok))
    BY <2>3, <1>3 DEF Next, OpenItem, Back, RateItem, SubmitPressed, RowDisplayed, CountAnswered, FormAnswered, ImageAppended,
       ReviewsAnswered, ListenerFired, UploadFinished, ServeRead,
       IssueWrite, RemoteArrives, RemoteSubmits, labels, vars, queues
  <2> QED BY <2>1, <2>2, <2>3
<1>4. imageArray'[k] = imageArray[k]
  <2>1. CASE ImageAppended
    <3>1. /\ events # <<>> /\ Head(events) = Appended(Head(events).of, Head(events).snap)
          /\ Head(events).snap \in Reviews
          /\ imageArray' = [imageArray EXCEPT ![Head(events).of] = Append(@, Head(events).snap)]
      BY <2>1, ImageAppendedFacts
    <3>2. Head(events).of # k
      <4>1. Head(events) \notin {Appended(k, Head(events).snap)}
        BY <3>1, <1>0, <1>1, OnceTail
      <4> QED BY <4>1, <3>1
    <3> QED BY <3>1, <3>2, <1>0
  <2>2. CASE FormAnswered
    <3>1. \E r \in Unwritten : imageArray' = [imageArray EXCEPT ![top] = Append(@, r)]
      BY <2>2, FormAdds
    <3> QED BY <3>1, <2>2, <1>0
  <2>3. CASE ~ImageAppended /\ ~FormAnswered
    BY <2>3 DEF Next, OpenItem, Back, RateItem, SubmitPressed, RowDisplayed, CountAnswered, ImagesAnswered,
       ReviewsAnswered, ListenerFired, UploadFinished, ServeRead, DownloadFinished,
       IssueWrite, RemoteArrives, RemoteSubmits, labels, vars
  <2> QED BY <2>1, <2>2, <2>3
<1> HIDE DEF NoImages
<1> QED BY <1>0, <1>2, <1>3, <1>4, NoImagesKept

LEMMA FetchLineStep ==
  ASSUME ItemAssumption, Typed, FormInv, ImageInv, [Next]_vars, NEW k \in Screens
  PROVE  FetchLine(k, requests', events', tasks', imageArray', opened')
<1> DEFINE Q == Fetch(k)
           E == Fetched(k)
           NI == NoImages(k, events, tasks, imageArray)
           NI2 == NoImages(k, events', tasks', imageArray')
<1>0. /\ events \in Seq(EventType) /\ requests \in Seq(RequestType) /\ k \in Nat /\ opened \in Nat
  BY ScreensFacts DEF Typed
<1>1. /\ Once(requests, Q) /\ Once(events, E)
      /\ None(requests, Q) \/ None(events, E)
      /\ k > opened => None(requests, Q) /\ None(events, E)
      /\ NI \/ (k <= opened /\ None(requests, Q) /\ None(events, E))
  BY DEF ImageInv, FetchLine
<1>2. (ImagesAnswered => Head(events) \notin E) /\ (FormAnswered => k # top) /\ NI => NI2
  BY NoImagesStep
<1>a. \A t \in tasks : Appended(t[1], t[2]) \notin E
  BY DEF Appended, Fetched
<1>b. \A x \in EventType : x.kind = "value" => x \notin E
  BY DEF Fetched
<1>3. SUFFICES /\ Once(requests', Q) /\ Once(events', E)
               /\ None(requests', Q) \/ None(events', E)
               /\ k > opened' => None(requests', Q) /\ None(events', E)
               /\ NI2 \/ (k <= opened' /\ None(requests', Q) /\ None(events', E))
  BY DEF FetchLine
<1> HIDE DEF NI, NI2, Q, E
\* The fetch is answered.
<1>4. CASE ServeRead
  <2> DEFINE x == Answer(Head(requests))
  <2>1. /\ requests # <<>> /\ requests' = Tail(requests) /\ x \in EventType /\ events' = Append(events, x)
        /\ x.kind = Head(requests).kind /\ x.of = Head(requests).of /\ Head(requests) \in ReadType
    BY <1>4, ServeReadFacts
  <2>2. opened' = opened /\ ~FormAnswered /\ ~ImagesAnswered
    <3>1. events' # Tail(events) \/ events = <<>>
      <4>1. Len(events') = Len(events) + 1 /\ Len(events) \in Nat
        BY <2>1, <1>0, AppendFacts
      <4>2. events # <<>> => Len(Tail(events)) = Len(events) - 1 BY <1>0, TailFacts
      <4> QED BY <4>1, <4>2
    <3> QED BY <3>1, <1>4 DEF ServeRead, stack, FormAnswered, ImagesAnswered, Callback
  <2> HIDE DEF x
  <2>3. CASE Head(requests) \in Q
    <3>1. ~None(requests, Q) /\ None(requests', Q) /\ Once(requests', Q)
      BY <2>1, <2>3, <1>0, <1>1, OnceTail
    <3>2. None(events, E) /\ k <= opened /\ NI
      BY <3>1, <1>1, <1>0
    <3>3. Once(events', E) BY <3>2, <2>1, <1>0, AddedOne
    <3> QED BY <3>1, <3>2, <3>3, <2>2, <1>2, <1>0
  <2>4. CASE Head(requests) \notin Q
    <3>1. x \notin E
      <4>1. ~(Head(requests).kind = "images" /\ Head(requests).of = k)
        BY <2>1, <2>4 DEF Q, Fetch, Read, ReadType
      <4> QED BY <4>1, <2>1 DEF E, Fetched
    <3>2. Moved(requests, requests', RequestType, Q) /\ Moved(events, events', EventType, E)
      BY <3>1, <2>1, <1>0, MovedByOne DEF Moved
    <3>3. /\ None(requests, Q) => None(requests', Q)
          /\ Once(requests, Q) => Once(requests', Q)
          /\ None(events, E) => None(events', E)
          /\ Once(events, E) => Once(events', E)
      BY <3>2, <1>0, OnceMoved
    <3>4. CASE None(events, E)
      BY <3>3, <3>4, <2>2, <1>1, <1>2
    <3>5. CASE ~None(events, E) /\ NI
      BY <3>3, <3>5, <2>2, <1>1, <1>2
    <3> QED BY <3>4, <3>5, <1>1
  <2> QED BY <2>3, <2>4
<1>5. ASSUME ~ServeRead PROVE Moved(events, events', EventType, E)
  BY <1>5, <1>a, <1>b, EventsMoved
<1>6. ASSUME ~ServeRead
      PROVE  /\ None(events, E) => None(events', E)
             /\ Once(events, E) => Once(events', E)
  BY <1>5, <1>6, <1>0, OnceMoved
<1>7. CASE FormAnswered
  <2>1. /\ events # <<>> /\ events' = Tail(events) /\ opened' = opened /\ top \in Screens
        /\ \A j \in DOMAIN requests : Quieter(requests[j])
        /\ \A j \in DOMAIN Tail(events) : Tail(events)[j].kind \notin {"item", "images"}
        /\ \E s \in Seq(RequestType) : requests' = requests \o s /\ None(s, Q)
    BY <1>7, FormAdds DEF Q
  <2>2. Moved(requests, requests', RequestType, Q)
    BY <2>1 DEF Moved
  <2>3. None(requests, Q) /\ None(events', E)
    BY <2>1 DEF None, Quieter, Q, E, Fetch, Fetched, Read
  <2>4. None(requests', Q) /\ Once(requests', Q) /\ Once(events', E)
    BY <2>2, <2>3, <1>0, <1>1, OnceMoved DEF Once, None
  <2>5. CASE k = top
    <3>1. k <= opened' BY <2>1, <2>5 DEF Typed
    <3> QED BY <3>1, <2>3, <2>4
  <2>6. CASE k # top
    <3>1. NI => NI2
      <4>1. ~ImagesAnswered BY <1>7 DEF FormAnswered, ImagesAnswered, Callback
      <4> QED BY <4>1, <2>6, <1>2
    <3> QED BY <3>1, <2>1, <2>3, <2>4, <1>1
  <2> QED BY <2>5, <2>6
<1>8. CASE ImagesAnswered
  <2>1. /\ events # <<>> /\ events' = Tail(events) /\ requests' = requests /\ opened' = opened
        /\ Head(events).kind = "images"
    BY <1>8, ImagesAnsweredFacts DEF Fetched
  <2>2. ~ServeRead /\ ~FormAnswered
    <3>1. ~FormAnswered BY <2>1 DEF FormAnswered, Callback
    <3>2. ~ServeRead
      <4>1. ServeRead => Len(events') = Len(events) + 1
        BY <1>0, ServeReadFacts, AppendFacts
      <4>2. Len(Tail(events)) = Len(events) - 1 /\ Len(events) \in Nat
        BY <2>1, <1>0, TailFacts
      <4> QED BY <4>1, <4>2, <2>1
    <3> QED BY <3>1, <3>2
  <2>3. CASE Head(events) \in E
    <3>1. ~None(events, E) /\ None(events', E) /\ Once(events', E)
      BY <2>1, <2>2, <2>3, <1>0, <1>1, <1>6, OnceTail
    <3>2. None(requests, Q) /\ k <= opened
      BY <3>1, <1>1, <1>0
    <3> QED BY <3>1, <3>2, <2>1, <1>1
  <2>4. CASE Head(events) \notin E
    <3>1. NI => NI2 BY <2>2, <2>4, <1>2
    <3> QED BY <3>1, <2>1, <2>2, <1>1, <1>6
  <2> QED BY <2>3, <2>4
<1>9. CASE OpenItem
  <2>1. \E s \in Seq(RequestType) : requests' = requests \o s /\ Once(s, Q) /\ (k # opened + 1 => None(s, Q))
    BY <1>9, OpenAdds DEF Q
  <2>2. opened' = opened + 1 /\ UNCHANGED <<events, tasks, imageArray>>
    BY <1>9 DEF OpenItem, labels
  <2>3. CASE k = opened + 1
    <3>1. None(requests, Q) /\ None(events, E) /\ NI /\ k <= opened'
      BY <2>2, <2>3, <1>0, <1>1
    <3>2. Once(requests', Q) BY <2>1, <3>1, <1>0, OnceCat
    <3> QED BY <3>1, <3>2, <2>2, <2>3, <1>1, <1>0 DEF NI, NI2
  <2>4. CASE k # opened + 1
    <3>1. Moved(requests, requests', RequestType, Q) BY <2>1, <2>4 DEF Moved
    <3>2. /\ None(requests, Q) => None(requests', Q)
          /\ Once(requests, Q) => Once(requests', Q)
      BY <3>1, <1>0, OnceMoved
    <3>3. (k > opened' => k > opened) /\ (k <= opened => k <= opened')
      BY <2>2, <1>0
    <3> QED BY <3>2, <3>3, <2>2, <1>1 DEF NI, NI2
  <2> QED BY <2>3, <2>4
\* No other step adds a fetch, or opens a screen.
<1>10. ASSUME ~ServeRead, ~FormAnswered, ~ImagesAnswered, ~OpenItem
       PROVE  Moved(requests, requests', RequestType, Q) /\ opened' = opened
  <2>1. CASE SubmitPressed \/ CountAnswered \/ \E r \in Mine, ok \in BOOLEAN : UploadFinished(r, ok)
    <3>1. \E s \in Seq(RequestType) : requests' = requests \o s /\ None(s, Q)
      BY <2>1, OthersAdd DEF Q
    <3>2. opened' = opened
      BY <2>1 DEF SubmitPressed, CountAnswered, UploadFinished, Callback, stack
    <3> QED BY <3>1, <3>2 DEF Moved
  <2>2. CASE IssueWrite
    BY <2>2 DEF IssueWrite, Moved, stack
  <2>3. CASE Back \/ RateItem \/ RowDisplayed \/ ListenerFired \/ ReviewsAnswered \/ ImageAppended \/ RemoteArrives
             \/ (\E t \in Screens \X Reviews, ok \in BOOLEAN : DownloadFinished(t, ok))
             \/ (\E r \in Theirs : RemoteSubmits(r)) \/ UNCHANGED vars
    BY <2>3 DEF Back, RateItem, RowDisplayed, ListenerFired, ReviewsAnswered, ImageAppended, RemoteArrives,
       DownloadFinished, RemoteSubmits, Callback, Moved, vars, queues, stack
  <2> QED BY <1>10, <2>1, <2>2, <2>3 DEF Next
<1>11. CASE ~ServeRead /\ ~FormAnswered /\ ~ImagesAnswered /\ ~OpenItem
  <2>1. /\ None(requests, Q) => None(requests', Q)
        /\ Once(requests, Q) => Once(requests', Q)
        /\ opened' = opened
    BY <1>10, <1>11, <1>0, OnceMoved
  <2>2. CASE None(events, E)
    BY <2>1, <2>2, <1>11, <1>1, <1>2, <1>6
  <2>3. CASE ~None(events, E)
    <3>1. NI /\ k <= opened /\ None(requests, Q)
      BY <2>3, <1>0, <1>1
    <3>2. NI2 BY <3>1, <1>11, <1>2
    <3> QED BY <2>1, <3>1, <3>2, <1>11, <1>1, <1>6
  <2> QED BY <2>2, <2>3
<1> QED BY <1>4, <1>7, <1>8, <1>9, <1>11

LEMMA NoImageTwiceStep ==
  ASSUME ItemAssumption, Typed, FormInv, WholeInv, ImageInv, NoImageTwice, [Next]_vars
  PROVE  NoImageTwice'
<1>0. /\ events \in Seq(EventType) /\ imageArray \in [Screens -> Seq(Reviews)]
  BY DEF Typed
<1> DEFINE Different(q) == \A i, j \in DOMAIN q : q[i] = q[j] => i = j
<1>1. ASSUME NEW q \in Seq(Reviews), NEW x \in Reviews, Different(q), x \notin Elements(q)
      PROVE  Different(Append(q, x))
  <2> DEFINE t == Append(q, x)
  <2>1. /\ \A i \in DOMAIN q : t[i] = q[i]
        /\ \A i \in DOMAIN t : i \notin DOMAIN q => i = Len(q) + 1 /\ t[i] = x
    BY AppendFacts
  <2>2. \A i \in DOMAIN q : q[i] # x
    BY <1>1 DEF Elements
  <2> HIDE DEF t
  <2>3. \A i, j \in DOMAIN t : t[i] = t[j] => i = j
    BY <2>1, <2>2, <1>1
  <2> QED BY <2>3 DEF t
<1>2. \A k \in Screens : Different(imageArray[k])
  BY DEF NoImageTwice
<1>3. SUFFICES \A k \in Screens : Different(imageArray'[k])
  BY DEF NoImageTwice
<1> HIDE DEF Different
<1>4. ASSUME NEW h \in Screens, NEW x \in Reviews, imageArray' = [imageArray EXCEPT ![h] = Append(@, x)],
             x \notin Elements(imageArray[h])
      PROVE  \A k \in Screens : Different(imageArray'[k])
  <2>1. Different(Append(imageArray[h], x))
    BY <1>0, <1>1, <1>2, <1>4
  <2> QED BY <2>1, <1>0, <1>2, <1>4
<1>5. CASE ImageAppended
  <2> DEFINE h == Head(events).of
             x == Head(events).snap
  <2>1. /\ events # <<>> /\ Head(events) = Appended(h, x) /\ h \in Screens /\ x \in Reviews
        /\ imageArray' = [imageArray EXCEPT ![h] = Append(@, x)]
    BY <1>5, ImageAppendedFacts
  <2> HIDE DEF h, x
  <2>2. ~None(events, {Appended(h, x)})
    BY <2>1, <1>0, OnceTail
  <2>3. x \notin Elements(imageArray[h])
    BY <2>1, <2>2 DEF ImageInv, ImageLine
  <2> QED BY <2>1, <2>3, <1>4
<1>6. CASE FormAnswered
  <2>1. PICK r \in Unwritten : top \in Screens /\ imageArray' = [imageArray EXCEPT ![top] = Append(@, r)]
    BY <1>6, FormAdds
  <2>2. r \in Mine /\ r \in Reviews /\ ~Some(view, requests, End(requests), r)
    BY <1>6, UnwrittenFacts, ReviewsFacts
  <2>3. r \notin Elements(imageArray[top])
    BY <2>1, <2>2 DEF ImageInv, ImageLine
  <2> QED BY <2>1, <2>2, <2>3, <1>4
<1>7. CASE ~ImageAppended /\ ~FormAnswered
  <2>1. imageArray' = imageArray
    BY <1>7 DEF Next, OpenItem, Back, RateItem, SubmitPressed, RowDisplayed, CountAnswered, ImagesAnswered,
       ReviewsAnswered, ListenerFired, UploadFinished, ServeRead, DownloadFinished,
       IssueWrite, RemoteArrives, RemoteSubmits, labels, vars
  <2> QED BY <2>1, <1>2
<1> QED BY <1>5, <1>6, <1>7

LEMMA ImageStep ==
  ASSUME ItemAssumption, Typed, FormInv, WholeInv, ImageInv, [Next]_vars
  PROVE  ImageInv'
<1>1. FoundLine(view', events')
  BY FoundStep DEF ImageInv
<1>2. \A k \in Screens : FetchLine(k, requests', events', tasks', imageArray', opened')
  BY FetchLineStep
<1>3. \A k \in Screens, r \in Reviews : ImageLine(k, r, view', requests', events', tasks', imageArray')
  BY ImageLineStep
<1> QED BY <1>1, <1>2, <1>3 DEF ImageInv

------------------------
(* The labels. *)

ValuesOf(k) == {x \in EventType : IsValue(x, k)}

\* The last that a screen is told is a count of c.
LastTells(e, k, c) ==
  \E i \in DOMAIN e : /\ IsValue(e[i], k) /\ e[i].snap.count = c
                      /\ \A j \in DOMAIN e : j > i => ~IsValue(e[j], k)

\* A write of this user on its way will change the item, and every listener will be told.
ChangeIsComing(n, q) ==
  \E j \in DOMAIN q, r \in Mine, f \in Fields : IsField(q[j], f, r) /\ f \notin n.fields[r]

LabelLine(n, q, e, k, shown) ==
  \/ ChangeIsComing(n, q)
  \/ LastTells(e, k, n.count)
  \/ None(e, ValuesOf(k)) /\ shown = n.count

LabelInv ==
  Running => \A k \in 1..listening : ~firstReview[k] =>
               LabelLine(view, requests, events, k, numberOfReviews[k])

LEMMA NoValues ==
  ASSUME NEW e \in Seq(EventType), NEW k
  PROVE  None(e, ValuesOf(k)) <=> \A i \in DOMAIN e : ~IsValue(e[i], k)
<1>1. \A i \in DOMAIN e : e[i] \in EventType
  BY SeqOut
<1> QED BY <1>1 DEF None, ValuesOf

LEMMA TellsTail ==
  ASSUME NEW e \in Seq(EventType), e # <<>>, NEW k, NEW c, LastTells(e, k, c)
  PROVE  \/ LastTells(Tail(e), k, c)
         \/ IsValue(Head(e), k) /\ Head(e).snap.count = c /\ None(Tail(e), ValuesOf(k))
<1> DEFINE t == Tail(e)
<1>1. /\ \A i \in DOMAIN t : i \in Nat /\ i >= 1 /\ i + 1 \in DOMAIN e /\ t[i] = e[i + 1] /\ i + 1 > 1
      /\ \A i \in DOMAIN e : i \in Nat /\ (i # 1 => i - 1 \in DOMAIN t /\ e[i] = t[i - 1])
      /\ Head(e) = e[1] /\ t \in Seq(EventType)
  BY TailFacts
<1>2. PICK i \in DOMAIN e : /\ IsValue(e[i], k) /\ e[i].snap.count = c
                            /\ \A j \in DOMAIN e : j > i => ~IsValue(e[j], k)
  BY DEF LastTells
<1> HIDE DEF t
<1>3. CASE i = 1
  <2>1. \A j \in DOMAIN t : ~IsValue(t[j], k)
    BY <1>1, <1>2, <1>3
  <2>2. None(t, ValuesOf(k))
    BY <2>1, <1>1, NoValues
  <2> QED BY <2>2, <1>1, <1>2, <1>3 DEF t
<1>4. CASE i # 1
  <2>1. i - 1 \in DOMAIN t /\ t[i - 1] = e[i]
    BY <1>1, <1>4
  <2>2. \A j \in DOMAIN t : j > i - 1 => j + 1 > i
    BY <1>1
  <2>3. \A j \in DOMAIN t : j > i - 1 => ~IsValue(t[j], k)
    BY <2>2, <1>1, <1>2
  <2>4. LastTells(t, k, c)
    BY <2>1, <2>3, <1>2 DEF LastTells
  <2> QED BY <2>4 DEF t
<1> QED BY <1>3, <1>4

LEMMA TellsCat ==
  ASSUME NEW e \in Seq(EventType), NEW s \in Seq(EventType), NEW k, NEW c
  PROVE  /\ LastTells(e, k, c) /\ None(s, ValuesOf(k)) => LastTells(e \o s, k, c)
         /\ LastTells(s, k, c) => LastTells(e \o s, k, c)
<1> DEFINE t == e \o s
<1>1. /\ Len(e) \in Nat /\ DOMAIN e = 1 .. Len(e) /\ DOMAIN s = 1..Len(s)
      /\ \A i \in DOMAIN e : i \in DOMAIN t /\ t[i] = e[i]
      /\ \A i \in DOMAIN s : Len(e) + i \in DOMAIN t /\ t[Len(e) + i] = s[i]
      /\ \A i \in DOMAIN t : \/ i \in DOMAIN e /\ t[i] = e[i]
                             \/ i \in Nat /\ i > Len(e) /\ i - Len(e) \in DOMAIN s /\ t[i] = s[i - Len(e)]
  <2>1. /\ \A i \in DOMAIN e : i \in DOMAIN t /\ t[i] = e[i]
        /\ \A i \in DOMAIN s : Len(e) + i \in DOMAIN t /\ t[Len(e) + i] = s[i]
        /\ DOMAIN t = 1 .. Len(e) + Len(s) /\ Len(e) \in Nat /\ Len(s) \in Nat
        /\ DOMAIN e = 1 .. Len(e) /\ DOMAIN s = 1..Len(s)
        /\ \A i \in DOMAIN t : i \notin DOMAIN e => i - Len(e) \in DOMAIN s /\ t[i] = s[i - Len(e)]
    BY CatFacts
  <2> HIDE DEF t
  <2> QED BY <2>1
<1> HIDE DEF t
<1>2. ASSUME LastTells(e, k, c), None(s, ValuesOf(k)) PROVE LastTells(t, k, c)
  <2>1. PICK i \in DOMAIN e : /\ IsValue(e[i], k) /\ e[i].snap.count = c
                              /\ \A j \in DOMAIN e : j > i => ~IsValue(e[j], k)
    BY <1>2 DEF LastTells
  <2>2. \A j \in DOMAIN s : ~IsValue(s[j], k)
    BY <1>2, NoValues
  <2>3. \A j \in DOMAIN t : j > i => ~IsValue(t[j], k)
    BY <1>1, <2>1, <2>2
  <2> QED BY <1>1, <2>1, <2>3 DEF LastTells
<1>3. ASSUME LastTells(s, k, c) PROVE LastTells(t, k, c)
  <2>1. PICK i \in DOMAIN s : /\ IsValue(s[i], k) /\ s[i].snap.count = c
                              /\ \A j \in DOMAIN s : j > i => ~IsValue(s[j], k)
    BY <1>3 DEF LastTells
  <2>2. ASSUME NEW j \in DOMAIN t, j > Len(e) + i PROVE ~IsValue(t[j], k)
    <3>1. j - Len(e) \in DOMAIN s /\ t[j] = s[j - Len(e)] /\ j \in Nat
      BY <1>1, <2>1, <2>2
    <3>2. j - Len(e) > i BY <1>1, <2>1, <2>2, <3>1
    <3> QED BY <3>1, <3>2, <2>1
  <2>3. Len(e) + i \in DOMAIN t /\ t[Len(e) + i] = s[i]
    BY <1>1
  <2> QED BY <2>1, <2>2, <2>3 DEF LastTells
<1> QED BY <1>2, <1>3 DEF t

LEMMA HeardTells ==
  ASSUME ItemAssumption, Typed, NEW n \in NodeType, NEW k \in 1..listening
  PROVE  LastTells(events \o Heard(n), k, n.count)
<1>1. /\ Heard(n) \in Seq(EventType) /\ DOMAIN Heard(n) = 1 .. listening /\ listening \in Nat
      /\ \A i \in 1..listening : Heard(n)[i] = [kind |-> "value", of |-> i, snap |-> n]
  BY HeardFacts DEF Typed
<1> DEFINE h == Heard(n)
<1> HIDE DEF h
<1>2. LastTells(h, k, n.count)
  <2>1. \A i \in 1 .. listening : h[i].kind = "value" /\ h[i].of = i /\ h[i].snap = n
    BY <1>1 DEF h
  <2>2. \A i \in DOMAIN h : i > k => ~IsValue(h[i], k)
    BY <2>1, <1>1 DEF IsValue, h
  <2>3. k \in DOMAIN h /\ IsValue(h[k], k) /\ h[k].snap.count = n.count
    BY <2>1, <1>1 DEF IsValue, h
  <2> QED BY <2>2, <2>3 DEF LastTells
<1> QED BY <1>1, <1>2, TellsCat DEF h, Typed

LEMMA ChangeCat ==
  ASSUME NEW T, NEW n, NEW q \in Seq(T), NEW s \in Seq(T), ChangeIsComing(n, q) \/ ChangeIsComing(n, s)
  PROVE  ChangeIsComing(n, q \o s)
<1>1. /\ \A i \in DOMAIN q : i \in DOMAIN (q \o s) /\ (q \o s)[i] = q[i]
      /\ \A i \in DOMAIN s : Len(q) + i \in DOMAIN (q \o s) /\ (q \o s)[Len(q) + i] = s[i]
  BY CatFacts
<1> DEFINE t == q \o s
<1>2. /\ \A i \in DOMAIN q : \E j \in DOMAIN t : t[j] = q[i]
      /\ \A i \in DOMAIN s : \E j \in DOMAIN t : t[j] = s[i]
  BY <1>1
<1> HIDE DEF t
<1>3. ChangeIsComing(n, t)
  BY <1>2 DEF ChangeIsComing
<1> QED BY <1>3 DEF t

LEMMA ChangeServed ==
  ASSUME ItemAssumption, NEW n \in NodeType, NEW q \in Seq(RequestType), q # <<>>, NEW m, Served(n, q, m),
         ChangeIsComing(n, q)
  PROVE  ChangeIsComing(m, Tail(q)) \/ (Head(q).kind = "put" /\ m # n)
<1>1. PICK j \in DOMAIN q, r \in Mine, f \in Fields : IsField(q[j], f, r) /\ f \notin n.fields[r]
  BY DEF ChangeIsComing
<1>2. /\ j # 1 => j - 1 \in DOMAIN Tail(q) /\ q[j] = Tail(q)[j - 1]
      /\ Head(q) = q[1] /\ Head(q) \in RequestType
  BY TailFacts
<1>3. r \in Reviews /\ f \in AllFields /\ Mine \in SUBSET Reviews
  BY ReviewsFacts DEF AllFields
<1>4. CASE f \notin m.fields[r] /\ j # 1
  BY <1>1, <1>2, <1>4 DEF ChangeIsComing
<1>5. CASE f \in m.fields[r]
  <2>1. m # n
    BY <1>1, <1>5
  <2> QED BY <2>1 DEF Served
<1>6. CASE j = 1
  <2>1. Head(q).kind = "put" /\ m = Applied(n, Head(q)) /\ IsField(Head(q), f, r)
    BY <1>1, <1>2, <1>6 DEF Served, IsField
  <2>2. Head(q) \in PutType(Mine)
    BY <2>1, <1>2, KindsOfRequests
  <2>3. f \in Applied(n, Head(q)).fields[r]
    BY <2>1, <2>2, <1>3, AppliedFacts
  <2> QED BY <2>1, <2>3, <1>1
<1> QED BY <1>4, <1>5, <1>6

\* The form's answer adds the writes of a review that is not there yet.
LEMMA ChangeFromForm ==
  ASSUME ItemAssumption, Typed, FormInv, FormAnswered
  PROVE  ChangeIsComing(view', requests')
<1>1. top \in Screens /\ view' = view
  BY FormAdds
<1>2. top # 0
  BY <1>1, ScreensFacts
<1>3. PICK r \in Unwritten : \E first \in BOOLEAN : requests' = requests \o Answered(first, r)
  BY <1>2, FormAnsweredFacts
<1>4. PICK first \in BOOLEAN : requests' = requests \o Answered(first, r)
  BY <1>3
<1>5. r \in Mine /\ view.fields[r] = {}
  BY DEF Unwritten
<1> DEFINE s == Answered(first, r)
<1>6. s \in Seq(RequestType) /\ \A f \in Fields : \E i \in DOMAIN s : s[i] = PutField(r, f)
  BY <1>1, <1>5, AnsweredFacts
<1>7. requests' = requests \o s /\ requests \in Seq(RequestType)
  BY <1>4 DEF Typed
<1> HIDE DEF s
<1>8. PICK f \in Fields : TRUE
  BY FieldsFacts
<1>9. PICK i \in DOMAIN s : s[i] = PutField(r, f)
  BY <1>6
<1>10. ChangeIsComing(view, s)
  BY <1>5, <1>9 DEF ChangeIsComing, IsField, PutField
<1> QED BY <1>1, <1>6, <1>7, <1>10, ChangeCat

\* The screens are heard one after the other.
LEMMA NextListens ==
  ASSUME ItemAssumption, Typed, ListenInv, ServeRead, Head(requests).kind = "value"
  PROVE  Head(requests).of = listening + 1
<1>0. requests \in Seq(RequestType) /\ listening \in Nat /\ opened \in Nat
  BY ScreensFacts DEF Typed
<1>1. requests # <<>> /\ Head(requests) \in ReadType
  BY ServeReadFacts
<1> DEFINE h == Head(requests)
<1>2. /\ 1 \in DOMAIN requests /\ requests[1] = h /\ h.kind = "value" /\ h.of \in Nat
      /\ \A i \in DOMAIN requests : i \in Nat /\ i >= 1
  BY <1>0, <1>1, TailFacts, ScreensFacts DEF ReadType
<1> HIDE DEF h
<1>3. listening < h.of /\ h.of <= opened
  BY <1>2 DEF ListenInv
<1>4. listening + 1 \in listening + 1..opened
  BY <1>0, <1>2, <1>3
<1>5. PICK i \in DOMAIN requests : requests[i].kind = "value" /\ requests[i].of = listening + 1
  BY <1>4 DEF ListenInv
<1>6. i # 1 => h.of < listening + 1
  BY <1>2, <1>5 DEF ListenInv
<1> QED BY <1>0, <1>2, <1>3, <1>5, <1>6 DEF h

\* What a screen is told is kept while the item and its label stay, and no new word of it comes.
LEMMA LabelLineMoved ==
  ASSUME NEW n, NEW q, NEW q2, NEW e \in Seq(EventType), NEW e2, NEW k, NEW c,
         LabelLine(n, q, e, k, c),
         ChangeIsComing(n, q) => ChangeIsComing(n, q2),
         \/ e2 = e
         \/ e # <<>> /\ e2 = Tail(e) /\ ~IsValue(Head(e), k)
         \/ \E s \in Seq(EventType) : e2 = e \o s /\ None(s, ValuesOf(k))
  PROVE  LabelLine(n, q2, e2, k, c)
<1>1. None(e, ValuesOf(k)) => None(e2, ValuesOf(k))
  BY OnceMoved DEF Moved
<1>2. LastTells(e, k, n.count) => LastTells(e2, k, n.count)
  BY TellsTail, TellsCat
<1> QED BY <1>1, <1>2 DEF LabelLine

LEMMA LabelStep ==
  ASSUME ItemAssumption, Typed, FormInv, ListenInv, ShownInv, LabelInv, [Next]_vars
  PROVE  LabelInv'
<1>0. /\ events \in Seq(EventType) /\ requests \in Seq(RequestType) /\ view \in NodeType /\ listening \in Nat
      /\ firstReview \in [Screens -> BOOLEAN] /\ numberOfReviews \in [Screens -> Nat]
      /\ 1..listening \subseteq Screens
  <2>1. 1..listening \subseteq Screens
    BY ScreensFacts DEF Typed
  <2> QED BY <2>1 DEF Typed
<1>1. CASE ~Running'
  BY <1>1 DEF LabelInv
<1>2. CASE Running'
  <2>1. Running
    BY <1>2 DEF Running, Next, OpenItem, Back, RateItem, SubmitPressed, RowDisplayed, FormAnswered, CountAnswered,
       ListenerFired, ReviewsAnswered, ImagesAnswered, ImageAppended, DownloadFinished, UploadFinished, ServeRead,
       IssueWrite, RemoteArrives, RemoteSubmits, Callback, vars
  <2> SUFFICES ASSUME NEW k \in 1..listening', ~firstReview'[k]
               PROVE  LabelLine(view', requests', events', k, numberOfReviews'[k])
    BY DEF LabelInv
  <2>2. ASSUME k \in 1..listening, ~firstReview[k] PROVE LabelLine(view, requests, events, k, numberOfReviews[k])
    BY <2>1, <2>2 DEF LabelInv
  \* The listener of no other screen than k fires, and k's label is as it was.
  <2>3. ASSUME k \in 1..listening, firstReview'[k] = firstReview[k], numberOfReviews'[k] = numberOfReviews[k], view' = view,
               ChangeIsComing(view, requests) => ChangeIsComing(view, requests'),
               \/ events' = events
               \/ events # <<>> /\ events' = Tail(events) /\ ~IsValue(Head(events), k)
               \/ \E s \in Seq(EventType) : events' = events \o s /\ None(s, ValuesOf(k))
        PROVE  LabelLine(view', requests', events', k, numberOfReviews'[k])
    BY <2>2, <2>3, <1>0, LabelLineMoved
  <2>4. CASE FormAnswered
    <3>1. ChangeIsComing(view', requests') BY <2>4, ChangeFromForm
    <3> QED BY <3>1 DEF LabelLine
  <2>5. CASE OpenItem \/ SubmitPressed \/ (\E r \in Mine, ok \in BOOLEAN : UploadFinished(r, ok))
    <3>1. UNCHANGED <<view, events, listening, firstReview, numberOfReviews>>
      BY <2>5 DEF OpenItem, SubmitPressed, UploadFinished, node, labels
    <3>2. \E s \in Seq(RequestType) : requests' = requests \o s
      BY <2>5, OpenAdds, OthersAdd
    <3>3. ChangeIsComing(view, requests) => ChangeIsComing(view, requests')
      BY <3>2, <1>0, ChangeCat
    <3> QED BY <3>1, <3>3, <2>3
  <2>6. CASE CountAnswered
    <3>1. /\ UNCHANGED <<view, listening, firstReview, numberOfReviews>>
          /\ events # <<>> /\ events' = Tail(events) /\ Head(events).kind = "count"
      BY <2>6 DEF CountAnswered, Callback, node, labels
    <3>2. \E s \in Seq(RequestType) : requests' = requests \o s BY <2>6, OthersAdd
    <3>3. ChangeIsComing(view, requests) => ChangeIsComing(view, requests')
      BY <3>2, <1>0, ChangeCat
    <3>4. ~IsValue(Head(events), k) BY <3>1 DEF IsValue
    <3> QED BY <3>1, <3>3, <3>4, <2>3
  <2>7. CASE ReviewsAnswered \/ ImagesAnswered \/ ImageAppended
    <3>1. /\ UNCHANGED <<view, requests, listening, firstReview, numberOfReviews>>
          /\ events # <<>> /\ events' = Tail(events) /\ Head(events).kind # "value"
      BY <2>7 DEF ReviewsAnswered, ImagesAnswered, ImageAppended, Callback, node, labels
    <3>2. ~IsValue(Head(events), k) BY <3>1 DEF IsValue
    <3> QED BY <3>1, <3>2, <2>3
  <2>8. CASE ListenerFired
    <3> DEFINE x == Head(events)
    <3>1. /\ UNCHANGED <<view, requests, listening, firstReview>>
          /\ events # <<>> /\ events' = Tail(events) /\ x.kind = "value"
          /\ numberOfReviews' = [numberOfReviews EXCEPT ![x.of] = IF ~firstReview[x.of] /\ Exists(x.snap) THEN x.snap.count ELSE @]
      <4>1. /\ UNCHANGED <<view, requests, listening, firstReview>>
            /\ events # <<>> /\ events' = Tail(events) /\ x.kind = "value"
        BY <2>8 DEF ListenerFired, Callback, node
      <4>2. ~Trap("average", x.of) BY <1>2 DEF Trap, Running
      <4> HIDE DEF Exists, Trap
      <4> QED BY <4>1, <4>2, <2>8 DEF ListenerFired
    <3>2. x \in EventType /\ x.of \in Screens /\ x.snap \in NodeType
      BY <3>1, HeadsAreTyped, KindsOfEvents
    <3>3. 1 \in DOMAIN events /\ events[1] = x
      BY <3>1, <1>0, TailFacts
    <3> HIDE DEF x
    <3>4. CASE x.of # k
      <4>1. numberOfReviews'[k] = numberOfReviews[k] /\ ~IsValue(Head(events), k)
        BY <3>1, <3>2, <3>4, <1>0 DEF x, IsValue
      <4> QED BY <3>1, <4>1, <2>3
    <3>5. CASE x.of = k
      <4>0. k \in Screens /\ ~firstReview[k] /\ LabelLine(view, requests, events, k, numberOfReviews[k])
        BY <3>1, <1>0, <2>2
      <4>1. IsValue(x, k) /\ x \in ValuesOf(k)
        BY <3>1, <3>2, <3>5 DEF IsValue, ValuesOf
      <4>2. ~None(events, ValuesOf(k)) BY <4>1, <3>3 DEF None
      <4>3. numberOfReviews'[k] = IF Exists(x.snap) THEN x.snap.count ELSE numberOfReviews[k]
        BY <3>1, <3>5, <4>0, <1>0
      \* The label shows what it is told, also of an item that does not exist.
      <4>4. numberOfReviews'[k] = x.snap.count
        <5>1. CASE ~Exists(x.snap)
          <6>1. numberOfReviews[k] = 0 BY <5>1, <4>0, <3>1, <3>3 DEF ShownInv
          <6>2. x.snap.count = 0 BY <5>1, <3>2 DEF Exists, NodeType
          <6> QED BY <6>1, <6>2, <4>3, <5>1
        <5> QED BY <5>1, <4>3
      <4>5. CASE ChangeIsComing(view, requests)
        BY <4>5, <3>1 DEF LabelLine
      <4>6. CASE LastTells(events, k, view.count)
        <5>1. \/ LastTells(events', k, view.count)
              \/ x.snap.count = view.count /\ None(events', ValuesOf(k))
          BY <4>6, <3>1, <1>0, TellsTail DEF x
        <5> QED BY <5>1, <4>4, <3>1 DEF LabelLine
      <4> QED BY <4>0, <4>2, <4>5, <4>6 DEF LabelLine
    <3> QED BY <3>4, <3>5
  <2>9. ASSUME NEW t \in Screens \X Reviews, NEW ok \in BOOLEAN, DownloadFinished(t, ok)
        PROVE  LabelLine(view', requests', events', k, numberOfReviews'[k])
    <3> DEFINE x == Appended(t[1], t[2])
    <3>1. /\ UNCHANGED <<view, requests, listening, firstReview, numberOfReviews>>
          /\ events' = events \/ events' = Append(events, x)
      BY <2>9 DEF DownloadFinished, node, labels, Appended
    <3>2. x \in EventType /\ x.kind = "append"
      BY DEF Appended, EventType, AppendType
    <3> HIDE DEF x
    <3>3. Append(events, x) = events \o <<x>> /\ <<x>> \in Seq(EventType)
      BY <3>2, <1>0, AppendIsCat
    <3>4. None(<<x>>, ValuesOf(k)) BY <3>2, OnceOne DEF ValuesOf, IsValue
    <3> QED BY <3>1, <3>3, <3>4, <2>3
  <2>10. CASE ServeRead
    <3> DEFINE x == Answer(Head(requests))
    <3>1. /\ requests # <<>> /\ requests' = Tail(requests) /\ x \in EventType /\ events' = Append(events, x)
          /\ x.kind = Head(requests).kind /\ x.of = Head(requests).of /\ x.snap = view /\ view' = view
          /\ listening' = IF Head(requests).kind = "value" THEN Head(requests).of ELSE listening
      BY <2>10, ServeReadFacts
    <3>2. UNCHANGED <<firstReview, numberOfReviews>> /\ Head(requests).kind # "put"
      BY <2>10 DEF ServeRead, labels
    <3> HIDE DEF x
    <3>3. Append(events, x) = events \o <<x>> /\ <<x>> \in Seq(EventType)
      BY <3>1, <1>0, AppendIsCat
    <3>4. CASE IsValue(x, k)
      <4>1. LastTells(<<x>>, k, view.count)
        <5>1. 1 \in DOMAIN <<x>> /\ <<x>>[1] = x /\ \A j \in DOMAIN <<x>> : ~(j > 1)
          OBVIOUS
        <5> QED BY <5>1, <3>1, <3>4 DEF LastTells
      <4> QED BY <4>1, <3>1, <3>3, <1>0, TellsCat DEF LabelLine
    <3>5. CASE ~IsValue(x, k)
      <4>1. None(<<x>>, ValuesOf(k)) BY <3>5, OnceOne DEF ValuesOf
      <4>2. k \in 1..listening
        <5>1. CASE Head(requests).kind = "value"
          <6>1. x.of = listening + 1 /\ listening' = listening + 1 /\ k # x.of
            BY <5>1, <3>1, <3>5, <2>10, NextListens DEF IsValue
          <6> QED BY <6>1, <1>0
        <5> QED BY <5>1, <3>1
      <4>3. Served(view, requests, view) BY <3>2 DEF Served
      <4>4. ChangeIsComing(view, requests) => ChangeIsComing(view, Tail(requests))
        BY <4>3, <3>1, <1>0, ChangeServed
      <4> QED BY <4>1, <4>2, <4>4, <3>1, <3>2, <3>3, <2>3
    <3> QED BY <3>4, <3>5
  <2>11. ASSUME listening' = listening, view' \in NodeType, events' = events \o Heard(view')
         PROVE  LabelLine(view', requests', events', k, numberOfReviews'[k])
    <3>1. LastTells(events \o Heard(view'), k, view'.count) BY <2>11, HeardTells
    <3> QED BY <3>1, <2>11 DEF LabelLine
  <2>12. CASE IssueWrite
    <3>1. /\ requests # <<>> /\ requests' = Tail(requests) /\ view' \in NodeType
          /\ Served(view, requests, view')
          /\ (view' = view => events' = events) /\ (view' # view => events' = events \o Heard(view'))
      BY <2>12, IssueWriteFacts DEF Served, IssueWrite
    <3>2. UNCHANGED <<listening, firstReview, numberOfReviews>>
      BY <2>12 DEF IssueWrite, labels
    <3>3. CASE view' = view
      <4>1. ChangeIsComing(view, requests) => ChangeIsComing(view, requests')
        BY <3>1, <3>3, <1>0, ChangeServed
      <4> QED BY <4>1, <3>1, <3>2, <3>3, <2>3
    <3> QED BY <3>1, <3>2, <3>3, <2>11
  <2>13. CASE RemoteArrives
    <3>1. /\ view' \in NodeType
          /\ (view' = view => events' = events) /\ (view' # view => events' = events \o Heard(view'))
      BY <2>13, RemoteArrivesFacts
    <3>2. UNCHANGED <<requests, listening, firstReview, numberOfReviews>>
      BY <2>13 DEF RemoteArrives, labels
    <3> QED BY <3>1, <3>2, <2>3, <2>11
  <2>14. CASE Back \/ RateItem \/ RowDisplayed \/ (\E r \in Theirs : RemoteSubmits(r)) \/ UNCHANGED vars
    <3>1. UNCHANGED <<view, requests, events, listening, firstReview, numberOfReviews>>
      BY <2>14 DEF Back, RateItem, RowDisplayed, RemoteSubmits, vars, queues, node, labels
    <3> QED BY <3>1, <2>3
  <2> QED BY <2>4, <2>5, <2>6, <2>7, <2>8, <2>9, <2>10, <2>12, <2>13, <2>14 DEF Next
<1> QED BY <1>1, <1>2

------------------------
(* The screen that wrote the first review. *)

LEMMA FormsScreenStep ==
  ASSUME ItemAssumption, Typed, FirstInv, FormsScreenSurvives, [Next]_vars
  PROVE  FormsScreenSurvives'
<1>0. events \in Seq(EventType) /\ 0 \notin Screens
  BY ScreensFacts DEF Typed
<1>1. CASE Running /\ trap'.why = "average"
  <2> DEFINE x == Head(events)
  <2>1. ListenerFired /\ ~firstReview[x.of] /\ Exists(x.snap) /\ ~x.snap.average /\ trap' = [why |-> "average", of |-> x.of]
    <3>1. \A why, of : Trap(why, of) => trap'.why = why BY DEF Trap
    <3>2. trap.why = "no" BY <1>1 DEF Running
    <3>3. ListenerFired
      <4> HIDE DEF Trap
      <4> QED BY <1>1, <3>1, <3>2
           DEF Next, OpenItem, Back, RateItem, SubmitPressed, RowDisplayed, FormAnswered, CountAnswered,
               ReviewsAnswered, ImagesAnswered, ImageAppended, DownloadFinished, UploadFinished, ServeRead,
               IssueWrite, RemoteArrives, RemoteSubmits, Callback, vars
    <3> HIDE DEF Exists
    <3> QED BY <3>2, <3>3, <1>1 DEF ListenerFired, Trap
  <2>2. /\ events # <<>> /\ x.kind = "value" /\ UNCHANGED <<view, remote, top>>
    BY <2>1 DEF ListenerFired, Callback, node
  <2>3. 1 \in DOMAIN events /\ events[1] = x
    BY <2>2, <1>0, TailFacts
  <2>4. x.of \in Screens
    BY <2>2, HeadsAreTyped, KindsOfEvents
  <2> HIDE DEF x
  <2>5. CASE x.of = top
    <3>1. IsValue(x, top) /\ Half(x.snap) /\ ~Told
      BY <2>1, <2>2, <2>5 DEF IsValue, Half, Told, x
    <3>2. ~OursInv
      <4> HIDE DEF Half, HalfFrom, HalfAt
      <4> QED BY <3>1, <2>3 DEF OursInv, OursLine
    <3>3. ~Ours BY <3>2, <1>1 DEF FirstInv
    <3> QED BY <3>3, <2>2 DEF Ours, FormsScreenSurvives
  <2>6. CASE x.of # top
    BY <2>1, <2>2, <2>6 DEF FormsScreenSurvives, x
  <2> QED BY <2>5, <2>6
<1>2. CASE ~Running
  <2>1. UNCHANGED vars
    BY <1>2 DEF Next, OpenItem, Back, RateItem, SubmitPressed, RowDisplayed, FormAnswered, CountAnswered,
       ListenerFired, ReviewsAnswered, ImagesAnswered, ImageAppended, DownloadFinished, UploadFinished, ServeRead,
       IssueWrite, RemoteArrives, RemoteSubmits, Callback
  <2> QED BY <2>1 DEF vars, node, stack, FormsScreenSurvives
<1>3. CASE trap'.why # "average"
  BY <1>3 DEF FormsScreenSurvives
<1> QED BY <1>1, <1>2, <1>3

------------------------
(* The inductive invariant. *)

IInv ==
  /\ Typed /\ WholeInv /\ FormInv /\ ListenInv /\ ListedInv /\ RatingsEndWithTheRows
  /\ ImageInv /\ NoImageTwice /\ ExistInv /\ ShownInv /\ LabelInv /\ FirstInv
  /\ FormsScreenSurvives /\ OwnReviewsAreWhole

LEMMA ItemStarts == ASSUME ItemAssumption, Init PROVE IInv
<1>1. /\ Seeded \subseteq Theirs /\ IsFiniteSet(Seeded) /\ Cardinality(Seeded) \in Nat
      /\ MaxScreens \in Nat /\ \A r \in Mine : r \notin Seeded
  <2>1. IsFiniteSet(Seeded)
    BY ReviewsFacts, FS_Subset
  <2>2. Cardinality(Seeded) \in Nat
    BY <2>1, FS_CardinalityType
  <2> QED BY <2>1, <2>2, ReviewsFacts DEF ItemAssumption, ScreensAssumption
<1>2. /\ requests = <<>> /\ events = <<>> /\ remote = <<>> /\ DOMAIN requests = {} /\ DOMAIN events = {} /\ DOMAIN remote = {}
      /\ listening = 0 /\ opened = 0 /\ top = 0 /\ form = "none" /\ uploads = {} /\ tasks = {}
      /\ trap.why = "no"
      /\ \A k \in Screens : /\ ~firstReview[k] /\ reviews[k] = <<>> /\ ratings[k] = <<>> /\ imageArray[k] = <<>>
                            /\ numberOfReviews[k] = 0 /\ rows[k] = 0
      /\ End(requests) = 1
  BY DEF Init, End
<1>3. /\ view.count = Cardinality(Seeded) /\ view.average = (Seeded # {})
      /\ \A r \in Reviews : view.fields[r] = IF r \in Seeded THEN Fields \cup {"imageURL"} ELSE {}
  BY DEF Init
<1>4. Typed
  <2>1. view \in NodeType
    BY <1>1 DEF Init, NodeType
  <2>2. /\ requests \in Seq(RequestType) /\ events \in Seq(EventType) /\ remote \in Seq(PutType(Theirs))
    BY <1>2
  <2>3. /\ firstReview \in [Screens -> BOOLEAN] /\ reviews \in [Screens -> Seq(Reviews)]
        /\ ratings \in [Screens -> Seq(Reviews)] /\ imageArray \in [Screens -> Seq(Reviews)]
        /\ rows \in [Screens -> Nat] /\ numberOfReviews \in [Screens -> Nat]
        /\ trap \in [why : {"no", "average", "field", "image", "download", "row"}, of : Nat]
    BY DEF Init
  <2> QED BY <2>1, <2>2, <2>3, <1>1, <1>2 DEF Typed
<1>5. \A r \in Mine : \A k : ~Some(view, requests, k, r)
  <2>1. \A r \in Mine : view.fields[r] = {}
    BY <1>1, <1>3, ReviewsFacts
  <2> QED BY <2>1, <1>2 DEF Some, Has
<1>6. WholeInv
  BY <1>2, <1>5 DEF WholeInv, WholeLine
<1>7. FormInv /\ ListenInv /\ ListedInv /\ ExistInv /\ FormsScreenSurvives /\ OwnReviewsAreWhole
  <2>1. 0 + 1..0 = {} OBVIOUS
  <2> QED BY <2>1, <1>2 DEF FormInv, ListenInv, ListedInv, ExistInv, FormsScreenSurvives, OwnReviewsAreWhole
<1>8. RatingsEndWithTheRows
  <2>1. Len(<<>>) - Len(<<>>) >= 0 /\ DOMAIN <<>> = {} OBVIOUS
  <2> QED BY <2>1, <1>2 DEF RatingsEndWithTheRows
<1>9. ImageInv
  <2>1. FoundLine(view, events)
    BY <1>2 DEF FoundLine
  <2>2. \A W : None(requests, W) /\ None(events, W) /\ Once(requests, W) /\ Once(events, W)
    BY <1>2 DEF None, Once
  <2>3. \A k \in Screens : NoImages(k, events, tasks, imageArray)
    BY <2>2, <1>2 DEF NoImages
  <2>4. \A k \in Screens : FetchLine(k, requests, events, tasks, imageArray, opened)
    BY <2>2, <2>3 DEF FetchLine
  <2>5. \A k \in Screens : Elements(imageArray[k]) = {}
    BY <1>2 DEF Elements
  <2>6. \A k \in Screens, r \in Reviews : ImageLine(k, r, view, requests, events, tasks, imageArray)
    BY <2>2, <2>5, <1>2 DEF ImageLine
  <2> QED BY <2>1, <2>4, <2>6 DEF ImageInv
<1>10. NoImageTwice
  BY <1>2 DEF NoImageTwice
<1>11. ShownInv
  BY <1>2 DEF ShownInv
<1>12. LabelInv
  <2>1. 1..0 = {} OBVIOUS
  <2> QED BY <2>1, <1>2 DEF LabelInv
<1>13. FirstInv
  <2> SUFFICES ASSUME Ours PROVE OursInv
    BY <1>2 DEF FirstInv
  <2>1. Seeded = {}
    <3>1. \A r \in Seeded : r \in Theirs /\ r \in Reviews /\ view.fields[r] # {}
      BY <1>1, <1>3, ReviewsFacts
    <3> QED BY <3>1 DEF Ours
  <2>2. ~Exists(view)
    <3>1. view.count = 0 BY <2>1, <1>3, FS_EmptySet
    <3> QED BY <3>1, <2>1, <1>3 DEF Exists
  <2>3. \A k : ~HalfAt(view, requests, k)
    <3> HIDE DEF Exists
    <3> QED BY <2>2, <1>2 DEF HalfAt
  <2>4. \A k : ~HalfFrom(view, requests, k)
    BY <2>3 DEF HalfFrom
  <2> HIDE DEF HalfAt, HalfFrom, Half
  <2> QED BY <2>3, <2>4, <1>2 DEF OursInv, OursLine
<1> QED BY <1>4, <1>6, <1>7, <1>8, <1>9, <1>10, <1>11, <1>12, <1>13 DEF IInv

LEMMA ItemGoesOn == ASSUME ItemAssumption, IInv, [Next]_vars PROVE IInv'
<1> USE DEF IInv
<1>1. Typed'
  BY TypedStep
<1>2. WholeInv' /\ FormInv' /\ ListenInv' /\ ListedInv' /\ RatingsEndWithTheRows'
  BY WholeStep, FormStep, ListenStep, ListedStep, RatingsStep
<1>3. ImageInv' /\ NoImageTwice'
  BY ImageStep, NoImageTwiceStep
<1>4. ExistInv' /\ ShownInv' /\ LabelInv'
  BY ExistStep, ShownStep, LabelStep
<1>5. FirstInv' /\ FormsScreenSurvives' /\ OwnReviewsAreWhole'
  BY FirstStep, FormsScreenStep, OwnReviewsAreWholeStep
<1> QED BY <1>1, <1>2, <1>3, <1>4, <1>5

LEMMA ItemInvariant == ASSUME ItemAssumption PROVE Spec => []IInv
BY ItemStarts, ItemGoesOn, PTL DEF Spec

------------------------
\* The screen from which an item's first review is written is never trapped by its own
\* listener between the writes of the totals, however many screens were opened before and
\* whatever is waiting: only a review of someone else can bring that about (ItemDetailsVC's
\* listener, ReviewItemVC.prepare).
THEOREM FormsScreenAlwaysSurvives == ASSUME ItemAssumption PROVE Spec => []FormsScreenSurvives
<1>1. IInv => FormsScreenSurvives
  BY DEF IInv
<1> QED BY <1>1, ItemInvariant, PTL

\* No reload meets a review of this user half written (submitReview, reloadViewDidLoad).
THEOREM OwnReviewsStayWhole == ASSUME ItemAssumption PROVE Spec => []OwnReviewsAreWhole
<1>1. IInv => OwnReviewsAreWhole
  BY DEF IInv
<1> QED BY <1>1, ItemInvariant, PTL

\* After any number of reloads the ratings end with those of the rows (reloadViewDidLoad
\* clears reviews and dates, not ratings).
THEOREM RatingsReachTheRows == ASSUME ItemAssumption PROVE Spec => []RatingsEndWithTheRows
<1>1. IInv => RatingsEndWithTheRows
  BY DEF IInv
<1> QED BY <1>1, ItemInvariant, PTL

\* When all is quiet, the screen on display has a row for every review its user wrote.
THEOREM OwnReviewsGetTheirRows == ASSUME ItemAssumption PROVE Spec => []OwnReviewsAreListed
<1>1. IInv => OwnReviewsAreListed
  <2> SUFFICES ASSUME IInv, Quiet, top # 0, NEW r \in Mine, view.fields[r] # {}
               PROVE  \E i \in DOMAIN reviews[top] : reviews[top][i] = r
    BY DEF OwnReviewsAreListed
  <2>1. /\ Running /\ DOMAIN requests = {} /\ DOMAIN events = {}
    BY DEF Quiet
  <2>2. Some(view, requests, End(requests), r)
    BY NowFacts, ReviewsFacts DEF IInv, Typed
  <2>3. r \in Elements(reviews[top])
    BY <2>1, <2>2 DEF IInv, ListedInv
  <2> QED BY <2>3 DEF Elements
<1> QED BY <1>1, ItemInvariant, PTL

\* When all is quiet, every listening screen that is not in its first-review state shows
\* the item's count, the screens left behind included.
THEOREM LabelsComeToTheCount == ASSUME ItemAssumption PROVE Spec => []LabelsShowTheCount
<1>1. IInv => LabelsShowTheCount
  <2> SUFFICES ASSUME IInv, Quiet, NEW k \in 1..listening, ~firstReview[k]
               PROVE  numberOfReviews[k] = view.count
    BY DEF LabelsShowTheCount
  <2>1. /\ Running /\ DOMAIN requests = {} /\ DOMAIN events = {}
    BY DEF Quiet
  <2>2. LabelLine(view, requests, events, k, numberOfReviews[k])
    BY <2>1 DEF IInv, LabelInv
  <2>3. ~ChangeIsComing(view, requests) /\ ~LastTells(events, k, view.count)
    BY <2>1 DEF ChangeIsComing, LastTells
  <2> QED BY <2>2, <2>3 DEF LabelLine
<1> QED BY <1>1, ItemInvariant, PTL

\* No screen shows an image twice: the one fetch of a screen is answered before its form can
\* be, and a review just written was in no answer (getImagesURLs, ReviewItemVC.prepare).
THEOREM ImagesAreShownOnce == ASSUME ItemAssumption PROVE Spec => []NoImageTwice
<1>1. IInv => NoImageTwice
  BY DEF IInv
<1> QED BY <1>1, ItemInvariant, PTL
===============================================================================
