--------------------------- MODULE SharedTotalsProofs ---------------------------
(***************************************************************************)
(* What holds of ReviewSubmission's totals however many devices write      *)
(* them, with kills and lost connections, for every value of the constants.*)
(*                                                                         *)
(* First part: no average is divided by zero. LineInv says of each device  *)
(* that its questions and reads are in the order of the presses, and that  *)
(* a count is read before its average.                                     *)
(* Second part: on a reviewed item no total counts a review whose rating   *)
(* is not stored. BackedInv says that of every copy of the node and of     *)
(* every write on its way, counting the ratings written ahead of it.       *)
(***************************************************************************)
EXTENDS ReviewSubmissionProofs

------------------------
(* On any number of devices no average is divided by zero. *)

Question(x) == x.kind \in {"ask", "item"}
IsGet(x, p) == x.kind = "get" /\ x.path = p
IsAnswer(x, p) == x.kind = "value" /\ x.path = p

\* The questions of a queue come in the order of the presses.
Rising(q) ==
  \A i, j \in DOMAIN q :
    i < j /\ Question(q[i]) /\ Question(q[j]) => q[i].sub < q[j].sub
RisingAsked(a) == \A i, j \in DOMAIN a : i < j => a[i].sub < a[j].sub

\* So do the questions of a device from its requests to its events, and what is read for a
\* submission is read before a later one knows whether the item exists.
InOrder(e, a, r) ==
  /\ Rising(e) /\ RisingAsked(a) /\ Rising(r)
  /\ \A x \in Elements(e), y \in Elements(a) : x.sub < y.sub
  /\ \A y \in Elements(r) : y.kind = "ask" =>
       /\ \A x \in Elements(e) : x.sub < y.sub
       /\ \A x \in Elements(a) : x.sub < y.sub
  /\ \A x \in Elements(r) : x.kind = "get" =>
       /\ \A y \in Elements(e) : y.kind = "item" => x.sub < y.sub
       /\ \A y \in Elements(a) : x.sub < y.sub
       /\ \A y \in Elements(r) : y.kind = "ask" => x.sub < y.sub
  /\ \A x, y \in Elements(e) : x.kind = "value" /\ y.kind = "item" => x.sub < y.sub

\* Before the answer to the average's read comes that to the count's, unless it has come.
CountIsFirst(e, r, count) ==
  /\ \A j \in DOMAIN e : IsAnswer(e[j], AverageRating) =>
       \/ count[e[j].sub] > 0
       \/ \E i \in DOMAIN e : i < j /\ IsAnswer(e[i], Count) /\ e[i].sub = e[j].sub
  /\ \A j \in DOMAIN r : IsGet(r[j], AverageRating) =>
       \/ count[r[j].sub] > 0
       \/ \E x \in Elements(e) : IsAnswer(x, Count) /\ x.sub = r[j].sub
       \/ \E i \in DOMAIN r : i < j /\ IsGet(r[i], Count) /\ r[i].sub = r[j].sub

\* What a device reads it reads for submissions of its own.
ReadsAreOwn(d) ==
  /\ \A x \in Elements(events[d]) : subs[x.sub].dev = d
  /\ \A x \in Elements(asked[d]) : subs[x.sub].dev = d
  /\ \A x \in Elements(requests[d]) : x.kind # "put" => subs[x.sub].dev = d

LineInv(d) ==
  /\ InOrder(events[d], asked[d], requests[d])
  /\ CountIsFirst(events[d], requests[d], newCount)
  /\ ReadsAreOwn(d)

\* The elements of a queue without its head, and what they may be when it is put back.
LEMMA TailElements ==
  ASSUME NEW S, NEW q \in Seq(S), q # <<>>
  PROVE  Elements(q) = Elements(Tail(q)) \cup {Head(q)}
<1> DEFINE r == Tail(q)
           n == Len(q)
<1>1. /\ n \in Nat /\ n >= 1 /\ DOMAIN q = 1 .. n /\ Head(q) = q[1]
      /\ DOMAIN r = 1 .. n - 1 /\ \A i \in 1..n - 1 : r[i] = q[i + 1]
  BY TailIndices
<1> HIDE DEF r, n
<1>2. ASSUME NEW i \in DOMAIN q PROVE q[i] \in Elements(r) \cup {q[1]}
  <2>1. CASE i # 1
    <3>1. i - 1 \in DOMAIN r /\ r[i - 1] = q[i]
      BY <1>1, <2>1
    <3> QED BY <3>1 DEF Elements
  <2> QED BY <2>1
<1>3. ASSUME NEW i \in DOMAIN r PROVE r[i] \in Elements(q)
  <2>1. i + 1 \in DOMAIN q /\ r[i] = q[i + 1]
    BY <1>1
  <2> QED BY <2>1 DEF Elements
<1>4. q[1] \in Elements(q)
  BY <1>1 DEF Elements
<1>5. Elements(q) = Elements(r) \cup {q[1]}
  BY <1>2, <1>3, <1>4 DEF Elements
<1> QED BY <1>1, <1>5 DEF r

\* Without its head a queue stays in the order of the presses, and the head is the first.
LEMMA RisingTail ==
  ASSUME NEW S, NEW q \in Seq(S), q # <<>>
  PROVE  /\ Rising(q) => Rising(Tail(q))
         /\ Rising(q) /\ Question(Head(q)) =>
              \A y \in Elements(Tail(q)) : Question(y) => Head(q).sub < y.sub
         /\ RisingAsked(q) => RisingAsked(Tail(q))
         /\ RisingAsked(q) => \A y \in Elements(Tail(q)) : Head(q).sub < y.sub
<1> DEFINE r == Tail(q)
           n == Len(q)
<1>1. /\ n \in Nat /\ n >= 1 /\ DOMAIN q = 1 .. n /\ Head(q) = q[1]
      /\ DOMAIN r = 1 .. n - 1 /\ \A i \in 1..n - 1 : r[i] = q[i + 1]
  BY TailIndices
<1> HIDE DEF r, n
<1>2. \A i \in DOMAIN r : i + 1 \in DOMAIN q /\ r[i] = q[i + 1] /\ 1 < i + 1
  BY <1>1
<1>3. \A i, j \in DOMAIN r : i < j => i + 1 < j + 1
  BY <1>1
<1>4. Rising(q) => Rising(r)
  BY <1>2, <1>3 DEF Rising
<1>5. RisingAsked(q) => RisingAsked(r)
  BY <1>2, <1>3 DEF RisingAsked
<1>6. 1 \in DOMAIN q
  BY <1>1
<1>7. Rising(q) /\ Question(q[1]) => \A y \in Elements(r) : Question(y) => q[1].sub < y.sub
  BY <1>2, <1>6 DEF Rising, Elements
<1>8. RisingAsked(q) => \A y \in Elements(r) : q[1].sub < y.sub
  BY <1>2, <1>6 DEF RisingAsked, Elements
<1> QED BY <1>1, <1>4, <1>5, <1>7, <1>8 DEF r

\* What is appended may ask for a submission later than those already asked for.
LEMMA RisingAppend ==
  ASSUME NEW S, NEW q \in Seq(S), NEW x \in S
  PROVE  /\ Rising(q) /\ (Question(x) => \A y \in Elements(q) : Question(y) => y.sub < x.sub)
              => Rising(Append(q, x))
         /\ RisingAsked(q) /\ (\A y \in Elements(q) : y.sub < x.sub)
              => RisingAsked(Append(q, x))
<1> DEFINE r == Append(q, x)
           n == Len(q)
<1>1. /\ n \in Nat /\ DOMAIN q = 1 .. n /\ DOMAIN r = 1 .. n + 1 /\ r[n + 1] = x
      /\ \A i \in 1..n : r[i] = q[i]
  OBVIOUS
<1> HIDE DEF r, n
<1>2. ASSUME NEW i \in DOMAIN r, NEW j \in DOMAIN r, i < j
      PROVE  /\ i \in DOMAIN q /\ r[i] = q[i] /\ q[i] \in Elements(q)
             /\ r[j] = x \/ (j \in DOMAIN q /\ r[j] = q[j])
  <2>1. i \in DOMAIN q /\ r[i] = q[i]
    BY <1>1, <1>2
  <2>2. r[j] = x \/ (j \in DOMAIN q /\ r[j] = q[j])
    BY <1>1, <1>2
  <2> QED BY <2>1, <2>2 DEF Elements
<1>3. Rising(q) /\ (Question(x) => \A y \in Elements(q) : Question(y) => y.sub < x.sub)
        => Rising(r)
  BY <1>2 DEF Rising
<1>4. RisingAsked(q) /\ (\A y \in Elements(q) : y.sub < x.sub) => RisingAsked(r)
  BY <1>2 DEF RisingAsked
<1> QED BY <1>3, <1>4 DEF r

\* What is issued asks for nothing but the totals.
LEMMA RisingConcat ==
  ASSUME NEW S, NEW q \in Seq(S), NEW xs \in Seq(S), Rising(q),
         \A x \in Elements(xs) : ~Question(x)
  PROVE  Rising(q \o xs)
<1> DEFINE r == q \o xs
           n == Len(q)
           m == Len(xs)
<1>1. /\ n \in Nat /\ m \in Nat /\ DOMAIN q = 1 .. n /\ DOMAIN xs = 1..m
      /\ DOMAIN r = 1..n + m
      /\ \A i \in 1..n : r[i] = q[i]
      /\ \A i \in 1 .. n + m : i \notin 1 .. n => i - n \in 1 .. m /\ r[i] = xs[i - n]
  BY ConcatIndices
<1> HIDE DEF r, n, m
<1>2. \A i \in DOMAIN r : Question(r[i]) => i \in DOMAIN q /\ r[i] = q[i]
  BY <1>1 DEF Elements
<1>3. Rising(r)
  BY <1>2 DEF Rising
<1> QED BY <1>3 DEF r

------------------------
\* A press asks for the latest of all submissions.
LEMMA PressInOrder ==
  ASSUME NEW S, NEW r \in Seq(S), NEW e, NEW a, InOrder(e, a, r), NEW x \in S, x.kind = "ask",
         \A y \in Elements(e) : y.sub < x.sub, \A y \in Elements(a) : y.sub < x.sub,
         \A y \in Elements(r) : y.kind # "put" => y.sub < x.sub
  PROVE  InOrder(e, a, Append(r, x))
<1>1. Elements(Append(r, x)) = Elements(r) \cup {x}
  BY ElementsFacts
<1>2. Rising(Append(r, x))
  <2>1. \A y \in Elements(r) : Question(y) => y.sub < x.sub
    BY DEF Question
  <2> QED BY <2>1, RisingAppend DEF InOrder
<1> QED BY <1>1, <1>2 DEF InOrder

\* The question that goes to the server is the latest of those it has not answered.
LEMMA AskStaysInOrder ==
  ASSUME NEW S, NEW r \in Seq(S), NEW A, NEW a \in Seq(A), NEW e, InOrder(e, a, r),
         r # <<>>, Head(r).kind = "ask", NEW x \in A, x.sub = Head(r).sub
  PROVE  InOrder(e, Append(a, x), Tail(r))
<1>1. Elements(r) = Elements(Tail(r)) \cup {Head(r)}
  BY TailElements
<1>2. Elements(Append(a, x)) = Elements(a) \cup {x}
  BY ElementsFacts
<1>3. /\ Rising(Tail(r))
      /\ \A y \in Elements(Tail(r)) : Question(y) => x.sub < y.sub
  BY RisingTail DEF InOrder, Question
<1>4. RisingAsked(Append(a, x))
  <2>1. \A y \in Elements(a) : y.sub < x.sub
    BY <1>1 DEF InOrder
  <2> QED BY <2>1, RisingAppend DEF InOrder
<1> QED BY <1>1, <1>2, <1>3, <1>4 DEF InOrder, Question

\* An answer to a read is of a submission before those whose questions are open.
LEMMA ServeStaysInOrder ==
  ASSUME NEW S, NEW r \in Seq(S), NEW E, NEW e \in Seq(E), NEW a, InOrder(e, a, r),
         r # <<>>, Head(r).kind = "get", NEW x \in E, x.kind = "value", x.sub = Head(r).sub
  PROVE  InOrder(Append(e, x), a, Tail(r))
<1>1. Elements(r) = Elements(Tail(r)) \cup {Head(r)}
  BY TailElements
<1>2. Elements(Append(e, x)) = Elements(e) \cup {x}
  BY ElementsFacts
<1>3. Rising(Tail(r))
  BY RisingTail DEF InOrder
<1>4. Rising(Append(e, x))
  <2>1. ~Question(x)
    BY DEF Question
  <2> QED BY <2>1, RisingAppend DEF InOrder
<1> QED BY <1>1, <1>2, <1>3, <1>4 DEF InOrder

\* A write taken up leaves the questions as they were.
LEMMA WriteStaysInOrder ==
  ASSUME NEW S, NEW r \in Seq(S), NEW e, NEW a, InOrder(e, a, r), r # <<>>
  PROVE  InOrder(e, a, Tail(r))
<1>1. Elements(r) = Elements(Tail(r)) \cup {Head(r)}
  BY TailElements
<1>2. Rising(Tail(r))
  BY RisingTail DEF InOrder
<1> QED BY <1>1, <1>2 DEF InOrder

\* The server's answer is to the first question it has, which is later than all answered.
LEMMA AnswerStaysInOrder ==
  ASSUME NEW A, NEW a \in Seq(A), NEW E, NEW e \in Seq(E), NEW r, InOrder(e, a, r),
         a # <<>>, NEW x \in E, x.kind = "item", x.sub = Head(a).sub
  PROVE  InOrder(Append(e, x), Tail(a), r)
<1>1. Elements(a) = Elements(Tail(a)) \cup {Head(a)}
  BY TailElements
<1>2. Elements(Append(e, x)) = Elements(e) \cup {x}
  BY ElementsFacts
<1>3. RisingAsked(Tail(a)) /\ \A y \in Elements(Tail(a)) : x.sub < y.sub
  BY RisingTail DEF InOrder
<1>4. Rising(Append(e, x))
  <2>1. \A y \in Elements(e) : y.sub < x.sub
    BY <1>1 DEF InOrder
  <2> QED BY <2>1, RisingAppend DEF InOrder
<1> QED BY <1>1, <1>2, <1>3, <1>4 DEF InOrder

\* What is asked of the server keeps its order when the count of writes before it changes.
LEMMA AskedStaysInOrder ==
  ASSUME NEW a, NEW b, NEW e, NEW r, InOrder(e, a, r), DOMAIN b = DOMAIN a,
         \A i \in DOMAIN a : b[i].sub = a[i].sub
  PROVE  InOrder(e, b, r)
<1>1. \A y \in Elements(b) : \E x \in Elements(a) : y.sub = x.sub
  BY DEF Elements
<1>2. RisingAsked(b)
  BY DEF InOrder, RisingAsked
<1> QED BY <1>1, <1>2 DEF InOrder

\* A callback may read for the submission it answers, which comes before all in question.
LEMMA CallbackStaysInOrder ==
  ASSUME NEW E, NEW e \in Seq(E), NEW S, NEW r \in Seq(S), NEW a, InOrder(e, a, r),
         e # <<>>, NEW xs \in Seq(S),
         \A x \in Elements(xs) :
           x.kind = "put" \/ (x.kind = "get" /\ x.sub = Head(e).sub /\ Head(e).kind = "item")
  PROVE  InOrder(Tail(e), a, r \o xs)
<1>1. Elements(e) = Elements(Tail(e)) \cup {Head(e)}
  BY TailElements
<1>2. Elements(r \o xs) = Elements(r) \cup Elements(xs)
  BY ElementsFacts
<1>3. /\ Rising(Tail(e))
      /\ Head(e).kind = "item" =>
           \A y \in Elements(Tail(e)) : y.kind = "item" => Head(e).sub < y.sub
  BY RisingTail DEF InOrder, Question
<1>4. Rising(r \o xs)
  <2>1. \A x \in Elements(xs) : ~Question(x)
    BY DEF Question
  <2> QED BY <2>1, RisingConcat DEF InOrder
<1> QED BY <1>1, <1>2, <1>3, <1>4 DEF InOrder

\* Writes issued by another callback ask for nothing.
LEMMA IssueStaysInOrder ==
  ASSUME NEW S, NEW r \in Seq(S), NEW e, NEW a, InOrder(e, a, r), NEW xs \in Seq(S),
         \A x \in Elements(xs) : x.kind = "put"
  PROVE  InOrder(e, a, r \o xs)
<1>1. Elements(r \o xs) = Elements(r) \cup Elements(xs)
  BY ElementsFacts
<1>2. Rising(r \o xs)
  <2>1. \A x \in Elements(xs) : ~Question(x)
    BY DEF Question
  <2> QED BY <2>1, RisingConcat DEF InOrder
<1> QED BY <1>1, <1>2 DEF InOrder

------------------------
\* The average's callback finds the count it divides by.
LEMMA CountHasCome ==
  ASSUME NEW E, NEW e \in Seq(E), NEW r, NEW count, CountIsFirst(e, r, count),
         e # <<>>, IsAnswer(Head(e), AverageRating)
  PROVE  count[Head(e).sub] > 0
<1>1. 1 \in DOMAIN e /\ Head(e) = e[1] /\ \A i \in DOMAIN e : ~(i < 1)
  <2>1. Len(e) \in Nat /\ Len(e) >= 1 /\ DOMAIN e = 1 .. Len(e) /\ Head(e) = e[1]
    BY TailIndices
  <2> QED BY <2>1
<1> QED BY <1>1 DEF CountIsFirst

\* A callback runs: the answer it takes is either not to a count, or sets the variable.
LEMMA CallbackKeepsCountFirst ==
  ASSUME NEW E, NEW e \in Seq(E), NEW r, NEW count, NEW c, CountIsFirst(e, r, count),
         e # <<>>, IsAnswer(Head(e), Count) => c[Head(e).sub] > 0,
         \A y \in Elements(Tail(e)) :
           IsAnswer(y, AverageRating) /\ count[y.sub] > 0 => c[y.sub] > 0,
         \A y \in Elements(r) :
           IsGet(y, AverageRating) /\ count[y.sub] > 0 => c[y.sub] > 0
  PROVE  CountIsFirst(Tail(e), r, c)
<1> DEFINE q == Tail(e)
           n == Len(e)
<1>1. /\ n \in Nat /\ n >= 1 /\ DOMAIN e = 1 .. n /\ Head(e) = e[1]
      /\ DOMAIN q = 1 .. n - 1 /\ \A i \in 1..n - 1 : q[i] = e[i + 1]
  BY TailIndices
<1>2. Elements(e) = Elements(q) \cup {Head(e)}
  BY TailElements
<1> HIDE DEF q, n
<1>3. ASSUME NEW j \in DOMAIN q, IsAnswer(q[j], AverageRating), ~(c[q[j].sub] > 0)
      PROVE  \E i \in DOMAIN q : i < j /\ IsAnswer(q[i], Count) /\ q[i].sub = q[j].sub
  <2>1. j + 1 \in DOMAIN e /\ q[j] = e[j + 1] /\ q[j] \in Elements(q)
    BY <1>1 DEF Elements
  <2>2. ~(count[q[j].sub] > 0)
    BY <1>3, <2>1 DEF q
  <2>3. PICK i \in DOMAIN e : i < j + 1 /\ IsAnswer(e[i], Count) /\ e[i].sub = q[j].sub
    BY <1>3, <2>1, <2>2 DEF CountIsFirst
  <2>4. i # 1
    BY <1>1, <1>3, <2>3
  <2>5. i - 1 \in DOMAIN q /\ q[i - 1] = e[i] /\ i - 1 < j
    BY <1>1, <2>3, <2>4
  <2> QED BY <2>3, <2>5
<1>4. ASSUME NEW j \in DOMAIN r, IsGet(r[j], AverageRating), ~(c[r[j].sub] > 0)
      PROVE  \/ \E x \in Elements(q) : IsAnswer(x, Count) /\ x.sub = r[j].sub
             \/ \E i \in DOMAIN r : i < j /\ IsGet(r[i], Count) /\ r[i].sub = r[j].sub
  <2>1. r[j] \in Elements(r)
    BY DEF Elements
  <2>2. ~(count[r[j].sub] > 0)
    BY <1>4, <2>1
  <2>3. \/ \E x \in Elements(e) : IsAnswer(x, Count) /\ x.sub = r[j].sub
        \/ \E i \in DOMAIN r : i < j /\ IsGet(r[i], Count) /\ r[i].sub = r[j].sub
    BY <1>4, <2>2 DEF CountIsFirst
  <2>4. ~(IsAnswer(Head(e), Count) /\ Head(e).sub = r[j].sub)
    BY <1>4
  <2> QED BY <1>2, <2>3, <2>4
<1>5. CountIsFirst(q, r, c)
  BY <1>3, <1>4 DEF CountIsFirst
<1> QED BY <1>5 DEF q

\* What is issued reads the count before the average, or reads nothing.
LEMMA IssueKeepsCountFirst ==
  ASSUME NEW S, NEW r \in Seq(S), NEW e, NEW count, CountIsFirst(e, r, count),
         NEW xs \in Seq(S),
         \A j \in DOMAIN xs : IsGet(xs[j], AverageRating) =>
           \E i \in DOMAIN xs : i < j /\ IsGet(xs[i], Count) /\ xs[i].sub = xs[j].sub
  PROVE  CountIsFirst(e, r \o xs, count)
<1> DEFINE q == r \o xs
           n == Len(r)
           m == Len(xs)
<1>1. /\ n \in Nat /\ m \in Nat /\ DOMAIN r = 1 .. n /\ DOMAIN xs = 1..m
      /\ DOMAIN q = 1..n + m
      /\ \A i \in 1..n : q[i] = r[i]
      /\ \A i \in 1..m : q[n + i] = xs[i]
      /\ \A i \in 1 .. n + m : i \notin 1 .. n => i - n \in 1 .. m /\ q[i] = xs[i - n]
  BY ConcatIndices
<1> HIDE DEF q, n, m
<1>2. ASSUME NEW j \in DOMAIN q, IsGet(q[j], AverageRating)
      PROVE  \/ count[q[j].sub] > 0
             \/ \E x \in Elements(e) : IsAnswer(x, Count) /\ x.sub = q[j].sub
             \/ \E i \in DOMAIN q : i < j /\ IsGet(q[i], Count) /\ q[i].sub = q[j].sub
  <2>1. CASE j \in 1..n
    <3>1. j \in DOMAIN r /\ q[j] = r[j]
      BY <1>1, <2>1
    <3>2. \A i \in DOMAIN r : i \in DOMAIN q /\ q[i] = r[i]
      BY <1>1
    <3> QED BY <1>2, <3>1, <3>2 DEF CountIsFirst
  <2>2. CASE j \notin 1..n
    <3>1. j - n \in DOMAIN xs /\ q[j] = xs[j - n]
      BY <1>1, <2>2
    <3>2. PICK i \in DOMAIN xs : i < j - n /\ IsGet(xs[i], Count) /\ xs[i].sub = q[j].sub
      BY <1>2, <3>1
    <3>3. n + i \in DOMAIN q /\ q[n + i] = xs[i] /\ n + i < j
      BY <1>1, <3>2
    <3> QED BY <3>2, <3>3
  <2> QED BY <2>1, <2>2
<1>3. CountIsFirst(e, q, count)
  BY <1>2 DEF CountIsFirst
<1> QED BY <1>3 DEF q

\* One request more, which reads no average.
LEMMA AskKeepsCountFirst ==
  ASSUME NEW S, NEW r \in Seq(S), NEW e, NEW count, CountIsFirst(e, r, count),
         NEW x \in S, x.kind # "get"
  PROVE  CountIsFirst(e, Append(r, x), count)
<1> DEFINE xs == <<x>>
<1>1. Append(r, x) = r \o xs /\ xs \in Seq(S) /\ DOMAIN xs = {1} /\ xs[1] = x
  BY AppendOne, SingleFacts
<1> HIDE DEF xs
<1> QED BY <1>1, IssueKeepsCountFirst DEF IsGet

\* A question or a write is taken up.
LEMMA TakeKeepsCountFirst ==
  ASSUME NEW S, NEW r \in Seq(S), NEW e, NEW count, CountIsFirst(e, r, count),
         r # <<>>, Head(r).kind # "get"
  PROVE  CountIsFirst(e, Tail(r), count)
<1> DEFINE q == Tail(r)
           n == Len(r)
<1>1. /\ n \in Nat /\ n >= 1 /\ DOMAIN r = 1 .. n /\ Head(r) = r[1]
      /\ DOMAIN q = 1 .. n - 1 /\ \A i \in 1..n - 1 : q[i] = r[i + 1]
  BY TailIndices
<1> HIDE DEF q, n
<1>2. ASSUME NEW j \in DOMAIN q, IsGet(q[j], AverageRating), ~(count[q[j].sub] > 0),
             ~(\E x \in Elements(e) : IsAnswer(x, Count) /\ x.sub = q[j].sub)
      PROVE  \E i \in DOMAIN q : i < j /\ IsGet(q[i], Count) /\ q[i].sub = q[j].sub
  <2>1. j + 1 \in DOMAIN r /\ q[j] = r[j + 1]
    BY <1>1
  <2>2. PICK i \in DOMAIN r : i < j + 1 /\ IsGet(r[i], Count) /\ r[i].sub = q[j].sub
    BY <1>2, <2>1 DEF CountIsFirst
  <2>3. i # 1
    BY <1>1, <2>2 DEF IsGet
  <2>4. i - 1 \in DOMAIN q /\ q[i - 1] = r[i] /\ i - 1 < j
    BY <1>1, <2>2, <2>3
  <2> QED BY <2>2, <2>4
<1>3. CountIsFirst(e, q, count)
  BY <1>2 DEF CountIsFirst
<1> QED BY <1>3 DEF q

\* The answer to the next read joins the events.
LEMMA ServeKeepsCountFirst ==
  ASSUME NEW S, NEW r \in Seq(S), NEW E, NEW e \in Seq(E), NEW count,
         CountIsFirst(e, r, count), r # <<>>, Head(r).kind = "get",
         NEW x \in E, IsAnswer(x, Head(r).path), x.sub = Head(r).sub
  PROVE  CountIsFirst(Append(e, x), Tail(r), count)
<1> DEFINE q == Tail(r)
           n == Len(r)
           g == Append(e, x)
           m == Len(e)
<1>1. /\ n \in Nat /\ n >= 1 /\ DOMAIN r = 1 .. n /\ Head(r) = r[1]
      /\ DOMAIN q = 1 .. n - 1 /\ \A i \in 1..n - 1 : q[i] = r[i + 1]
  BY TailIndices
<1>2. /\ m \in Nat /\ DOMAIN e = 1 .. m /\ DOMAIN g = 1 .. m + 1 /\ g[m + 1] = x
      /\ \A i \in 1..m : g[i] = e[i]
  OBVIOUS
<1>3. Elements(g) = Elements(e) \cup {x}
  BY ElementsFacts
<1> HIDE DEF q, n, g, m
<1>4. ASSUME NEW y \in Elements(e) PROVE \E i \in DOMAIN g : i < m + 1 /\ g[i] = y
  <2>1. PICK i \in DOMAIN e : e[i] = y
    BY DEF Elements
  <2>2. i \in DOMAIN g /\ i < m + 1 /\ g[i] = e[i]
    BY <1>2
  <2> QED BY <2>1, <2>2
<1>5. ASSUME NEW j \in DOMAIN g, IsAnswer(g[j], AverageRating), ~(count[g[j].sub] > 0)
      PROVE  \E i \in DOMAIN g : i < j /\ IsAnswer(g[i], Count) /\ g[i].sub = g[j].sub
  <2>1. CASE j # m + 1
    <3>1. j \in DOMAIN e /\ g[j] = e[j]
      BY <1>2, <2>1
    <3>2. \A i \in DOMAIN e : i \in DOMAIN g /\ g[i] = e[i]
      BY <1>2
    <3> QED BY <1>5, <3>1, <3>2 DEF CountIsFirst
  <2>2. CASE j = m + 1
    <3>1. IsGet(r[1], AverageRating) /\ r[1].sub = x.sub /\ g[j] = x /\ 1 \in DOMAIN r
      BY <1>1, <1>2, <1>5, <2>2 DEF IsAnswer, IsGet
    <3>2. \A i \in DOMAIN r : ~(i < 1) BY <1>1
    <3>3. PICK y \in Elements(e) : IsAnswer(y, Count) /\ y.sub = x.sub
      BY <1>5, <3>1, <3>2 DEF CountIsFirst
    <3> QED BY <1>4, <2>2, <3>1, <3>3
  <2> QED BY <2>1, <2>2
<1>6. ASSUME NEW j \in DOMAIN q, IsGet(q[j], AverageRating), ~(count[q[j].sub] > 0),
             ~(\E y \in Elements(g) : IsAnswer(y, Count) /\ y.sub = q[j].sub)
      PROVE  \E i \in DOMAIN q : i < j /\ IsGet(q[i], Count) /\ q[i].sub = q[j].sub
  <2>1. j + 1 \in DOMAIN r /\ q[j] = r[j + 1]
    BY <1>1
  <2>2. PICK i \in DOMAIN r : i < j + 1 /\ IsGet(r[i], Count) /\ r[i].sub = q[j].sub
    BY <1>3, <1>6, <2>1 DEF CountIsFirst
  <2>3. i # 1
    BY <1>1, <1>3, <1>6, <2>2 DEF IsGet, IsAnswer
  <2>4. i - 1 \in DOMAIN q /\ q[i - 1] = r[i] /\ i - 1 < j
    BY <1>1, <2>2, <2>3
  <2> QED BY <2>2, <2>4
<1>7. CountIsFirst(g, q, count)
  BY <1>5, <1>6 DEF CountIsFirst
<1> QED BY <1>7 DEF g, q

\* The answer to a question joins the events.
LEMMA AnswerKeepsCountFirst ==
  ASSUME NEW E, NEW e \in Seq(E), NEW r, NEW count, CountIsFirst(e, r, count),
         NEW x \in E, x.kind = "item"
  PROVE  CountIsFirst(Append(e, x), r, count)
<1> DEFINE g == Append(e, x)
           m == Len(e)
<1>1. /\ m \in Nat /\ DOMAIN e = 1 .. m /\ DOMAIN g = 1 .. m + 1 /\ g[m + 1] = x
      /\ \A i \in 1..m : g[i] = e[i]
  OBVIOUS
<1>2. Elements(g) = Elements(e) \cup {x}
  BY ElementsFacts
<1> HIDE DEF g, m
<1>3. \A j \in DOMAIN g : IsAnswer(g[j], AverageRating) => j \in DOMAIN e /\ g[j] = e[j]
  BY <1>1 DEF IsAnswer
<1>4. \A i \in DOMAIN e : i \in DOMAIN g /\ g[i] = e[i]
  BY <1>1
<1>5. CountIsFirst(g, r, count)
  BY <1>2, <1>3, <1>4 DEF CountIsFirst
<1> QED BY <1>5 DEF g

------------------------
\* The steps of one device.
StepOf(d) ==
  \/ \E k \in Ratings : SubmitPressed(d, k)
  \/ MainQueue(d) \/ Uploads(d) \/ FirebaseQueue(d)
  \/ ServerApply(d) \/ Sync(d) \/ AnswerAsk(d)
  \/ Reconnect(d) \/ Kill(d) \/ Relaunch(d)

\* What a step of device d leaves to the others.
Apart(d) ==
  /\ \A x \in Devices : x # d =>
       /\ events'[x] = events[x] /\ asked'[x] = asked[x] /\ requests'[x] = requests[x]
       /\ pend'[x] = pend[x] /\ sent'[x] = sent[x] /\ view'[x] = view[x]
       /\ status'[x] = status[x]
  /\ \A n \in Submitted : subs[n].dev # d => newCount'[n] = newCount[n]

\* The submissions named in the queues are submissions.
LEMMA QueuesNameSubmissions ==
  ASSUME TypeOK, NEW d \in Devices
  PROVE  /\ \A x \in Elements(events[d]) : x.sub \in Submitted /\ x.kind \in {"item", "value"}
         /\ \A x \in Elements(asked[d]) : x.sub \in Submitted
         /\ \A x \in Elements(requests[d]) :
              x.kind \in {"ask", "get", "put"} /\ (x.kind # "put" => x.sub \in Submitted)
<1>1. /\ \A x \in Elements(events[d]) : x \in EventsFor(Submitted, Value \cup {Absent})
      /\ \A x \in Elements(asked[d]) : x \in AskedFor(Submitted)
      /\ \A x \in Elements(requests[d]) : x \in RequestsFor(Submitted)
  BY QueueTypes, ElementsFacts
<1>2. \A x \in EventsFor(Submitted, Value \cup {Absent}) :
        x.sub \in Submitted /\ x.kind \in {"item", "value"}
  BY DEF EventsFor
<1>3. \A x \in AskedFor(Submitted) : x.sub \in Submitted
  BY DEF AskedFor
<1>4. \A x \in RequestsFor(Submitted) :
        x.kind \in {"ask", "get", "put"} /\ (x.kind # "put" => x.sub \in Submitted)
  BY DEF RequestsFor, Puts
<1> QED BY <1>1, <1>2, <1>3, <1>4

\* A device handles its own submissions, so others are not disturbed.
LEMMA StepsAreApart ==
  ASSUME TypeOK, NEW d \in Devices, ReadsAreOwn(d), StepOf(d)
  PROVE  Apart(d)
<1> USE DEF TypeOK, Apart
<1>1. CASE MainQueue(d) /\ ~CastFails(d)
  <2> DEFINE n == Head(events[d]).sub
  <2>1. /\ events[d] # <<>> /\ events' = [events EXCEPT ![d] = Tail(@)]
        /\ \E rs : Issue(d, rs)
        /\ UNCHANGED <<asked, pend, sent, view, status>>
        /\ \E k : newCount' = newCount \/ newCount' = [newCount EXCEPT ![n] = k]
    BY <1>1 DEF MainQueue, ItemExists, ItemMissing, CountArrived, TotalArrived, AverageArrived,
                ValueArrived, Callback, FinishSubmit, faults
  <2>2. subs[n].dev = d
    <3>1. Head(events[d]) \in Elements(events[d]) BY <2>1, QueueTypes, TailElements
    <3> QED BY <3>1 DEF ReadsAreOwn
  <2> HIDE DEF n
  <2>3. \A x \in Devices : x # d => requests'[x] = requests[x] /\ events'[x] = events[x]
    BY <2>1 DEF Issue
  <2>4. \A m \in Submitted : subs[m].dev # d => newCount'[m] = newCount[m]
    BY <2>1, <2>2, SubmittedFact
  <2> QED BY <2>1, <2>3, <2>4
<1>2. CASE CastFails(d) \/ Kill(d)
  BY <1>2 DEF CastFails, Trap, Kill, GoesDown
<1>3. CASE Uploads(d)
  BY <1>3 DEF Uploads, UploadFinished, Issue, faults
<1>4. CASE FirebaseQueue(d)
  BY <1>4 DEF FirebaseQueue, AskServer, ServeRead, IssueWrite, TakeUp, form_vars, faults
<1>5. CASE ServerApply(d) \/ Reconnect(d) \/ Relaunch(d)
  BY <1>5 DEF ServerApply, Reconnect, Relaunch, form_vars, faults
<1>6. CASE Sync(d) \/ AnswerAsk(d)
  BY <1>6 DEF Sync, AnswerAsk, CatchUp, form_vars, faults
<1>7. CASE \E k \in Ratings : SubmitPressed(d, k)
  BY <1>7 DEF SubmitPressed, faults
<1> QED BY <1>1, <1>2, <1>3, <1>4, <1>5, <1>6, <1>7 DEF StepOf

\* So the line of another device stays as it was.
LEMMA LineOfOthers ==
  ASSUME TypeOK, [Next]_vars, NEW d \in Devices, Apart(d),
         NEW x \in Devices, x # d, LineInv(x)
  PROVE  LineInv(x)'
<1>1. /\ events'[x] = events[x] /\ asked'[x] = asked[x] /\ requests'[x] = requests[x]
  BY DEF Apart
<1>2. ReadsAreOwn(x)'
  BY <1>1, QueuesNameSubmissions, SubmissionsStay DEF LineInv, ReadsAreOwn
<1>3. CountIsFirst(events'[x], requests'[x], newCount')
  <2> DEFINE e == events[x]
             r == requests[x]
  <2>1. \A y \in Elements(e) : newCount'[y.sub] = newCount[y.sub]
    BY QueuesNameSubmissions DEF LineInv, ReadsAreOwn, Apart
  <2>2. \A y \in Elements(r) : y.kind = "get" => newCount'[y.sub] = newCount[y.sub]
    BY QueuesNameSubmissions DEF LineInv, ReadsAreOwn, Apart
  <2>3. CountIsFirst(e, r, newCount)
    BY DEF LineInv
  <2>4. /\ \A j \in DOMAIN e : e[j] \in Elements(e)
        /\ \A j \in DOMAIN r : r[j] \in Elements(r)
    BY DEF Elements
  <2> HIDE DEF e, r
  <2>5. CountIsFirst(e, r, newCount')
    BY <2>1, <2>2, <2>3, <2>4 DEF CountIsFirst, IsGet
  <2> QED BY <1>1, <2>5 DEF e, r
<1>4. InOrder(events'[x], asked'[x], requests'[x])
  BY <1>1 DEF LineInv
<1> QED BY <1>2, <1>3, <1>4 DEF LineInv

------------------------
\* The submissions read for stay the device's own.
LEMMA OwnReadsStay ==
  ASSUME TypeOK, [Next]_vars, NEW d \in Devices,
         \A y \in Elements(events'[d]) : y.sub \in Submitted /\ subs[y.sub].dev = d,
         \A y \in Elements(asked'[d]) : y.sub \in Submitted /\ subs[y.sub].dev = d,
         \A y \in Elements(requests'[d]) :
           y.kind # "put" => y.sub \in Submitted /\ subs[y.sub].dev = d
  PROVE  ReadsAreOwn(d)'
BY SubmissionsStay DEF ReadsAreOwn

\* What is in the queues before a step.
LEMMA ReadsFacts ==
  ASSUME TypeOK, NEW d \in Devices, LineInv(d)
  PROVE  /\ \A y \in Elements(events[d]) : y.sub \in Submitted /\ subs[y.sub].dev = d
         /\ \A y \in Elements(asked[d]) : y.sub \in Submitted /\ subs[y.sub].dev = d
         /\ \A y \in Elements(requests[d]) :
              y.kind # "put" => y.sub \in Submitted /\ subs[y.sub].dev = d
BY QueuesNameSubmissions DEF LineInv, ReadsAreOwn

\* A press.
LEMMA PressKeepsLine ==
  ASSUME TypeOK, NEW d \in Devices, LineInv(d), NEW k \in Ratings, SubmitPressed(d, k), Next
  PROVE  LineInv(d)'
<1> DEFINE n == Len(subs) + 1
           x == Ask(n)
           R == RequestsFor(Submitted) \cup {x}
           r == requests[d]
<1>1. /\ requests'[d] = Append(r, x) /\ UNCHANGED <<asked, events, newCount>>
      /\ \E f : subs' = Append(subs, [dev |-> d, form |-> f, rating |-> k])
  BY DEF SubmitPressed, TypeOK
<1>2. Len(subs) \in Nat /\ Submitted = 1..Len(subs)
  <2>1. subs \in Seq(Submissions)
    BY DEF TypeOK
  <2> QED BY <2>1, SubmittedFact
<1>3. x.kind = "ask" /\ x.sub = n /\ x \in R
  BY DEF Ask
<1>4. r \in Seq(R)
  <2>1. r \in Seq(RequestsFor(Submitted))
    BY DEF TypeOK
  <2> QED BY <2>1, SeqDef
<1>5. subs'[n].dev = d
  <2> PICK f : subs' = Append(subs, [dev |-> d, form |-> f, rating |-> k])
    BY <1>1
  <2> DEFINE s == [dev |-> d, form |-> f, rating |-> k]
  <2>1. subs \in Seq(Submissions \cup {s})
    <3>1. subs \in Seq(Submissions) BY DEF TypeOK
    <3> QED BY <3>1, SeqDef
  <2>2. subs'[n] = s /\ s.dev = d
    BY <2>1
  <2> QED BY <2>2
<1>6. \A m \in Submitted : m < n
  BY <1>2
<1> HIDE DEF x, R, n
<1>7. InOrder(events[d], asked[d], Append(r, x))
  <2>1. InOrder(events[d], asked[d], r)
    BY DEF LineInv
  <2>2. /\ \A y \in Elements(events[d]) : y.sub < x.sub
        /\ \A y \in Elements(asked[d]) : y.sub < x.sub
        /\ \A y \in Elements(r) : y.kind # "put" => y.sub < x.sub
    BY <1>3, <1>6, ReadsFacts
  <2> QED BY <1>3, <1>4, <2>1, <2>2, PressInOrder
<1>8. CountIsFirst(events[d], Append(r, x), newCount)
  <2>1. CountIsFirst(events[d], r, newCount) /\ x.kind # "get"
    BY <1>3 DEF LineInv
  <2> QED BY <1>3, <1>4, <2>1, AskKeepsCountFirst
<1>9. ReadsAreOwn(d)'
  <2>1. Elements(Append(r, x)) = Elements(r) \cup {x}
    BY <1>3, <1>4, ElementsFacts
  <2>2. \A m \in Submitted : subs'[m] = subs[m]
    <3>1. [Next]_vars OBVIOUS
    <3> QED BY <3>1, SubmissionsStay
  <2>3. /\ \A y \in Elements(events[d]) : y.sub \in Submitted /\ subs[y.sub].dev = d
        /\ \A y \in Elements(asked[d]) : y.sub \in Submitted /\ subs[y.sub].dev = d
        /\ \A y \in Elements(r) : y.kind # "put" => y.sub \in Submitted /\ subs[y.sub].dev = d
    BY ReadsFacts
  <2> HIDE DEF r
  <2>4. \A y \in Elements(requests'[d]) : y.kind # "put" => subs'[y.sub].dev = d
    BY <1>1, <1>3, <1>5, <2>1, <2>2, <2>3
  <2> QED BY <1>1, <2>2, <2>3, <2>4 DEF ReadsAreOwn
<1> QED BY <1>1, <1>7, <1>8, <1>9 DEF LineInv

\* A callback other than a failed cast: the answer taken, writes issued and, for an item that
\* exists, its three reads.
LEMMA CallbackKeepsLine ==
  ASSUME TypeOK, NEW d \in Devices, LineInv(d), Next,
         events[d] # <<>>, events' = [events EXCEPT ![d] = Tail(@)], asked' = asked,
         NEW xs \in Seq(RequestsFor(Submitted)), Issue(d, xs),
         \A x \in Elements(xs) :
           \/ x.kind = "put"
           \/ /\ x.kind = "get" /\ x.sub = Head(events[d]).sub
              /\ Head(events[d]).kind = "item",
         \A j \in DOMAIN xs : IsGet(xs[j], AverageRating) =>
           \E i \in DOMAIN xs : i < j /\ IsGet(xs[i], Count) /\ xs[i].sub = xs[j].sub,
         IsAnswer(Head(events[d]), Count) => newCount'[Head(events[d]).sub] > 0,
         \A m \in Submitted :
           (m # Head(events[d]).sub \/ Head(events[d]).kind # "item") /\ newCount[m] > 0
             => newCount'[m] > 0
  PROVE  LineInv(d)'
<1> DEFINE e == events[d]
           r == requests[d]
           E == EventsFor(Submitted, Value \cup {Absent})
           R == RequestsFor(Submitted)
<1>1. e \in Seq(E) /\ r \in Seq(R) /\ events'[d] = Tail(e) /\ requests'[d] = r \o xs
  BY DEF Issue, TypeOK
<1>2. Elements(e) = Elements(Tail(e)) \cup {Head(e)}
  BY <1>1, TailElements
<1>3. InOrder(e, asked[d], r) /\ CountIsFirst(e, r, newCount)
  BY DEF LineInv
<1>4. Elements(r \o xs) = Elements(r) \cup Elements(xs)
  BY <1>1, ElementsFacts
<1>5. /\ \A y \in Elements(e) : y.sub \in Submitted /\ subs[y.sub].dev = d
      /\ \A y \in Elements(asked[d]) : y.sub \in Submitted /\ subs[y.sub].dev = d
      /\ \A y \in Elements(r) : y.kind # "put" => y.sub \in Submitted /\ subs[y.sub].dev = d
  BY ReadsFacts
<1>6. Submitted \subseteq Nat
  BY SubmittedFact, SubsFacts
<1> HIDE DEF e, r, E, R
<1>7. InOrder(Tail(e), asked[d], r \o xs)
  BY <1>1, <1>3, CallbackStaysInOrder DEF e, R
<1>8. CountIsFirst(Tail(e), r \o xs, newCount')
  <2>1. Head(e).kind = "item" =>
          /\ \A y \in Elements(Tail(e)) : y.kind = "value" => y.sub < Head(e).sub
          /\ \A y \in Elements(r) : y.kind = "get" => y.sub < Head(e).sub
    BY <1>2, <1>3 DEF InOrder
  <2>2. \A m \in Nat : ~(m < m) OBVIOUS
  <2>3. Head(e).kind = "item" =>
          /\ \A y \in Elements(Tail(e)) : y.kind = "value" => y.sub # Head(e).sub
          /\ \A y \in Elements(r) : y.kind = "get" => y.sub # Head(e).sub
    BY <1>2, <1>5, <1>6, <2>1, <2>2
  <2>4. \A y \in Elements(Tail(e)) :
          IsAnswer(y, AverageRating) /\ newCount[y.sub] > 0 => newCount'[y.sub] > 0
    BY <1>2, <1>5, <2>3 DEF IsAnswer, e
  <2>5. \A y \in Elements(r) :
          IsGet(y, AverageRating) /\ newCount[y.sub] > 0 => newCount'[y.sub] > 0
    BY <1>5, <2>3 DEF IsGet, e
  <2>6. e # <<>> /\ (IsAnswer(Head(e), Count) => newCount'[Head(e).sub] > 0)
    BY DEF e
  <2>7. CountIsFirst(Tail(e), r, newCount')
    BY <1>1, <1>3, <2>4, <2>5, <2>6, CallbackKeepsCountFirst
  <2> QED BY <1>1, <2>7, IssueKeepsCountFirst DEF R
<1>9. ReadsAreOwn(d)'
  <2>1. \A y \in Elements(Tail(e)) : y.sub \in Submitted /\ subs[y.sub].dev = d
    BY <1>2, <1>5
  <2>2. \A y \in Elements(r \o xs) : y.kind # "put" => y.sub \in Submitted /\ subs[y.sub].dev = d
    BY <1>2, <1>4, <1>5 DEF e
  <2>3. [Next]_vars OBVIOUS
  <2> QED BY <1>1, <1>5, <2>1, <2>2, <2>3, OwnReadsStay
<1> QED BY <1>1, <1>7, <1>8, <1>9 DEF LineInv

\* The callbacks of submitReview, as CallbackKeepsLine asks for them.
LEMMA MainQueueKeepsLine ==
  ASSUME TypeOK, NEW d \in Devices, LineInv(d), Next, MainQueue(d), ~CastFails(d)
  PROVE  LineInv(d)'
<1> DEFINE e == Head(events[d])
           n == e.sub
           R == RequestsFor(Submitted)
<1>1. events[d] # <<>> /\ events' = [events EXCEPT ![d] = Tail(@)] /\ asked' = asked
  BY DEF MainQueue, ItemExists, ItemMissing, CountArrived, TotalArrived, AverageArrived,
         ValueArrived, Callback, FinishSubmit
<1>2. n \in Submitted /\ Submitted \subseteq Subs
  <2>1. e \in Elements(events[d])
    BY <1>1, QueueTypes, TailElements
  <2> QED BY <2>1, QueuesNameSubmissions, SubmittedFact
<1>3. CASE ItemExists(d)
  <2> DEFINE gets == TotalReads(n)
             puts == ReviewWrites(n)
             xs == gets \o puts
  <2>1. /\ Issue(d, xs) /\ e.kind = "item" /\ newCount' = [newCount EXCEPT ![n] = 0]
    BY <1>3 DEF ItemExists, Callback
  <2>2. /\ DOMAIN gets = 1 .. 3 /\ gets[1] = Get(n, Count) /\ gets[2] = Get(n, TotalRatings)
        /\ gets[3] = Get(n, AverageRating)
    BY DEF TotalReads
  <2>3. gets \in Seq(R) /\ puts \in Seq(R) /\ \A x \in Elements(puts) : x.kind = "put"
    BY <1>2, TotalReadsType, ReviewWritesFacts
  <2>4. \A p : Get(n, p).kind = "get" /\ Get(n, p).sub = n /\ Get(n, p).path = p
    BY DEF Get
  <2>5. \A i \in 1 .. 3 : i = 1 \/ i = 2 \/ i = 3 OBVIOUS
  <2> HIDE DEF gets, puts, R, n, e
  <2>6. \A i \in DOMAIN gets : gets[i].kind = "get" /\ gets[i].sub = n
    BY <2>2, <2>4, <2>5
  <2>7. /\ xs \in Seq(R) /\ Elements(xs) = Elements(gets) \cup Elements(puts)
        /\ \A i \in DOMAIN gets : i \in DOMAIN xs /\ xs[i] = gets[i]
        /\ \A i \in DOMAIN xs : i \notin DOMAIN gets => xs[i] \in Elements(puts)
    <3>1. xs \in Seq(R) /\ Elements(xs) = Elements(gets) \cup Elements(puts)
      BY <2>3, ElementsFacts
    <3> DEFINE a == Len(gets)
               b == Len(puts)
    <3>2. /\ a \in Nat /\ b \in Nat /\ DOMAIN gets = 1 .. a /\ DOMAIN puts = 1..b
          /\ DOMAIN xs = 1..a + b
          /\ \A i \in 1..a : xs[i] = gets[i]
          /\ \A i \in 1 .. a + b : i \notin 1 .. a => i - a \in 1 .. b /\ xs[i] = puts[i - a]
      BY <2>3, ConcatIndices
    <3> HIDE DEF a, b, xs
    <3>3. \A i \in DOMAIN gets : i \in DOMAIN xs /\ xs[i] = gets[i]
      BY <3>2
    <3>4. \A i \in DOMAIN xs : i \notin DOMAIN gets => xs[i] \in Elements(puts)
      BY <3>2 DEF Elements
    <3> QED BY <3>1, <3>3, <3>4 DEF xs
  <2> HIDE DEF xs
  <2>8. \A x \in Elements(xs) : x.kind = "put" \/ (x.kind = "get" /\ x.sub = n)
    BY <2>3, <2>6, <2>7 DEF Elements
  <2>9. \A j \in DOMAIN xs : IsGet(xs[j], AverageRating) =>
          \E i \in DOMAIN xs : i < j /\ IsGet(xs[i], Count) /\ xs[i].sub = xs[j].sub
    <3> SUFFICES ASSUME NEW j \in DOMAIN xs, IsGet(xs[j], AverageRating)
                 PROVE  \E i \in DOMAIN xs : i < j /\ IsGet(xs[i], Count) /\ xs[i].sub = xs[j].sub
      OBVIOUS
    <3>1. j \in DOMAIN gets BY <2>3, <2>7 DEF IsGet
    <3>2. j # 1 /\ xs[j].sub = n
      BY <2>2, <2>4, <2>6, <2>7, <3>1, PlaceFacts DEF IsGet
    <3>3. 1 \in DOMAIN xs /\ IsGet(xs[1], Count) /\ xs[1].sub = n /\ 1 < j
      BY <2>2, <2>4, <2>7, <3>1, <3>2 DEF IsGet
    <3> QED BY <3>2, <3>3
  <2>10. \A m \in Submitted : m # n => newCount'[m] = newCount[m]
    BY <1>2, <2>1 DEF TypeOK
  <2>11. ~IsAnswer(e, Count)
    BY <2>1 DEF IsAnswer
  <2> QED BY <1>1, <2>1, <2>7, <2>8, <2>9, <2>10, <2>11, CallbackKeepsLine DEF e, n, R
<1>4. ASSUME NEW xs \in Seq(R), Issue(d, xs), \A x \in Elements(xs) : x.kind = "put",
             IsAnswer(e, Count) => newCount'[n] > 0,
             \A m \in Submitted : newCount[m] > 0 => newCount'[m] > 0
      PROVE  LineInv(d)'
  <2>1. \A j \in DOMAIN xs : ~IsGet(xs[j], AverageRating)
    BY <1>4 DEF Elements, IsGet
  <2> HIDE DEF R, e
  <2> QED BY <1>1, <1>4, <2>1, CallbackKeepsLine DEF e, R
<1>5. CASE ItemMissing(d)
  <2> DEFINE sums == FirstTotals(n)
             puts == ReviewWrites(n)
             xs == sums \o puts
  <2>1. Issue(d, xs) /\ e.kind = "item" /\ newCount' = newCount
    BY <1>5 DEF ItemMissing, Callback
  <2>2. sums \in Seq(R) /\ puts \in Seq(R) /\ \A x \in Elements(puts) : x.kind = "put"
    BY <1>2, FirstTotalsType, ReviewWritesFacts
  <2>3. \A x \in Elements(sums) : x.kind = "put"
    <3>1. /\ DOMAIN sums = 1 .. 3 /\ sums[1].kind = "put" /\ sums[2].kind = "put"
          /\ sums[3].kind = "put"
      BY DEF FirstTotals, Put
    <3>2. \A i \in 1 .. 3 : i = 1 \/ i = 2 \/ i = 3 OBVIOUS
    <3> HIDE DEF sums
    <3> QED BY <3>1, <3>2 DEF Elements
  <2> HIDE DEF sums, puts, R, n, e
  <2>4. xs \in Seq(R) /\ Elements(xs) = Elements(sums) \cup Elements(puts)
    BY <2>2, ElementsFacts
  <2> HIDE DEF xs
  <2>5. \A x \in Elements(xs) : x.kind = "put"
    BY <2>2, <2>3, <2>4
  <2>6. ~IsAnswer(e, Count)
    BY <2>1 DEF IsAnswer
  <2> QED BY <1>4, <2>1, <2>4, <2>5, <2>6
<1>6. ASSUME NEW p \in TotalPaths, NEW v \in Value, Issue(d, <<Put(p, v)>>),
             IsAnswer(e, Count) => newCount'[n] > 0,
             \A m \in Submitted : newCount[m] > 0 => newCount'[m] > 0
      PROVE  LineInv(d)'
  <2> DEFINE x == Put(p, v)
             xs == <<x>>
  <2>1. x \in R /\ x.kind = "put"
    BY TotalPathsFact, PutType DEF Put
  <2>2. xs \in Seq(R) /\ DOMAIN xs = {1} /\ xs[1] = x
    BY <2>1
  <2>3. Issue(d, xs)
    BY <1>6
  <2> HIDE DEF x, xs, R
  <2>4. \A y \in Elements(xs) : y.kind = "put"
    BY <2>1, <2>2 DEF Elements
  <2> QED BY <1>4, <1>6, <2>2, <2>3, <2>4
<1>7. CASE CountArrived(d)
  <2> DEFINE k == e.value.num + 1
             v == Whole(k)
  <2>1. ValueArrived(d, Count) /\ Issue(d, <<Put(Count, v)>>)
        /\ newCount' = [newCount EXCEPT ![n] = k]
    BY <1>7 DEF CountArrived
  <2>2. e.value.num \in Nat /\ v \in Value
    BY <2>1, ValueEventFacts, WholeIsValue
  <2>3. k > 0
    <3> DEFINE m == e.value.num
    <3> HIDE DEF m
    <3>1. m + 1 > 0 BY <2>2 DEF m
    <3> QED BY <3>1 DEF m
  <2> HIDE DEF v, k, e, n
  <2>4. newCount'[n] > 0 /\ \A m \in Submitted : newCount[m] > 0 => newCount'[m] > 0
    BY <1>2, <2>1, <2>3 DEF TypeOK
  <2> QED BY <1>6, <2>1, <2>2, <2>4, TotalPathsFact
<1>8. CASE TotalArrived(d)
  <2> DEFINE v == Whole(e.value.num + subs[e.sub].rating)
  <2>1. ValueArrived(d, TotalRatings) /\ Issue(d, <<Put(TotalRatings, v)>>)
        /\ newCount' = newCount /\ e.path = TotalRatings
    BY <1>8 DEF TotalArrived, ValueArrived
  <2>2. e.value.num \in Nat /\ subs[e.sub].rating \in Nat
    BY <2>1, ValueEventFacts
  <2>3. e.value.num + subs[e.sub].rating \in Nat
    <3> HIDE DEF e
    <3> QED BY <2>2
  <2>4. v \in Value
    BY <2>3, WholeIsValue
  <2> HIDE DEF v, e, n
  <2>5. ~IsAnswer(e, Count)
    BY <2>1, PlaceFacts DEF IsAnswer
  <2> QED BY <1>6, <2>1, <2>4, <2>5, TotalPathsFact
<1>9. CASE AverageArrived(d)
  <2> DEFINE v == NextAverage(d)
  <2>1. ValueArrived(d, AverageRating) /\ Issue(d, <<Put(AverageRating, v)>>)
        /\ newCount' = newCount /\ e.path = AverageRating
    BY <1>9 DEF AverageArrived, NextAverage, ValueArrived
  <2>2. v \in Value
    BY <1>2 DEF NextAverage, Value, TypeOK
  <2> HIDE DEF v, e, n
  <2>3. ~IsAnswer(e, Count)
    BY <2>1, PlaceFacts DEF IsAnswer
  <2> QED BY <1>6, <2>1, <2>2, <2>3, TotalPathsFact
<1> QED BY <1>3, <1>5, <1>7, <1>8, <1>9 DEF MainQueue

\* The end of an upload issues a write, or nothing.
LEMMA UploadKeepsLine ==
  ASSUME TypeOK, UploadsHaveKey, NEW d \in Devices, LineInv(d), Next, NEW n \in Subs, NEW ok,
         UploadFinished(d, n, ok)
  PROVE  LineInv(d)'
<1> DEFINE key == uniqueReviewID[subs[n].form]
           p == <<"imageURL", key>>
           x == Put(p, Whole(n))
           xs == <<x>>
           R == RequestsFor(Submitted)
           r == requests[d]
<1>1. /\ UNCHANGED <<asked, events, newCount>>
      /\ requests' = requests \/ Issue(d, xs)
  BY DEF UploadFinished
<1>2. n \in Submitted /\ upload[n] = "running" /\ key # 0
  BY DEF UploadFinished, UploadsHaveKey
<1>3. key \in Subs
  <2>1. subs[n] \in Submissions
    BY <1>2 DEF TypeOK, Submitted
  <2>2. subs[n].form \in Subs
    BY <2>1 DEF Submissions
  <2> QED BY <1>2, <2>2 DEF TypeOK
<1>4. p \in Paths /\ n \in Nat
  BY <1>3, SubsFacts DEF ReviewPaths, Paths
<1>5. x \in R /\ x.kind = "put"
  BY <1>4, WholeIsValue, PutType DEF Put
<1>6. xs \in Seq(R) /\ DOMAIN xs = {1} /\ xs[1] = x
  BY <1>5
<1>7. r \in Seq(R) /\ (requests'[d] = r \/ requests'[d] = r \o xs)
  BY <1>1 DEF Issue, TypeOK
<1> HIDE DEF p, x, R, xs, r
<1>8. Elements(r \o xs) = Elements(r) \cup Elements(xs) /\ \A y \in Elements(xs) : y.kind = "put"
  <2>1. \A y \in Elements(xs) : y.kind = "put"
    BY <1>5, <1>6 DEF Elements
  <2> QED BY <1>6, <1>7, <2>1, ElementsFacts
<1>9. InOrder(events[d], asked[d], r) /\ CountIsFirst(events[d], r, newCount)
  BY DEF LineInv, r
<1>10. InOrder(events[d], asked[d], r \o xs)
  BY <1>6, <1>7, <1>8, <1>9, IssueStaysInOrder
<1>11. CountIsFirst(events[d], r \o xs, newCount)
  <2>1. \A j \in DOMAIN xs : ~IsGet(xs[j], AverageRating)
    BY <1>5, <1>6 DEF IsGet
  <2> QED BY <1>6, <1>7, <1>9, <2>1, IssueKeepsCountFirst
<1>12. ReadsAreOwn(d)'
  <2>1. \A y \in Elements(requests'[d]) : y.kind # "put" => y.sub \in Submitted /\ subs[y.sub].dev = d
    BY <1>7, <1>8, ReadsFacts DEF r
  <2>2. [Next]_vars OBVIOUS
  <2> QED BY <1>1, <2>1, <2>2, ReadsFacts, OwnReadsStay
<1> QED BY <1>1, <1>7, <1>9, <1>10, <1>11, <1>12 DEF LineInv

\* The client's queue.
LEMMA QueueKeepsLine ==
  ASSUME TypeOK, NEW d \in Devices, LineInv(d), Next, FirebaseQueue(d)
  PROVE  LineInv(d)'
<1> DEFINE r == requests[d]
           a == asked[d]
           e == events[d]
           R == RequestsFor(Submitted)
           A == AskedFor(Submitted)
           E == EventsFor(Submitted, Value \cup {Absent})
<1>1. /\ r # <<>> /\ requests'[d] = Tail(r) /\ newCount' = newCount
      /\ r \in Seq(R) /\ a \in Seq(A) /\ e \in Seq(E)
  BY DEF FirebaseQueue, AskServer, ServeRead, IssueWrite, TakeUp, form_vars, TypeOK
<1>2. Elements(r) = Elements(Tail(r)) \cup {Head(r)}
  BY <1>1, TailElements
<1>3. InOrder(e, a, r) /\ CountIsFirst(e, r, newCount)
  BY DEF LineInv
<1>4. [Next]_vars OBVIOUS
<1>5. CASE AskServer(d)
  <2> DEFINE x == [sub |-> Head(r).sub, behind |-> Len(pend[d])]
             B == A \cup {x}
  <2>1. /\ Head(r).kind = "ask" /\ events' = events /\ asked'[d] = Append(a, x)
        /\ x.sub = Head(r).sub
    BY <1>5 DEF AskServer, TakeUp, TypeOK
  <2>2. a \in Seq(B) /\ x \in B
    BY <1>1, SeqDef
  <2> HIDE DEF x, B, A
  <2>3. Elements(Append(a, x)) = Elements(a) \cup {x}
    BY <2>2, ElementsFacts
  <2> HIDE DEF a, r, R, E
  <2>4. InOrder(e, Append(a, x), Tail(r))
    BY <1>1, <1>3, <2>1, <2>2, AskStaysInOrder
  <2>5. CountIsFirst(e, Tail(r), newCount)
    <3>1. Head(r).kind # "get" BY <2>1
    <3> QED BY <1>1, <1>3, <3>1, TakeKeepsCountFirst
  <2>6. ReadsAreOwn(d)'
    <3>1. \A y \in Elements(asked'[d]) : y.sub \in Submitted /\ subs[y.sub].dev = d
      BY <1>2, <2>1, <2>3, ReadsFacts DEF a, r
    <3>2. \A y \in Elements(requests'[d]) : y.kind # "put" => y.sub \in Submitted /\ subs[y.sub].dev = d
      BY <1>1, <1>2, ReadsFacts DEF r
    <3> QED BY <1>4, <2>1, <3>1, <3>2, ReadsFacts, OwnReadsStay
  <2> QED BY <1>1, <2>1, <2>4, <2>5, <2>6 DEF LineInv
<1>6. CASE ServeRead(d)
  <2> DEFINE x == ValueEvent(Head(r).sub, Head(r).path, view[d][Head(r).path])
             F == E \cup {x}
  <2>1. /\ Head(r).kind = "get" /\ asked' = asked /\ events'[d] = Append(e, x)
    BY <1>6 DEF ServeRead, TakeUp, TypeOK
  <2>2. x.kind = "value" /\ x.sub = Head(r).sub /\ x.path = Head(r).path
    BY DEF ValueEvent
  <2>3. e \in Seq(F) /\ x \in F
    <3>1. E \subseteq F /\ x \in F OBVIOUS
    <3> HIDE DEF E, F, e, x
    <3> QED BY <1>1, <3>1, WidenSequence
  <2> HIDE DEF x, F, E
  <2>4. Elements(Append(e, x)) = Elements(e) \cup {x}
    BY <2>3, ElementsFacts
  <2> HIDE DEF e, r, R, A
  <2>5. InOrder(Append(e, x), a, Tail(r))
    BY <1>1, <1>3, <2>1, <2>2, <2>3, ServeStaysInOrder
  <2>6. CountIsFirst(Append(e, x), Tail(r), newCount)
    <3>1. IsAnswer(x, Head(r).path) BY <2>2 DEF IsAnswer
    <3> QED BY <1>1, <1>3, <2>1, <2>2, <2>3, <3>1, ServeKeepsCountFirst
  <2>7. ReadsAreOwn(d)'
    <3>1. \A y \in Elements(events'[d]) : y.sub \in Submitted /\ subs[y.sub].dev = d
      BY <1>2, <2>1, <2>2, <2>4, ReadsFacts DEF e, r
    <3>2. \A y \in Elements(requests'[d]) : y.kind # "put" => y.sub \in Submitted /\ subs[y.sub].dev = d
      BY <1>1, <1>2, ReadsFacts DEF r
    <3> QED BY <1>4, <2>1, <3>1, <3>2, ReadsFacts, OwnReadsStay
  <2> QED BY <1>1, <2>1, <2>5, <2>6, <2>7 DEF LineInv
<1>7. CASE IssueWrite(d)
  <2>1. Head(r).kind = "put" /\ UNCHANGED <<asked, events>>
    BY <1>7 DEF IssueWrite, TakeUp
  <2> HIDE DEF r, R
  <2>2. InOrder(e, a, Tail(r))
    BY <1>1, <1>3, WriteStaysInOrder
  <2>3. CountIsFirst(e, Tail(r), newCount)
    <3>1. Head(r).kind # "get" BY <2>1
    <3> QED BY <1>1, <1>3, <3>1, TakeKeepsCountFirst
  <2>4. ReadsAreOwn(d)'
    <3>1. \A y \in Elements(requests'[d]) : y.kind # "put" => y.sub \in Submitted /\ subs[y.sub].dev = d
      BY <1>1, <1>2, ReadsFacts DEF r
    <3> QED BY <1>4, <2>1, <3>1, ReadsFacts, OwnReadsStay
  <2> QED BY <1>1, <2>1, <2>2, <2>3, <2>4 DEF LineInv
<1> QED BY <1>5, <1>6, <1>7 DEF FirebaseQueue

\* The server and the network.
LEMMA NetworkKeepsLine ==
  ASSUME TypeOK, NEW d \in Devices, LineInv(d), Next,
         ServerApply(d) \/ Sync(d) \/ AnswerAsk(d) \/ Reconnect(d)
  PROVE  LineInv(d)'
<1> DEFINE r == requests[d]
           a == asked[d]
           e == events[d]
           A == AskedFor(Submitted)
           E == EventsFor(Submitted, Value \cup {Absent})
<1>1. /\ requests' = requests /\ newCount' = newCount
      /\ a \in Seq(A) /\ e \in Seq(E)
  BY DEF ServerApply, Sync, AnswerAsk, CatchUp, Reconnect, form_vars, TypeOK
<1>2. InOrder(e, a, r) /\ CountIsFirst(e, r, newCount)
  BY DEF LineInv
<1>3. ASSUME NEW b, NEW g, InOrder(g, b, r), CountIsFirst(g, r, newCount),
             events'[d] = g, asked'[d] = b,
             \A y \in Elements(b) : y.sub \in Submitted /\ subs[y.sub].dev = d,
             \A y \in Elements(g) : y.sub \in Submitted /\ subs[y.sub].dev = d
      PROVE  LineInv(d)'
  <2>1. ReadsAreOwn(d)'
    <3>1. [Next]_vars OBVIOUS
    <3> QED BY <1>1, <1>3, <3>1, ReadsFacts, OwnReadsStay
  <2> QED BY <1>1, <1>3, <2>1 DEF LineInv
<1>4. ASSUME NEW b, DOMAIN b = DOMAIN a, \A i \in DOMAIN a : b[i].sub = a[i].sub
      PROVE  /\ InOrder(e, b, r)
             /\ \A y \in Elements(b) : y.sub \in Submitted /\ subs[y.sub].dev = d
  <2>1. InOrder(e, b, r)
    BY <1>2, <1>4, AskedStaysInOrder
  <2>2. \A y \in Elements(b) : \E x \in Elements(a) : y.sub = x.sub
    BY <1>4 DEF Elements
  <2> QED BY <2>1, <2>2, ReadsFacts
<1>5. CASE ServerApply(d)
  <2>1. UNCHANGED <<asked, events>>
    BY <1>5 DEF ServerApply
  <2> QED BY <1>2, <1>3, <2>1, ReadsFacts
<1>6. CASE Sync(d) \/ Reconnect(d)
  <2> DEFINE b == asked'[d]
  <2>1. events' = events
    BY <1>6 DEF Sync, Reconnect
  <2>2. DOMAIN b = DOMAIN a /\ \A i \in DOMAIN a : b[i].sub = a[i].sub
    <3>1. \A i \in DOMAIN a : a[i] \in A BY <1>1
    <3>2. CASE Sync(d)
      <4>1. b = [i \in DOMAIN a |-> StillBehind(d, a[i])] BY <3>2 DEF Sync, TypeOK
      <4>2. \A x \in A : StillBehind(d, x).sub = x.sub BY DEF StillBehind, AskedFor
      <4> QED BY <3>1, <4>1, <4>2
    <3>3. CASE Reconnect(d)
      <4>1. b = [i \in DOMAIN a |-> [a[i] EXCEPT !.behind = 0]]
        BY <3>3 DEF Reconnect, TypeOK
      <4>2. \A x \in A : [x EXCEPT !.behind = 0].sub = x.sub BY DEF AskedFor
      <4> QED BY <3>1, <4>1, <4>2
    <3> QED BY <1>6, <3>2, <3>3
  <2> HIDE DEF b
  <2>3. /\ InOrder(e, b, r)
        /\ \A y \in Elements(b) : y.sub \in Submitted /\ subs[y.sub].dev = d
    BY <1>4, <2>2
  <2> QED BY <1>2, <1>3, <2>1, <2>3, ReadsFacts DEF b
<1>7. CASE AnswerAsk(d)
  <2> DEFINE c == [i \in DOMAIN a |-> StillBehind(d, a[i])]
             x == ItemEvent(Head(a).sub, \E p \in Paths : Refreshed(d)[p] # Absent)
             F == E \cup {x}
             b == asked'[d]
  <2>1. a # <<>> /\ events'[d] = Append(e, x)
    BY <1>7 DEF AnswerAsk, TypeOK
  <2>2. x.kind = "item" /\ x.sub = Head(a).sub
    BY DEF ItemEvent
  <2>3. e \in Seq(F) /\ x \in F
    <3>1. E \subseteq F /\ x \in F OBVIOUS
    <3> HIDE DEF E, F, e, x
    <3> QED BY <1>1, <3>1, WidenSequence
  <2>4. \A y \in A : StillBehind(d, y).sub = y.sub /\ StillBehind(d, y) \in [sub : Submitted, behind : {StillBehind(d, y).behind}]
    BY DEF StillBehind, AskedFor
  <2>5. /\ DOMAIN c = DOMAIN a /\ \A i \in DOMAIN a : c[i].sub = a[i].sub
    BY <1>1, <2>4
  <2>6. c \in Seq({StillBehind(d, y) : y \in A}) /\ c # <<>>
    BY <1>1, <2>1
  <2>7. b = Tail(c)
    <3>1. b = [i \in 1..Len(a) - 1 |-> StillBehind(d, a[i + 1])]
      BY <1>7 DEF AnswerAsk, TypeOK
    <3> QED BY <1>1, <2>1, <3>1
  <2>8. Head(c).sub = Head(a).sub
    BY <1>1, <2>1, <2>4
  <2> HIDE DEF c, x, F, b, E, A
  <2>9. Elements(Append(e, x)) = Elements(e) \cup {x} /\ Elements(c) = Elements(Tail(c)) \cup {Head(c)}
    BY <2>3, <2>6, ElementsFacts, TailElements
  <2>10. /\ InOrder(e, c, r)
         /\ \A y \in Elements(c) : y.sub \in Submitted /\ subs[y.sub].dev = d
    BY <1>4, <2>5
  <2>11. InOrder(Append(e, x), b, r)
    BY <2>2, <2>3, <2>6, <2>7, <2>8, <2>10, AnswerStaysInOrder
  <2>12. CountIsFirst(Append(e, x), r, newCount)
    BY <1>2, <2>2, <2>3, AnswerKeepsCountFirst
  <2>13. /\ \A y \in Elements(b) : y.sub \in Submitted /\ subs[y.sub].dev = d
         /\ \A y \in Elements(Append(e, x)) : y.sub \in Submitted /\ subs[y.sub].dev = d
    BY <2>2, <2>7, <2>8, <2>9, <2>10, ReadsFacts DEF e
  <2> QED BY <1>3, <2>1, <2>11, <2>12, <2>13 DEF b
<1> QED BY <1>5, <1>6, <1>7

\* Empty queues are in order.
LEMMA EmptyLine ==
  ASSUME NEW count
  PROVE  InOrder(<<>>, <<>>, <<>>) /\ CountIsFirst(<<>>, <<>>, count) /\ Elements(<<>>) = {}
BY DEF InOrder, Rising, RisingAsked, CountIsFirst, Elements

\* A process that goes down leaves empty queues, and finds them so when it comes back.
LEMMA DownKeepsLine ==
  ASSUME TypeOK, NEW d \in Devices, LineInv(d), Next, CastFails(d) \/ Kill(d) \/ Relaunch(d)
  PROVE  LineInv(d)'
<1>1. CASE CastFails(d) \/ Kill(d)
  <2>1. events'[d] = <<>> /\ asked'[d] = <<>> /\ requests'[d] = <<>>
    BY <1>1 DEF CastFails, Trap, Kill, GoesDown, TypeOK
  <2> QED BY <2>1, EmptyLine DEF LineInv, ReadsAreOwn
<1>2. CASE Relaunch(d)
  <2>1. UNCHANGED <<events, asked, requests, newCount, subs>>
    BY <1>2 DEF Relaunch, form_vars
  <2> QED BY <2>1 DEF LineInv, ReadsAreOwn
<1> QED BY <1>1, <1>2

\* The line of every device is kept by every step.
LEMMA LineStep ==
  ASSUME TypeOK, UploadsHaveKey, \A d \in Devices : LineInv(d), [Next]_vars
  PROVE  \A d \in Devices : LineInv(d)'
<1>1. CASE UNCHANGED vars
  BY <1>1 DEF vars, client, form_vars, LineInv, ReadsAreOwn
<1>2. CASE Next
  <2> PICK d \in Devices : StepOf(d)
    BY <1>2 DEF Next, StepOf
  <2>1. LineInv(d)'
    <3>1. CASE \E k \in Ratings : SubmitPressed(d, k)
      BY <1>2, <3>1, PressKeepsLine
    <3>2. CASE MainQueue(d) /\ ~CastFails(d)
      BY <1>2, <3>2, MainQueueKeepsLine
    <3>3. CASE Uploads(d)
      BY <1>2, <3>3, UploadKeepsLine DEF Uploads
    <3>4. CASE FirebaseQueue(d)
      BY <1>2, <3>4, QueueKeepsLine
    <3>5. CASE ServerApply(d) \/ Sync(d) \/ AnswerAsk(d) \/ Reconnect(d)
      BY <1>2, <3>5, NetworkKeepsLine
    <3>6. CASE CastFails(d) \/ Kill(d) \/ Relaunch(d)
      BY <1>2, <3>6, DownKeepsLine
    <3> QED BY <3>1, <3>2, <3>3, <3>4, <3>5, <3>6 DEF StepOf
  <2>2. Apart(d)
    BY StepsAreApart DEF LineInv
  <2> QED BY <2>1, <2>2, LineOfOthers
<1> QED BY <1>1, <1>2

\* The averages that divide by something.
Defined == {v \in Value : v.den > 0}
DefinedInv == TypeOK /\ UploadsHaveKey /\ AveragesIn(Defined) /\ \A d \in Devices : LineInv(d)

\* Every quotient taken is of a count that has been set.
LEMMA DefinedStep ==
  ASSUME DefinedInv, [Next]_vars
  PROVE  AveragesIn(Defined)'
<1> USE DEF DefinedInv
<1>1. ASSUME NEW d \in Devices, AverageArrived(d) PROVE NextAverage(d) \in Defined
  <2> DEFINE e == events[d]
             n == Head(e).sub
             E == EventsFor(Submitted, Value \cup {Absent})
  <2>1. e # <<>> /\ IsAnswer(Head(e), AverageRating) /\ e \in Seq(E)
    BY <1>1 DEF AverageArrived, ValueArrived, Callback, IsAnswer, TypeOK
  <2>2. n \in Subs
    <3>1. Head(e) \in Elements(e) BY <2>1, TailElements
    <3> QED BY <3>1, QueuesNameSubmissions, SubmittedFact
  <2>3. CountIsFirst(e, requests[d], newCount)
    BY DEF LineInv
  <2> HIDE DEF E
  <2>4. newCount[n] > 0
    BY <2>1, <2>3, CountHasCome
  <2> QED BY <2>2, <2>4 DEF NextAverage, Defined, Value, TypeOK
<1>2. \A k \in 0..5 : Whole(k) \in Defined
  <2> SUFFICES ASSUME NEW k \in 0..5 PROVE Whole(k) \in Defined OBVIOUS
  <2>1. Whole(k) \in Value /\ Whole(k).den = 1 /\ 1 > 0
    BY WholeIsValue DEF Whole
  <2> QED BY <2>1 DEF Defined
<1> QED BY <1>1, <1>2, AveragesStep

\* Nobody publishes a quotient by zero, for any number of devices, presses in a form, kills and
\* reconnections, on a reviewed item and on one without a review: the count of a submission is
\* read before its average, in one queue, and nobody asks twice for one submission.
THEOREM NoAverageByZero == Spec => []AverageDefined
<1>1. Init => AveragesIn(Defined) /\ \A d \in Devices : LineInv(d)
  <2> SUFFICES ASSUME Init PROVE AveragesIn(Defined) /\ \A d \in Devices : LineInv(d)
    OBVIOUS
  <2>1. SeedCount # 0 => [num |-> SeedTotal, den |-> SeedCount] \in Defined
    BY SeedAssumption DEF Defined, Value
  <2>2. \A d \in Devices : events[d] = <<>> /\ asked[d] = <<>> /\ requests[d] = <<>>
    BY DEF Init
  <2> QED BY <2>1, <2>2, AveragesInit, EmptyLine DEF LineInv, ReadsAreOwn
<1>2. DefinedInv /\ [Next]_vars => AveragesIn(Defined)' /\ \A d \in Devices : LineInv(d)'
  BY DefinedStep, LineStep DEF DefinedInv
<1>3. DefinedInv => AverageDefined
  BY DEF DefinedInv, AveragesIn, Defined, AverageDefined
<1>4. Spec => [](TypeOK /\ UploadsHaveKey)
  BY TypeCorrect, KeyForEveryUpload, PTL
<1>5. (\A d \in Devices : LineInv(d))' <=> \A d \in Devices : LineInv(d)' OBVIOUS
<1> QED BY <1>1, <1>2, <1>3, <1>4, <1>5, PTL DEF Spec, DefinedInv

------------------------
(* On a reviewed item, with any number of devices, no review is counted whose *)
(* rating the database does not hold.                                                      *)

\* The ratings a queue writes, and those it writes before its k-th place.
RatedBy(w) == {n \in Subs : IsPut(w, <<"rating", n>>)}
Rated(q) == {n \in Subs : \E w \in Elements(q) : n \in RatedBy(w)}
RatedBefore(q, k) == {n \in Subs : \E i \in DOMAIN q : i < k /\ n \in RatedBy(q[i])}

\* The reviews the item has when these are stored, beside those it had.
Bound(A) == SeedCount + Cardinality(A)

\* The number of reviews a write of a total claims.
Claims(w) == w.kind = "put" /\ w.path \in {Count, AverageRating}
Claimed(w) == IF w.path = Count THEN w.value.num ELSE w.value.den

\* No write of a queue claims more than A and the ratings written before it.
Backed(q, A) ==
  \A k \in DOMAIN q : Claims(q[k]) => Claimed(q[k]) <= Bound(A \cup RatedBefore(q, k))

\* Nor does a node show more.
NodeIsBacked(node, A) ==
  /\ node[Count] # Absent => node[Count].num <= Bound(A)
  /\ node[AverageRating] # Absent => node[AverageRating].den <= Bound(A)

\* The ratings stored, those a device shows, and those it has issued.
Stored == {n \in Subs : server[<<"rating", n>>] # Absent}
Shown(d) == Stored \cup Rated(pend[d])
Known(d) == Shown(d) \cup Rated(requests[d])

WritesAreBacked(d) ==
  /\ Backed(pend[d], Stored) /\ Backed(requests[d], Shown(d))
  /\ RatedBefore(pend[d], sent[d] + 1) \subseteq Stored
  /\ \A n \in Rated(pend[d]) \cup Rated(requests[d]) : subs[n].dev = d
  /\ status[d] = "running" => NodeIsBacked(view[d], Shown(d))

\* A submission whose count is being read has issued its rating, behind the read; one that is
\* still in question has issued none.
AnswerIsBacked(x, known, count) ==
  /\ x.kind = "value" => x.sub \in known
  /\ IsAnswer(x, Count) => x.value.num <= Bound(known \ {x.sub})
  /\ IsAnswer(x, AverageRating) => count[x.sub] <= Bound(known)
  /\ x.kind = "item" => x.exists /\ x.sub \notin known
RequestIsBacked(x, before, known, count) ==
  /\ x.kind = "ask" => x.sub \notin known
  /\ x.kind = "get" => x.sub \in known
  /\ IsGet(x, Count) => x.sub \notin before
  /\ IsGet(x, AverageRating) => count[x.sub] <= Bound(known)

ReadsAreBacked(d) ==
  /\ \A x \in Elements(events[d]) : AnswerIsBacked(x, Known(d), newCount)
  /\ \A x \in Elements(asked[d]) : x.sub \notin Known(d)
  /\ \A k \in DOMAIN requests[d] :
       RequestIsBacked(requests[d][k], Shown(d) \cup RatedBefore(requests[d], k),
                       Known(d), newCount)

DownIsEmpty(d) ==
  status[d] # "running" =>
    requests[d] = <<>> /\ asked[d] = <<>> /\ events[d] = <<>> /\ pend[d] = <<>>

DeviceIsBacked(d) == DownIsEmpty(d) /\ WritesAreBacked(d) /\ ReadsAreBacked(d)

------------------------
\* More ratings allow more reviews; a rating allows one.
LEMMA BoundFacts ==
  ASSUME NEW B \in SUBSET Subs
  PROVE  /\ Bound(B) \in Nat /\ Bound({}) = SeedCount
         /\ \A A \in SUBSET B : Bound(A) \in Nat /\ Bound(A) <= Bound(B)
         /\ \A n \in B : Bound(B \ {n}) \in Nat /\ Bound(B \ {n}) + 1 = Bound(B)
<1>1. SeedCount \in Nat
  BY SeedAssumption
<1>2. IsFiniteSet(Subs)
  <2>1. 1 \in Int /\ MaxSubmissions \in Int
    BY BoundsAssumption
  <2> QED BY <2>1, FS_Interval DEF Subs
<1>3. IsFiniteSet(B)
  BY <1>2, FS_Subset
<1>4. Cardinality(B) \in Nat /\ Cardinality({}) = 0
  BY <1>3, FS_CardinalityType, FS_EmptySet
<1>5. ASSUME NEW A \in SUBSET B PROVE Cardinality(A) \in Nat /\ Cardinality(A) <= Cardinality(B)
  BY <1>3, FS_Subset, FS_CardinalityType
<1>6. ASSUME NEW n \in B
      PROVE  Cardinality(B \ {n}) \in Nat /\ Cardinality(B \ {n}) + 1 = Cardinality(B)
  <2>1. Cardinality(B \ {n}) = Cardinality(B) - 1
    BY <1>3, FS_RemoveElement
  <2>2. Cardinality(B \ {n}) \in Nat
    BY <1>5
  <2> QED BY <1>4, <2>1, <2>2
<1> QED BY <1>1, <1>4, <1>5, <1>6 DEF Bound

\* What each operation on a queue does to the ratings it writes.
LEMMA RatedConcat ==
  ASSUME NEW S, NEW q \in Seq(S), NEW xs \in Seq(S)
  PROVE  /\ Rated(q \o xs) = Rated(q) \cup Rated(xs)
         /\ Len(q) \in Nat
         /\ \A k \in DOMAIN q : k \in DOMAIN (q \o xs) /\ (q \o xs)[k] = q[k]
                                /\ RatedBefore(q \o xs, k) = RatedBefore(q, k)
         /\ \A k \in DOMAIN (q \o xs) : k \notin DOMAIN q =>
              /\ k - Len(q) \in DOMAIN xs /\ (q \o xs)[k] = xs[k - Len(q)]
              /\ RatedBefore(q \o xs, k) = Rated(q) \cup RatedBefore(xs, k - Len(q))
<1> DEFINE r == q \o xs
           n == Len(q)
           m == Len(xs)
<1>1. /\ n \in Nat /\ m \in Nat /\ DOMAIN q = 1 .. n /\ DOMAIN xs = 1..m
      /\ DOMAIN r = 1..n + m
      /\ \A i \in 1..n : r[i] = q[i]
      /\ \A i \in 1..m : r[n + i] = xs[i]
      /\ \A i \in 1 .. n + m : i \notin 1 .. n => i - n \in 1 .. m /\ r[i] = xs[i - n]
  BY ConcatIndices
<1>2. Elements(r) = Elements(q) \cup Elements(xs)
  BY ElementsFacts
<1> HIDE DEF r, n, m
<1>3. Rated(r) = Rated(q) \cup Rated(xs)
  BY <1>2 DEF Rated
<1>4. ASSUME NEW k \in DOMAIN q
      PROVE  k \in DOMAIN r /\ r[k] = q[k] /\ RatedBefore(r, k) = RatedBefore(q, k)
  <2>1. \A i \in DOMAIN r : i < k => i \in DOMAIN q /\ r[i] = q[i]
    BY <1>1
  <2>2. \A i \in DOMAIN q : i \in DOMAIN r /\ r[i] = q[i]
    BY <1>1
  <2> QED BY <2>1, <2>2 DEF RatedBefore
<1>5. ASSUME NEW k \in DOMAIN r, k \notin DOMAIN q
      PROVE  /\ k - n \in DOMAIN xs /\ r[k] = xs[k - n]
             /\ RatedBefore(r, k) = Rated(q) \cup RatedBefore(xs, k - n)
  <2>1. k - n \in DOMAIN xs /\ r[k] = xs[k - n]
    BY <1>1, <1>5
  <2>2. ASSUME NEW i \in DOMAIN r, i < k
        PROVE  r[i] \in Elements(q) \/ \E j \in DOMAIN xs : j < k - n /\ r[i] = xs[j]
    <3>1. CASE i \in DOMAIN q
      BY <1>1, <3>1 DEF Elements
    <3>2. CASE i \notin DOMAIN q
      <4>1. i - n \in DOMAIN xs /\ r[i] = xs[i - n] /\ i - n < k - n
        BY <1>1, <2>2, <3>2
      <4> QED BY <4>1
    <3> QED BY <3>1, <3>2
  <2>3. \A w \in Elements(q) : \E i \in DOMAIN r : i < k /\ r[i] = w
    <3>1. \A i \in DOMAIN q : i \in DOMAIN r /\ i < k /\ r[i] = q[i]
      BY <1>1, <1>5
    <3> QED BY <3>1 DEF Elements
  <2>4. \A j \in DOMAIN xs : j < k - n => n + j \in DOMAIN r /\ n + j < k /\ r[n + j] = xs[j]
    BY <1>1
  <2>5. RatedBefore(r, k) \subseteq Rated(q) \cup RatedBefore(xs, k - n)
    BY <2>2 DEF RatedBefore, Rated
  <2>6. Rated(q) \subseteq RatedBefore(r, k)
    BY <2>3 DEF RatedBefore, Rated
  <2>7. RatedBefore(xs, k - n) \subseteq RatedBefore(r, k)
    BY <2>4 DEF RatedBefore
  <2> QED BY <2>1, <2>5, <2>6, <2>7
<1> QED BY <1>1, <1>3, <1>4, <1>5 DEF r, n

\* What taking the head off a queue does to them.
LEMMA RatedTail ==
  ASSUME NEW S, NEW q \in Seq(S), q # <<>>
  PROVE  /\ Rated(q) = RatedBy(Head(q)) \cup Rated(Tail(q))
         /\ 1 \in DOMAIN q /\ q[1] = Head(q) /\ RatedBefore(q, 1) = {}
         /\ \A k \in DOMAIN Tail(q) :
              /\ k + 1 \in DOMAIN q /\ Tail(q)[k] = q[k + 1]
              /\ RatedBefore(q, k + 1) = RatedBy(Head(q)) \cup RatedBefore(Tail(q), k)
<1> DEFINE r == Tail(q)
           n == Len(q)
<1>1. /\ n \in Nat /\ n >= 1 /\ DOMAIN q = 1 .. n /\ Head(q) = q[1]
      /\ DOMAIN r = 1 .. n - 1 /\ \A i \in 1..n - 1 : r[i] = q[i + 1]
  BY TailIndices
<1>2. Elements(q) = Elements(r) \cup {Head(q)}
  BY TailElements
<1> HIDE DEF r, n
<1>3. Rated(q) = RatedBy(Head(q)) \cup Rated(r)
  <2>1. \A m \in RatedBy(Head(q)) : m \in Subs
    BY DEF RatedBy
  <2> QED BY <1>2, <2>1 DEF Rated
<1>4. RatedBefore(q, 1) = {} /\ 1 \in DOMAIN q
  <2>1. \A i \in DOMAIN q : ~(i < 1)
    BY <1>1
  <2> QED BY <1>1, <2>1 DEF RatedBefore
<1>5. ASSUME NEW k \in DOMAIN r
      PROVE  /\ k + 1 \in DOMAIN q /\ r[k] = q[k + 1]
             /\ RatedBefore(q, k + 1) = RatedBy(q[1]) \cup RatedBefore(r, k)
  <2>1. k + 1 \in DOMAIN q /\ r[k] = q[k + 1]
    BY <1>1
  <2>2. ASSUME NEW i \in DOMAIN q, i < k + 1
        PROVE  i = 1 \/ (i - 1 \in DOMAIN r /\ i - 1 < k /\ q[i] = r[i - 1])
    BY <1>1, <2>2
  <2>3. \A i \in DOMAIN r : i < k => i + 1 \in DOMAIN q /\ i + 1 < k + 1 /\ r[i] = q[i + 1]
    BY <1>1
  <2>4. 1 \in DOMAIN q /\ 1 < k + 1
    BY <1>1
  <2>5. RatedBefore(q, k + 1) \subseteq RatedBy(q[1]) \cup RatedBefore(r, k)
    BY <2>2 DEF RatedBefore
  <2>6. RatedBefore(r, k) \subseteq RatedBefore(q, k + 1)
    BY <2>3 DEF RatedBefore
  <2>7. RatedBy(q[1]) \subseteq RatedBefore(q, k + 1)
    BY <2>4 DEF RatedBefore, RatedBy
  <2> QED BY <2>1, <2>5, <2>6, <2>7
<1> QED BY <1>1, <1>3, <1>4, <1>5 DEF r

\* The ratings are of submissions.
LEMMA RatedSubs ==
  ASSUME NEW q, NEW k
  PROVE  Rated(q) \subseteq Subs /\ RatedBefore(q, k) \subseteq Rated(q)
<1>1. RatedBefore(q, k) \subseteq Rated(q)
  BY DEF Rated, RatedBefore, Elements
<1> QED BY <1>1 DEF Rated

\* Numbers that are claimed are natural.
NumbersIn(S) == \A w \in S : Claims(w) => Claimed(w) \in Nat

\* What a write of a total claims is a natural number.
LEMMA ClaimsAreNumbers == NumbersIn(Puts) /\ NumbersIn(RequestsFor(Submitted))
<1>1. \A w \in Puts : Claimed(w) \in Nat
  BY DEF Puts, Claimed, Value
<1>2. \A w \in RequestsFor(Submitted) : w.kind = "put" => w \in Puts
  BY DEF RequestsFor
<1> QED BY <1>1, <1>2 DEF NumbersIn, Claims

\* More ratings stored back the same writes.
LEMMA BackedMore ==
  ASSUME NEW S, NEW q \in Seq(S), NumbersIn(S), NEW B \in SUBSET Subs, NEW A \in SUBSET B,
         Backed(q, A)
  PROVE  Backed(q, B)
<1> SUFFICES ASSUME NEW k \in DOMAIN q, Claims(q[k])
             PROVE  Claimed(q[k]) <= Bound(B \cup RatedBefore(q, k))
  BY DEF Backed
<1> DEFINE C == B \cup RatedBefore(q, k)
           D == A \cup RatedBefore(q, k)
<1>1. C \in SUBSET Subs /\ D \in SUBSET C
  BY RatedSubs
<1>2. Claimed(q[k]) \in Nat /\ Claimed(q[k]) <= Bound(D)
  BY DEF Backed, NumbersIn
<1> HIDE DEF C, D
<1>3. Bound(C) \in Nat /\ Bound(D) \in Nat /\ Bound(D) <= Bound(C)
  BY <1>1, BoundFacts
<1>4. Claimed(q[k]) <= Bound(C)
  <2> DEFINE x == Claimed(q[k])
  <2> HIDE DEF x
  <2>1. x <= Bound(C)
    BY <1>2, <1>3 DEF x
  <2> QED BY <2>1 DEF x
<1> QED BY <1>4 DEF C

\* The head of a queue is backed by what is stored, the rest by the head too.
LEMMA BackedTail ==
  ASSUME NEW S, NEW q \in Seq(S), q # <<>>, NEW A, Backed(q, A)
  PROVE  /\ Backed(Tail(q), A \cup RatedBy(Head(q)))
         /\ Claims(Head(q)) => Claimed(Head(q)) <= Bound(A)
<1> DEFINE r == Tail(q)
           w == Head(q)
<1>1. /\ 1 \in DOMAIN q /\ q[1] = w /\ RatedBefore(q, 1) = {}
      /\ \A k \in DOMAIN r :
           /\ k + 1 \in DOMAIN q /\ r[k] = q[k + 1]
           /\ RatedBefore(q, k + 1) = RatedBy(w) \cup RatedBefore(r, k)
  BY RatedTail
<1> HIDE DEF r, w
<1>2. Claims(w) => Claimed(w) <= Bound(A)
  <2>1. A \cup {} = A OBVIOUS
  <2> QED BY <1>1, <2>1 DEF Backed
<1>3. Backed(r, A \cup RatedBy(w))
  <2> SUFFICES ASSUME NEW k \in DOMAIN r, Claims(r[k])
               PROVE  Claimed(r[k]) <= Bound((A \cup RatedBy(w)) \cup RatedBefore(r, k))
    BY DEF Backed
  <2>1. Claimed(r[k]) <= Bound(A \cup RatedBefore(q, k + 1))
    BY <1>1 DEF Backed
  <2>2. A \cup RatedBefore(q, k + 1) = (A \cup RatedBy(w)) \cup RatedBefore(r, k)
    BY <1>1
  <2> QED BY <2>1, <2>2
<1> QED BY <1>2, <1>3 DEF r, w

\* What is appended may count on all the ratings ahead of it.
LEMMA BackedConcat ==
  ASSUME NEW S, NEW q \in Seq(S), NEW xs \in Seq(S), NEW A, Backed(q, A),
         Backed(xs, A \cup Rated(q))
  PROVE  Backed(q \o xs, A)
<1> DEFINE r == q \o xs
           n == Len(q)
<1>1. /\ \A k \in DOMAIN q : r[k] = q[k] /\ RatedBefore(r, k) = RatedBefore(q, k)
      /\ \A k \in DOMAIN r : k \notin DOMAIN q =>
           /\ k - n \in DOMAIN xs /\ r[k] = xs[k - n]
           /\ RatedBefore(r, k) = Rated(q) \cup RatedBefore(xs, k - n)
  BY RatedConcat
<1> HIDE DEF r, n
<1>2. ASSUME NEW k \in DOMAIN r, Claims(r[k])
      PROVE  Claimed(r[k]) <= Bound(A \cup RatedBefore(r, k))
  <2>1. CASE k \in DOMAIN q
    BY <1>1, <1>2, <2>1 DEF Backed
  <2>2. CASE k \notin DOMAIN q
    <3>1. Claimed(r[k]) <= Bound((A \cup Rated(q)) \cup RatedBefore(xs, k - n))
      BY <1>1, <1>2, <2>2 DEF Backed
    <3>2. (A \cup Rated(q)) \cup RatedBefore(xs, k - n) = A \cup RatedBefore(r, k)
      BY <1>1, <2>2
    <3> QED BY <3>1, <3>2
  <2> QED BY <2>1, <2>2
<1> QED BY <1>2 DEF Backed, r

\* What is left of the writes when the first m, which are of ratings stored, are acknowledged.
LEMMA BackedRest ==
  ASSUME NEW q, NEW n \in Nat, NEW m \in 0..n, DOMAIN q = 1..n,
         NEW u, DOMAIN u = 1..n - m, \A i \in 1..n - m : u[i] = q[m + i],
         NEW A, RatedBefore(q, m + 1) \subseteq A, Backed(q, A)
  PROVE  Backed(u, A) /\ Rated(u) \subseteq Rated(q) /\ Rated(q) \subseteq A \cup Rated(u)
<1>1. ASSUME NEW i \in DOMAIN q PROVE i < m + 1 \/ (i - m \in DOMAIN u /\ u[i - m] = q[i])
  <2>1. CASE ~(i < m + 1)
    <3>1. i - m \in 1 .. n - m /\ m + (i - m) = i
      BY <2>1
    <3> QED BY <3>1
  <2> QED BY <2>1
<1>2. Rated(q) \subseteq A \cup Rated(u)
  BY <1>1 DEF Rated, RatedBefore, Elements
<1>3. \A i \in DOMAIN u : m + i \in DOMAIN q /\ u[i] = q[m + i] OBVIOUS
<1>4. Rated(u) \subseteq Rated(q)
  BY <1>3 DEF Rated, Elements
<1>5. ASSUME NEW k \in DOMAIN u, Claims(u[k])
      PROVE  Claimed(u[k]) <= Bound(A \cup RatedBefore(u, k))
  <2>1. Claimed(u[k]) <= Bound(A \cup RatedBefore(q, m + k))
    BY <1>3, <1>5 DEF Backed
  <2>2. ASSUME NEW i \in DOMAIN q, i < m + k
        PROVE  i < m + 1 \/ (i - m \in DOMAIN u /\ i - m < k /\ u[i - m] = q[i])
    <3>1. CASE ~(i < m + 1)
      <4>1. i - m \in DOMAIN u /\ u[i - m] = q[i]
        BY <1>1, <3>1
      <4>2. i - m < k BY <2>2
      <4> QED BY <4>1, <4>2
    <3> QED BY <3>1
  <2>3. \A i \in DOMAIN u : i < k => m + i \in DOMAIN q /\ m + i < m + k /\ u[i] = q[m + i]
    BY <1>3
  <2>4. RatedBefore(q, m + k) \subseteq A \cup RatedBefore(u, k)
    BY <2>2 DEF RatedBefore
  <2>5. RatedBefore(u, k) \subseteq RatedBefore(q, m + k)
    BY <2>3 DEF RatedBefore
  <2>6. ASSUME NEW i \in DOMAIN q, i < m + 1 PROVE i < m + k
    BY <2>6
  <2>7. A \cup RatedBefore(q, m + k) = A \cup RatedBefore(u, k)
    BY <2>4, <2>5
  <2> QED BY <2>1, <2>7
<1> QED BY <1>2, <1>4, <1>5 DEF Backed

------------------------
\* What is behind an answer or a request stays behind it when more ratings are issued.
LEMMA AnswerStays ==
  ASSUME NEW B \in SUBSET Subs, NEW A \in SUBSET B, NEW x, NEW count, NEW c,
         AnswerIsBacked(x, A, count),
         IsAnswer(x, Count) => x.value.num \in Nat,
         IsAnswer(x, AverageRating) =>
               \/ (c[x.sub] = count[x.sub] /\ count[x.sub] \in Nat)
               \/ c[x.sub] <= Bound(B),
         x.kind = "item" => x.sub \notin B
  PROVE  AnswerIsBacked(x, B, c)
<1>1. Bound(A) \in Nat /\ Bound(B) \in Nat /\ Bound(A) <= Bound(B)
  BY BoundFacts
<1>2. Bound(A \ {x.sub}) \in Nat /\ Bound(B \ {x.sub}) \in Nat
      /\ Bound(A \ {x.sub}) <= Bound(B \ {x.sub})
  <2> DEFINE C == B \ {x.sub}
             D == A \ {x.sub}
  <2>1. C \in SUBSET Subs /\ D \in SUBSET C OBVIOUS
  <2> HIDE DEF C, D
  <2>2. Bound(C) \in Nat /\ Bound(D) \in Nat /\ Bound(D) <= Bound(C)
    BY <2>1, BoundFacts
  <2> QED BY <2>2 DEF C, D
<1>3. IsAnswer(x, Count) => x.value.num <= Bound(B \ {x.sub})
  <2> DEFINE v == x.value.num
             a == Bound(A \ {x.sub})
             b == Bound(B \ {x.sub})
  <2> SUFFICES ASSUME IsAnswer(x, Count) PROVE v <= b OBVIOUS
  <2>1. v \in Nat /\ v <= a
    BY DEF AnswerIsBacked
  <2> HIDE DEF v, a, b
  <2> QED BY <1>2, <2>1 DEF a, b
<1>4. IsAnswer(x, AverageRating) => c[x.sub] <= Bound(B)
  <2> DEFINE v == count[x.sub]
             a == Bound(A)
             b == Bound(B)
  <2> SUFFICES ASSUME IsAnswer(x, AverageRating), c[x.sub] = v, v \in Nat PROVE c[x.sub] <= b
    OBVIOUS
  <2>1. v <= a
    BY DEF AnswerIsBacked
  <2> HIDE DEF v, a, b
  <2>2. v <= b
    BY <1>1, <2>1 DEF a, b
  <2> QED BY <2>2
<1> QED BY <1>3, <1>4 DEF AnswerIsBacked

\* Likewise of a request that waits.
LEMMA RequestStays ==
  ASSUME NEW B \in SUBSET Subs, NEW A \in SUBSET B, NEW x, NEW count, NEW c, NEW before, NEW f,
         RequestIsBacked(x, before, A, count),
         IsGet(x, AverageRating) =>
               \/ (c[x.sub] = count[x.sub] /\ count[x.sub] \in Nat)
               \/ c[x.sub] <= Bound(B),
         IsGet(x, Count) => x.sub \notin f,
         x.kind = "ask" => x.sub \notin B
  PROVE  RequestIsBacked(x, f, B, c)
<1>1. Bound(A) \in Nat /\ Bound(B) \in Nat /\ Bound(A) <= Bound(B)
  BY BoundFacts
<1>2. IsGet(x, AverageRating) => c[x.sub] <= Bound(B)
  <2> DEFINE v == count[x.sub]
             a == Bound(A)
             b == Bound(B)
  <2> SUFFICES ASSUME IsGet(x, AverageRating), c[x.sub] = v, v \in Nat PROVE c[x.sub] <= b
    OBVIOUS
  <2>1. v <= a
    BY DEF RequestIsBacked
  <2> HIDE DEF v, a, b
  <2>2. v <= b
    BY <1>1, <2>1 DEF a, b
  <2> QED BY <2>2
<1> QED BY <1>2 DEF RequestIsBacked

\* A node that shows no more than one set allows shows no more than a larger one does.
LEMMA NodeStays ==
  ASSUME NEW B \in SUBSET Subs, NEW A \in SUBSET B, NEW node \in Node, NodeIsBacked(node, A)
  PROVE  NodeIsBacked(node, B)
<1>1. Bound(A) \in Nat /\ Bound(B) \in Nat /\ Bound(A) <= Bound(B)
  BY BoundFacts
<1>2. /\ node[Count] # Absent => node[Count].num \in Nat
      /\ node[AverageRating] # Absent => node[AverageRating].den \in Nat
  BY TotalPathsFact DEF Node, Value
<1> DEFINE a == Bound(A)
           b == Bound(B)
           v == node[Count].num
           w == node[AverageRating].den
<1>3. /\ a \in Nat /\ b \in Nat /\ a <= b
      /\ node[Count] # Absent => v \in Nat /\ v <= a
      /\ node[AverageRating] # Absent => w \in Nat /\ w <= a
  BY <1>1, <1>2 DEF NodeIsBacked
<1> HIDE DEF a, b, v, w
<1>4. /\ node[Count] # Absent => v <= b
      /\ node[AverageRating] # Absent => w <= b
  BY <1>3
<1> QED BY <1>4 DEF a, b, v, w, NodeIsBacked

\* The types these lemmas ask for.
LEMMA BackedTypes ==
  ASSUME TypeOK, ReadsPresent, NEW d \in Devices
  PROVE  /\ Stored \subseteq Shown(d) /\ Shown(d) \subseteq Known(d) /\ Known(d) \subseteq Subs
         /\ Rated(pend[d]) \subseteq Shown(d) /\ Rated(requests[d]) \subseteq Known(d)
         /\ pend[d] \in Seq(Puts) /\ requests[d] \in Seq(RequestsFor(Submitted))
         /\ view[d] \in Node /\ server \in Node
         /\ \A x \in Elements(events[d]) :
              /\ x.sub \in Subs /\ newCount[x.sub] \in Nat
              /\ IsAnswer(x, Count) => x.value.num \in Nat
         /\ \A k \in DOMAIN requests[d] :
              requests[d][k].kind # "put" =>
                requests[d][k].sub \in Subs /\ newCount[requests[d][k].sub] \in Nat
<1>1. Stored \subseteq Shown(d) /\ Shown(d) \subseteq Known(d) /\ Known(d) \subseteq Subs
      /\ Rated(pend[d]) \subseteq Shown(d) /\ Rated(requests[d]) \subseteq Known(d)
  BY RatedSubs DEF Stored, Shown, Known
<1>2. pend[d] \in Seq(Puts) /\ requests[d] \in Seq(RequestsFor(Submitted))
      /\ view[d] \in Node /\ server \in Node
  BY DEF TypeOK
<1>3. ASSUME NEW x \in Elements(events[d])
      PROVE  /\ x.sub \in Subs /\ newCount[x.sub] \in Nat
             /\ IsAnswer(x, Count) => x.value.num \in Nat
  <2>1. x.sub \in Subs
    BY QueuesNameSubmissions, SubmittedFact
  <2>2. newCount[x.sub] \in Nat
    BY <2>1 DEF TypeOK
  <2>3. x \in EventsFor(Submitted, Value \cup {Absent})
    BY QueueTypes, ElementsFacts
  <2>4. x.kind = "value" => x.value \in Value \cup {Absent}
    BY <2>3 DEF EventsFor
  <2>5. x.kind = "value" => x.value # Absent
    BY DEF ReadsPresent, Elements
  <2> QED BY <2>1, <2>2, <2>4, <2>5 DEF IsAnswer, Value
<1>4. ASSUME NEW k \in DOMAIN requests[d], requests[d][k].kind # "put"
      PROVE  requests[d][k].sub \in Subs /\ newCount[requests[d][k].sub] \in Nat
  <2>1. requests[d][k].sub \in Subs
    BY <1>4, QueuesNameSubmissions, SubmittedFact DEF Elements
  <2> QED BY <2>1 DEF TypeOK
<1> QED BY <1>1, <1>2, <1>3, <1>4

\* What another device does adds at most ratings of its own.
LEMMA OthersStayBacked ==
  ASSUME TypeOK, ReadsPresent, [Next]_vars, NEW d \in Devices, Apart(d),
         NEW x \in Devices, x # d, DeviceIsBacked(x), LineInv(x),
         OwnInv, Stored \subseteq Stored', \A n \in Stored' \ Stored : subs[n].dev = d
  PROVE  DeviceIsBacked(x)'
<1>1. /\ events'[x] = events[x] /\ asked'[x] = asked[x] /\ requests'[x] = requests[x]
      /\ pend'[x] = pend[x] /\ sent'[x] = sent[x] /\ view'[x] = view[x]
      /\ status'[x] = status[x]
  BY DEF Apart
<1> DEFINE S2 == Shown(x)'
           K2 == Known(x)'
<1>2. S2 = Shown(x) \cup Stored' /\ K2 = Known(x) \cup Stored'
  BY <1>1 DEF Shown, Known
<1>3. Stored' \subseteq Subs
  BY DEF Stored
<1>4. /\ Stored \subseteq Shown(x) /\ Shown(x) \subseteq Known(x) /\ Known(x) \subseteq Subs
  BY BackedTypes
<1>5. S2 \in SUBSET Subs /\ K2 \in SUBSET Subs /\ Shown(x) \in SUBSET S2 /\ Known(x) \in SUBSET K2
  BY <1>2, <1>3, <1>4
<1>6. \A n \in Submitted : subs[n].dev = x => (n \in K2 => n \in Known(x)) /\ (n \in S2 => n \in Shown(x))
  BY <1>2, <1>4
<1>7. DownIsEmpty(x)'
  BY <1>1 DEF DeviceIsBacked, DownIsEmpty
<1> HIDE DEF S2, K2
<1>8. WritesAreBacked(x)'
  <2>1. Backed(pend[x], Stored') /\ Backed(requests[x], S2)
    <3>1. Stored \in SUBSET Stored' /\ Stored' \in SUBSET Subs
      BY <1>3
    <3>2. Backed(pend[x], Stored) /\ Backed(requests[x], Shown(x))
      BY DEF DeviceIsBacked, WritesAreBacked
    <3>3. Backed(pend[x], Stored')
      <4>1. pend[x] \in Seq(Puts) /\ NumbersIn(Puts)
        BY BackedTypes, ClaimsAreNumbers
      <4> QED BY <3>1, <3>2, <4>1, BackedMore
    <3>4. Backed(requests[x], S2)
      <4>1. requests[x] \in Seq(RequestsFor(Submitted)) /\ NumbersIn(RequestsFor(Submitted))
        BY BackedTypes, ClaimsAreNumbers
      <4> QED BY <1>5, <3>2, <4>1, BackedMore
    <3> QED BY <3>3, <3>4
  <2>2. RatedBefore(pend[x], sent[x] + 1) \subseteq Stored'
    BY DEF DeviceIsBacked, WritesAreBacked
  <2>3. \A n \in Rated(pend[x]) \cup Rated(requests[x]) : subs'[n].dev = x
    <3> SUFFICES ASSUME NEW n \in Rated(pend[x]) \cup Rated(requests[x]) PROVE subs'[n].dev = x
      OBVIOUS
    <3>1. <<"rating", n>> \in ReviewPaths /\ <<"rating", n>>[2] = n
      BY RatedSubs DEF ReviewPaths
    <3>2. n \in Submitted
      BY <3>1 DEF Rated, RatedBy, IsPut, OwnInv, WritesAreOwn, Own
    <3>3. subs[n].dev = x BY DEF DeviceIsBacked, WritesAreBacked
    <3> QED BY <3>2, <3>3, SubmissionsStay
  <2>4. status[x] = "running" => NodeIsBacked(view[x], S2)
    <3>1. view[x] \in Node BY BackedTypes
    <3>2. status[x] = "running" => NodeIsBacked(view[x], Shown(x))
      BY DEF DeviceIsBacked, WritesAreBacked
    <3> QED BY <1>5, <3>1, <3>2, NodeStays
  <2> QED BY <1>1, <2>1, <2>2, <2>3, <2>4 DEF WritesAreBacked, S2
<1>9. ReadsAreBacked(x)'
  <2>1. \A y \in Elements(events[x]) : AnswerIsBacked(y, K2, newCount')
    <3> SUFFICES ASSUME NEW y \in Elements(events[x]) PROVE AnswerIsBacked(y, K2, newCount')
      OBVIOUS
    <3>1. AnswerIsBacked(y, Known(x), newCount)
      BY DEF DeviceIsBacked, ReadsAreBacked
    <3>2. y.sub \in Submitted /\ subs[y.sub].dev = x
      BY ReadsFacts
    <3>3. newCount'[y.sub] = newCount[y.sub] /\ newCount[y.sub] \in Nat
          /\ (IsAnswer(y, Count) => y.value.num \in Nat)
      BY <3>2, BackedTypes DEF Apart
    <3>4. y.kind = "item" => y.sub \notin K2 BY <1>6, <3>1, <3>2 DEF AnswerIsBacked
    <3> QED BY <1>5, <3>1, <3>3, <3>4, AnswerStays
  <2>2. \A y \in Elements(asked[x]) : y.sub \notin K2
    BY <1>6, ReadsFacts DEF DeviceIsBacked, ReadsAreBacked
  <2>3. \A k \in DOMAIN requests[x] :
          RequestIsBacked(requests[x][k], S2 \cup RatedBefore(requests[x], k), K2, newCount')
    <3> SUFFICES ASSUME NEW k \in DOMAIN requests[x]
                 PROVE  RequestIsBacked(requests[x][k], S2 \cup RatedBefore(requests[x], k),
                                        K2, newCount')
      OBVIOUS
    <3> DEFINE y == requests[x][k]
               before == Shown(x) \cup RatedBefore(requests[x], k)
               f == S2 \cup RatedBefore(requests[x], k)
    <3>1. RequestIsBacked(y, before, Known(x), newCount)
      BY DEF DeviceIsBacked, ReadsAreBacked
    <3>2. y.kind # "put" => y.sub \in Submitted /\ subs[y.sub].dev = x
      BY ReadsFacts DEF Elements
    <3>3. y.kind # "put" => newCount'[y.sub] = newCount[y.sub] /\ newCount[y.sub] \in Nat
      BY <3>2, BackedTypes DEF Apart
    <3>4. y.kind = "ask" => y.sub \notin K2 BY <1>6, <3>1, <3>2 DEF RequestIsBacked
    <3>5. IsGet(y, Count) => y.sub \notin f
      BY <1>6, <3>1, <3>2 DEF RequestIsBacked, IsGet
    <3> HIDE DEF y, before, f
    <3>6. IsGet(y, AverageRating) => newCount'[y.sub] = newCount[y.sub] /\ newCount[y.sub] \in Nat
      BY <3>3 DEF IsGet
    <3>7. RequestIsBacked(y, f, K2, newCount')
      BY <1>5, <3>1, <3>4, <3>5, <3>6, RequestStays
    <3> QED BY <3>7 DEF y, f
  <2> QED BY <1>1, <2>1, <2>2, <2>3 DEF ReadsAreBacked, S2, K2
<1> QED BY <1>7, <1>8, <1>9 DEF DeviceIsBacked

------------------------
\* What a device issues is of submissions made.
LEMMA KnownAreSubmitted ==
  ASSUME OwnInv, NEW d \in Devices
  PROVE  Known(d) \subseteq Submitted
<1> SUFFICES ASSUME NEW n \in Known(d) PROVE n \in Submitted OBVIOUS
<1> DEFINE p == <<"rating", n>>
<1>1. n \in Subs
  BY RatedSubs DEF Known, Shown, Stored
<1>2. p \in ReviewPaths /\ p \in Paths /\ p[2] = n
  BY <1>1 DEF ReviewPaths, Paths
<1> HIDE DEF p
<1>3. \/ server[p] # Absent
      \/ \E w \in Elements(pend[d]) \cup Elements(requests[d]) : IsPut(w, p)
  BY DEF Known, Shown, Stored, Rated, RatedBy, p
<1> QED BY <1>2, <1>3 DEF OwnInv, WritesAreOwn, Own, IsPut

\* A device that issues no more than is backed stays backed.
LEMMA IssueKeepsBacked ==
  ASSUME TypeOK, ReadsPresent, NEW d \in Devices, DeviceIsBacked(d), NEW R, NumbersIn(R),
         requests[d] \in Seq(R), NEW xs \in Seq(R), requests'[d] = requests[d] \o xs,
         pend'[d] = pend[d], sent'[d] = sent[d], view'[d] = view[d], server' = server,
         asked'[d] = asked[d], status'[d] = "running", status[d] = "running",
         Elements(events'[d]) \subseteq Elements(events[d]),
         Backed(xs, Known(d)), Rated(xs) \subseteq Subs,
         \A n \in Rated(xs) : subs'[n].dev = d,
         \A n \in Known(d) : n \in Submitted => subs'[n] = subs[n], Known(d) \subseteq Submitted,
         NEW K, K = Known(d) \cup Rated(xs),
         \A n \in Subs : \/ newCount'[n] = newCount[n]
                         \/ newCount'[n] <= Bound(K),
         \A y \in Elements(events'[d]) : y.kind = "item" => y.sub \notin Rated(xs),
         \A y \in Elements(asked[d]) : y.sub \notin Rated(xs),
         \A y \in Elements(requests[d]) : y.kind = "ask" => y.sub \notin Rated(xs),
         \A k \in DOMAIN xs : RequestIsBacked(xs[k], Known(d) \cup RatedBefore(xs, k), K, newCount')
  PROVE  DeviceIsBacked(d)'
<1> DEFINE q == requests[d]
           S == Shown(d)
           A == Known(d)
<1>1. /\ Stored \subseteq S /\ S \subseteq A /\ A \subseteq Subs /\ A = S \cup Rated(q)
      /\ Rated(pend[d]) \subseteq A
  BY BackedTypes DEF Known
<1>2. Stored' = Stored /\ Shown(d)' = S
  BY DEF Stored, Shown
<1>3. /\ Rated(q \o xs) = Rated(q) \cup Rated(xs)
      /\ Len(q) \in Nat
      /\ \A k \in DOMAIN q : k \in DOMAIN (q \o xs) /\ (q \o xs)[k] = q[k]
                             /\ RatedBefore(q \o xs, k) = RatedBefore(q, k)
      /\ \A k \in DOMAIN (q \o xs) : k \notin DOMAIN q =>
           /\ k - Len(q) \in DOMAIN xs /\ (q \o xs)[k] = xs[k - Len(q)]
           /\ RatedBefore(q \o xs, k) = Rated(q) \cup RatedBefore(xs, k - Len(q))
  BY RatedConcat
<1>4. Known(d)' = K
  BY <1>2, <1>3 DEF Known
<1>5. K \in SUBSET Subs /\ A \in SUBSET K
  BY <1>1
<1>6. /\ \A y \in Elements(events[d]) : AnswerIsBacked(y, A, newCount)
      /\ \A y \in Elements(asked[d]) : y.sub \notin A
      /\ \A k \in DOMAIN q : RequestIsBacked(q[k], S \cup RatedBefore(q, k), A, newCount)
      /\ Backed(pend[d], Stored) /\ Backed(q, S)
      /\ RatedBefore(pend[d], sent[d] + 1) \subseteq Stored
      /\ \A n \in Rated(pend[d]) \cup Rated(q) : subs[n].dev = d
      /\ NodeIsBacked(view[d], S)
  BY DEF DeviceIsBacked, WritesAreBacked, ReadsAreBacked
<1>7. /\ \A y \in Elements(events[d]) :
           /\ y.sub \in Subs /\ newCount[y.sub] \in Nat
           /\ IsAnswer(y, Count) => y.value.num \in Nat
      /\ \A k \in DOMAIN q : q[k].kind # "put" => q[k].sub \in Subs /\ newCount[q[k].sub] \in Nat
  BY BackedTypes
<1> HIDE DEF q, S, A
<1>8. Backed(q \o xs, S)
  <2>1. q \in Seq(R)
    BY DEF q
  <2>2. Backed(xs, S \cup Rated(q))
    BY <1>1 DEF A
  <2> QED BY <1>6, <2>1, <2>2, BackedConcat
<1>9. WritesAreBacked(d)'
  <2>1. \A n \in Rated(pend[d]) \cup Rated(q \o xs) : subs'[n].dev = d
    <3>1. \A n \in Rated(pend[d]) \cup Rated(q) : subs'[n].dev = d
      <4>1. \A n \in Rated(pend[d]) \cup Rated(q) : n \in Known(d) /\ n \in Submitted
        BY <1>1 DEF A
      <4> QED BY <1>6, <4>1
    <3> QED BY <1>3, <3>1
  <2> QED BY <1>2, <1>6, <1>8, <2>1 DEF WritesAreBacked, q
<1>10. \A y \in Elements(events'[d]) : AnswerIsBacked(y, K, newCount')
  <2> SUFFICES ASSUME NEW y \in Elements(events'[d]) PROVE AnswerIsBacked(y, K, newCount')
    OBVIOUS
  <2>1. AnswerIsBacked(y, A, newCount)
    BY <1>6
  <2>2. /\ IsAnswer(y, Count) => y.value.num \in Nat
        /\ IsAnswer(y, AverageRating) =>
              \/ (newCount'[y.sub] = newCount[y.sub] /\ newCount[y.sub] \in Nat)
              \/ newCount'[y.sub] <= Bound(K)
    BY <1>7
  <2>3. y.kind = "item" => y.sub \notin K
    BY <2>1 DEF AnswerIsBacked, A
  <2> QED BY <1>5, <2>1, <2>2, <2>3, AnswerStays
<1>11. \A k \in DOMAIN (q \o xs) :
         RequestIsBacked((q \o xs)[k], S \cup RatedBefore(q \o xs, k), K, newCount')
  <2> SUFFICES ASSUME NEW k \in DOMAIN (q \o xs)
               PROVE RequestIsBacked((q \o xs)[k], S \cup RatedBefore(q \o xs, k), K, newCount')
    OBVIOUS
  <2>1. CASE k \in DOMAIN q
    <3> DEFINE y == q[k]
               f == S \cup RatedBefore(q, k)
    <3>1. RequestIsBacked(y, f, A, newCount) BY <1>6, <2>1
    <3>2. y \in Elements(q) BY <2>1 DEF Elements
    <3>3. y.kind # "put" =>
          \/ (newCount'[y.sub] = newCount[y.sub] /\ newCount[y.sub] \in Nat)
          \/ newCount'[y.sub] <= Bound(K)
      BY <1>7, <2>1
    <3> HIDE DEF y, f
    <3>4. y.kind = "ask" => y.sub \notin K BY <3>1, <3>2 DEF RequestIsBacked, A, q
    <3>5. /\ IsGet(y, Count) => y.sub \notin f
          /\ IsGet(y, AverageRating) =>
                \/ (newCount'[y.sub] = newCount[y.sub] /\ newCount[y.sub] \in Nat)
                \/ newCount'[y.sub] <= Bound(K)
      BY <3>1, <3>3 DEF RequestIsBacked, IsGet
    <3>6. RequestIsBacked(y, f, K, newCount')
      BY <1>5, <3>1, <3>4, <3>5, RequestStays
    <3> QED BY <1>3, <2>1, <3>6 DEF y, f
  <2>2. CASE k \notin DOMAIN q
    <3> DEFINE i == k - Len(q)
    <3>1. /\ i \in DOMAIN xs /\ (q \o xs)[k] = xs[i]
          /\ RatedBefore(q \o xs, k) = Rated(q) \cup RatedBefore(xs, i)
      BY <1>3, <2>2
    <3> HIDE DEF i
    <3>2. RequestIsBacked(xs[i], A \cup RatedBefore(xs, i), K, newCount')
      BY <3>1 DEF A
    <3>3. A \cup RatedBefore(xs, i) = S \cup RatedBefore(q \o xs, k) BY <1>1, <3>1
    <3> QED BY <3>1, <3>2, <3>3
  <2> QED BY <2>1, <2>2
<1>12. ReadsAreBacked(d)'
  <2>1. \A y \in Elements(asked'[d]) : y.sub \notin K
    BY <1>6 DEF A
  <2> QED BY <1>2, <1>4, <1>10, <1>11, <2>1 DEF ReadsAreBacked, q
<1>13. DownIsEmpty(d)'
  BY DEF DownIsEmpty
<1> QED BY <1>9, <1>12, <1>13 DEF DeviceIsBacked

\* What is left of the requests when one is taken up.
LEMMA TakeKeepsRequests ==
  ASSUME NEW S, NEW q \in Seq(S), q # <<>>, NEW A, NEW known, NEW count,
         \A k \in DOMAIN q : RequestIsBacked(q[k], A \cup RatedBefore(q, k), known, count)
  PROVE  /\ RequestIsBacked(Head(q), A, known, count)
         /\ \A k \in DOMAIN Tail(q) :
              RequestIsBacked(Tail(q)[k], (A \cup RatedBy(Head(q))) \cup RatedBefore(Tail(q), k),
                              known, count)
<1> DEFINE r == Tail(q)
           w == Head(q)
<1>1. /\ 1 \in DOMAIN q /\ q[1] = w /\ RatedBefore(q, 1) = {}
      /\ \A k \in DOMAIN r :
           /\ k + 1 \in DOMAIN q /\ r[k] = q[k + 1]
           /\ RatedBefore(q, k + 1) = RatedBy(w) \cup RatedBefore(r, k)
  BY RatedTail
<1> HIDE DEF r, w
<1>2. RequestIsBacked(w, A, known, count)
  <2>1. A \cup {} = A OBVIOUS
  <2> QED BY <1>1, <2>1
<1>3. ASSUME NEW k \in DOMAIN r
      PROVE  RequestIsBacked(r[k], (A \cup RatedBy(w)) \cup RatedBefore(r, k), known, count)
  <2>1. RequestIsBacked(r[k], A \cup RatedBefore(q, k + 1), known, count)
    BY <1>1
  <2>2. A \cup RatedBefore(q, k + 1) = (A \cup RatedBy(w)) \cup RatedBefore(r, k)
    BY <1>1
  <2> QED BY <2>1, <2>2
<1> QED BY <1>2, <1>3 DEF r, w

------------------------
\* What follows is of items with reviews, whose forms store the rating.
RatingIsStored == \E i \in DOMAIN ReviewFields : ReviewFields[i] = "rating"
BackedHere(d) == TotalsPresent /\ ReadsPresent /\ OwnInv /\ LineInv(d) /\ DeviceIsBacked(d)

\* One request alone.
LEMMA OneRequest ==
  ASSUME NEW x
  PROVE  /\ DOMAIN <<x>> = {1} /\ <<x>>[1] = x /\ Elements(<<x>>) = {x}
         /\ Rated(<<x>>) = RatedBy(x) /\ RatedBefore(<<x>>, 1) = {}
         /\ RatedBy(x) \subseteq Subs
<1>1. DOMAIN <<x>> = {1} /\ <<x>>[1] = x OBVIOUS
<1>2. Elements(<<x>>) = {x}
  BY <1>1 DEF Elements
<1>3. RatedBy(x) \subseteq Subs
  BY DEF RatedBy
<1>4. Rated(<<x>>) = RatedBy(x)
  BY <1>2, <1>3 DEF Rated
<1>5. RatedBefore(<<x>>, 1) = {}
  BY <1>1 DEF RatedBefore
<1> QED BY <1>1, <1>2, <1>3, <1>4, <1>5

\* A press asks for a submission that nothing has been issued for.
LEMMA PressKeepsBacked ==
  ASSUME NEW d \in Devices, BackedHere(d), NEW k \in Ratings, SubmitPressed(d, k), Next
  PROVE  DeviceIsBacked(d)'
<1> USE DEF BackedHere
<1>1. TypeOK
  BY DEF OwnInv
<1> DEFINE n == Len(subs) + 1
           x == Ask(n)
           xs == <<x>>
           R == RequestsFor(Submitted) \cup {x}
           q == requests[d]
<1>2. /\ requests'[d] = Append(q, x) /\ UNCHANGED <<server, view, asked, pend, sent, events, newCount, status>>
      /\ status[d] = "running"
  BY <1>1 DEF SubmitPressed, TypeOK, faults
<1>3. q \in Seq(RequestsFor(Submitted))
  BY <1>1 DEF TypeOK
<1>4. x.kind = "ask" /\ x.sub = n /\ x \in R
  BY DEF Ask
<1>5. n \notin Submitted
  <2>1. Len(subs) \in Nat /\ Submitted = 1..Len(subs)
    <3>1. subs \in Seq(Submissions) BY <1>1 DEF TypeOK
    <3> QED BY <1>1, <3>1, SubmittedFact
  <2> QED BY <2>1
<1>6. NumbersIn(R)
  <2>1. ~Claims(x)
    BY <1>4 DEF Claims
  <2> QED BY <2>1, ClaimsAreNumbers DEF NumbersIn
<1>7. DOMAIN xs = {1} /\ xs[1] = x /\ Elements(xs) = {x} /\ Rated(xs) = RatedBy(x)
      /\ RatedBefore(xs, 1) = {}
  BY OneRequest
<1>8. RatedBy(x) = {}
  BY <1>4 DEF RatedBy, IsPut
<1>9. q \in Seq(R) /\ xs \in Seq(R) /\ requests'[d] = q \o xs
  <2>1. RequestsFor(Submitted) \subseteq R /\ x \in R
    BY <1>4
  <2> HIDE DEF R, x
  <2>2. q \in Seq(R)
    BY <1>3, <2>1, WidenSequence
  <2> QED BY <1>2, <2>1, <2>2
<1>10. Known(d) \subseteq Submitted
  BY KnownAreSubmitted
<1>11. \A m \in Submitted : subs'[m] = subs[m]
  <2>1. [Next]_vars OBVIOUS
  <2> QED BY <1>1, <2>1, SubmissionsStay
<1> HIDE DEF n, x, xs, R
<1>12. Backed(xs, Known(d))
  BY <1>4, <1>7 DEF Backed, Claims
<1>13. \A i \in DOMAIN xs : RequestIsBacked(xs[i], Known(d) \cup RatedBefore(xs, i), Known(d), newCount')
  BY <1>4, <1>5, <1>7, <1>10 DEF RequestIsBacked, IsGet
<1>14. Known(d) = Known(d) \cup Rated(xs) /\ Rated(xs) = {}
  BY <1>7, <1>8
<1>15. /\ pend'[d] = pend[d] /\ sent'[d] = sent[d] /\ view'[d] = view[d] /\ server' = server
       /\ asked'[d] = asked[d] /\ status'[d] = "running" /\ status[d] = "running"
       /\ Elements(events'[d]) \subseteq Elements(events[d])
       /\ \A m \in Subs : newCount'[m] = newCount[m]
  BY <1>2
<1> QED BY <1>1, <1>6, <1>9, <1>10, <1>11, <1>12, <1>13, <1>14, <1>15, IssueKeepsBacked DEF q

\* A callback or an upload that issues one write which is of no rating.
LEMMA OneWriteKeepsBacked ==
  ASSUME NEW d \in Devices, BackedHere(d), Next, NEW p \in Paths, NEW v \in Value,
         p \notin {<<"rating", n>> : n \in Subs}, requests'[d] = requests[d] \o <<Put(p, v)>>,
         UNCHANGED <<server, view, asked, pend, sent, status>>, status[d] = "running",
         Elements(events'[d]) \subseteq Elements(events[d]),
         Claims(Put(p, v)) => Claimed(Put(p, v)) <= Bound(Known(d)),
         \A n \in Subs : newCount'[n] = newCount[n] \/ newCount'[n] <= Bound(Known(d))
  PROVE  DeviceIsBacked(d)'
<1> USE DEF BackedHere
<1> DEFINE x == Put(p, v)
           xs == <<x>>
           R == RequestsFor(Submitted)
<1>1. TypeOK
  BY DEF OwnInv
<1>2. x.kind = "put" /\ x.path = p /\ x \in R
  BY PutType DEF Put
<1>3. RatedBy(x) = {}
  BY <1>2 DEF RatedBy, IsPut
<1>4. DOMAIN xs = {1} /\ xs[1] = x /\ Elements(xs) = {x} /\ Rated(xs) = RatedBy(x)
      /\ RatedBefore(xs, 1) = {}
  BY OneRequest
<1>5. xs \in Seq(R) /\ NumbersIn(R) /\ requests[d] \in Seq(R)
  BY <1>1, <1>2, ClaimsAreNumbers DEF TypeOK
<1>6. Known(d) \subseteq Submitted
  BY KnownAreSubmitted
<1>7. \A m \in Submitted : subs'[m] = subs[m]
  <2>1. [Next]_vars OBVIOUS
  <2> QED BY <1>1, <2>1, SubmissionsStay
<1> HIDE DEF x, xs, R
<1>8. Backed(xs, Known(d))
  <2>1. Known(d) \cup {} = Known(d) OBVIOUS
  <2> QED BY <1>4, <2>1 DEF Backed, x
<1>9. \A i \in DOMAIN xs : RequestIsBacked(xs[i], Known(d) \cup RatedBefore(xs, i), Known(d), newCount')
  BY <1>2, <1>4 DEF RequestIsBacked, IsGet
<1>10. Known(d) = Known(d) \cup Rated(xs) /\ Rated(xs) = {}
  BY <1>3, <1>4
<1>11. requests'[d] = requests[d] \o xs
  BY DEF xs, x
<1>12. /\ pend'[d] = pend[d] /\ sent'[d] = sent[d] /\ view'[d] = view[d] /\ server' = server
       /\ asked'[d] = asked[d] /\ status'[d] = "running"
  OBVIOUS
<1> QED BY <1>1, <1>5, <1>6, <1>7, <1>8, <1>9, <1>10, <1>11, <1>12, IssueKeepsBacked

\* The answers to the reads of the totals.
LEMMA ValueKeepsBacked ==
  ASSUME NEW d \in Devices, BackedHere(d), Next,
         CountArrived(d) \/ TotalArrived(d) \/ AverageArrived(d)
  PROVE  DeviceIsBacked(d)'
<1> USE DEF BackedHere
<1> DEFINE e == Head(events[d])
           m == e.sub
           K == Known(d)
           E == EventsFor(Submitted, Value \cup {Absent})
<1>1. TypeOK
  BY DEF OwnInv
<1>2. /\ events[d] # <<>> /\ events' = [events EXCEPT ![d] = Tail(@)] /\ status[d] = "running"
      /\ UNCHANGED <<server, view, asked, pend, sent, status>> /\ e.kind = "value"
  BY DEF CountArrived, TotalArrived, AverageArrived, ValueArrived, Callback, faults
<1>3. Elements(events'[d]) \subseteq Elements(events[d]) /\ e \in Elements(events[d])
  <2>1. events[d] \in Seq(E) /\ events'[d] = Tail(events[d])
    BY <1>1, <1>2 DEF TypeOK
  <2> HIDE DEF E
  <2> QED BY <1>2, <2>1, ElementsFacts
<1>4. m \in Subs /\ newCount[m] \in Nat /\ (IsAnswer(e, Count) => e.value.num \in Nat)
  BY <1>1, <1>3, BackedTypes
<1>5. AnswerIsBacked(e, K, newCount)
  BY <1>3 DEF DeviceIsBacked, ReadsAreBacked
<1>6. K \in SUBSET Subs
  BY <1>1, BackedTypes
<1>7. /\ TotalPaths \subseteq Paths /\ \A p \in TotalPaths : p \notin {<<"rating", n>> : n \in Subs}
      /\ Count \in TotalPaths /\ TotalRatings \in TotalPaths /\ AverageRating \in TotalPaths
      /\ Count # TotalRatings /\ Count # AverageRating /\ TotalRatings # AverageRating
  BY TotalPathsFact DEF TotalPaths, Count, TotalRatings, AverageRating
<1>8. CASE CountArrived(d)
  <2> DEFINE k == e.value.num + 1
             v == Whole(k)
  <2>1. /\ requests'[d] = requests[d] \o <<Put(Count, v)>>
        /\ newCount' = [newCount EXCEPT ![m] = k] /\ e.path = Count
    BY <1>1, <1>8 DEF CountArrived, ValueArrived, Issue, TypeOK
  <2>2. IsAnswer(e, Count)
    BY <1>2, <2>1 DEF IsAnswer
  <2>3. k \in Nat /\ k <= Bound(K)
    <3> DEFINE a == e.value.num
               b == Bound(K \ {m})
               c == Bound(K)
    <3>1. a \in Nat /\ a <= b /\ m \in K
      BY <1>2, <1>4, <1>5, <2>2 DEF AnswerIsBacked
    <3>2. b \in Nat /\ b + 1 = c
      BY <1>6, <3>1, BoundFacts
    <3> HIDE DEF a, b, c
    <3>3. a + 1 \in Nat /\ a + 1 <= c
      BY <3>1, <3>2
    <3> QED BY <3>3 DEF a, c
  <2>4. v \in Value /\ Claimed(Put(Count, v)) = k
    <3>1. Put(Count, v).path = Count /\ Put(Count, v).value = v
      BY DEF Put
    <3> QED BY <2>3, <3>1, WholeIsValue DEF Claimed, Whole
  <2> HIDE DEF v, k, e, E
  <2>5. \A n \in Subs : newCount'[n] = newCount[n] \/ newCount'[n] <= Bound(K)
    <3>1. newCount \in [Subs -> Nat] BY <1>1 DEF TypeOK
    <3> QED BY <1>4, <2>1, <2>3, <3>1
  <2>6. Claimed(Put(Count, v)) <= Bound(K)
    BY <2>3, <2>4
  <2> HIDE DEF m, K
  <2> QED BY <1>2, <1>3, <1>7, <2>1, <2>4, <2>5, <2>6, OneWriteKeepsBacked DEF K
<1>9. CASE TotalArrived(d)
  <2> DEFINE v == Whole(e.value.num + subs[e.sub].rating)
  <2>1. /\ requests'[d] = requests[d] \o <<Put(TotalRatings, v)>> /\ newCount' = newCount
        /\ ValueArrived(d, TotalRatings)
    BY <1>1, <1>9 DEF TotalArrived, ValueArrived, Issue, TypeOK
  <2>2. v \in Value
    <3>1. e.value.num \in Nat /\ subs[e.sub].rating \in Nat
      BY <1>1, <2>1, ValueEventFacts
    <3> HIDE DEF e
    <3>2. e.value.num + subs[e.sub].rating \in Nat BY <3>1
    <3> QED BY <3>2, WholeIsValue
  <2>3. ~Claims(Put(TotalRatings, v))
    <3>1. Put(TotalRatings, v).path = TotalRatings BY DEF Put
    <3> QED BY <1>7, <3>1 DEF Claims
  <2> HIDE DEF v, m, e, K, E
  <2> QED BY <1>2, <1>3, <1>7, <2>1, <2>2, <2>3, OneWriteKeepsBacked
<1>10. CASE AverageArrived(d)
  <2> DEFINE v == NextAverage(d)
  <2>1. /\ requests'[d] = requests[d] \o <<Put(AverageRating, v)>> /\ newCount' = newCount
        /\ e.path = AverageRating
    BY <1>1, <1>10 DEF AverageArrived, ValueArrived, NextAverage, Issue, TypeOK
  <2>2. newCount[m] <= Bound(K)
    BY <1>2, <1>5, <2>1 DEF AnswerIsBacked, IsAnswer
  <2>3. v \in Value /\ v.den = newCount[m]
    BY <1>1, <1>4 DEF NextAverage, Value, TypeOK
  <2>4. Claimed(Put(AverageRating, v)) = newCount[m]
    <3>1. Put(AverageRating, v).path = AverageRating /\ Put(AverageRating, v).value = v
      BY DEF Put
    <3> QED BY <1>7, <2>3, <3>1 DEF Claimed
  <2>5. Claimed(Put(AverageRating, v)) <= Bound(K)
    BY <2>2, <2>4
  <2> HIDE DEF v, m, e, K, E
  <2> QED BY <1>2, <1>3, <1>7, <2>1, <2>3, <2>5, OneWriteKeepsBacked DEF K
<1> QED BY <1>8, <1>9, <1>10

\* The end of an upload.
LEMMA UploadKeepsBacked ==
  ASSUME NEW d \in Devices, BackedHere(d), Next, NEW n \in Subs, NEW ok, UploadFinished(d, n, ok)
  PROVE  DeviceIsBacked(d)'
<1> USE DEF BackedHere
<1> DEFINE key == uniqueReviewID[subs[n].form]
           p == <<"imageURL", key>>
<1>1. TypeOK /\ UploadsHaveKey
  BY DEF OwnInv
<1>2. /\ UNCHANGED <<server, view, asked, pend, sent, events, newCount, status, subs>>
      /\ status[d] = "running"
      /\ requests' = requests \/ Issue(d, <<Put(p, Whole(n))>>)
  BY DEF UploadFinished, faults
<1>3. n \in Submitted /\ upload[n] = "running" /\ key # 0
  BY <1>1 DEF UploadFinished, UploadsHaveKey
<1>4. key \in Subs
  <2>1. subs[n] \in Submissions
    BY <1>1, <1>3 DEF TypeOK, Submitted
  <2>2. subs[n].form \in Subs
    BY <2>1 DEF Submissions
  <2> QED BY <1>1, <1>3, <2>2 DEF TypeOK
<1>5. p \in Paths /\ Whole(n) \in Value /\ p \notin {<<"rating", m>> : m \in Subs}
  BY <1>4, SubsFacts, WholeIsValue DEF ReviewPaths, Paths
<1>6. CASE requests' = requests
  BY <1>2, <1>6
  DEF DeviceIsBacked, DownIsEmpty, WritesAreBacked, ReadsAreBacked, Known, Shown, Stored
<1>7. CASE Issue(d, <<Put(p, Whole(n))>>)
  <2>1. requests'[d] = requests[d] \o <<Put(p, Whole(n))>>
    BY <1>1, <1>7 DEF Issue, TypeOK
  <2>2. ~Claims(Put(p, Whole(n)))
    <3>1. Put(p, Whole(n)).path = p BY DEF Put
    <3> QED BY <3>1 DEF Claims, Count, AverageRating
  <2> DEFINE v == Whole(n)
  <2> HIDE DEF p, v
  <2>3. Elements(events'[d]) \subseteq Elements(events[d])
    BY <1>2
  <2> QED BY <1>2, <1>5, <2>1, <2>2, <2>3, OneWriteKeepsBacked DEF v
<1> QED BY <1>2, <1>6, <1>7

------------------------
\* The writes of a review are of no total, and its rating is among them.
LEMMA ReviewIsRated ==
  ASSUME TypeOK, NEW n \in Submitted, RatingIsStored
  PROVE  /\ Rated(ReviewWrites(n)) = {n}
         /\ \A x \in Elements(ReviewWrites(n)) : x.kind = "put" /\ ~Claims(x)
<1> DEFINE q == ReviewWrites(n)
<1>1. DOMAIN q = DOMAIN ReviewFields
  BY DEF ReviewWrites
<1>2. \A i \in DOMAIN ReviewFields : q[i].kind = "put" /\ q[i].path = <<ReviewFields[i], n>>
  BY DEF ReviewWrites, Put
<1>3. \A i \in DOMAIN ReviewFields : ReviewFields[i] \in {"date", "review", "rating"}
  BY FieldsAssumption
<1>4. n \in Subs
  BY SubmittedFact
<1> HIDE DEF q
<1>5. ASSUME NEW x \in Elements(q)
      PROVE  x.kind = "put" /\ ~Claims(x) /\ RatedBy(x) \subseteq {n}
  <2> PICK i \in DOMAIN ReviewFields : x = q[i]
    BY <1>1 DEF Elements
  <2>1. x.kind = "put" /\ x.path = <<ReviewFields[i], n>>
    BY <1>2
  <2>2. ReviewFields[i] # "count" /\ ReviewFields[i] # "averageRating"
    BY <1>3
  <2>3. ~Claims(x)
    BY <2>1, <2>2 DEF Claims, Count, AverageRating
  <2>4. RatedBy(x) \subseteq {n}
    BY <2>1 DEF RatedBy, IsPut
  <2> QED BY <2>1, <2>3, <2>4
<1>6. \E x \in Elements(q) : n \in RatedBy(x)
  <2> PICK i \in DOMAIN ReviewFields : ReviewFields[i] = "rating"
    BY DEF RatingIsStored
  <2>1. q[i] \in Elements(q) /\ n \in RatedBy(q[i])
    BY <1>1, <1>2, <1>4 DEF Elements, RatedBy, IsPut
  <2> QED BY <2>1
<1>7. Rated(q) = {n}
  BY <1>4, <1>5, <1>6 DEF Rated
<1> QED BY <1>5, <1>7 DEF q

\* The reads of the totals write nothing.
LEMMA ReadsAreNotRated ==
  ASSUME NEW n
  PROVE  /\ DOMAIN TotalReads(n) = 1 .. 3 /\ Rated(TotalReads(n)) = {}
         /\ \A k : RatedBefore(TotalReads(n), k) = {}
         /\ \A k \in 1 .. 3 : /\ TotalReads(n)[k].kind = "get" /\ TotalReads(n)[k].sub = n
                              /\ TotalReads(n)[k].path \in TotalPaths
<1> DEFINE q == TotalReads(n)
<1>1. /\ DOMAIN q = 1 .. 3 /\ q[1] = Get(n, Count) /\ q[2] = Get(n, TotalRatings)
      /\ q[3] = Get(n, AverageRating)
  BY DEF TotalReads
<1>2. \A p : Get(n, p).kind = "get" /\ Get(n, p).sub = n /\ Get(n, p).path = p
  BY DEF Get
<1>3. \A k \in 1 .. 3 : k = 1 \/ k = 2 \/ k = 3 OBVIOUS
<1> HIDE DEF q
<1>4. \A k \in 1 .. 3 : q[k].kind = "get" /\ q[k].sub = n /\ q[k].path \in TotalPaths
  BY <1>1, <1>2, <1>3, TotalPathsFact
<1>5. \A x \in Elements(q) : RatedBy(x) = {}
  <2>1. \A x \in Elements(q) : x.kind # "put"
    BY <1>1, <1>4 DEF Elements
  <2> QED BY <2>1 DEF RatedBy, IsPut
<1>6. Rated(q) = {} /\ \A k : RatedBefore(q, k) = {}
  <2>1. Rated(q) = {}
    BY <1>5 DEF Rated
  <2> QED BY <2>1, RatedSubs
<1> QED BY <1>1, <1>4, <1>6 DEF q

\* The answer that the item exists: the review is issued behind the reads of the totals.
LEMMA ExistsKeepsBacked ==
  ASSUME NEW d \in Devices, BackedHere(d), Next, RatingIsStored, ItemExists(d)
  PROVE  DeviceIsBacked(d)'
<1> USE DEF BackedHere
<1> DEFINE e == Head(events[d])
           n == e.sub
           gets == TotalReads(n)
           puts == ReviewWrites(n)
           xs == gets \o puts
           R == RequestsFor(Submitted)
           E == EventsFor(Submitted, Value \cup {Absent})
           K == Known(d) \cup Rated(xs)
<1>1. TypeOK
  BY DEF OwnInv
<1>2. /\ events[d] # <<>> /\ events'[d] = Tail(events[d]) /\ events[d] \in Seq(E)
      /\ status[d] = "running" /\ e.kind = "item"
      /\ UNCHANGED <<server, view, asked, pend, sent, status, subs>>
      /\ requests'[d] = requests[d] \o xs
      /\ newCount' = [newCount EXCEPT ![n] = 0]
  BY <1>1 DEF ItemExists, Callback, FinishSubmit, Issue, faults, TypeOK
<1> HIDE DEF E
<1>3. Elements(events[d]) = Elements(Tail(events[d])) \cup {e}
  BY <1>2, TailElements
<1>4. n \in Submitted /\ subs[n].dev = d /\ n \in Subs
  BY <1>1, <1>3, ReadsFacts, SubmittedFact
<1>5. AnswerIsBacked(e, Known(d), newCount)
  BY <1>3 DEF DeviceIsBacked, ReadsAreBacked
<1>6. n \notin Known(d)
  BY <1>2, <1>5 DEF AnswerIsBacked
<1>7. /\ DOMAIN gets = 1 .. 3 /\ Rated(gets) = {} /\ \A k : RatedBefore(gets, k) = {}
      /\ \A k \in 1 .. 3 : gets[k].kind = "get" /\ gets[k].sub = n /\ gets[k].path \in TotalPaths
  BY ReadsAreNotRated
<1>8. /\ gets \in Seq(R) /\ puts \in Seq(R) /\ Rated(puts) = {n}
      /\ \A x \in Elements(puts) : x.kind = "put" /\ ~Claims(x)
  BY <1>1, <1>4, TotalReadsType, ReviewWritesFacts, ReviewIsRated
<1>9. NumbersIn(R) /\ requests[d] \in Seq(R)
  BY <1>1, ClaimsAreNumbers DEF TypeOK
<1> HIDE DEF gets, puts, R
<1>10. /\ Rated(xs) = Rated(gets) \cup Rated(puts)
       /\ \A k \in DOMAIN gets : xs[k] = gets[k] /\ RatedBefore(xs, k) = RatedBefore(gets, k)
       /\ \A k \in DOMAIN xs : k \notin DOMAIN gets =>
            k - Len(gets) \in DOMAIN puts /\ xs[k] = puts[k - Len(gets)]
  BY <1>8, RatedConcat
<1>11. xs \in Seq(R)
  BY <1>8
<1> HIDE DEF xs
<1>12. Rated(xs) = {n} /\ K \in SUBSET Subs /\ n \in K
  <2>1. Known(d) \subseteq Subs
    BY <1>1, BackedTypes
  <2> QED BY <1>4, <1>7, <1>8, <1>10, <2>1
<1>13. ASSUME NEW k \in DOMAIN xs
       PROVE  \/ k \in 1 .. 3 /\ xs[k].kind = "get" /\ xs[k].sub = n /\ RatedBefore(xs, k) = {}
              \/ xs[k].kind = "put" /\ ~Claims(xs[k])
  <2>1. CASE k \in DOMAIN gets
    BY <1>7, <1>10, <2>1
  <2>2. CASE k \notin DOMAIN gets
    <3>1. xs[k] \in Elements(puts) BY <1>10, <2>2 DEF Elements
    <3> QED BY <1>8, <3>1
  <2> QED BY <2>1, <2>2
<1>14. Backed(xs, Known(d))
  BY <1>13 DEF Backed, Claims
<1>15. newCount'[n] = 0 /\ (\A m \in Subs : newCount'[m] = newCount[m] \/ newCount'[m] <= Bound(K))
       /\ newCount'[n] <= Bound(K)
  <2>1. newCount \in [Subs -> Nat]
    BY <1>1 DEF TypeOK
  <2>2. Bound(K) \in Nat
    BY <1>12, BoundFacts
  <2> HIDE DEF n, K
  <2>3. 0 <= Bound(K)
    BY <2>2
  <2> QED BY <1>2, <1>4, <2>1, <2>3
<1>16. \A k \in DOMAIN xs : RequestIsBacked(xs[k], Known(d) \cup RatedBefore(xs, k), K, newCount')
  BY <1>6, <1>12, <1>13, <1>15 DEF RequestIsBacked, IsGet
<1>17. Known(d) \subseteq Submitted
  BY KnownAreSubmitted
<1>18. /\ \A y \in Elements(events'[d]) : y.kind = "item" => y.sub # n
       /\ \A y \in Elements(asked[d]) : y.sub # n
       /\ \A y \in Elements(requests[d]) : y.kind = "ask" => y.sub # n
  <2>1. InOrder(events[d], asked[d], requests[d])
    BY DEF LineInv
  <2>2. \A y \in Elements(Tail(events[d])) : y.kind = "item" => n < y.sub
    BY <1>2, <2>1, RisingTail DEF InOrder, Question
  <2>3. /\ \A y \in Elements(asked[d]) : n < y.sub
        /\ \A y \in Elements(requests[d]) : y.kind = "ask" => n < y.sub
    BY <1>3, <2>1 DEF InOrder
  <2>4. n \in Nat
    BY <1>4, SubsFacts
  <2> HIDE DEF n
  <2>5. \A y : n < y.sub => y.sub # n
    BY <2>4
  <2> QED BY <1>2, <2>2, <2>3, <2>5
<1> HIDE DEF n, K, e
<1>19. /\ pend'[d] = pend[d] /\ sent'[d] = sent[d] /\ view'[d] = view[d] /\ server' = server
       /\ asked'[d] = asked[d] /\ status'[d] = "running"
       /\ Elements(events'[d]) \subseteq Elements(events[d])
       /\ \A m \in Rated(xs) : subs'[m].dev = d
       /\ \A m \in Known(d) : m \in Submitted => subs'[m] = subs[m]
       /\ Rated(xs) \subseteq Subs /\ K = Known(d) \cup Rated(xs)
  BY <1>2, <1>3, <1>4, <1>12 DEF K
<1>20. /\ \A y \in Elements(events'[d]) : y.kind = "item" => y.sub \notin Rated(xs)
       /\ \A y \in Elements(asked[d]) : y.sub \notin Rated(xs)
       /\ \A y \in Elements(requests[d]) : y.kind = "ask" => y.sub \notin Rated(xs)
  BY <1>12, <1>18
<1> QED BY <1>1, <1>2, <1>9, <1>11, <1>14, <1>15, <1>16, <1>17, <1>19, <1>20, IssueKeepsBacked

\* Nothing else runs on the main queue: an item with reviews is never taken to be missing.
LEMMA MainQueueKeepsBacked ==
  ASSUME NEW d \in Devices, BackedHere(d), Next, RatingIsStored, MainQueue(d)
  PROVE  DeviceIsBacked(d)'
<1> USE DEF BackedHere
<1>1. TypeOK
  BY DEF OwnInv
<1>2. ~ItemMissing(d)
  <2> SUFFICES ASSUME ItemMissing(d) PROVE FALSE OBVIOUS
  <2> DEFINE e == Head(events[d])
             E == EventsFor(Submitted, Value \cup {Absent})
  <2>1. events[d] \in Seq(E) /\ events[d] # <<>> /\ e.kind = "item" /\ ~e.exists
    BY <1>1 DEF ItemMissing, Callback, TypeOK
  <2> HIDE DEF E
  <2>2. e \in Elements(events[d])
    BY <2>1, ElementsFacts
  <2>3. AnswerIsBacked(e, Known(d), newCount)
    BY <2>2 DEF DeviceIsBacked, ReadsAreBacked
  <2> QED BY <2>1, <2>3 DEF AnswerIsBacked
<1>3. ~CastFails(d)
  BY <1>1, NoCastFails
<1> QED BY <1>2, <1>3, ExistsKeepsBacked, ValueKeepsBacked DEF MainQueue

------------------------
\* A read that is taken up: another in line at the server, or answered from the view.
LEMMA ReadKeepsBacked ==
  ASSUME NEW d \in Devices, BackedHere(d), AskServer(d) \/ ServeRead(d)
  PROVE  DeviceIsBacked(d)'
<1> USE DEF BackedHere
<1> DEFINE q == requests[d]
           w == Head(q)
           R == RequestsFor(Submitted)
           S == Shown(d)
           K == Known(d)
<1>1. TypeOK
  BY DEF OwnInv
<1>2. /\ q # <<>> /\ requests'[d] = Tail(q) /\ q \in Seq(R)
      /\ UNCHANGED <<server, view, pend, sent, newCount, subs, status>> /\ w.kind \in {"ask", "get"}
  BY <1>1 DEF AskServer, ServeRead, TakeUp, form_vars, faults, TypeOK
<1>3. RatedBy(w) = {}
  BY <1>2 DEF RatedBy, IsPut
<1>4. /\ RequestIsBacked(w, S, K, newCount)
      /\ \A k \in DOMAIN Tail(q) :
           RequestIsBacked(Tail(q)[k], (S \cup RatedBy(w)) \cup RatedBefore(Tail(q), k), K, newCount)
  <2>1. \A k \in DOMAIN q : RequestIsBacked(q[k], S \cup RatedBefore(q, k), K, newCount)
    BY DEF DeviceIsBacked, ReadsAreBacked
  <2> HIDE DEF R, q, S, K
  <2> QED BY <1>2, <2>1, TakeKeepsRequests
<1>5. Backed(Tail(q), S \cup RatedBy(w))
  <2>1. Backed(q, S)
    BY DEF DeviceIsBacked, WritesAreBacked
  <2> HIDE DEF R, q, S
  <2> QED BY <1>2, <2>1, BackedTail
<1>6. Rated(q) = RatedBy(w) \cup Rated(Tail(q))
  <2> HIDE DEF R, q
  <2> QED BY <1>2, RatedTail
<1>7. S \cup RatedBy(w) = S /\ Rated(Tail(q)) = Rated(q)
  BY <1>3, <1>6
<1>8. Stored' = Stored /\ Shown(d)' = S /\ Known(d)' = K
  BY <1>2, <1>7 DEF Stored, Shown, Known
<1>9. status[d] = "running"
  BY <1>2 DEF DeviceIsBacked, DownIsEmpty
<1>10. DownIsEmpty(d)' /\ WritesAreBacked(d)'
  BY <1>2, <1>5, <1>7, <1>8, <1>9 DEF DeviceIsBacked, DownIsEmpty, WritesAreBacked
<1>11. ASSUME \A x \in Elements(events'[d]) : AnswerIsBacked(x, K, newCount),
              \A x \in Elements(asked'[d]) : x.sub \notin K
       PROVE  DeviceIsBacked(d)'
  BY <1>2, <1>4, <1>7, <1>8, <1>10, <1>11 DEF DeviceIsBacked, ReadsAreBacked
<1>12. /\ \A x \in Elements(events[d]) : AnswerIsBacked(x, K, newCount)
       /\ \A x \in Elements(asked[d]) : x.sub \notin K
  BY DEF DeviceIsBacked, ReadsAreBacked
<1>13. CASE AskServer(d)
  <2> DEFINE a == asked[d]
             A == AskedFor(Submitted)
             x == [sub |-> w.sub, behind |-> Len(pend[d])]
             B == A \cup {x}
  <2>1. asked'[d] = Append(a, x) /\ events' = events /\ w.kind = "ask" /\ x.sub = w.sub
    BY <1>1, <1>13 DEF AskServer, TakeUp, TypeOK
  <2>2. w.sub \notin K
    BY <1>4, <2>1 DEF RequestIsBacked
  <2>3. a \in Seq(B) /\ x \in B
    <3>1. a \in Seq(A) BY <1>1 DEF TypeOK
    <3> QED BY <3>1, SeqDef
  <2> HIDE DEF x, B, A
  <2>4. Elements(Append(a, x)) = Elements(a) \cup {x}
    BY <2>3, ElementsFacts
  <2> QED BY <1>11, <1>12, <2>1, <2>2, <2>4
<1>14. CASE ServeRead(d)
  <2> DEFINE e == events[d]
             E == EventsFor(Submitted, Value \cup {Absent})
             x == ValueEvent(w.sub, w.path, view[d][w.path])
             F == E \cup {x}
             n == w.sub
  <2>1. events'[d] = Append(e, x) /\ asked' = asked /\ w.kind = "get"
    BY <1>1, <1>14 DEF ServeRead, TakeUp, TypeOK
  <2>2. x.kind = "value" /\ x.sub = n /\ x.path = w.path /\ x.value = view[d][w.path]
    BY DEF ValueEvent
  <2>3. Elements(Append(e, x)) = Elements(e) \cup {x}
    <3>1. E \subseteq F /\ x \in F /\ e \in Seq(E)
      BY <1>1 DEF TypeOK
    <3> HIDE DEF E, F, e, x
    <3>2. e \in Seq(F) BY <3>1, WidenSequence
    <3> QED BY <3>1, <3>2, ElementsFacts
  <2> HIDE DEF x, F, E
  <2>4. n \in K /\ (IsAnswer(x, AverageRating) => newCount[n] <= Bound(K))
    BY <1>4, <2>1, <2>2 DEF RequestIsBacked, IsGet, IsAnswer
  <2>5. IsAnswer(x, Count) => x.value.num <= Bound(K \ {n})
    <3> SUFFICES ASSUME IsAnswer(x, Count) PROVE x.value.num <= Bound(K \ {n}) OBVIOUS
    <3>1. w.path = Count /\ n \notin S
      BY <1>4, <2>1, <2>2 DEF RequestIsBacked, IsGet, IsAnswer
    <3> DEFINE a == view[d][Count].num
               b == Bound(S)
               C == K \ {n}
               c == Bound(C)
    <3>2. view[d] \in Node /\ view[d][Count] # Absent
      BY <1>1, TotalPathsFact DEF TypeOK, TotalsPresent
    <3>3. a \in Nat BY <3>2, TotalPathsFact DEF Node, Value
    <3>4. a <= b BY <1>9, <3>2 DEF DeviceIsBacked, WritesAreBacked, NodeIsBacked
    <3>5. S \subseteq K /\ K \subseteq Subs
      BY <1>1, BackedTypes
    <3>6. C \in SUBSET Subs /\ S \in SUBSET C
      BY <3>1, <3>5
    <3> HIDE DEF S, C
    <3>7. b \in Nat /\ c \in Nat /\ b <= c
      BY <3>6, BoundFacts
    <3> HIDE DEF a, b, c
    <3>8. a <= c BY <3>3, <3>4, <3>7
    <3> QED BY <2>2, <3>1, <3>8 DEF a, c, C
  <2>6. AnswerIsBacked(x, K, newCount)
    BY <2>2, <2>4, <2>5 DEF AnswerIsBacked
  <2> QED BY <1>11, <1>12, <2>1, <2>3, <2>6
<1> QED BY <1>13, <1>14

\* A write that is taken up is shown at once, and sent behind those before it.
LEMMA WriteKeepsBacked ==
  ASSUME NEW d \in Devices, BackedHere(d), IssueWrite(d)
  PROVE  DeviceIsBacked(d)'
<1> USE DEF BackedHere
<1> DEFINE q == requests[d]
           w == Head(q)
           R == RequestsFor(Submitted)
           S == Shown(d)
           K == Known(d)
           p == pend[d]
           T == S \cup RatedBy(w)
<1>1. TypeOK
  BY DEF OwnInv
<1>2. /\ q # <<>> /\ requests'[d] = Tail(q) /\ q \in Seq(R) /\ p \in Seq(Puts)
      /\ UNCHANGED <<server, sent, newCount, subs, status, asked, events>> /\ w.kind = "put"
      /\ pend'[d] = Append(p, w)
      /\ view'[d] = [view[d] EXCEPT ![w.path] = w.value]
  BY <1>1 DEF IssueWrite, TakeUp, form_vars, faults, TypeOK
<1>3. w \in Puts
  <2>1. w \in R
    <3> HIDE DEF R, q
    <3> QED BY <1>2, ElementsFacts
  <2> QED BY <1>2, <2>1 DEF RequestsFor
<1>4. \A k \in DOMAIN Tail(q) : RequestIsBacked(Tail(q)[k], T \cup RatedBefore(Tail(q), k), K, newCount)
  <2>1. \A k \in DOMAIN q : RequestIsBacked(q[k], S \cup RatedBefore(q, k), K, newCount)
    BY DEF DeviceIsBacked, ReadsAreBacked
  <2> HIDE DEF R, q, S, K
  <2> QED BY <1>2, <2>1, TakeKeepsRequests
<1>5. Backed(Tail(q), T) /\ (Claims(w) => Claimed(w) <= Bound(S))
  <2>1. Backed(q, S)
    BY DEF DeviceIsBacked, WritesAreBacked
  <2> HIDE DEF R, q, S
  <2> QED BY <1>2, <2>1, BackedTail
<1>6. Rated(q) = RatedBy(w) \cup Rated(Tail(q))
  <2> HIDE DEF R, q
  <2> QED BY <1>2, RatedTail
<1>7. /\ DOMAIN <<w>> = {1} /\ <<w>>[1] = w /\ Rated(<<w>>) = RatedBy(w)
      /\ RatedBefore(<<w>>, 1) = {} /\ RatedBy(w) \subseteq Subs
  BY OneRequest
<1>8. p \o <<w>> = Append(p, w) /\ <<w>> \in Seq(Puts)
  <2> HIDE DEF p, w
  <2> QED BY <1>2, <1>3
<1>9. Rated(Append(p, w)) = Rated(p) \cup RatedBy(w)
  <2>1. Rated(p \o <<w>>) = Rated(p) \cup Rated(<<w>>)
    <3> HIDE DEF p, w
    <3> QED BY <1>2, <1>8, RatedConcat
  <2> QED BY <1>7, <1>8, <2>1
<1>10. Stored' = Stored /\ Shown(d)' = T /\ Known(d)' = K
  BY <1>2, <1>6, <1>9 DEF Stored, Shown, Known
<1>11. Backed(Append(p, w), Stored)
  <2>1. Backed(p, Stored)
    BY DEF DeviceIsBacked, WritesAreBacked
  <2>2. (Stored \cup Rated(p)) \cup {} = S
    BY DEF Shown
  <2>3. Backed(<<w>>, Stored \cup Rated(p))
    BY <1>5, <1>7, <2>2 DEF Backed
  <2> HIDE DEF p, w
  <2>4. Backed(p \o <<w>>, Stored)
    BY <1>2, <1>8, <2>1, <2>3, BackedConcat
  <2> QED BY <1>8, <2>4
<1>12. RatedBefore(Append(p, w), sent[d] + 1) \subseteq Stored
  <2>1. RatedBefore(p, sent[d] + 1) \subseteq Stored
    BY DEF DeviceIsBacked, WritesAreBacked
  <2>2. Len(p) \in Nat /\ sent[d] \in 0 .. Len(p) /\ DOMAIN p = 1..Len(p)
    BY <1>1, UnackedFacts
  <2> HIDE DEF p, w
  <2>3. ASSUME NEW i \in DOMAIN Append(p, w), i < sent[d] + 1
        PROVE  i \in DOMAIN p /\ Append(p, w)[i] = p[i]
    BY <1>2, <1>3, <2>2, <2>3
  <2>4. RatedBefore(Append(p, w), sent[d] + 1) \subseteq RatedBefore(p, sent[d] + 1)
    BY <2>3 DEF RatedBefore
  <2> QED BY <2>1, <2>4
<1>13. status[d] = "running"
  BY <1>2 DEF DeviceIsBacked, DownIsEmpty
<1>14. S \subseteq Subs /\ T \in SUBSET Subs /\ S \in SUBSET T /\ view[d] \in Node
  <2>1. S \subseteq Subs
    BY <1>1, BackedTypes
  <2> QED BY <1>1, <1>7, <2>1, BackedTypes
<1>15. NodeIsBacked(view'[d], T)
  <2> DEFINE v == view[d]
             u == view'[d]
  <2>1. NodeIsBacked(v, S)
    BY <1>13 DEF DeviceIsBacked, WritesAreBacked
  <2> HIDE DEF T, S
  <2>2. NodeIsBacked(v, T)
    BY <1>14, <2>1, NodeStays
  <2>3. w.path \in Paths /\ DOMAIN v = Paths
    BY <1>3, <1>14 DEF Puts, Node
  <2>4. \A r \in Paths : u[r] = IF r = w.path THEN w.value ELSE v[r]
    BY <1>2, <2>3
  <2>5. Count \in Paths /\ AverageRating \in Paths /\ Count # AverageRating
    BY TotalPathsFact DEF Count, AverageRating
  <2>6. Claims(w) => Claimed(w) <= Bound(T)
    <3> SUFFICES ASSUME Claims(w) PROVE Claimed(w) <= Bound(T) OBVIOUS
    <3> DEFINE a == Claimed(w)
               b == Bound(S)
               c == Bound(T)
    <3>1. a \in Nat BY <1>3, ClaimsAreNumbers DEF NumbersIn
    <3>2. b \in Nat /\ c \in Nat /\ b <= c /\ a <= b
      BY <1>5, <1>14, BoundFacts
    <3> HIDE DEF a, b, c
    <3>3. a <= c BY <3>1, <3>2
    <3> QED BY <3>3 DEF a, c
  <2>7. w.path = Count => w.value.num <= Bound(T)
    BY <1>2, <2>6 DEF Claims, Claimed
  <2>8. w.path = AverageRating => w.value.den <= Bound(T)
    BY <1>2, <2>5, <2>6 DEF Claims, Claimed
  <2> HIDE DEF u, v, w
  <2>9. /\ u[Count] # Absent => u[Count].num <= Bound(T)
        /\ u[AverageRating] # Absent => u[AverageRating].den <= Bound(T)
    BY <2>2, <2>4, <2>5, <2>7, <2>8 DEF NodeIsBacked
  <2> QED BY <2>9 DEF NodeIsBacked, u
<1>16. WritesAreBacked(d)'
  <2>1. \A n \in Rated(Append(p, w)) \cup Rated(Tail(q)) : subs[n].dev = d
    <3>1. \A n \in Rated(p) \cup Rated(q) : subs[n].dev = d
      BY DEF DeviceIsBacked, WritesAreBacked
    <3> QED BY <1>6, <1>9, <3>1
  <2> QED BY <1>2, <1>5, <1>10, <1>11, <1>12, <1>15, <2>1 DEF WritesAreBacked
<1>17. ReadsAreBacked(d)'
  BY <1>2, <1>4, <1>10 DEF DeviceIsBacked, ReadsAreBacked
<1>18. DownIsEmpty(d)'
  BY <1>2, <1>13 DEF DownIsEmpty
<1> QED BY <1>16, <1>17, <1>18 DEF DeviceIsBacked

------------------------
\* The server applies a write: a total is covered by the ratings stored by then.
LEMMA ApplyKeepsBacked ==
  ASSUME NEW d \in Devices, BackedHere(d), ServerApply(d), NodeIsBacked(server, Stored)
  PROVE  /\ DeviceIsBacked(d)' /\ NodeIsBacked(server', Stored')
         /\ Stored \subseteq Stored' /\ \A n \in Stored' \ Stored : subs[n].dev = d
<1> USE DEF BackedHere
<1> DEFINE p == pend[d]
           k == sent[d] + 1
           w == p[k]
           S == Shown(d)
           T == Stored \cup RatedBy(w)
<1>1. TypeOK
  BY DEF OwnInv
<1>2. /\ UNCHANGED <<view, requests, asked, pend, events, subs, newCount, status>>
      /\ server' = [server EXCEPT ![w.path] = w.value] /\ sent'[d] = k
      /\ p \in Seq(Puts) /\ server \in Node
  BY <1>1 DEF ServerApply, form_vars, faults, TypeOK
<1>3. Len(p) \in Nat /\ sent[d] \in 0 .. Len(p) /\ DOMAIN p = 1 .. Len(p) /\ sent[d] < Len(p)
  BY <1>1, UnackedFacts DEF ServerApply
<1>4. k \in DOMAIN p /\ k \in Nat
  <2> HIDE DEF p
  <2> QED BY <1>3
<1>5. w \in Puts
  <2> HIDE DEF k, p
  <2> QED BY <1>2, <1>4
<1>6. w.kind = "put" /\ w.path \in Paths /\ w.value \in Value /\ w.value # Absent
  BY <1>5, AbsentAssumption DEF Puts
<1>7. \A r \in Paths : server'[r] = IF r = w.path THEN w.value ELSE server[r]
  <2> HIDE DEF w
  <2>1. DOMAIN server = Paths
    BY <1>2 DEF Node
  <2> QED BY <1>2, <1>6, <2>1
<1>8. Stored' = T
  <2>1. \A n \in Subs : <<"rating", n>> \in Paths
    BY DEF ReviewPaths, Paths
  <2> HIDE DEF w
  <2> QED BY <1>6, <1>7, <2>1 DEF Stored, RatedBy, IsPut
<1>9. RatedBy(w) \subseteq Rated(p) /\ Rated(p) \subseteq S
  <2>1. w \in Elements(p) /\ RatedBy(w) \subseteq Subs
    BY <1>4 DEF Elements, RatedBy
  <2> HIDE DEF w
  <2> QED BY <2>1 DEF Rated, Shown
<1>10. Shown(d)' = S /\ Known(d)' = Known(d)
  BY <1>2, <1>8, <1>9 DEF Shown, Known
<1>11. Stored \in SUBSET T /\ T \in SUBSET Subs
  BY DEF Stored, RatedBy
<1>12. /\ Backed(p, Stored) /\ RatedBefore(p, k) \subseteq Stored
       /\ \A n \in Rated(p) : subs[n].dev = d
  BY DEF DeviceIsBacked, WritesAreBacked
<1>13. Backed(p, T)
  <2> HIDE DEF T, p
  <2> QED BY <1>2, <1>11, <1>12, BackedMore, ClaimsAreNumbers
<1>14. RatedBefore(p, k + 1) \subseteq T
  <2> HIDE DEF p
  <2>1. \A i \in DOMAIN p : i < k + 1 => i < k \/ i = k
    BY <1>3, <1>4
  <2> HIDE DEF k
  <2> QED BY <1>12, <2>1 DEF RatedBefore
<1>15. DeviceIsBacked(d)'
  <2>1. WritesAreBacked(d)'
    BY <1>2, <1>8, <1>10, <1>13, <1>14 DEF DeviceIsBacked, WritesAreBacked
  <2>2. ReadsAreBacked(d)'
    BY <1>2, <1>10 DEF DeviceIsBacked, ReadsAreBacked
  <2>3. DownIsEmpty(d)'
    BY <1>2 DEF DeviceIsBacked, DownIsEmpty
  <2> QED BY <2>1, <2>2, <2>3 DEF DeviceIsBacked
<1>16. NodeIsBacked(server', T)
  <2>1. NodeIsBacked(server, T)
    <3> HIDE DEF T
    <3> QED BY <1>2, <1>11, NodeStays
  <2>2. Claims(w) => Claimed(w) <= Bound(T)
    <3> SUFFICES ASSUME Claims(w) PROVE Claimed(w) <= Bound(T) OBVIOUS
    <3> DEFINE a == Claimed(w)
               b == Bound(Stored)
               c == Bound(T)
    <3>1. Stored \cup RatedBefore(p, k) = Stored BY <1>12
    <3>2. a <= b BY <1>4, <1>12, <3>1 DEF Backed
    <3>3. a \in Nat BY <1>5, ClaimsAreNumbers DEF NumbersIn
    <3>4. b \in Nat /\ c \in Nat /\ b <= c
      BY <1>11, BoundFacts
    <3> HIDE DEF a, b, c
    <3>5. a <= c BY <3>2, <3>3, <3>4
    <3> QED BY <3>5 DEF a, c
  <2>3. Count \in Paths /\ AverageRating \in Paths /\ Count # AverageRating
    BY TotalPathsFact DEF Count, AverageRating
  <2>4. /\ w.path = Count => w.value.num <= Bound(T)
        /\ w.path = AverageRating => w.value.den <= Bound(T)
    BY <1>6, <2>2, <2>3 DEF Claims, Claimed
  <2> HIDE DEF w, T
  <2> QED BY <1>7, <2>1, <2>3, <2>4 DEF NodeIsBacked
<1>17. \A n \in Stored' \ Stored : subs[n].dev = d
  BY <1>8, <1>9, <1>12
<1> QED BY <1>8, <1>15, <1>16, <1>17

\* The acknowledged writes go; the view keeps to what is stored and what is still on its way.
LEMMA CatchUpKeepsBacked ==
  ASSUME NEW d \in Devices, BackedHere(d), NodeIsBacked(server, Stored), CatchUp(d),
         status[d] = "running",
         \A y \in Elements(asked'[d]) : y.sub \notin Known(d),
         \A y \in Elements(events'[d]) : AnswerIsBacked(y, Known(d), newCount)
  PROVE  DeviceIsBacked(d)'
<1> USE DEF BackedHere
<1> DEFINE p == pend[d]
           u == Unacked(d)
           n == Len(p)
           m == sent[d]
           S == Shown(d)
<1>1. TypeOK
  BY DEF OwnInv
<1>2. /\ UNCHANGED <<server, requests, newCount, subs, status>>
      /\ view'[d] = Refreshed(d) /\ pend'[d] = u /\ sent'[d] = 0
  BY <1>1 DEF CatchUp, form_vars, faults, TypeOK
<1>3. /\ n \in Nat /\ m \in 0 .. n /\ DOMAIN p = 1 .. n /\ DOMAIN u = 1..n - m
      /\ \A i \in 1..n - m : u[i] = p[m + i]
  BY <1>1, UnackedFacts
<1>4. /\ Backed(p, Stored) /\ RatedBefore(p, m + 1) \subseteq Stored
      /\ \A k \in Rated(p) \cup Rated(requests[d]) : subs[k].dev = d
      /\ Backed(requests[d], S) /\ NodeIsBacked(view[d], S)
  BY DEF DeviceIsBacked, WritesAreBacked
<1> HIDE DEF p, u, n, m
<1>5. Backed(u, Stored) /\ Rated(u) \subseteq Rated(p) /\ Rated(p) \subseteq Stored \cup Rated(u)
  <2>1. m \in 0 .. n /\ n \in Nat
    BY <1>3
  <2>2. DOMAIN p = 1 .. n /\ DOMAIN u = 1 .. n - m /\ \A i \in 1..n - m : u[i] = p[m + i]
    BY <1>3
  <2>3. RatedBefore(p, m + 1) \subseteq Stored /\ Backed(p, Stored)
    BY <1>4
  <2> QED BY <2>1, <2>2, <2>3, BackedRest
<1>6. Stored' = Stored /\ Shown(d)' = S /\ Known(d)' = Known(d)
  BY <1>2, <1>5 DEF Stored, Shown, Known, p
<1>7. RatedBefore(u, 0 + 1) \subseteq Stored
  <2>1. \A i \in DOMAIN u : ~(i < 0 + 1)
    BY <1>3
  <2> QED BY <2>1 DEF RatedBefore
<1>8. NodeIsBacked(Refreshed(d), S)
  <2>1. NodeIsBacked(server, S)
    <3>1. Stored \in SUBSET S /\ S \in SUBSET Subs /\ server \in Node
      BY <1>1, BackedTypes
    <3> HIDE DEF S
    <3> QED BY <3>1, NodeStays
  <2>2. \A r \in Paths : Refreshed(d)[r] = view[d][r] \/ Refreshed(d)[r] = server[r]
    BY DEF Refreshed
  <2>3. Count \in Paths /\ AverageRating \in Paths
    BY TotalPathsFact
  <2> QED BY <1>4, <2>1, <2>2, <2>3 DEF NodeIsBacked
<1>9. WritesAreBacked(d)'
  BY <1>2, <1>4, <1>5, <1>6, <1>7, <1>8 DEF WritesAreBacked
<1>10. ReadsAreBacked(d)'
  BY <1>2, <1>6 DEF DeviceIsBacked, ReadsAreBacked
<1>11. DownIsEmpty(d)'
  BY <1>2 DEF DownIsEmpty
<1> QED BY <1>9, <1>10, <1>11 DEF DeviceIsBacked

\* Acknowledgements, pushes of the listener, and the answers to whole-tree reads.
LEMMA SyncKeepsBacked ==
  ASSUME NEW d \in Devices, BackedHere(d), NodeIsBacked(server, Stored), Sync(d) \/ AnswerAsk(d)
  PROVE  DeviceIsBacked(d)'
<1> USE DEF BackedHere
<1> DEFINE a == asked[d]
           e == events[d]
           A == AskedFor(Submitted)
           E == EventsFor(Submitted, Value \cup {Absent})
           K == Known(d)
<1>1. TypeOK
  BY DEF OwnInv
<1>2. CatchUp(d) /\ a \in Seq(A) /\ e \in Seq(E)
  BY <1>1 DEF Sync, AnswerAsk, TypeOK
<1>3. status[d] = "running"
  BY DEF Sync, AnswerAsk, DeviceIsBacked, DownIsEmpty
<1>4. /\ \A y \in Elements(a) : y.sub \notin K
      /\ \A y \in Elements(e) : AnswerIsBacked(y, K, newCount)
  BY DEF DeviceIsBacked, ReadsAreBacked
<1>5. \A i \in DOMAIN a : a[i] \in A /\ a[i].sub \notin K
  BY <1>2, <1>4 DEF Elements
<1>6. \A y \in A : StillBehind(d, y).sub = y.sub
  BY DEF StillBehind, AskedFor
<1>7. \A y \in Elements(asked'[d]) : y.sub \notin K
  <2>1. CASE Sync(d)
    <3>1. asked'[d] = [i \in DOMAIN a |-> StillBehind(d, a[i])]
      BY <1>1, <2>1 DEF Sync, TypeOK
    <3> HIDE DEF a, A, K
    <3> QED BY <1>5, <1>6, <3>1 DEF Elements
  <2>2. CASE AnswerAsk(d)
    <3>1. asked'[d] = [i \in 1..Len(a) - 1 |-> StillBehind(d, a[i + 1])]
      BY <1>1, <2>2 DEF AnswerAsk, TypeOK
    <3> HIDE DEF a, A, K
    <3>2. \A i \in 1..Len(a) - 1 : i + 1 \in DOMAIN a BY <1>2
    <3> QED BY <1>5, <1>6, <3>1, <3>2 DEF Elements
  <2> QED BY <2>1, <2>2
<1>8. \A y \in Elements(events'[d]) : AnswerIsBacked(y, K, newCount)
  <2>1. CASE Sync(d)
    BY <1>4, <2>1 DEF Sync
  <2>2. CASE AnswerAsk(d)
    <3> DEFINE x == ItemEvent(Head(a).sub, \E r \in Paths : Refreshed(d)[r] # Absent)
               F == E \cup {x}
    <3>1. a # <<>> /\ events'[d] = Append(e, x)
      BY <1>1, <2>2 DEF AnswerAsk, TypeOK
    <3>2. \E r \in Paths : Refreshed(d)[r] # Absent
      <4>1. Count \in Paths /\ Count \in TotalPaths
        BY TotalPathsFact
      <4>2. Refreshed(d)[Count] = view[d][Count] \/ Refreshed(d)[Count] = server[Count]
        BY <4>1 DEF Refreshed
      <4> QED BY <4>1, <4>2 DEF TotalsPresent
    <3>3. x.kind = "item" /\ x.sub = Head(a).sub /\ x.exists
      BY <3>2 DEF ItemEvent
    <3>4. x.sub \notin K
      <4>1. Head(a) \in Elements(a)
        <5> HIDE DEF A, a
        <5> QED BY <1>2, <3>1, ElementsFacts
      <4> QED BY <1>4, <3>3, <4>1
    <3>5. E \subseteq F /\ x \in F OBVIOUS
    <3> HIDE DEF x, F, E, K, a, e
    <3>6. AnswerIsBacked(x, K, newCount) BY <3>3, <3>4 DEF AnswerIsBacked, IsAnswer
    <3>7. Elements(Append(e, x)) = Elements(e) \cup {x}
      <4>1. e \in Seq(F) BY <1>2, <3>5, WidenSequence
      <4> QED BY <3>5, <4>1, ElementsFacts
    <3> QED BY <1>4, <3>1, <3>6, <3>7
  <2> QED BY <2>1, <2>2
<1> QED BY <1>2, <1>3, <1>7, <1>8, CatchUpKeepsBacked

\* A connection that drops sends the same writes again.
LEMMA ReconnectKeepsBacked ==
  ASSUME NEW d \in Devices, BackedHere(d), Reconnect(d)
  PROVE  DeviceIsBacked(d)'
<1> USE DEF BackedHere
<1> DEFINE a == asked[d]
           A == AskedFor(Submitted)
<1>1. TypeOK
  BY DEF OwnInv
<1>2. /\ UNCHANGED <<server, view, requests, pend, events, newCount, subs, status>>
      /\ sent'[d] = 0 /\ asked'[d] = [i \in DOMAIN a |-> [a[i] EXCEPT !.behind = 0]]
      /\ a \in Seq(A)
  BY <1>1 DEF Reconnect, form_vars, TypeOK
<1>3. \A y \in Elements(asked'[d]) : \E x \in Elements(a) : y.sub = x.sub
  <2>1. \A i \in DOMAIN a : a[i] \in A
    BY <1>2
  <2>2. \A x \in A : [x EXCEPT !.behind = 0].sub = x.sub
    BY DEF AskedFor
  <2>3. DOMAIN asked'[d] = DOMAIN a /\ \A i \in DOMAIN a : asked'[d][i].sub = a[i].sub
    BY <1>2, <2>1, <2>2
  <2> HIDE DEF a, A
  <2> QED BY <2>3 DEF Elements
<1>4. a # <<>> => status[d] = "running"
  BY DEF DeviceIsBacked, DownIsEmpty
<1>5. Stored' = Stored /\ Shown(d)' = Shown(d) /\ Known(d)' = Known(d)
  BY <1>2 DEF Stored, Shown, Known
<1>6. RatedBefore(pend[d], 0 + 1) \subseteq Stored
  <2>1. \A i \in DOMAIN pend[d] : ~(i < 0 + 1)
    BY <1>1, UnackedFacts
  <2> QED BY <2>1 DEF RatedBefore
<1>7. WritesAreBacked(d)'
  BY <1>2, <1>5, <1>6 DEF DeviceIsBacked, WritesAreBacked
<1>8. ReadsAreBacked(d)'
  BY <1>2, <1>3, <1>5 DEF DeviceIsBacked, ReadsAreBacked
<1>9. DownIsEmpty(d)'
  BY <1>2, <1>4 DEF DeviceIsBacked, DownIsEmpty, Elements
<1> QED BY <1>7, <1>8, <1>9 DEF DeviceIsBacked

\* Empty queues claim nothing.
LEMMA EmptyIsBacked ==
  ASSUME NEW A, NEW k
  PROVE  Backed(<<>>, A) /\ Rated(<<>>) = {} /\ RatedBefore(<<>>, k) = {} /\ Elements(<<>>) = {}
BY DEF Backed, Rated, RatedBefore, Elements

\* A process that goes down leaves nothing behind, and starts again from the server.
LEMMA DownKeepsBacked ==
  ASSUME NEW d \in Devices, BackedHere(d), NodeIsBacked(server, Stored), Kill(d) \/ Relaunch(d)
  PROVE  DeviceIsBacked(d)'
<1> USE DEF BackedHere
<1>1. TypeOK
  BY DEF OwnInv
<1>2. /\ requests'[d] = <<>> /\ pend'[d] = <<>> /\ asked'[d] = <<>> /\ events'[d] = <<>>
      /\ server' = server
      /\ status'[d] = "running" => view'[d] = server
  <2>1. CASE Kill(d)
    BY <1>1, <2>1 DEF Kill, GoesDown, TypeOK
  <2>2. CASE Relaunch(d)
    BY <1>1, <2>2 DEF Relaunch, DeviceIsBacked, DownIsEmpty, TypeOK
  <2> QED BY <2>1, <2>2
<1>3. Stored' = Stored /\ Shown(d)' = Stored
  BY <1>2, EmptyIsBacked DEF Stored, Shown
<1>4. WritesAreBacked(d)'
  BY <1>2, <1>3, EmptyIsBacked DEF WritesAreBacked
<1>5. ReadsAreBacked(d)'
  <2>1. DOMAIN requests'[d] = {}
    BY <1>2
  <2> QED BY <1>2, <2>1, EmptyIsBacked DEF ReadsAreBacked
<1>6. DownIsEmpty(d)'
  BY <1>2 DEF DownIsEmpty
<1> QED BY <1>4, <1>5, <1>6 DEF DeviceIsBacked

------------------------
\* The inductive invariant of the second part.
BackedInv ==
  /\ TotalsPresent /\ ReadsPresent /\ OwnInv /\ NodeIsBacked(server, Stored)
  /\ \A d \in Devices : LineInv(d) /\ DeviceIsBacked(d)

\* Every step keeps every device and the server backed.
LEMMA BackedStep ==
  ASSUME RatingIsStored, BackedInv, [Next]_vars
  PROVE  NodeIsBacked(server', Stored') /\ \A d \in Devices : DeviceIsBacked(d)'
<1> USE DEF BackedInv
<1>1. TypeOK
  BY DEF OwnInv
<1>2. CASE UNCHANGED vars
  <2>1. UNCHANGED <<server, Stored>>
    BY <1>2 DEF vars, Stored
  <2>2. NodeIsBacked(server', Stored')
    BY <2>1
  <2>3. UNCHANGED <<view, requests, asked, pend, sent, events, subs, newCount, status>>
    BY <1>2 DEF vars, client, form_vars, faults
  <2>4. ASSUME NEW d \in Devices PROVE DeviceIsBacked(d)'
    <3>1. Shown(d)' = Shown(d) /\ Known(d)' = Known(d)
      BY <2>1, <2>3 DEF Shown, Known
    <3>2. DownIsEmpty(d)' BY <2>3 DEF DeviceIsBacked, DownIsEmpty
    <3>3. WritesAreBacked(d)'
      BY <2>1, <2>3, <3>1 DEF DeviceIsBacked, WritesAreBacked
    <3>4. ReadsAreBacked(d)' BY <2>3, <3>1 DEF DeviceIsBacked, ReadsAreBacked
    <3> QED BY <3>2, <3>3, <3>4 DEF DeviceIsBacked
  <2> QED BY <2>2, <2>4
<1>3. CASE Next
  <2> PICK d \in Devices : StepOf(d)
    BY <1>3 DEF Next, StepOf
  <2>1. BackedHere(d) /\ LineInv(d)
    BY DEF BackedHere
  <2>2. ASSUME ServerApply(d) \/ server' = server
        PROVE  /\ NodeIsBacked(server', Stored')
               /\ Stored \subseteq Stored' /\ \A n \in Stored' \ Stored : subs[n].dev = d
    <3>1. CASE ServerApply(d)
      BY <2>1, <3>1, ApplyKeepsBacked
    <3>2. CASE server' = server
      BY <3>2 DEF Stored
    <3> QED BY <2>2, <3>1, <3>2
  <2>3. ServerApply(d) \/ server' = server
    <3>1. CASE \E k \in Ratings : SubmitPressed(d, k)
      BY <3>1 DEF SubmitPressed
    <3> QED BY <3>1, StepsWithoutPress DEF StepOf
  <2>4. DeviceIsBacked(d)'
    <3>1. CASE \E k \in Ratings : SubmitPressed(d, k)
      BY <1>3, <2>1, <3>1, PressKeepsBacked
    <3>2. CASE MainQueue(d)
      BY <1>3, <2>1, <3>2, MainQueueKeepsBacked
    <3>3. CASE Uploads(d)
      BY <1>3, <2>1, <3>3, UploadKeepsBacked DEF Uploads
    <3>4. CASE FirebaseQueue(d)
      BY <2>1, <3>4, ReadKeepsBacked, WriteKeepsBacked DEF FirebaseQueue
    <3>5. CASE ServerApply(d)
      BY <2>1, <3>5, ApplyKeepsBacked
    <3>6. CASE Sync(d) \/ AnswerAsk(d)
      BY <2>1, <3>6, SyncKeepsBacked
    <3>7. CASE Reconnect(d)
      BY <2>1, <3>7, ReconnectKeepsBacked
    <3>8. CASE Kill(d) \/ Relaunch(d)
      BY <2>1, <3>8, DownKeepsBacked
    <3> QED BY <3>1, <3>2, <3>3, <3>4, <3>5, <3>6, <3>7, <3>8 DEF StepOf
  <2>5. Apart(d)
    BY <1>1, <2>1, StepsAreApart DEF LineInv
  <2>6. ASSUME NEW x \in Devices, x # d PROVE DeviceIsBacked(x)'
    BY <1>1, <2>2, <2>3, <2>5, <2>6, OthersStayBacked
  <2> QED BY <2>2, <2>3, <2>4, <2>6
<1> QED BY <1>2, <1>3

\* At the start the item has the reviews that its totals say.
LEMMA BackedInit ==
  ASSUME Init
  PROVE  NodeIsBacked(server, Stored) /\ \A d \in Devices : DeviceIsBacked(d)
<1>1. /\ server = SeedNode
      /\ \A d \in Devices :
           /\ view[d] = SeedNode /\ status[d] = "running" /\ requests[d] = <<>>
           /\ asked[d] = <<>> /\ pend[d] = <<>> /\ events[d] = <<>>
  BY DEF Init
<1>2. Stored = {}
  <2>1. \A n \in Subs : <<"rating", n>> \in ReviewPaths
    BY DEF ReviewPaths
  <2>2. \A p \in ReviewPaths : SeedNode[p] = Absent
    BY TotalsAreNoReviews DEF SeedNode, TotalPaths, Paths
  <2> QED BY <1>1, <2>1, <2>2 DEF Stored
<1>3. SeedCount \in Nat /\ Bound({}) = SeedCount
  <2>1. {} \in SUBSET Subs OBVIOUS
  <2> QED BY <2>1, SeedAssumption, BoundFacts
<1>4. /\ SeedNode[Count] # Absent => SeedNode[Count].num = SeedCount
      /\ SeedNode[AverageRating] # Absent => SeedNode[AverageRating].den = SeedCount
  <2>1. Count \in Paths /\ AverageRating \in Paths
    BY TotalPathsFact
  <2>2. SeedNode[Count] = IF SeedCount = 0 THEN Absent ELSE Whole(SeedCount)
    BY <2>1 DEF SeedNode, Count, TotalRatings, AverageRating
  <2>3. SeedNode[AverageRating]
          = IF SeedCount = 0 THEN Absent ELSE [num |-> SeedTotal, den |-> SeedCount]
    BY <2>1 DEF SeedNode, Count, TotalRatings, AverageRating
  <2>4. Whole(SeedCount).num = SeedCount /\ [num |-> SeedTotal, den |-> SeedCount].den = SeedCount
    BY DEF Whole
  <2> HIDE DEF SeedNode
  <2> QED BY <2>2, <2>3, <2>4
<1>5. NodeIsBacked(SeedNode, {})
  <2> DEFINE a == SeedCount
  <2>1. a <= a
    BY <1>3
  <2> QED BY <1>3, <1>4, <2>1 DEF NodeIsBacked
<1>6. ASSUME NEW d \in Devices PROVE DeviceIsBacked(d)
  <2>1. Shown(d) = {} /\ DOMAIN requests[d] = {}
    BY <1>1, <1>2, EmptyIsBacked DEF Shown
  <2>2. WritesAreBacked(d)
    BY <1>1, <1>2, <1>5, <2>1, EmptyIsBacked DEF WritesAreBacked
  <2>3. ReadsAreBacked(d)
    BY <1>1, <2>1, EmptyIsBacked DEF ReadsAreBacked
  <2>4. DownIsEmpty(d)
    BY <1>1 DEF DownIsEmpty
  <2> QED BY <2>2, <2>3, <2>4 DEF DeviceIsBacked
<1> QED BY <1>1, <1>2, <1>5, <1>6

\* On an item that has a review, no total the server holds counts a review whose rating it does
\* not hold, for any number of devices, presses in a form, kills and reconnections: what a
\* submission counts it reads before its own rating is issued, the writes of a device
\* arrive in their order, and a lost count takes nothing back that is stored.
THEOREM CountedReviewsStayStored ==
  ASSUME SeedCount # 0, RatingIsStored
  PROVE  Spec => []CountedReviewsAreStored
<1>1. Init => BackedInv
  <2> SUFFICES ASSUME Init PROVE BackedInv OBVIOUS
  <2>1. \A d \in Devices : LineInv(d)
    BY EmptyLine DEF Init, LineInv, ReadsAreOwn
  <2> QED BY <2>1, SeedPresent, OwnInit, BackedInit DEF BackedInv
<1>2. BackedInv /\ [Next]_vars /\ NoTrap => BackedInv'
  <2> SUFFICES ASSUME BackedInv, [Next]_vars, NoTrap PROVE BackedInv' OBVIOUS
  <2>1. OwnInv'
    BY OwnStep DEF BackedInv
  <2>2. TotalsPresent' /\ ReadsPresent'
    BY <2>1, TrapStep DEF BackedInv, TrapInv, OwnInv
  <2>3. \A d \in Devices : LineInv(d)'
    BY LineStep DEF BackedInv, OwnInv
  <2>4. NodeIsBacked(server', Stored') /\ \A d \in Devices : DeviceIsBacked(d)'
    BY BackedStep
  <2> QED BY <2>1, <2>2, <2>3, <2>4 DEF BackedInv
<1>3. BackedInv => CountedReviewsAreStored
  <2> SUFFICES ASSUME BackedInv PROVE CountedReviewsAreStored OBVIOUS
  <2>1. Submitted \subseteq Subs
    BY SubmittedFact DEF BackedInv, OwnInv
  <2>2. Stored \subseteq Submitted
    <3> SUFFICES ASSUME NEW n \in Subs, server[<<"rating", n>>] # Absent PROVE n \in Submitted
      BY DEF Stored
    <3>1. <<"rating", n>> \in ReviewPaths /\ <<"rating", n>> \in Paths /\ <<"rating", n>>[2] = n
      BY DEF ReviewPaths, Paths
    <3> QED BY <3>1 DEF BackedInv, OwnInv, WritesAreOwn, Own
  <2>3. StoredRatings = Stored
    BY <2>1, <2>2 DEF StoredRatings, Stored
  <2> QED BY <2>3 DEF BackedInv, NodeIsBacked, Bound, CountedReviewsAreStored
<1>4. Spec => []NoTrap
  BY ReviewedItemNeverTraps
<1> QED BY <1>1, <1>2, <1>3, <1>4, PTL DEF Spec
=============================================================================
