------------------------- MODULE ReviewSubmissionProofs -------------------------
(***************************************************************************)
(* Proofs about ReviewSubmission, for every value of its constants.        *)
(*                                                                         *)
(* First part: TypeOK is inductive only together with UploadsHaveKey (the  *)
(* upload's completion writes under the key its controller holds, which    *)
(* must not be nil), so one lemma per action shows that it keeps both.     *)
(* Second part: on an item that has a review, no forced cast fails. The    *)
(* strengthening TrapInv says that the totals are present in every copy of *)
(* the node and in every answer on its way.                                *)
(* Third part: what is written to the node of a review is of that review,  *)
(* on the server, in every view and in every queue (OwnInv), so a stored   *)
(* review is never overwritten and its image is its own.                   *)
(* Fourth part: on one device, once all is quiet, the totals count every   *)
(* review once. CountInv follows the reads and writes of one submission    *)
(* from the press to the last acknowledgement: which of its three totals   *)
(* the client has, and what the queues on the way will make of them.       *)
(* Fifth part: on one device whose connection holds, the averages are      *)
(* published in the order of the ledger (the safety of RatingLedger).      *)
(* LedgerInv says, beside CountInv, that the averages on their way go up   *)
(* by one submission each, from the one the server has.                    *)
(* Sixth part: one device's averages stay on the scale, with reconnections.*)
(* AveragesIn(Scale) says it of every average stored or on its way.        *)
(***************************************************************************)
EXTENDS ReviewSubmission, NaturalsBySets, SequenceTheorems, FiniteSetTheorems, TLAPS

\* A whole number is a value.
LEMMA WholeIsValue == \A k \in Nat : Whole(k) \in Value
BY DEF Whole, Value

\* Submissions are numbered from 1: 0 is free to say nil.
LEMMA SubsFacts == Subs \subseteq Nat /\ 0 \notin Subs
BY BoundsAssumption DEF Subs

\* What the star control holds is a natural number.
LEMMA RatingsFact == Ratings \subseteq Nat
<1> SUFFICES ASSUME NEW r \in Ratings PROVE r \in Nat OBVIOUS
<1> QED BY RatingsAssumption

\* The three totals of submitReview are nodes of the item.
LEMMA TotalPathsFact ==
  /\ Count \in TotalPaths /\ TotalRatings \in TotalPaths
  /\ AverageRating \in TotalPaths
  /\ TotalPaths \subseteq Paths
BY DEF TotalPaths, Paths

\* The submissions made are the first numbers of Subs.
LEMMA SubmittedFact == TypeOK => Submitted = 1 .. Len(subs) /\ Submitted \subseteq Subs
BY BoundsAssumption DEF TypeOK, Submitted, Subs

\* Appending to one device's queue keeps all the queues well-typed.
LEMMA QueueAppend ==
  ASSUME NEW S, NEW q \in [Devices -> Seq(S)], NEW d \in Devices, NEW x \in S
  PROVE  [q EXCEPT ![d] = Append(@, x)] \in [Devices -> Seq(S)]
OBVIOUS

\* Taking the head off one device's queue keeps the queues well-typed.
LEMMA QueueTail ==
  ASSUME NEW S, NEW q \in [Devices -> Seq(S)], NEW d \in Devices, q[d] # <<>>
  PROVE  /\ [q EXCEPT ![d] = Tail(@)] \in [Devices -> Seq(S)]
         /\ Head(q[d]) \in S
OBVIOUS

\* Issuing several requests at once keeps the queues well-typed.
LEMMA QueueConcat ==
  ASSUME NEW S, NEW q \in [Devices -> Seq(S)], NEW d \in Devices, NEW xs \in Seq(S)
  PROVE  [q EXCEPT ![d] = @ \o xs] \in [Devices -> Seq(S)]
OBVIOUS

\* A queue of S is a queue of every larger set.
LEMMA QueueWiden ==
  ASSUME NEW S, NEW T, S \subseteq T, NEW q \in [Devices -> Seq(S)]
  PROVE  q \in [Devices -> Seq(T)]
<1>1. \A d \in Devices : q[d] \in Seq(T)
  BY SeqDef
<1> QED BY <1>1

\* The item before the run, reviewed or not, is a node.
LEMMA SeedNodeType == SeedNode \in Node
<1> SUFFICES ASSUME NEW p \in Paths
             PROVE  SeedNode[p] \in Value \cup {Absent}
  BY DEF SeedNode, Node
<1> QED BY SeedAssumption DEF SeedNode, Value, Whole

\* The initial states are well-typed.
LEMMA TypeInit == Init => TypeOK
BY SeedNodeType, SubsFacts, BoundsAssumption DEF Init, TypeOK

\* A press of Submit (submitReview up to its first read) keeps the types: it
\* adds a submission, so the sets the queues range over grow with it.
LEMMA PressType ==
  ASSUME TypeOK, NEW d \in Devices, NEW r \in Ratings, SubmitPressed(d, r)
  PROVE  TypeOK'
<1> DEFINE n == Len(subs) + 1
           f == IF form[d] = 0 THEN n ELSE form[d]
           s == [dev |-> d, form |-> f, rating |-> r]
<1>1. n \in Subs /\ n <= MaxSubmissions /\ f \in Subs
  BY BoundsAssumption DEF TypeOK, SubmitPressed, Subs
<1>2. s \in Submissions
  BY <1>1 DEF Submissions
<1>3. subs' = Append(subs, s) /\ form' = [form EXCEPT ![d] = f]
  BY DEF SubmitPressed
<1>4. subs' \in Seq(Submissions) /\ Len(subs') <= MaxSubmissions
  BY <1>1, <1>2, <1>3 DEF TypeOK
<1>5. Submitted \subseteq Submitted' /\ n \in Submitted'
  BY <1>3, <1>2 DEF TypeOK, Submitted
<1>6. RequestsFor(Submitted) \subseteq RequestsFor(Submitted')
      /\ Ask(n) \in RequestsFor(Submitted')
  BY <1>5 DEF Ask, RequestsFor
<1>7. requests \in [Devices -> Seq(RequestsFor(Submitted'))]
  BY <1>6, QueueWiden DEF TypeOK
<1>8. requests' \in [Devices -> Seq(RequestsFor(Submitted'))]
  BY <1>6, <1>7, QueueAppend DEF SubmitPressed
<1>9. asked' \in [Devices -> Seq(AskedFor(Submitted'))]
  <2>1. AskedFor(Submitted) \subseteq AskedFor(Submitted')
    BY <1>5 DEF AskedFor
  <2>2. asked \in [Devices -> Seq(AskedFor(Submitted))] /\ asked' = asked
    BY DEF TypeOK, SubmitPressed
  <2> QED BY <2>1, <2>2, QueueWiden
<1>10. events' \in [Devices -> Seq(EventsFor(Submitted', Value \cup {Absent}))]
  <2>1. EventsFor(Submitted, Value \cup {Absent})
          \subseteq EventsFor(Submitted', Value \cup {Absent})
    BY <1>5 DEF EventsFor
  <2> QED BY <2>1, QueueWiden DEF TypeOK, SubmitPressed
<1>11. form' \in [Devices -> Subs \cup {0}]
  BY <1>1, <1>3 DEF TypeOK
<1> QED BY <1>4, <1>8, <1>9, <1>10, <1>11 DEF TypeOK, SubmitPressed, faults

\* The writes of the review itself are requests.
LEMMA ReviewWritesType ==
  ASSUME TypeOK, NEW n, n \in Submitted
  PROVE  ReviewWrites(n) \in Seq(RequestsFor(Submitted))
<1>1. subs[n] \in Submissions /\ n \in Subs
  <2>1. subs[n] \in Submissions
    BY DEF TypeOK, Submitted
  <2> QED BY <2>1, SubmittedFact
<1>2. subs[n].rating \in Nat
  BY <1>1, RatingsFact DEF Submissions
<1>3. \A i \in DOMAIN ReviewFields : ReviewFields[i] \in {"date", "review", "rating"}
  BY FieldsAssumption
<1>4. \A i \in DOMAIN ReviewFields :
        Put(<<ReviewFields[i], n>>,
            Whole(IF ReviewFields[i] = "rating" THEN subs[n].rating ELSE n))
          \in RequestsFor(Submitted)
  <2> SUFFICES ASSUME NEW i \in DOMAIN ReviewFields
               PROVE  Put(<<ReviewFields[i], n>>,
                          Whole(IF ReviewFields[i] = "rating" THEN subs[n].rating ELSE n))
                        \in Puts
    BY DEF RequestsFor
  <2>1. <<ReviewFields[i], n>> \in Paths
    BY <1>1, <1>3 DEF Paths, ReviewPaths
  <2>2. Whole(IF ReviewFields[i] = "rating" THEN subs[n].rating ELSE n) \in Value
    BY <1>1, <1>2, SubsFacts, WholeIsValue
  <2> QED BY <2>1, <2>2 DEF Put, Puts
<1>5. DOMAIN ReviewFields = 1 .. Len(ReviewFields) /\ Len(ReviewFields) \in Nat
  BY FieldsAssumption
<1>6. ReviewWrites(n) \in [1..Len(ReviewFields) -> RequestsFor(Submitted)]
  BY <1>4, <1>5 DEF ReviewWrites
<1> QED BY <1>5, <1>6, SeqDef

\* The three reads of the totals are requests.
LEMMA TotalReadsType ==
  ASSUME NEW n, n \in Submitted
  PROVE  TotalReads(n) \in Seq(RequestsFor(Submitted))
<1>1. \A p \in TotalPaths : Get(n, p) \in RequestsFor(Submitted)
  BY DEF Get, RequestsFor
<1> QED BY <1>1, TotalPathsFact DEF TotalReads

\* A write of a value to a node of the item is a request.
LEMMA PutType ==
  ASSUME NEW p \in Paths, NEW v \in Value
  PROVE  Put(p, v) \in RequestsFor(Submitted)
BY DEF Put, Puts, RequestsFor

\* The writes of a first review's totals are requests.
LEMMA FirstTotalsType ==
  ASSUME TypeOK, NEW n, n \in Submitted
  PROVE  FirstTotals(n) \in Seq(RequestsFor(Submitted))
<1>1. subs[n] \in Submissions
  BY DEF TypeOK, Submitted
<1>2. subs[n].rating \in Nat
  BY <1>1, RatingsFact DEF Submissions
<1>3. Whole(1) \in Value /\ Whole(subs[n].rating) \in Value
  BY <1>2, WholeIsValue
<1> QED BY <1>3, TotalPathsFact, PutType DEF FirstTotals

\* Running a callback takes a well-typed event off the main queue.
LEMMA CallbackType ==
  ASSUME TypeOK, NEW d \in Devices, NEW kind, Callback(d, kind)
  PROVE  /\ events' \in [Devices -> Seq(EventsFor(Submitted, Value \cup {Absent}))]
         /\ Head(events[d]) \in EventsFor(Submitted, Value \cup {Absent})
         /\ Head(events[d]).kind = kind
<1> DEFINE E == EventsFor(Submitted, Value \cup {Absent})
<1>1. events \in [Devices -> Seq(E)]
  BY DEF TypeOK
<1>2. events[d] # <<>> /\ events' = [events EXCEPT ![d] = Tail(@)]
      /\ Head(events[d]).kind = kind
  BY DEF Callback
<1> HIDE DEF E
<1>3. events' \in [Devices -> Seq(E)] /\ Head(events[d]) \in E
  BY <1>1, <1>2, QueueTail
<1> QED BY <1>2, <1>3 DEF E

\* The answer to the whole-tree read names a submission.
LEMMA ItemEventType ==
  ASSUME NEW e, NEW N, NEW V, e \in EventsFor(N, V), e.kind = "item"
  PROVE  e.sub \in N /\ e.exists \in BOOLEAN
BY DEF EventsFor

\* The answer to a read of a total names a submission, a total and a value.
LEMMA ValueEventType ==
  ASSUME NEW e, NEW N, NEW V, e \in EventsFor(N, V), e.kind = "value"
  PROVE  e.sub \in N /\ e.path \in TotalPaths /\ e.value \in V
BY DEF EventsFor

\* Issuing requests keeps the request queues well-typed.
LEMMA IssueType ==
  ASSUME TypeOK, NEW d \in Devices, NEW rs \in Seq(RequestsFor(Submitted)),
         Issue(d, rs)
  PROVE  requests' \in [Devices -> Seq(RequestsFor(Submitted))]
BY QueueConcat DEF TypeOK, Issue

\* The end of both branches of submitReview: types are kept, and the upload
\* starts after uniqueReviewID has been assigned.
LEMMA FinishSubmitType ==
  ASSUME TypeOK, UploadsHaveKey, NEW d \in Devices, NEW n, n \in Submitted,
         FinishSubmit(d, n)
  PROVE  /\ uniqueReviewID' \in [Subs -> Subs \cup {0}]
         /\ upload' \in [Subs -> {"none", "running", "done"}]
         /\ form' \in [Devices -> Subs \cup {0}]
         /\ UploadsHaveKey'
<1>1. n \in Subs /\ subs[n] \in Submissions
  <2>1. subs[n] \in Submissions
    BY DEF TypeOK, Submitted
  <2> QED BY <2>1, SubmittedFact
<1>2. subs[n].form \in Subs
  BY <1>1 DEF Submissions
<1>3. uniqueReviewID' = [uniqueReviewID EXCEPT ![subs[n].form] = n]
  BY DEF FinishSubmit
<1>4. UploadsHaveKey'
  <2> SUFFICES ASSUME NEW k \in Subs, upload'[k] = "running"
               PROVE  k \in Submitted /\ uniqueReviewID'[subs[k].form] # 0
    BY DEF UploadsHaveKey, FinishSubmit, Submitted
  <2>1. k = n \/ upload[k] = "running"
    BY DEF FinishSubmit, TypeOK
  <2>2. k \in Submitted
    BY <2>1 DEF UploadsHaveKey
  <2>3. subs[k].form \in Subs
    <3>1. subs[k] \in Submissions BY <2>2 DEF TypeOK, Submitted
    <3> QED BY <3>1 DEF Submissions
  <2>4. subs[k].form = subs[n].form => uniqueReviewID'[subs[k].form] = n
    BY <1>2, <1>3 DEF TypeOK
  <2>5. subs[k].form # subs[n].form =>
          uniqueReviewID'[subs[k].form] = uniqueReviewID[subs[k].form]
    BY <1>3, <2>3 DEF TypeOK
  <2> QED BY <1>1, <2>1, <2>2, <2>4, <2>5, SubsFacts DEF UploadsHaveKey
<1> QED BY <1>1, <1>2, <1>3, <1>4 DEF FinishSubmit, TypeOK

\* The branch for an item with data keeps the types and the uploads' keys.
LEMMA ItemExistsType ==
  ASSUME TypeOK, UploadsHaveKey, NEW d \in Devices, ItemExists(d)
  PROVE  TypeOK' /\ UploadsHaveKey'
<1> DEFINE n == Head(events[d]).sub
<1>1. events' \in [Devices -> Seq(EventsFor(Submitted, Value \cup {Absent}))]
      /\ n \in Submitted
  BY CallbackType, ItemEventType DEF ItemExists
<1>2. TotalReads(n) \o ReviewWrites(n) \in Seq(RequestsFor(Submitted))
  BY <1>1, TotalReadsType, ReviewWritesType
<1>3. requests' \in [Devices -> Seq(RequestsFor(Submitted))]
  BY <1>2, IssueType DEF ItemExists
<1>4. FinishSubmit(d, n)
  BY DEF ItemExists
<1>5. /\ uniqueReviewID' \in [Subs -> Subs \cup {0}]
      /\ upload' \in [Subs -> {"none", "running", "done"}]
      /\ form' \in [Devices -> Subs \cup {0}]
      /\ UploadsHaveKey'
  BY <1>1, <1>4, FinishSubmitType
<1>6. newCount' \in [Subs -> Nat] /\ newTotal' \in [Subs -> Nat]
  BY DEF ItemExists, TypeOK
<1>7. UNCHANGED <<server, view, asked, pend, sent, subs, faults>>
  BY <1>4 DEF FinishSubmit
<1>8. Submitted' = Submitted
  BY <1>7 DEF Submitted
<1> QED BY <1>1, <1>3, <1>5, <1>6, <1>7, <1>8 DEF TypeOK, faults

\* The branch for an item without data keeps the types and the uploads' keys.
LEMMA ItemMissingType ==
  ASSUME TypeOK, UploadsHaveKey, NEW d \in Devices, ItemMissing(d)
  PROVE  TypeOK' /\ UploadsHaveKey'
<1> DEFINE n == Head(events[d]).sub
<1>1. events' \in [Devices -> Seq(EventsFor(Submitted, Value \cup {Absent}))]
      /\ n \in Submitted
  BY CallbackType, ItemEventType DEF ItemMissing
<1>2. FirstTotals(n) \o ReviewWrites(n) \in Seq(RequestsFor(Submitted))
  BY <1>1, FirstTotalsType, ReviewWritesType
<1>3. requests' \in [Devices -> Seq(RequestsFor(Submitted))]
  BY <1>2, IssueType DEF ItemMissing
<1>4. FinishSubmit(d, n)
  BY DEF ItemMissing
<1>5. /\ uniqueReviewID' \in [Subs -> Subs \cup {0}]
      /\ upload' \in [Subs -> {"none", "running", "done"}]
      /\ form' \in [Devices -> Subs \cup {0}]
      /\ UploadsHaveKey'
  BY <1>1, <1>4, FinishSubmitType
<1>6. UNCHANGED <<newCount, newTotal, server, view, asked, pend, sent, subs, faults>>
  BY <1>4 DEF FinishSubmit, ItemMissing
<1>7. Submitted' = Submitted
  BY <1>6 DEF Submitted
<1> QED BY <1>1, <1>3, <1>5, <1>6, <1>7 DEF TypeOK, faults

\* The end of the process, however it comes, empties the queues and stops the
\* device's uploads: types and keys are kept.
LEMMA GoesDownType ==
  ASSUME TypeOK, UploadsHaveKey, NEW d \in Devices, NEW why \in {"trapped", "killed"},
         GoesDown(d, why), kills' \in Nat
  PROVE  TypeOK' /\ UploadsHaveKey'
<1>1. UNCHANGED <<server, view, subs, newCount, newTotal, uniqueReviewID, reconnects>>
  BY DEF GoesDown
<1>2. Submitted' = Submitted
  BY <1>1 DEF Submitted
<1>3. \A S : /\ \A q \in [Devices -> Seq(S)] :
                 [q EXCEPT ![d] = <<>>] \in [Devices -> Seq(S)]
  OBVIOUS
<1>4. /\ requests' \in [Devices -> Seq(RequestsFor(Submitted))]
      /\ asked' \in [Devices -> Seq(AskedFor(Submitted))]
      /\ pend' \in [Devices -> Seq(Puts)]
      /\ events' \in [Devices -> Seq(EventsFor(Submitted, Value \cup {Absent}))]
  BY <1>3 DEF TypeOK, GoesDown
<1>5. sent' \in [Devices -> Nat] /\ \A x \in Devices : sent'[x] <= Len(pend'[x])
  BY DEF TypeOK, GoesDown
<1>6. upload' \in [Subs -> {"none", "running", "done"}]
      /\ \A n \in Subs : upload'[n] = "running" => upload[n] = "running"
  BY DEF TypeOK, GoesDown
<1>7. UploadsHaveKey'
  BY <1>1, <1>2, <1>6 DEF UploadsHaveKey
<1>8. form' \in [Devices -> Subs \cup {0}]
      /\ status' \in [Devices -> {"running", "trapped", "killed"}]
  BY DEF TypeOK, GoesDown
<1> QED BY <1>1, <1>2, <1>4, <1>5, <1>6, <1>7, <1>8 DEF TypeOK

\* A kill keeps the types and the uploads' keys.
LEMMA KillType ==
  ASSUME TypeOK, UploadsHaveKey, NEW d \in Devices, Kill(d)
  PROVE  TypeOK' /\ UploadsHaveKey'
<1>1. GoesDown(d, "killed") /\ kills' = kills + 1
  BY DEF Kill
<1>2. kills' \in Nat
  BY <1>1 DEF TypeOK
<1> QED BY <1>1, <1>2, GoesDownType

\* A failed forced cast keeps the types and the uploads' keys.
LEMMA CastFailsType ==
  ASSUME TypeOK, UploadsHaveKey, NEW d \in Devices, CastFails(d)
  PROVE  TypeOK' /\ UploadsHaveKey'
<1>1. GoesDown(d, "trapped") /\ kills' = kills
  BY DEF CastFails, Trap
<1>2. kills' \in Nat
  BY <1>1 DEF TypeOK
<1> QED BY <1>1, <1>2, GoesDownType

\* A relaunch keeps the types and the uploads' keys.
LEMMA RelaunchType ==
  ASSUME TypeOK, UploadsHaveKey, NEW d \in Devices, Relaunch(d)
  PROVE  TypeOK' /\ UploadsHaveKey'
<1>1. Submitted' = Submitted
  BY DEF Relaunch, Submitted, form_vars
<1>2. TypeOK'
  BY <1>1 DEF TypeOK, Relaunch, form_vars
<1> QED BY <1>1, <1>2 DEF UploadsHaveKey, Relaunch, form_vars

\* Every callback of a total's read ends by issuing one write; if the value
\* written and the shared variables are well-typed, so is the next state.
LEMMA ValueArrivedType ==
  ASSUME TypeOK, UploadsHaveKey, NEW d \in Devices, NEW p, ValueArrived(d, p),
         NEW v \in Value, NEW q \in Paths, Issue(d, <<Put(q, v)>>),
         newCount' \in [Subs -> Nat], newTotal' \in [Subs -> Nat]
  PROVE  TypeOK' /\ UploadsHaveKey'
<1>1. events' \in [Devices -> Seq(EventsFor(Submitted, Value \cup {Absent}))]
  BY CallbackType DEF ValueArrived
<1>2. <<Put(q, v)>> \in Seq(RequestsFor(Submitted))
  BY PutType
<1>3. requests' \in [Devices -> Seq(RequestsFor(Submitted))]
  BY <1>2, IssueType
<1>4. UNCHANGED <<server, view, asked, pend, sent, subs, form, uniqueReviewID,
                  upload, faults>>
  BY DEF ValueArrived
<1>5. Submitted' = Submitted
  BY <1>4 DEF Submitted
<1>6. TypeOK'
  BY <1>1, <1>3, <1>4, <1>5 DEF TypeOK, faults
<1> QED BY <1>4, <1>5, <1>6 DEF UploadsHaveKey

\* The callback of a total's read has a submission that was made, and (past the
\* forced cast) a number.
LEMMA ValueEventFacts ==
  ASSUME TypeOK, NEW d \in Devices, NEW p, ValueArrived(d, p)
  PROVE  /\ Head(events[d]).sub \in Submitted
         /\ Head(events[d]).sub \in Subs
         /\ subs[Head(events[d]).sub].rating \in Nat
         /\ p \in {Count, TotalRatings} => Head(events[d]).value.num \in Nat
<1> DEFINE e == Head(events[d])
<1>1. e \in EventsFor(Submitted, Value \cup {Absent}) /\ e.kind = "value"
  BY CallbackType DEF ValueArrived
<1>2. e.sub \in Submitted /\ e.value \in Value \cup {Absent}
  BY <1>1, ValueEventType
<1>3. p \in {Count, TotalRatings} => e.value \in Value
  BY <1>2 DEF ValueArrived
<1>4. subs[e.sub] \in Submissions
  BY <1>2 DEF TypeOK, Submitted
<1>5. subs[e.sub].rating \in Nat
  BY <1>4, RatingsFact DEF Submissions
<1> QED BY <1>2, <1>3, <1>5, SubmittedFact DEF Value

\* The callback that increments the count keeps the types and keys.
LEMMA CountArrivedType ==
  ASSUME TypeOK, UploadsHaveKey, NEW d \in Devices, CountArrived(d)
  PROVE  TypeOK' /\ UploadsHaveKey'
<1> DEFINE e == Head(events[d])
<1>1. ValueArrived(d, Count) /\ UNCHANGED newTotal
      /\ newCount' = [newCount EXCEPT ![e.sub] = e.value.num + 1]
      /\ Issue(d, <<Put(Count, Whole(e.value.num + 1))>>)
  BY DEF CountArrived
<1>2. e.sub \in Subs /\ e.value.num + 1 \in Nat
  BY <1>1, ValueEventFacts
<1>3. newCount' \in [Subs -> Nat] /\ newTotal' \in [Subs -> Nat]
  BY <1>1, <1>2 DEF TypeOK
<1>4. Whole(e.value.num + 1) \in Value /\ Count \in Paths
  BY <1>2, WholeIsValue, TotalPathsFact
<1> QED BY <1>1, <1>3, <1>4, ValueArrivedType

\* The callback that adds the rating to the total keeps the types and keys.
LEMMA TotalArrivedType ==
  ASSUME TypeOK, UploadsHaveKey, NEW d \in Devices, TotalArrived(d)
  PROVE  TypeOK' /\ UploadsHaveKey'
<1> DEFINE e == Head(events[d])
           t == e.value.num + subs[e.sub].rating
<1>1. ValueArrived(d, TotalRatings) /\ UNCHANGED newCount
      /\ newTotal' = [newTotal EXCEPT ![e.sub] = t]
      /\ Issue(d, <<Put(TotalRatings, Whole(t))>>)
  BY DEF TotalArrived
<1>2. e.sub \in Subs /\ t \in Nat
  <2>1. TotalRatings \in {Count, TotalRatings} /\ ValueArrived(d, TotalRatings)
    BY <1>1
  <2>2. e.sub \in Subs /\ e.value.num \in Nat /\ subs[e.sub].rating \in Nat
    BY <2>1, ValueEventFacts
  <2> HIDE DEF e
  <2> QED BY <2>2
<1>3. newCount' \in [Subs -> Nat] /\ newTotal' \in [Subs -> Nat]
  <2>1. newCount' = newCount /\ newTotal' = [newTotal EXCEPT ![e.sub] = t]
    BY <1>1
  <2>2. newCount \in [Subs -> Nat] /\ newTotal \in [Subs -> Nat]
    BY DEF TypeOK
  <2> HIDE DEF e, t
  <2> QED BY <1>2, <2>1, <2>2
<1>4. Whole(t) \in Value /\ TotalRatings \in Paths
  BY <1>2, WholeIsValue, TotalPathsFact
<1> QED BY <1>1, <1>3, <1>4, ValueArrivedType

\* The callback that divides the shared variables keeps the types and keys.
LEMMA AverageArrivedType ==
  ASSUME TypeOK, UploadsHaveKey, NEW d \in Devices, AverageArrived(d)
  PROVE  TypeOK' /\ UploadsHaveKey'
<1> DEFINE n == Head(events[d]).sub
           a == [num |-> newTotal[n], den |-> newCount[n]]
<1>1. ValueArrived(d, AverageRating) /\ UNCHANGED <<newCount, newTotal>>
      /\ Issue(d, <<Put(AverageRating, a)>>)
  BY DEF AverageArrived
<1>2. a \in Value /\ AverageRating \in Paths
  BY <1>1, ValueEventFacts, TotalPathsFact DEF TypeOK, Value
<1>3. newCount' \in [Subs -> Nat] /\ newTotal' \in [Subs -> Nat]
  BY <1>1 DEF TypeOK
<1> QED BY <1>1, <1>2, <1>3, ValueArrivedType

\* The upload's completion keeps the types: it writes under a key that is there
\* (UploadsHaveKey), which is why the two invariants are proved together.
LEMMA UploadFinishedType ==
  ASSUME TypeOK, UploadsHaveKey, NEW d \in Devices, NEW n \in Subs,
         NEW ok \in UploadOutcomes, UploadFinished(d, n, ok)
  PROVE  TypeOK' /\ UploadsHaveKey'
<1> DEFINE p == <<"imageURL", uniqueReviewID[subs[n].form]>>
<1>1. n \in Submitted /\ upload[n] = "running"
      /\ upload' = [upload EXCEPT ![n] = "done"]
      /\ UNCHANGED <<server, view, asked, pend, sent, events, subs, newCount,
                     newTotal, form, uniqueReviewID, faults>>
  BY DEF UploadFinished
<1>2. subs[n].form \in Subs
  <2>1. subs[n] \in Submissions
    BY <1>1 DEF TypeOK, Submitted
  <2> QED BY <2>1 DEF Submissions
<1>3. uniqueReviewID[subs[n].form] \in Subs
  BY <1>1, <1>2 DEF UploadsHaveKey, TypeOK
<1>4. p \in Paths /\ Whole(n) \in Value
  BY <1>3, SubsFacts, WholeIsValue DEF Paths, ReviewPaths
<1>5. <<Put(p, Whole(n))>> \in Seq(RequestsFor(Submitted))
  BY <1>4, PutType
<1>6. requests' \in [Devices -> Seq(RequestsFor(Submitted))]
  <2>1. CASE ok
    BY <2>1, <1>5, IssueType DEF UploadFinished
  <2>2. CASE ~ok
    BY <2>2 DEF UploadFinished, TypeOK
  <2> QED BY <2>1, <2>2
<1>7. Submitted' = Submitted
  BY <1>1 DEF Submitted
<1>8. TypeOK'
  BY <1>1, <1>6, <1>7 DEF TypeOK, faults
<1>9. UploadsHaveKey'
  <2>1. \A k \in Subs : upload'[k] = "running" => upload[k] = "running"
    BY <1>1 DEF TypeOK
  <2> QED BY <1>1, <1>7, <2>1 DEF UploadsHaveKey
<1> QED BY <1>8, <1>9

\* The client's queue takes up a well-typed request.
LEMMA TakeUpType ==
  ASSUME TypeOK, UploadsHaveKey, NEW d \in Devices, NEW kind, TakeUp(d, kind)
  PROVE  /\ requests' \in [Devices -> Seq(RequestsFor(Submitted))]
         /\ Head(requests[d]) \in RequestsFor(Submitted)
         /\ Head(requests[d]).kind = kind
         /\ Submitted' = Submitted
         /\ UploadsHaveKey'
<1> DEFINE R == RequestsFor(Submitted)
<1>1. requests \in [Devices -> Seq(R)]
  BY DEF TypeOK
<1>2. requests[d] # <<>> /\ requests' = [requests EXCEPT ![d] = Tail(@)]
      /\ Head(requests[d]).kind = kind
  BY DEF TakeUp
<1> HIDE DEF R
<1>3. requests' \in [Devices -> Seq(R)] /\ Head(requests[d]) \in R
  BY <1>1, <1>2, QueueTail
<1>4. Submitted' = Submitted /\ UploadsHaveKey'
  BY DEF TakeUp, form_vars, Submitted, UploadsHaveKey
<1> QED BY <1>2, <1>3, <1>4 DEF R

\* Sending the whole-tree read keeps the types and keys.
LEMMA AskServerType ==
  ASSUME TypeOK, UploadsHaveKey, NEW d \in Devices, AskServer(d)
  PROVE  TypeOK' /\ UploadsHaveKey'
<1> DEFINE a == [sub |-> Head(requests[d]).sub, behind |-> Len(pend[d])]
<1>1. /\ requests' \in [Devices -> Seq(RequestsFor(Submitted))]
      /\ Head(requests[d]) \in RequestsFor(Submitted)
      /\ Head(requests[d]).kind = "ask"
      /\ Submitted' = Submitted
      /\ UploadsHaveKey'
  BY TakeUpType DEF AskServer
<1>2. Head(requests[d]).sub \in Submitted
  BY <1>1 DEF RequestsFor, Puts
<1>3. a \in AskedFor(Submitted)
  BY <1>2 DEF AskedFor, TypeOK
<1>4. asked' \in [Devices -> Seq(AskedFor(Submitted))]
  BY <1>3, QueueAppend DEF AskServer, TypeOK
<1>5. UNCHANGED <<server, view, pend, sent, events, form_vars, faults>>
  BY DEF AskServer, TakeUp
<1> QED BY <1>1, <1>4, <1>5 DEF TypeOK, form_vars, faults

\* Answering a read from the local view keeps the types and keys.
LEMMA ServeReadType ==
  ASSUME TypeOK, UploadsHaveKey, NEW d \in Devices, ServeRead(d)
  PROVE  TypeOK' /\ UploadsHaveKey'
<1> DEFINE r == Head(requests[d])
           e == ValueEvent(r.sub, r.path, view[d][r.path])
<1>1. /\ requests' \in [Devices -> Seq(RequestsFor(Submitted))]
      /\ r \in RequestsFor(Submitted)
      /\ r.kind = "get"
      /\ Submitted' = Submitted
      /\ UploadsHaveKey'
  BY TakeUpType DEF ServeRead
<1>2. r.sub \in Submitted /\ r.path \in TotalPaths
  BY <1>1 DEF RequestsFor, Puts
<1>3. view[d][r.path] \in Value \cup {Absent}
  BY <1>2, TotalPathsFact DEF TypeOK, Node
<1>4. e \in EventsFor(Submitted, Value \cup {Absent})
  BY <1>2, <1>3 DEF ValueEvent, EventsFor
<1>5. events' \in [Devices -> Seq(EventsFor(Submitted, Value \cup {Absent}))]
  BY <1>4, QueueAppend DEF ServeRead, TypeOK
<1>6. UNCHANGED <<server, view, asked, pend, sent, form_vars, faults>>
  BY DEF ServeRead, TakeUp
<1> QED BY <1>1, <1>5, <1>6 DEF TypeOK, form_vars, faults

\* Showing a write locally and queueing it keeps the types and keys.
LEMMA IssueWriteType ==
  ASSUME TypeOK, UploadsHaveKey, NEW d \in Devices, IssueWrite(d)
  PROVE  TypeOK' /\ UploadsHaveKey'
<1> DEFINE r == Head(requests[d])
<1>1. /\ requests' \in [Devices -> Seq(RequestsFor(Submitted))]
      /\ r \in RequestsFor(Submitted)
      /\ r.kind = "put"
      /\ Submitted' = Submitted
      /\ UploadsHaveKey'
  BY TakeUpType DEF IssueWrite
<1>2. r \in Puts
  BY <1>1 DEF RequestsFor
<1>3. r.path \in Paths /\ r.value \in Value
  BY <1>2 DEF Puts
<1>4. view' \in [Devices -> Node]
  BY <1>3 DEF IssueWrite, TypeOK, Node
<1>5. pend' \in [Devices -> Seq(Puts)]
  BY <1>2, QueueAppend DEF IssueWrite, TypeOK
<1>6. UNCHANGED <<server, asked, sent, events, form_vars, faults>>
  BY DEF IssueWrite, TakeUp
<1>7. \A x \in Devices : sent'[x] <= Len(pend'[x])
  BY <1>2, <1>6 DEF IssueWrite, TypeOK
<1> QED BY <1>1, <1>4, <1>5, <1>6, <1>7 DEF TypeOK, form_vars, faults

\* The server's applying the next write keeps the types and keys.
LEMMA ServerApplyType ==
  ASSUME TypeOK, UploadsHaveKey, NEW d \in Devices, ServerApply(d)
  PROVE  TypeOK' /\ UploadsHaveKey'
<1> DEFINE w == pend[d][sent[d] + 1]
<1>1. w \in Puts
  BY DEF ServerApply, TypeOK
<1>2. w.path \in Paths /\ w.value \in Value
  BY <1>1 DEF Puts
<1>3. server' \in Node
  BY <1>2 DEF ServerApply, TypeOK, Node
<1>4. UNCHANGED <<view, requests, asked, pend, events, form_vars, faults>>
  BY DEF ServerApply
<1>5. sent' \in [Devices -> Nat] /\ \A x \in Devices : sent'[x] <= Len(pend'[x])
  BY <1>4 DEF ServerApply, TypeOK
<1>6. Submitted' = Submitted
  BY <1>4 DEF form_vars, Submitted
<1>7. TypeOK'
  BY <1>3, <1>4, <1>5, <1>6 DEF TypeOK, form_vars, faults
<1> QED BY <1>4, <1>6, <1>7 DEF UploadsHaveKey, form_vars

\* The server's state under the outstanding writes is a node.
LEMMA RefreshedType ==
  ASSUME TypeOK, NEW d \in Devices
  PROVE  Refreshed(d) \in Node
BY DEF Refreshed, TypeOK, Node

\* Dropping the acknowledged writes keeps the view and the queue well-typed.
LEMMA CatchUpType ==
  ASSUME TypeOK, UploadsHaveKey, NEW d \in Devices, CatchUp(d)
  PROVE  /\ view' \in [Devices -> Node]
         /\ pend' \in [Devices -> Seq(Puts)]
         /\ sent' \in [Devices -> Nat]
         /\ \A x \in Devices : sent'[x] <= Len(pend'[x])
         /\ UNCHANGED <<server, requests, form_vars, faults>>
         /\ Submitted' = Submitted
         /\ UploadsHaveKey'
<1>1. Unacked(d) \in Seq(Puts) /\ Len(Unacked(d)) \in Nat
  <2>1. pend[d] \in Seq(Puts) /\ sent[d] + 1 \in 1..Len(pend[d]) + 1
        /\ Len(pend[d]) \in Nat
    BY DEF TypeOK
  <2> QED BY <2>1, SubSeqProperties DEF Unacked
<1>2. view' \in [Devices -> Node]
  BY RefreshedType DEF CatchUp, TypeOK
<1>3. pend' \in [Devices -> Seq(Puts)] /\ sent' \in [Devices -> Nat]
  BY <1>1 DEF CatchUp, TypeOK
<1>4. \A x \in Devices : sent'[x] <= Len(pend'[x])
  BY <1>1 DEF CatchUp, TypeOK
<1>5. UNCHANGED <<server, requests, form_vars, faults>>
  BY DEF CatchUp
<1>6. Submitted' = Submitted /\ UploadsHaveKey'
  BY <1>5 DEF form_vars, Submitted, UploadsHaveKey
<1> QED BY <1>2, <1>3, <1>4, <1>5, <1>6

\* A read that waits for fewer writes is still a well-typed read.
LEMMA StillBehindType ==
  ASSUME TypeOK, NEW d \in Devices, NEW a \in AskedFor(Submitted)
  PROVE  StillBehind(d, a) \in AskedFor(Submitted)
<1>1. a.behind \in Nat /\ sent[d] \in Nat
  BY DEF AskedFor, TypeOK
<1>2. StillBehind(d, a)
        = [sub |-> a.sub, behind |-> IF a.behind > sent[d] THEN a.behind - sent[d] ELSE 0]
  BY DEF StillBehind, AskedFor
<1> QED BY <1>1, <1>2 DEF AskedFor

\* Acknowledgements and pushes keep the types and keys.
LEMMA SyncType ==
  ASSUME TypeOK, UploadsHaveKey, NEW d \in Devices, Sync(d)
  PROVE  TypeOK' /\ UploadsHaveKey'
<1> DEFINE q == [i \in DOMAIN asked[d] |-> StillBehind(d, asked[d][i])]
<1>1. q \in Seq(AskedFor(Submitted))
  <2>1. asked[d] \in Seq(AskedFor(Submitted))
    BY DEF TypeOK
  <2>2. DOMAIN asked[d] = 1 .. Len(asked[d]) /\ Len(asked[d]) \in Nat
        /\ \A i \in DOMAIN asked[d] : asked[d][i] \in AskedFor(Submitted)
    BY <2>1
  <2>3. q \in [1..Len(asked[d]) -> AskedFor(Submitted)]
    BY <2>2, StillBehindType
  <2> QED BY <2>2, <2>3, SeqDef
<1>2. asked' \in [Devices -> Seq(AskedFor(Submitted))]
  BY <1>1 DEF Sync, TypeOK
<1>3. CatchUp(d) /\ UNCHANGED events
  BY DEF Sync
<1> QED BY <1>2, <1>3, CatchUpType DEF TypeOK, form_vars, faults

\* The answer to the whole-tree read keeps the types and keys.
LEMMA AnswerAskType ==
  ASSUME TypeOK, UploadsHaveKey, NEW d \in Devices, AnswerAsk(d)
  PROVE  TypeOK' /\ UploadsHaveKey'
<1> DEFINE q == [i \in 1..Len(asked[d]) - 1 |-> StillBehind(d, asked[d][i + 1])]
           e == ItemEvent(Head(asked[d]).sub, \E p \in Paths : Refreshed(d)[p] # Absent)
<1>1. asked[d] \in Seq(AskedFor(Submitted)) /\ asked[d] # <<>>
  BY DEF TypeOK, AnswerAsk
<1>2. Len(asked[d]) - 1 \in Nat
      /\ \A i \in 1..Len(asked[d]) : asked[d][i] \in AskedFor(Submitted)
  BY <1>1
<1>3. q \in [1..Len(asked[d]) - 1 -> AskedFor(Submitted)]
  BY <1>2, StillBehindType
<1>4. q \in Seq(AskedFor(Submitted))
  <2> HIDE DEF q
  <2>1. \E m \in Nat : q \in [1..m -> AskedFor(Submitted)]
    BY <1>2, <1>3
  <2> QED BY <2>1, SeqDef, Zenon
<1>5. asked' \in [Devices -> Seq(AskedFor(Submitted))]
  BY <1>4 DEF AnswerAsk, TypeOK
<1>6. Head(asked[d]).sub \in Submitted
  <2>1. Head(asked[d]) \in AskedFor(Submitted)
    BY <1>1
  <2> QED BY <2>1 DEF AskedFor
<1>7. e \in EventsFor(Submitted, Value \cup {Absent})
  BY <1>6 DEF ItemEvent, EventsFor
<1>8. events' \in [Devices -> Seq(EventsFor(Submitted, Value \cup {Absent}))]
  BY <1>7, QueueAppend DEF AnswerAsk, TypeOK
<1>9. CatchUp(d)
  BY DEF AnswerAsk
<1> QED BY <1>5, <1>8, <1>9, CatchUpType DEF TypeOK, form_vars, faults

\* A new connection keeps the types and keys.
LEMMA ReconnectType ==
  ASSUME TypeOK, UploadsHaveKey, NEW d \in Devices, Reconnect(d)
  PROVE  TypeOK' /\ UploadsHaveKey'
<1> DEFINE q == [i \in DOMAIN asked[d] |-> [asked[d][i] EXCEPT !.behind = 0]]
<1>1. q \in Seq(AskedFor(Submitted))
  <2>1. asked[d] \in Seq(AskedFor(Submitted))
    BY DEF TypeOK
  <2>2. DOMAIN asked[d] = 1 .. Len(asked[d]) /\ Len(asked[d]) \in Nat
        /\ \A i \in DOMAIN asked[d] : asked[d][i] \in AskedFor(Submitted)
    BY <2>1
  <2>3. \A a \in AskedFor(Submitted) : [a EXCEPT !.behind = 0] \in AskedFor(Submitted)
    BY DEF AskedFor
  <2>4. q \in [1..Len(asked[d]) -> AskedFor(Submitted)]
    BY <2>2, <2>3
  <2> QED BY <2>2, <2>4, SeqDef
<1>2. asked' \in [Devices -> Seq(AskedFor(Submitted))]
  BY <1>1 DEF Reconnect, TypeOK
<1>3. UNCHANGED <<server, view, requests, pend, events, form_vars, status, kills>>
  BY DEF Reconnect
<1>4. sent' \in [Devices -> Nat] /\ (\A x \in Devices : sent'[x] <= Len(pend'[x]))
      /\ reconnects' \in Nat
  BY <1>3 DEF Reconnect, TypeOK
<1>5. Submitted' = Submitted
  BY <1>3 DEF form_vars, Submitted
<1>6. TypeOK'
  BY <1>2, <1>3, <1>4, <1>5 DEF TypeOK, form_vars
<1> QED BY <1>3, <1>5, <1>6 DEF UploadsHaveKey, form_vars

\* A press of Submit neither starts an upload nor takes a key away.
LEMMA PressKeepsKeys ==
  ASSUME TypeOK, UploadsHaveKey, NEW d \in Devices, NEW r \in Ratings,
         SubmitPressed(d, r)
  PROVE  UploadsHaveKey'
<1>1. \A k \in Submitted : k \in Submitted' /\ subs'[k] = subs[k]
  BY DEF SubmitPressed, TypeOK, Submitted
<1>2. upload' = upload /\ uniqueReviewID' = uniqueReviewID
  BY DEF SubmitPressed
<1> QED BY <1>1, <1>2 DEF UploadsHaveKey

\* TypeOK /\ UploadsHaveKey is inductive: every action of the app, of Firebase
\* and of the environment keeps both.
LEMMA TypeStep ==
  TypeOK /\ UploadsHaveKey /\ [Next]_vars => TypeOK' /\ UploadsHaveKey'
<1> SUFFICES ASSUME TypeOK, UploadsHaveKey, [Next]_vars
             PROVE  TypeOK' /\ UploadsHaveKey'
  OBVIOUS
<1>1. CASE UNCHANGED vars
  BY <1>1 DEF vars, client, form_vars, faults, TypeOK, UploadsHaveKey, Submitted
<1>2. CASE Next
  <2> PICK d \in Devices :
        \/ \E r \in Ratings : SubmitPressed(d, r)
        \/ MainQueue(d) \/ Uploads(d) \/ FirebaseQueue(d)
        \/ ServerApply(d) \/ Sync(d) \/ AnswerAsk(d)
        \/ Reconnect(d) \/ Kill(d) \/ Relaunch(d)
    BY <1>2 DEF Next
  <2>1. CASE \E r \in Ratings : SubmitPressed(d, r)
    BY <2>1, PressType, PressKeepsKeys
  <2>2. CASE MainQueue(d)
    BY <2>2, ItemExistsType, ItemMissingType, CastFailsType, CountArrivedType,
       TotalArrivedType, AverageArrivedType DEF MainQueue
  <2>3. CASE Uploads(d)
    BY <2>3, UploadFinishedType DEF Uploads
  <2>4. CASE FirebaseQueue(d)
    BY <2>4, AskServerType, ServeReadType, IssueWriteType DEF FirebaseQueue
  <2>5. CASE ServerApply(d) \/ Sync(d) \/ AnswerAsk(d)
    BY <2>5, ServerApplyType, SyncType, AnswerAskType
  <2>6. CASE Reconnect(d) \/ Kill(d) \/ Relaunch(d)
    BY <2>6, ReconnectType, KillType, RelaunchType
  <2> QED BY <2>1, <2>2, <2>3, <2>4, <2>5, <2>6
<1> QED BY <1>1, <1>2

\* Type correctness, for every number of devices and every bound: the node, the
\* queues and the forms of submitReview hold only what they may, and every
\* queued read, answer and callback belongs to a submission that was made.
THEOREM TypeCorrect == Spec => []TypeOK
<1>1. Init => TypeOK /\ UploadsHaveKey
  BY TypeInit DEF Init, UploadsHaveKey
<1>2. TypeOK /\ UploadsHaveKey /\ [Next]_vars => (TypeOK /\ UploadsHaveKey)'
  BY TypeStep
<1> QED BY <1>1, <1>2, PTL DEF Spec

\* When an image upload ends, self.uniqueReviewID is not nil: the forced unwrap
\* in submitReview's completion of uploadImage never traps.
THEOREM KeyForEveryUpload == Spec => []UploadsHaveKey
<1>1. Init => TypeOK /\ UploadsHaveKey
  BY TypeInit DEF Init, UploadsHaveKey
<1>2. TypeOK /\ UploadsHaveKey /\ [Next]_vars => (TypeOK /\ UploadsHaveKey)'
  BY TypeStep
<1> QED BY <1>1, <1>2, PTL DEF Spec

------------------------

\* The count, the total and the average are there, for the server and in every
\* device's view of the item.
TotalsPresent ==
    \A p \in TotalPaths :
        /\ server[p] # Absent
        /\ \A d \in Devices : view[d][p] # Absent

\* Every answer to a read of a total that waits for the main queue has data.
ReadsPresent ==
    \A d \in Devices : \A i \in DOMAIN events[d] :
        events[d][i].kind = "value" => events[d][i].value # Absent

\* The inductive invariant of the second part.
TrapInv == TypeOK /\ TotalsPresent /\ ReadsPresent /\ NoTrap

\* A reviewed item starts with its three totals, on the server and in every
\* device's view.
LEMMA SeedPresent ==
  ASSUME SeedCount # 0, Init
  PROVE  TotalsPresent /\ ReadsPresent /\ NoTrap
<1>1. \A p \in TotalPaths : SeedNode[p] \in Value
  BY SeedAssumption, TotalPathsFact, WholeIsValue
  DEF SeedNode, TotalPaths, Value, Whole
<1>2. \A p \in TotalPaths : SeedNode[p] # Absent
  BY <1>1, AbsentAssumption
<1> QED BY <1>2 DEF Init, TotalsPresent, ReadsPresent, NoTrap

\* Running a callback takes an answer away and changes no other.
LEMMA TailPresent ==
  ASSUME TypeOK, ReadsPresent, NEW d \in Devices, NEW kind, Callback(d, kind)
  PROVE  ReadsPresent'
<1> SUFFICES ASSUME NEW x \in Devices, NEW i \in DOMAIN events'[x],
                    events'[x][i].kind = "value"
             PROVE  events'[x][i].value # Absent
  BY DEF ReadsPresent
<1>1. CASE x # d
  BY <1>1 DEF Callback, TypeOK, ReadsPresent
<1>2. CASE x = d
  <2> DEFINE E == EventsFor(Submitted, Value \cup {Absent})
  <2>1. events[d] \in Seq(E) /\ events[d] # <<>> /\ events'[d] = Tail(events[d])
    BY DEF Callback, TypeOK
  <2> HIDE DEF E
  <2>2. i + 1 \in DOMAIN events[d] /\ events'[d][i] = events[d][i + 1]
    BY <1>2, <2>1
  <2> QED BY <1>2, <2>2 DEF ReadsPresent
<1> QED BY <1>1, <1>2

\* An answer that carries data may join the main queue.
LEMMA AppendPresent ==
  ASSUME TypeOK, ReadsPresent, NEW d \in Devices, NEW e,
         e.kind = "value" => e.value # Absent,
         events' = [events EXCEPT ![d] = Append(@, e)]
  PROVE  ReadsPresent'
<1> SUFFICES ASSUME NEW x \in Devices, NEW i \in DOMAIN events'[x],
                    events'[x][i].kind = "value"
             PROVE  events'[x][i].value # Absent
  BY DEF ReadsPresent
<1>1. CASE x # d
  BY <1>1 DEF TypeOK, ReadsPresent
<1>2. CASE x = d
  <2> DEFINE E == EventsFor(Submitted, Value \cup {Absent})
  <2>1. events[d] \in Seq(E) /\ events'[d] = Append(events[d], e)
    BY DEF TypeOK
  <2> HIDE DEF E
  <2>2. \/ i \in DOMAIN events[d] /\ events'[d][i] = events[d][i]
        \/ events'[d][i] = e
    BY <1>2, <2>1
  <2> QED BY <1>2, <2>2 DEF ReadsPresent
<1> QED BY <1>1, <1>2

\* If every answer waiting carries data, no forced cast of submitReview fails.
LEMMA NoCastFails ==
  ASSUME TypeOK, ReadsPresent, NEW d \in Devices
  PROVE  ~CastFails(d)
<1> SUFFICES ASSUME CastFails(d) PROVE FALSE OBVIOUS
<1> DEFINE E == EventsFor(Submitted, Value \cup {Absent})
<1>1. events[d] \in Seq(E) /\ events[d] # <<>>
  BY DEF TypeOK, CastFails
<1> HIDE DEF E
<1>2. 1 \in DOMAIN events[d] /\ Head(events[d]) = events[d][1]
  BY <1>1
<1>3. events[d][1].kind = "value" /\ events[d][1].value = Absent
  BY <1>2 DEF CastFails
<1> QED BY <1>2, <1>3 DEF ReadsPresent

\* Acknowledgements and pushes do not make a total disappear from the view.
LEMMA CatchUpPresent ==
  ASSUME TypeOK, TotalsPresent, NEW d \in Devices, CatchUp(d)
  PROVE  TotalsPresent'
<1>1. \A p \in TotalPaths : Refreshed(d)[p] # Absent
  BY TotalPathsFact DEF TotalsPresent, Refreshed
<1>2. server' = server /\ view' = [view EXCEPT ![d] = Refreshed(d)]
  BY DEF CatchUp
<1> QED BY <1>1, <1>2 DEF TotalsPresent, TypeOK

\* TrapInv is inductive: no write of the app removes a total, so every read of
\* one finds data.
LEMMA TrapStep == TrapInv /\ TypeOK' /\ [Next]_vars => TrapInv'
<1> SUFFICES ASSUME TrapInv, TypeOK', [Next]_vars
             PROVE  TotalsPresent' /\ ReadsPresent' /\ NoTrap'
  BY DEF TrapInv
<1> USE DEF TrapInv
<1>1. CASE UNCHANGED vars
  BY <1>1 DEF vars, client, faults, TotalsPresent, ReadsPresent, NoTrap
<1>2. CASE Next
  <2> PICK d \in Devices :
        \/ \E r \in Ratings : SubmitPressed(d, r)
        \/ MainQueue(d) \/ Uploads(d) \/ FirebaseQueue(d)
        \/ ServerApply(d) \/ Sync(d) \/ AnswerAsk(d)
        \/ Reconnect(d) \/ Kill(d) \/ Relaunch(d)
    BY <1>2 DEF Next
  <2>1. CASE \/ \E r \in Ratings : SubmitPressed(d, r)
             \/ Uploads(d) \/ AskServer(d) \/ Reconnect(d)
    <3>1. UNCHANGED <<server, view, events, status>>
      BY <2>1 DEF SubmitPressed, Uploads, UploadFinished, AskServer, TakeUp,
                  Reconnect, form_vars, faults
    <3> QED BY <3>1 DEF TotalsPresent, ReadsPresent, NoTrap
  <2>2. CASE MainQueue(d)
    <3>1. ~CastFails(d) BY NoCastFails
    <3>2. UNCHANGED <<server, view, status>> /\ \E kind \in {"item", "value"} : Callback(d, kind)
      BY <2>2, <3>1 DEF MainQueue, ItemExists, ItemMissing, FinishSubmit, CountArrived,
                        TotalArrived, AverageArrived, ValueArrived, faults
    <3>3. ReadsPresent' BY <3>2, TailPresent
    <3> QED BY <3>2, <3>3 DEF TotalsPresent, NoTrap
  <2>3. CASE ServeRead(d)
    <3> DEFINE r == Head(requests[d])
               e == ValueEvent(r.sub, r.path, view[d][r.path])
    <3>1. r \in RequestsFor(Submitted) /\ r.kind = "get"
      <4> DEFINE R == RequestsFor(Submitted)
      <4>1. requests \in [Devices -> Seq(R)] /\ requests[d] # <<>> /\ r.kind = "get"
        BY <2>3 DEF TypeOK, ServeRead, TakeUp
      <4> HIDE DEF R
      <4>2. r \in R BY <4>1
      <4> QED BY <4>1, <4>2 DEF R
    <3>2. r.path \in TotalPaths BY <3>1 DEF RequestsFor, Puts
    <3>3. e.value # Absent BY <3>2 DEF TotalsPresent, ValueEvent
    <3>4. events' = [events EXCEPT ![d] = Append(@, e)] BY <2>3 DEF ServeRead
    <3>5. ReadsPresent' BY <3>3, <3>4, AppendPresent
    <3>6. UNCHANGED <<server, view, status>> BY <2>3 DEF ServeRead, TakeUp, faults
    <3> QED BY <3>5, <3>6 DEF TotalsPresent, NoTrap
  <2>4. CASE IssueWrite(d)
    <3> DEFINE r == Head(requests[d])
    <3>1. r \in Puts
      <4> DEFINE R == RequestsFor(Submitted)
      <4>1. requests \in [Devices -> Seq(R)] /\ requests[d] # <<>> /\ r.kind = "put"
        BY <2>4 DEF TypeOK, IssueWrite, TakeUp
      <4> HIDE DEF R
      <4>2. r \in R BY <4>1
      <4> QED BY <4>1, <4>2 DEF R, RequestsFor
    <3>2. r.value # Absent BY <3>1, AbsentAssumption DEF Puts
    <3>3. view' = [view EXCEPT ![d][r.path] = r.value]
          /\ UNCHANGED <<server, events, status>>
      BY <2>4 DEF IssueWrite, TakeUp, faults
    <3>4. TotalsPresent'
      BY <3>2, <3>3, TotalPathsFact DEF TotalsPresent, TypeOK, Node
    <3> QED BY <3>3, <3>4 DEF ReadsPresent, NoTrap
  <2>5. CASE ServerApply(d)
    <3> DEFINE w == pend[d][sent[d] + 1]
    <3>1. w \in Puts BY <2>5 DEF ServerApply, TypeOK
    <3>2. w.value # Absent BY <3>1, AbsentAssumption DEF Puts
    <3>3. server' = [server EXCEPT ![w.path] = w.value]
          /\ UNCHANGED <<view, events, status>>
      BY <2>5 DEF ServerApply, faults
    <3>4. TotalsPresent'
      BY <3>2, <3>3, TotalPathsFact DEF TotalsPresent, TypeOK, Node
    <3> QED BY <3>3, <3>4 DEF ReadsPresent, NoTrap
  <2>6. CASE Sync(d)
    <3>1. CatchUp(d) /\ UNCHANGED <<events, status>>
      BY <2>6 DEF Sync, CatchUp, faults
    <3> QED BY <3>1, CatchUpPresent DEF ReadsPresent, NoTrap
  <2>7. CASE AnswerAsk(d)
    <3> DEFINE e == ItemEvent(Head(asked[d]).sub,
                              \E p \in Paths : Refreshed(d)[p] # Absent)
    <3>1. CatchUp(d) /\ status' = status
          /\ events' = [events EXCEPT ![d] = Append(@, e)]
      BY <2>7 DEF AnswerAsk, CatchUp, faults
    <3>2. e.kind # "value" BY DEF ItemEvent
    <3>3. ReadsPresent' BY <3>1, <3>2, AppendPresent
    <3> QED BY <3>1, <3>3, CatchUpPresent DEF NoTrap
  <2>8. CASE Kill(d)
    <3>1. UNCHANGED <<server, view>> /\ events' = [events EXCEPT ![d] = <<>>]
          /\ status' = [status EXCEPT ![d] = "killed"]
      BY <2>8 DEF Kill, GoesDown
    <3> QED BY <3>1 DEF TotalsPresent, ReadsPresent, NoTrap, TypeOK
  <2>9. CASE Relaunch(d)
    <3>1. UNCHANGED <<server, events>> /\ view' = [view EXCEPT ![d] = server]
          /\ status' = [status EXCEPT ![d] = "running"]
      BY <2>9 DEF Relaunch
    <3> QED BY <3>1 DEF TotalsPresent, ReadsPresent, NoTrap, TypeOK
  <2> QED BY <2>1, <2>2, <2>3, <2>4, <2>5, <2>6, <2>7, <2>8, <2>9 DEF FirebaseQueue
<1> QED BY <1>1, <1>2

\* On an item that already has a review, snapshot.value as! Int and as! Double
\* never fail in submitReview, whatever the devices, presses, kills and
\* reconnections. (For an unreviewed item this is false: see the runs.)
THEOREM ReviewedItemNeverTraps ==
  ASSUME SeedCount # 0
  PROVE  Spec => []NoTrap
<1>1. Init => TrapInv
  BY TypeInit, SeedPresent DEF TrapInv
<1>2. TrapInv /\ TypeOK' /\ [Next]_vars => TrapInv'
  BY TrapStep
<1>3. TrapInv => NoTrap
  BY DEF TrapInv
<1> QED BY <1>1, <1>2, <1>3, TypeCorrect, PTL DEF Spec
------------------------
(* Third part: what is written to the node of a review belongs to it.      *)

Elements(q) == {q[i] : i \in DOMAIN q}

\* What a sequence operation does to the set of the elements.
LEMMA ElementsFacts ==
  ASSUME NEW S, NEW q \in Seq(S)
  PROVE  /\ \A x \in S : Elements(Append(q, x)) = Elements(q) \cup {x}
         /\ \A xs \in Seq(S) : Elements(q \o xs) = Elements(q) \cup Elements(xs)
         /\ q # <<>> => Elements(Tail(q)) \subseteq Elements(q) /\ Head(q) \in Elements(q)
         /\ \A m \in 1..Len(q) + 1 : Elements(SubSeq(q, m, Len(q))) \subseteq Elements(q)
         /\ Elements(q) \subseteq S
<1>1. ASSUME NEW x \in S PROVE Elements(Append(q, x)) = Elements(q) \cup {x}
  <2>1. DOMAIN Append(q, x) = 1 .. Len(q) + 1 /\ Append(q, x)[Len(q) + 1] = x
        /\ \A i \in 1..Len(q) : Append(q, x)[i] = q[i]
    OBVIOUS
  <2>2. Len(q) \in Nat /\ DOMAIN q = 1..Len(q) OBVIOUS
  <2> DEFINE r == Append(q, x)
  <2> HIDE DEF r
  <2>3. Elements(r) \subseteq Elements(q) \cup {x}
    BY <2>1, <2>2 DEF Elements, r
  <2>4. Elements(q) \cup {x} \subseteq Elements(r)
    BY <2>1, <2>2 DEF Elements, r
  <2> QED BY <2>3, <2>4 DEF r
<1>2. ASSUME NEW xs \in Seq(S) PROVE Elements(q \o xs) = Elements(q) \cup Elements(xs)
  <2> DEFINE r == q \o xs
  <2>1. /\ DOMAIN r = 1..Len(q) + Len(xs)
        /\ \A i \in 1..Len(q) : r[i] = q[i]
        /\ \A i \in 1..Len(xs) : r[Len(q) + i] = xs[i]
    OBVIOUS
  <2>2. /\ Len(q) \in Nat /\ DOMAIN q = 1..Len(q)
        /\ Len(xs) \in Nat /\ DOMAIN xs = 1..Len(xs)
    OBVIOUS
  <2> HIDE DEF r
  <2>3. ASSUME NEW i \in DOMAIN r PROVE r[i] \in Elements(q) \cup Elements(xs)
    <3>1. CASE i <= Len(q)
      BY <2>1, <2>2, <3>1 DEF Elements
    <3>2. CASE i > Len(q)
      <4>1. i - Len(q) \in 1 .. Len(xs) /\ i = Len(q) + (i - Len(q))
        BY <2>1, <2>2, <3>2
      <4> QED BY <2>1, <2>2, <4>1 DEF Elements
    <3> QED BY <3>1, <3>2, <2>1, <2>2
  <2>4. ASSUME NEW i \in DOMAIN q PROVE q[i] \in Elements(r)
    <3>1. i \in DOMAIN r /\ r[i] = q[i]
      BY <2>1, <2>2
    <3> QED BY <3>1 DEF Elements
  <2>5. ASSUME NEW i \in DOMAIN xs PROVE xs[i] \in Elements(r)
    <3>1. Len(q) + i \in DOMAIN r /\ r[Len(q) + i] = xs[i]
      BY <2>1, <2>2
    <3> QED BY <3>1 DEF Elements
  <2>6. Elements(r) = Elements(q) \cup Elements(xs)
    BY <2>3, <2>4, <2>5 DEF Elements
  <2> QED BY <2>6 DEF r
<1>3. ASSUME q # <<>> PROVE Elements(Tail(q)) \subseteq Elements(q) /\ Head(q) \in Elements(q)
  <2>1. Head(q) = q[1] /\ 1 \in DOMAIN q
    BY <1>3
  <2> DEFINE r == Tail(q)
  <2>2. \A i \in DOMAIN r : r[i] = q[i + 1] /\ i + 1 \in DOMAIN q
    BY <1>3
  <2> HIDE DEF r
  <2>3. Elements(r) \subseteq Elements(q)
    BY <2>2 DEF Elements
  <2> QED BY <2>1, <2>3 DEF Elements, r
<1>4. ASSUME NEW m \in 1..Len(q) + 1
      PROVE  Elements(SubSeq(q, m, Len(q))) \subseteq Elements(q)
  <2> DEFINE r == SubSeq(q, m, Len(q))
  <2>1. DOMAIN r = 1 .. Len(q) - m + 1 /\ \A i \in 1..Len(q) - m + 1 : r[i] = q[m + i - 1]
    <3>1. m \in Nat /\ Len(q) \in Nat OBVIOUS
    <3> QED BY <3>1, SubSeqProperties
  <2>2. ASSUME NEW i \in 1..Len(q) - m + 1 PROVE m + i - 1 \in DOMAIN q
    <3>1. DOMAIN q = 1 .. Len(q) /\ Len(q) \in Nat OBVIOUS
    <3> QED BY <3>1
  <2> HIDE DEF r
  <2>3. Elements(r) \subseteq Elements(q)
    BY <2>1, <2>2 DEF Elements
  <2> QED BY <2>3 DEF r
<1>5. Elements(q) \subseteq S
  BY DEF Elements
<1> QED BY <1>1, <1>2, <1>3, <1>4, <1>5

\* What the node of a review may hold at p: the date, the text and the rating it was
\* submitted with and, if forms take one press, the URL of its own image.
Own(p, v) ==
  p \in ReviewPaths =>
    /\ p[2] \in Submitted
    /\ p[1] # "imageURL" \/ MaxTaps <= 1 =>
         v = Whole(IF p[1] = "rating" THEN subs[p[2]].rating ELSE p[2])

\* It holds no more than that, and no write on its way would change it.
WritesAreOwn ==
  /\ \A p \in Paths : server[p] # Absent => Own(p, server[p])
  /\ \A d \in Devices :
       /\ \A w \in Elements(requests[d]) : w.kind = "put" => Own(w.path, w.value)
       /\ \A w \in Elements(pend[d]) : Own(w.path, w.value)

\* The key a form's controller remembers is that of a review submitted in the form.
KeysAreOfTheForm ==
  \A f \in Subs : uniqueReviewID[f] # 0 =>
    uniqueReviewID[f] \in Submitted /\ subs[uniqueReviewID[f]].form = f

OnePressPerForm ==
  MaxTaps <= 1 => \A m, n \in Submitted : subs[m].form = subs[n].form => m = n

\* The inductive invariant of the third part.
OwnInv == TypeOK /\ UploadsHaveKey /\ WritesAreOwn /\ KeysAreOfTheForm /\ OnePressPerForm

\* Only a press adds a submission, and only the server changes what it holds.
LEMMA StepsWithoutPress ==
  ASSUME NEW d \in Devices,
         \/ MainQueue(d) \/ Uploads(d) \/ FirebaseQueue(d)
         \/ ServerApply(d) \/ Sync(d) \/ AnswerAsk(d)
         \/ Reconnect(d) \/ Kill(d) \/ Relaunch(d)
  PROVE  subs' = subs /\ (ServerApply(d) \/ server' = server)
<1>1. CASE ItemExists(d) \/ ItemMissing(d)
  BY <1>1 DEF ItemExists, ItemMissing, FinishSubmit
<1>2. CASE CastFails(d) \/ Kill(d)
  BY <1>2 DEF CastFails, Trap, Kill, GoesDown
<1>3. CASE CountArrived(d) \/ TotalArrived(d) \/ AverageArrived(d)
  BY <1>3 DEF CountArrived, TotalArrived, AverageArrived, ValueArrived
<1>4. CASE Uploads(d)
  BY <1>4 DEF Uploads, UploadFinished
<1>5. CASE FirebaseQueue(d)
  BY <1>5 DEF FirebaseQueue, AskServer, ServeRead, IssueWrite, TakeUp, form_vars
<1>6. CASE ServerApply(d) \/ Reconnect(d) \/ Relaunch(d)
  BY <1>6 DEF ServerApply, Reconnect, Relaunch, form_vars
<1>7. CASE Sync(d) \/ AnswerAsk(d)
  BY <1>7 DEF Sync, AnswerAsk, CatchUp, form_vars
<1> QED BY <1>1, <1>2, <1>3, <1>4, <1>5, <1>6, <1>7 DEF MainQueue

\* Submissions are only added.
LEMMA SubmissionsStay ==
  ASSUME TypeOK, [Next]_vars, NEW n \in Submitted
  PROVE  n \in Submitted' /\ subs'[n] = subs[n]
<1>1. subs' = subs \/ \E s : subs' = Append(subs, s)
  <2>1. ASSUME NEW d \in Devices, NEW r \in Ratings, SubmitPressed(d, r)
        PROVE  \E s : subs' = Append(subs, s)
    BY <2>1 DEF SubmitPressed
  <2>2. CASE UNCHANGED vars
    BY <2>2 DEF vars, form_vars
  <2>3. CASE Next
    BY <2>1, <2>3, StepsWithoutPress DEF Next
  <2> QED BY <2>2, <2>3
<1>2. ASSUME NEW s, subs' = Append(subs, s) PROVE n \in Submitted' /\ subs'[n] = subs[n]
  <2>1. subs \in Seq(Submissions \cup {s})
    <3>1. subs \in Seq(Submissions) BY DEF TypeOK
    <3> QED BY <3>1, SeqDef
  <2> QED BY <1>2, <2>1 DEF Submitted
<1> QED BY <1>1, <1>2 DEF Submitted

\* So what belongs to a review stays its own.
LEMMA OwnStays ==
  ASSUME TypeOK, [Next]_vars, NEW p, NEW v, Own(p, v)
  PROVE  Own(p, v)'
BY SubmissionsStay DEF Own

\* Writes of the totals are no writes of a review.
LEMMA TotalsAreNoReviews == TotalPaths \cap ReviewPaths = {}
BY SubsFacts DEF TotalPaths, ReviewPaths, Count, TotalRatings, AverageRating

\* Requests that are issued may only write what belongs there.
LEMMA IssueKeepsOwn ==
  ASSUME TypeOK, WritesAreOwn, [Next]_vars, NEW d \in Devices,
         NEW rs \in Seq(RequestsFor(Submitted)), Issue(d, rs),
         \A w \in Elements(rs) : w.kind = "put" => Own(w.path, w.value),
         UNCHANGED <<server, pend>>
  PROVE  WritesAreOwn'
<1>1. \A x \in Devices : \A w \in Elements(requests'[x]) :
        w.kind = "put" => Own(w.path, w.value)
  <2> SUFFICES ASSUME NEW x \in Devices, NEW w \in Elements(requests'[x]), w.kind = "put"
               PROVE  Own(w.path, w.value)
    OBVIOUS
  <2>1. CASE x # d
    BY <2>1 DEF Issue, TypeOK, WritesAreOwn
  <2>2. CASE x = d
    <3>1. requests'[d] = requests[d] \o rs /\ requests[d] \in Seq(RequestsFor(Submitted))
      BY DEF Issue, TypeOK
    <3>2. w \in Elements(requests[d]) \/ w \in Elements(rs)
      BY <2>2, <3>1, ElementsFacts
    <3> QED BY <3>2 DEF WritesAreOwn
  <2> QED BY <2>1, <2>2
<1> QED BY <1>1, OwnStays DEF WritesAreOwn

\* A step that issues nothing but takes requests up, drops writes that are acknowledged
\* or loses some brings nothing new.
LEMMA NothingNewKeepsOwn ==
  ASSUME TypeOK, WritesAreOwn, [Next]_vars,
         \A p \in Paths : server'[p] # Absent => Own(p, server'[p]),
         \A d \in Devices : \A w \in Elements(requests'[d]) :
           w \in Elements(requests[d]) \/ w.kind # "put",
         \A d \in Devices : \A w \in Elements(pend'[d]) :
           w \in Elements(pend[d]) \/ (w \in Elements(requests[d]) /\ w.kind = "put")
  PROVE  WritesAreOwn'
<1>1. \A d \in Devices : \A w \in Elements(requests'[d]) :
        w.kind = "put" => Own(w.path, w.value)
  BY DEF WritesAreOwn
<1>2. \A d \in Devices : \A w \in Elements(pend'[d]) : Own(w.path, w.value)
  BY DEF WritesAreOwn
<1> QED BY <1>1, <1>2, OwnStays DEF WritesAreOwn

\* The writes of a review carry the number of the review they are for.
LEMMA ReviewWritesAreOwn ==
  ASSUME TypeOK, NEW n \in Submitted, NEW w \in Elements(ReviewWrites(n))
  PROVE  Own(w.path, w.value)
<1>1. PICK i \in DOMAIN ReviewFields :
        w = Put(<<ReviewFields[i], n>>,
                Whole(IF ReviewFields[i] = "rating" THEN subs[n].rating ELSE n))
  BY DEF Elements, ReviewWrites
<1>2. ReviewFields[i] # "imageURL"
  BY FieldsAssumption
<1>3. /\ w.path = <<ReviewFields[i], n>>
      /\ w.value = Whole(IF ReviewFields[i] = "rating" THEN subs[n].rating ELSE n)
  BY <1>1 DEF Put
<1> QED BY <1>2, <1>3 DEF Own

\* A write of a total goes to the node of no review.
LEMMA TotalWritesAreOwn ==
  ASSUME NEW w, w.path \in TotalPaths
  PROVE  Own(w.path, w.value)
BY TotalsAreNoReviews DEF Own

------------------------
(* The actions. *)

\* A press of Submit asks whether the item exists and writes nothing.
LEMMA PressKeepsOwn ==
  ASSUME OwnInv, NEW d \in Devices, NEW r \in Ratings, SubmitPressed(d, r), [Next]_vars
  PROVE  WritesAreOwn' /\ KeysAreOfTheForm' /\ OnePressPerForm'
<1> DEFINE n == Len(subs) + 1
           f == IF form[d] = 0 THEN n ELSE form[d]
<1> USE DEF OwnInv
<1>1. /\ requests' = [requests EXCEPT ![d] = Append(@, Ask(n))]
      /\ subs' = Append(subs, [dev |-> d, form |-> f, rating |-> r])
      /\ UNCHANGED <<server, pend, uniqueReviewID>>
      /\ PressesIn(f) < MaxTaps
  BY DEF SubmitPressed
<1>2. WritesAreOwn'
  <2>1. \A x \in Devices : \A w \in Elements(requests'[x]) :
          w \in Elements(requests[x]) \/ w.kind # "put"
    <3> SUFFICES ASSUME NEW x \in Devices, NEW w \in Elements(requests'[x])
                 PROVE  w \in Elements(requests[x]) \/ w.kind # "put"
      OBVIOUS
    <3>1. CASE x # d
      BY <1>1, <3>1 DEF TypeOK
    <3>2. CASE x = d
      <4>1. requests[d] \in Seq(RequestsFor(Submitted) \cup {Ask(n)})
        <5>1. requests[d] \in Seq(RequestsFor(Submitted)) BY DEF TypeOK
        <5> QED BY <5>1, SeqDef
      <4>2. requests'[d] = Append(requests[d], Ask(n)) BY <1>1 DEF TypeOK
      <4>3. Elements(requests'[d]) = Elements(requests[d]) \cup {Ask(n)}
        BY <4>1, <4>2, ElementsFacts
      <4> QED BY <3>2, <4>3 DEF Ask
    <3> QED BY <3>1, <3>2
  <2>2. \A p \in Paths : server'[p] # Absent => Own(p, server'[p])
    BY <1>1 DEF WritesAreOwn
  <2>3. \A x \in Devices : \A w \in Elements(pend'[x]) :
          w \in Elements(pend[x]) \/ (w \in Elements(requests[x]) /\ w.kind = "put")
    BY <1>1
  <2> QED BY <2>1, <2>2, <2>3, NothingNewKeepsOwn
<1>3. KeysAreOfTheForm'
  BY <1>1, SubmissionsStay DEF KeysAreOfTheForm
<1>4. ASSUME MaxTaps <= 1, NEW k \in Submitted PROVE subs[k].form # f
  <2> DEFINE P == {m \in Submitted : subs[m].form = f}
  <2>1. IsFiniteSet(P)
    <3>1. Submitted = 1 .. Len(subs) /\ Len(subs) \in Nat
      <4>1. subs \in Seq(Submissions) BY DEF TypeOK
      <4> QED BY <4>1, SubmittedFact
    <3>2. IsFiniteSet(Submitted) BY <3>1, FS_Interval
    <3> QED BY <3>2, FS_Subset
  <2>2. Cardinality(P) \in Nat /\ Cardinality(P) < 1
    <3>1. Cardinality(P) \in Nat BY <2>1, FS_CardinalityType
    <3> QED BY <1>1, <1>4, <3>1, BoundsAssumption DEF PressesIn
  <2>3. P = {}
    <3> HIDE DEF P
    <3> QED BY <2>1, <2>2, FS_EmptySet
  <2> QED BY <2>3
<1>5. OnePressPerForm'
  <2> SUFFICES ASSUME MaxTaps <= 1, NEW i \in Submitted', NEW j \in Submitted',
                      subs'[i].form = subs'[j].form
               PROVE  i = j
    BY DEF OnePressPerForm
  <2>1. subs'[n].form = f /\ Submitted' = Submitted \cup {n}
    BY <1>1 DEF TypeOK, Submitted
  <2>2. \A k \in Submitted : subs'[k] = subs[k]
    BY SubmissionsStay
  <2> QED BY <1>4, <2>1, <2>2 DEF OnePressPerForm
<1> QED BY <1>2, <1>3, <1>5

\* The end of either branch of submitReview: the key remembered is one of the form.
LEMMA FinishKeepsKeys ==
  ASSUME OwnInv, NEW d \in Devices, NEW n \in Submitted, FinishSubmit(d, n)
  PROVE  /\ KeysAreOfTheForm' /\ OnePressPerForm'
         /\ UNCHANGED <<server, pend, subs>>
<1> USE DEF OwnInv
<1>1. /\ uniqueReviewID' = [uniqueReviewID EXCEPT ![subs[n].form] = n]
      /\ UNCHANGED <<server, pend, subs>>
  BY DEF FinishSubmit
<1>2. Submitted' = Submitted
  BY <1>1 DEF Submitted
<1>3. KeysAreOfTheForm'
  <2> SUFFICES ASSUME NEW f \in Subs, uniqueReviewID'[f] # 0
               PROVE  uniqueReviewID'[f] \in Submitted /\ subs[uniqueReviewID'[f]].form = f
    BY <1>1, <1>2 DEF KeysAreOfTheForm
  <2>1. CASE f = subs[n].form
    BY <1>1, <2>1 DEF TypeOK
  <2>2. CASE f # subs[n].form
    BY <1>1, <2>2 DEF TypeOK, KeysAreOfTheForm
  <2> QED BY <2>1, <2>2
<1>4. OnePressPerForm'
  BY <1>1, <1>2 DEF OnePressPerForm
<1> QED BY <1>1, <1>3, <1>4

\* The first review of an item writes totals only.
LEMMA FirstTotalsElements ==
  ASSUME NEW n, NEW w \in Elements(FirstTotals(n))
  PROVE  w.path \in TotalPaths
<1>1. \A i \in DOMAIN FirstTotals(n) : FirstTotals(n)[i].path \in TotalPaths
  <2>1. DOMAIN FirstTotals(n) = 1..3
    BY DEF FirstTotals
  <2>2. /\ FirstTotals(n)[1].path = Count /\ FirstTotals(n)[2].path = TotalRatings
        /\ FirstTotals(n)[3].path = AverageRating
    BY DEF FirstTotals, Put
  <2> QED BY <2>1, <2>2, TotalPathsFact
<1> QED BY <1>1 DEF Elements

\* The reads of the totals are no writes.
LEMMA TotalReadsElements ==
  ASSUME NEW n, NEW w \in Elements(TotalReads(n))
  PROVE  w.kind # "put"
<1>1. \A i \in DOMAIN TotalReads(n) : TotalReads(n)[i].kind = "get"
  <2>1. DOMAIN TotalReads(n) = 1..3
    BY DEF TotalReads
  <2>2. /\ TotalReads(n)[1].kind = "get" /\ TotalReads(n)[2].kind = "get"
        /\ TotalReads(n)[3].kind = "get"
    BY DEF TotalReads, Get
  <2> QED BY <2>1, <2>2
<1> QED BY <1>1 DEF Elements

\* The answer that the item is there: the totals are read and the review is written,
\* under a key nobody has.
LEMMA ItemExistsKeepsOwn ==
  ASSUME OwnInv, NEW d \in Devices, ItemExists(d), [Next]_vars
  PROVE  WritesAreOwn' /\ KeysAreOfTheForm' /\ OnePressPerForm'
<1> DEFINE n == Head(events[d]).sub
           rs == TotalReads(n) \o ReviewWrites(n)
<1> USE DEF OwnInv
<1>1. n \in Submitted
  BY CallbackType, ItemEventType DEF ItemExists
<1>2. FinishSubmit(d, n) /\ Issue(d, rs)
  BY DEF ItemExists
<1>3. /\ KeysAreOfTheForm' /\ OnePressPerForm' /\ UNCHANGED <<server, pend, subs>>
  BY <1>1, <1>2, FinishKeepsKeys
<1>4. /\ TotalReads(n) \in Seq(RequestsFor(Submitted))
      /\ ReviewWrites(n) \in Seq(RequestsFor(Submitted))
  BY <1>1, TotalReadsType, ReviewWritesType
<1> HIDE DEF n
<1>5. Elements(rs) = Elements(TotalReads(n)) \cup Elements(ReviewWrites(n))
  BY <1>4, ElementsFacts
<1>6. \A w \in Elements(rs) : w.kind = "put" => Own(w.path, w.value)
  BY <1>1, <1>5, TotalReadsElements, ReviewWritesAreOwn
<1>7. rs \in Seq(RequestsFor(Submitted))
  BY <1>4
<1> HIDE DEF rs
<1>8. WritesAreOwn'
  BY <1>2, <1>3, <1>6, <1>7, IssueKeepsOwn
<1> QED BY <1>3, <1>8

\* The answer that it is not: the review and the first totals are written.
LEMMA ItemMissingKeepsOwn ==
  ASSUME OwnInv, NEW d \in Devices, ItemMissing(d), [Next]_vars
  PROVE  WritesAreOwn' /\ KeysAreOfTheForm' /\ OnePressPerForm'
<1> DEFINE n == Head(events[d]).sub
           rs == FirstTotals(n) \o ReviewWrites(n)
<1> USE DEF OwnInv
<1>1. n \in Submitted
  BY CallbackType, ItemEventType DEF ItemMissing
<1>2. FinishSubmit(d, n) /\ Issue(d, rs)
  BY DEF ItemMissing
<1>3. /\ KeysAreOfTheForm' /\ OnePressPerForm' /\ UNCHANGED <<server, pend, subs>>
  BY <1>1, <1>2, FinishKeepsKeys
<1>4. /\ FirstTotals(n) \in Seq(RequestsFor(Submitted))
      /\ ReviewWrites(n) \in Seq(RequestsFor(Submitted))
  BY <1>1, FirstTotalsType, ReviewWritesType
<1> HIDE DEF n
<1>5. Elements(rs) = Elements(FirstTotals(n)) \cup Elements(ReviewWrites(n))
  BY <1>4, ElementsFacts
<1>6. \A w \in Elements(rs) : Own(w.path, w.value)
  BY <1>1, <1>5, FirstTotalsElements, TotalWritesAreOwn, ReviewWritesAreOwn
<1>7. rs \in Seq(RequestsFor(Submitted))
  BY <1>4
<1> HIDE DEF rs
<1>8. WritesAreOwn'
  BY <1>2, <1>3, <1>6, <1>7, IssueKeepsOwn
<1> QED BY <1>3, <1>8

\* A write of one of the totals.
LEMMA TotalWriteKeepsOwn ==
  ASSUME OwnInv, NEW d \in Devices, NEW p \in TotalPaths, NEW v \in Value,
         Issue(d, <<Put(p, v)>>), UNCHANGED <<server, pend, subs, uniqueReviewID>>,
         [Next]_vars
  PROVE  WritesAreOwn' /\ KeysAreOfTheForm' /\ OnePressPerForm'
<1> USE DEF OwnInv
<1>1. Put(p, v) \in RequestsFor(Submitted)
  BY TotalPathsFact, PutType
<1>2. <<Put(p, v)>> \in Seq(RequestsFor(Submitted))
  BY <1>1
<1>3. ASSUME NEW w \in Elements(<<Put(p, v)>>) PROVE Own(w.path, w.value)
  <2>1. w.path = p
    BY DEF Elements, Put
  <2> QED BY <2>1, TotalWritesAreOwn
<1>4. WritesAreOwn'
  BY <1>2, <1>3, IssueKeepsOwn
<1> QED BY <1>4 DEF KeysAreOfTheForm, OnePressPerForm, Submitted

\* The three callbacks write one of the totals each.
LEMMA ValueArrivedKeepsOwn ==
  ASSUME OwnInv, NEW d \in Devices, [Next]_vars,
         CountArrived(d) \/ TotalArrived(d) \/ AverageArrived(d)
  PROVE  WritesAreOwn' /\ KeysAreOfTheForm' /\ OnePressPerForm'
<1> DEFINE e == Head(events[d])
<1> USE DEF OwnInv
<1>1. PICK p \in TotalPaths : ValueArrived(d, p)
  BY TotalPathsFact DEF CountArrived, TotalArrived, AverageArrived
<1>2. UNCHANGED <<server, pend, subs, uniqueReviewID>>
  BY <1>1 DEF ValueArrived
<1>3. ASSUME CountArrived(d) PROVE Issue(d, <<Put(Count, Whole(e.value.num + 1))>>)
                                   /\ Whole(e.value.num + 1) \in Value
  <2>1. ValueArrived(d, Count)
    BY <1>3 DEF CountArrived
  <2>2. e.value.num + 1 \in Nat
    BY <2>1, ValueEventFacts
  <2> QED BY <1>3, <2>2, WholeIsValue DEF CountArrived
<1>4. ASSUME TotalArrived(d)
      PROVE  Issue(d, <<Put(TotalRatings, Whole(e.value.num + subs[e.sub].rating))>>)
             /\ Whole(e.value.num + subs[e.sub].rating) \in Value
  <2>1. ValueArrived(d, TotalRatings)
    BY <1>4 DEF TotalArrived
  <2>2. e.value.num \in Nat /\ subs[e.sub].rating \in Nat
    BY <2>1, ValueEventFacts
  <2>3. e.value.num + subs[e.sub].rating \in Nat
    <3> HIDE DEF e
    <3> QED BY <2>2
  <2> QED BY <1>4, <2>3, WholeIsValue DEF TotalArrived
<1>5. ASSUME AverageArrived(d)
      PROVE  \E v \in Value : Issue(d, <<Put(AverageRating, v)>>)
  <2>1. ValueArrived(d, AverageRating)
    BY <1>5 DEF AverageArrived
  <2>2. e.sub \in Subs
    BY <2>1, ValueEventFacts
  <2>3. [num |-> newTotal[e.sub], den |-> newCount[e.sub]] \in Value
    BY <2>2 DEF TypeOK, Value
  <2> QED BY <1>5, <2>3 DEF AverageArrived
<1> QED BY <1>2, <1>3, <1>4, <1>5, TotalPathsFact, TotalWriteKeepsOwn

\* The upload's completion writes under the key its controller holds, which is the key
\* of its own review if the form took one press.
LEMMA UploadKeepsOwn ==
  ASSUME OwnInv, NEW d \in Devices, NEW n \in Subs, NEW ok \in UploadOutcomes,
         UploadFinished(d, n, ok), [Next]_vars
  PROVE  WritesAreOwn' /\ KeysAreOfTheForm' /\ OnePressPerForm'
<1> DEFINE k == uniqueReviewID[subs[n].form]
           w == Put(<<"imageURL", k>>, Whole(n))
<1> USE DEF OwnInv
<1>1. /\ n \in Submitted /\ upload[n] = "running"
      /\ UNCHANGED <<server, pend, subs, uniqueReviewID>>
  BY DEF UploadFinished
<1>2. KeysAreOfTheForm' /\ OnePressPerForm'
  BY <1>1 DEF KeysAreOfTheForm, OnePressPerForm, Submitted
<1>3. subs[n].form \in Subs /\ k # 0
  <2>1. subs[n] \in Submissions
    BY <1>1 DEF TypeOK, Submitted
  <2> QED BY <1>1, <2>1 DEF Submissions, UploadsHaveKey
<1>4. k \in Submitted /\ subs[k].form = subs[n].form /\ k \in Subs
  <2>1. k \in Submitted /\ subs[k].form = subs[n].form
    BY <1>3 DEF KeysAreOfTheForm
  <2> QED BY <2>1, SubmittedFact
<1>5. MaxTaps <= 1 => k = n
  BY <1>1, <1>4 DEF OnePressPerForm
<1> HIDE DEF k
<1>6. Own(<<"imageURL", k>>, Whole(n))
  BY <1>4, <1>5 DEF Own
<1>7. w \in RequestsFor(Submitted)
  <2>1. <<"imageURL", k>> \in Paths /\ Whole(n) \in Value
    BY <1>4, SubsFacts, WholeIsValue DEF Paths, ReviewPaths
  <2> QED BY <2>1, PutType
<1>8. CASE ok
  <2>1. Issue(d, <<w>>)
    BY <1>8 DEF UploadFinished, k
  <2>2. <<w>> \in Seq(RequestsFor(Submitted))
    BY <1>7
  <2>3. \A x \in Elements(<<w>>) : Own(x.path, x.value)
    BY <1>6 DEF Elements, Put
  <2>4. WritesAreOwn'
    <3> HIDE DEF w
    <3> QED BY <1>1, <2>1, <2>2, <2>3, IssueKeepsOwn
  <2> QED BY <1>2, <2>4
<1>9. CASE ~ok
  <2>1. UNCHANGED requests
    BY <1>9 DEF UploadFinished
  <2>2. WritesAreOwn'
    BY <1>1, <2>1, OwnStays DEF WritesAreOwn
  <2> QED BY <1>2, <2>2
<1> QED BY <1>8, <1>9

\* The end of the process loses writes and brings none.
LEMMA GoesDownKeepsOwn ==
  ASSUME OwnInv, NEW d \in Devices, NEW why, GoesDown(d, why), [Next]_vars
  PROVE  WritesAreOwn' /\ KeysAreOfTheForm' /\ OnePressPerForm'
<1> USE DEF OwnInv
<1>1. /\ UNCHANGED <<server, subs, uniqueReviewID>>
      /\ requests' = [requests EXCEPT ![d] = <<>>] /\ pend' = [pend EXCEPT ![d] = <<>>]
  BY DEF GoesDown
<1>2. Elements(<<>>) = {}
  BY DEF Elements
<1>3. /\ \A x \in Devices : Elements(requests'[x]) \subseteq Elements(requests[x])
      /\ \A x \in Devices : Elements(pend'[x]) \subseteq Elements(pend[x])
  BY <1>1, <1>2 DEF TypeOK
<1>4. \A p \in Paths : server'[p] # Absent => Own(p, server'[p])
  BY <1>1 DEF WritesAreOwn
<1>5. WritesAreOwn'
  BY <1>3, <1>4, NothingNewKeepsOwn
<1> QED BY <1>1, <1>5 DEF KeysAreOfTheForm, OnePressPerForm, Submitted

\* The client's queue takes up what was issued.
LEMMA QueueKeepsOwn ==
  ASSUME OwnInv, NEW d \in Devices, FirebaseQueue(d), [Next]_vars
  PROVE  WritesAreOwn' /\ KeysAreOfTheForm' /\ OnePressPerForm'
<1> USE DEF OwnInv
<1>1. PICK kind \in {"ask", "get", "put"} :
        /\ TakeUp(d, kind)
        /\ kind = "put" => IssueWrite(d)
        /\ kind # "put" => UNCHANGED pend
  BY DEF FirebaseQueue, AskServer, ServeRead, IssueWrite
<1>2. /\ UNCHANGED <<server, subs, uniqueReviewID>>
      /\ requests' = [requests EXCEPT ![d] = Tail(@)] /\ requests[d] # <<>>
      /\ Head(requests[d]).kind = kind
  BY <1>1 DEF TakeUp, form_vars
<1>3. requests[d] \in Seq(RequestsFor(Submitted))
  BY DEF TypeOK
<1>4. Elements(Tail(requests[d])) \subseteq Elements(requests[d])
      /\ Head(requests[d]) \in Elements(requests[d])
  BY <1>2, <1>3, ElementsFacts
<1>5. \A x \in Devices : Elements(requests'[x]) \subseteq Elements(requests[x])
  BY <1>2, <1>4 DEF TypeOK
<1>6. \A x \in Devices : \A w \in Elements(pend'[x]) :
        w \in Elements(pend[x]) \/ (w \in Elements(requests[x]) /\ w.kind = "put")
  <2>1. CASE kind # "put"
    BY <1>1, <2>1
  <2>2. CASE kind = "put"
    <3>1. pend' = [pend EXCEPT ![d] = Append(@, Head(requests[d]))]
      BY <1>1, <2>2 DEF IssueWrite
    <3>2. pend[d] \in Seq(Puts \cup {Head(requests[d])})
      <4>1. pend[d] \in Seq(Puts) BY DEF TypeOK
      <4> QED BY <4>1, SeqDef
    <3>3. pend'[d] = Append(pend[d], Head(requests[d])) BY <3>1 DEF TypeOK
    <3>4. Elements(pend'[d]) = Elements(pend[d]) \cup {Head(requests[d])}
      BY <3>2, <3>3, ElementsFacts
    <3>5. \A x \in Devices : x # d => pend'[x] = pend[x] BY <3>1 DEF TypeOK
    <3> QED BY <1>2, <1>4, <2>2, <3>4, <3>5
  <2> QED BY <2>1, <2>2
<1>7. \A p \in Paths : server'[p] # Absent => Own(p, server'[p])
  BY <1>2 DEF WritesAreOwn
<1>8. WritesAreOwn'
  BY <1>5, <1>6, <1>7, NothingNewKeepsOwn
<1> QED BY <1>2, <1>8 DEF KeysAreOfTheForm, OnePressPerForm, Submitted

\* The server applies a write, the client drops those that are acknowledged, or nothing of
\* it all is touched.
LEMMA OthersKeepOwn ==
  ASSUME OwnInv, NEW d \in Devices, [Next]_vars,
         ServerApply(d) \/ Sync(d) \/ AnswerAsk(d) \/ Reconnect(d) \/ Relaunch(d)
  PROVE  WritesAreOwn' /\ KeysAreOfTheForm' /\ OnePressPerForm'
<1> USE DEF OwnInv
<1>1. UNCHANGED <<requests, subs, uniqueReviewID>>
  BY DEF ServerApply, Sync, AnswerAsk, CatchUp, Reconnect, Relaunch, form_vars
<1>2. \A p \in Paths : server'[p] # Absent => Own(p, server'[p])
  <2>1. CASE ServerApply(d)
    <3> DEFINE w == pend[d][sent[d] + 1]
    <3>1. w \in Elements(pend[d]) /\ w \in Puts
      BY <2>1 DEF ServerApply, TypeOK, Elements
    <3>2. Own(w.path, w.value) /\ server' = [server EXCEPT ![w.path] = w.value]
      BY <2>1, <3>1 DEF WritesAreOwn, ServerApply
    <3> HIDE DEF w
    <3> QED BY <3>1, <3>2 DEF WritesAreOwn, TypeOK, Node
  <2>2. CASE ~ServerApply(d)
    <3>1. server' = server BY <2>2 DEF Sync, AnswerAsk, CatchUp, Reconnect, Relaunch
    <3> QED BY <3>1 DEF WritesAreOwn
  <2> QED BY <2>1, <2>2
<1>3. \A x \in Devices : Elements(pend'[x]) \subseteq Elements(pend[x])
  <2>1. CASE Sync(d) \/ AnswerAsk(d)
    <3>1. pend' = [pend EXCEPT ![d] = Unacked(d)]
      BY <2>1 DEF Sync, AnswerAsk, CatchUp
    <3>2. pend[d] \in Seq(Puts) /\ sent[d] + 1 \in 1..Len(pend[d]) + 1
      BY DEF TypeOK
    <3>3. Elements(Unacked(d)) \subseteq Elements(pend[d])
      BY <3>2, ElementsFacts DEF Unacked
    <3> QED BY <3>1, <3>3 DEF TypeOK
  <2>2. CASE ~(Sync(d) \/ AnswerAsk(d))
    <3>1. pend' = pend BY <2>2 DEF ServerApply, Reconnect, Relaunch
    <3> QED BY <3>1
  <2> QED BY <2>1, <2>2
<1>4. WritesAreOwn'
  BY <1>1, <1>2, <1>3, NothingNewKeepsOwn
<1> QED BY <1>1, <1>4 DEF KeysAreOfTheForm, OnePressPerForm, Submitted

\* OwnInv is inductive.
LEMMA OwnStep == OwnInv /\ [Next]_vars => OwnInv'
<1> SUFFICES ASSUME OwnInv, [Next]_vars PROVE OwnInv' OBVIOUS
<1>1. TypeOK' /\ UploadsHaveKey'
  BY TypeStep DEF OwnInv
<1>2. CASE UNCHANGED vars
  <2>1. UNCHANGED <<server, requests, pend, subs, uniqueReviewID>> /\ Submitted' = Submitted
    BY <1>2 DEF vars, client, form_vars, Submitted
  <2>2. WritesAreOwn'
    BY <2>1, OwnStays DEF OwnInv, WritesAreOwn
  <2> QED BY <1>1, <2>1, <2>2 DEF OwnInv, KeysAreOfTheForm, OnePressPerForm
<1>3. CASE Next
  <2> PICK d \in Devices :
        \/ \E r \in Ratings : SubmitPressed(d, r)
        \/ MainQueue(d) \/ Uploads(d) \/ FirebaseQueue(d)
        \/ ServerApply(d) \/ Sync(d) \/ AnswerAsk(d)
        \/ Reconnect(d) \/ Kill(d) \/ Relaunch(d)
    BY <1>3 DEF Next
  <2>1. CASE \E r \in Ratings : SubmitPressed(d, r)
    BY <1>1, <2>1, PressKeepsOwn DEF OwnInv
  <2>2. CASE ItemExists(d) \/ ItemMissing(d)
    BY <1>1, <2>2, ItemExistsKeepsOwn, ItemMissingKeepsOwn DEF OwnInv
  <2>3. CASE CountArrived(d) \/ TotalArrived(d) \/ AverageArrived(d)
    BY <1>1, <2>3, ValueArrivedKeepsOwn DEF OwnInv
  <2>4. CASE CastFails(d) \/ Kill(d)
    BY <1>1, <2>4, GoesDownKeepsOwn DEF OwnInv, CastFails, Trap, Kill
  <2>5. CASE Uploads(d)
    BY <1>1, <2>5, UploadKeepsOwn DEF OwnInv, Uploads
  <2>6. CASE FirebaseQueue(d)
    BY <1>1, <2>6, QueueKeepsOwn DEF OwnInv
  <2>7. CASE ServerApply(d) \/ Sync(d) \/ AnswerAsk(d) \/ Reconnect(d) \/ Relaunch(d)
    BY <1>1, <2>7, OthersKeepOwn DEF OwnInv
  <2> QED BY <2>1, <2>2, <2>3, <2>4, <2>5, <2>6, <2>7 DEF MainQueue
<1> QED BY <1>2, <1>3

\* Nothing is written at first.
LEMMA OwnInit == Init => OwnInv
<1> SUFFICES ASSUME Init PROVE OwnInv OBVIOUS
<1>1. TypeOK /\ UploadsHaveKey
  BY TypeInit DEF Init, UploadsHaveKey
<1>2. \A p \in ReviewPaths : SeedNode[p] = Absent
  BY TotalsAreNoReviews DEF SeedNode, TotalPaths, Paths
<1>3. Elements(<<>>) = {} /\ Submitted = {}
  BY DEF Init, Elements, Submitted
<1>4. WritesAreOwn
  BY <1>2, <1>3 DEF Init, WritesAreOwn, Own
<1> QED BY <1>1, <1>3, <1>4 DEF Init, OwnInv, KeysAreOfTheForm, OnePressPerForm

\* A review is write-once, for any number of devices, presses, kills and reconnections:
\* whatever setValue is sent, sent again or applied late, the date, the text and the rating
\* that the server holds under a review's key stay as they are.
THEOREM StoredReviewsStay == Spec => ReviewsAreWriteOnce
<1>1. OwnInv /\ OwnInv' /\ [Next]_vars => [WriteOnce]_vars
  <2> SUFFICES ASSUME OwnInv, [Next]_vars,
                      NEW p \in ReviewPaths, p[1] # "imageURL", server[p] # Absent
               PROVE  server'[p] = server[p]
    BY DEF WriteOnce
  <2>1. ASSUME NEW d \in Devices, ServerApply(d) PROVE server'[p] = server[p]
    <3> DEFINE w == pend[d][sent[d] + 1]
    <3>1. w \in Elements(pend[d]) /\ server' = [server EXCEPT ![w.path] = w.value]
      BY <2>1 DEF ServerApply, OwnInv, TypeOK, Elements
    <3>2. Own(w.path, w.value) /\ Own(p, server[p]) /\ p \in Paths
      BY <3>1 DEF OwnInv, WritesAreOwn, Paths
    <3> HIDE DEF w
    <3>3. w.path = p => w.value = server[p] BY <3>2 DEF Own
    <3> QED BY <3>1, <3>2, <3>3 DEF OwnInv, TypeOK, Node
  <2>2. ASSUME NEW d \in Devices, NEW r \in Ratings, SubmitPressed(d, r)
        PROVE  server' = server
    BY <2>2 DEF SubmitPressed
  <2>3. CASE Next
    BY <2>1, <2>2, <2>3, StepsWithoutPress DEF Next
  <2>4. CASE UNCHANGED vars
    BY <2>4 DEF vars
  <2> QED BY <2>3, <2>4
<1> QED BY <1>1, OwnInit, OwnStep, PTL DEF Spec, ReviewsAreWriteOnce

\* If a form takes one press, an image's URL is stored with the review its image was picked
\* for, however late the upload ends. (With two presses it is not: the completion reads
\* self.uniqueReviewID when it runs.)
THEOREM ImagesStayWithTheirReviews ==
  ASSUME MaxTaps <= 1
  PROVE  Spec => []ImageOnOwnReview
<1>1. OwnInv => ImageOnOwnReview
  <2> SUFFICES ASSUME OwnInv, NEW n \in Subs, server[<<"imageURL", n>>] # Absent
               PROVE  server[<<"imageURL", n>>] = Whole(n)
    BY DEF ImageOnOwnReview
  <2> DEFINE p == <<"imageURL", n>>
  <2>1. p \in ReviewPaths /\ p \in Paths /\ p[1] # "rating" /\ p[2] = n
    BY DEF ReviewPaths, Paths
  <2>2. Own(p, server[p])
    BY <2>1 DEF OwnInv, WritesAreOwn
  <2> QED BY <2>1, <2>2 DEF Own
<1> QED BY <1>1, OwnInit, OwnStep, PTL DEF Spec
------------------------
(* Fourth part: on one device, when all is quiet, every review is counted. *)

\* The place of a read in the order in which the callbacks of one submission run; the read
\* of the whole tree is that of the next submission, and a write has no answer.
Place(p) == IF p = Count THEN 1 ELSE IF p = TotalRatings THEN 2 ELSE 3
Rank(x) ==
  IF x.kind \in {"get", "value"} THEN Place(x.path)
  ELSE IF x.kind \in {"ask", "item"} THEN 4 ELSE 0
Ranks(q) == {Rank(q[i]) : i \in DOMAIN q} \ {0}
Ascending(q) ==
  \A i, j \in DOMAIN q :
    i < j /\ Rank(q[i]) # 0 /\ Rank(q[j]) # 0 => Rank(q[i]) < Rank(q[j])

\* What the writes of a queue leave at p, where base is now: v.
IsPut(w, p) == w.kind = "put" /\ w.path = p
Untouched(q, p) == \A i \in DOMAIN q : ~IsPut(q[i], p)
LastWrite(q, p, v) ==
  \A i \in DOMAIN q :
    IsPut(q[i], p) /\ (\A j \in DOMAIN q : j > i => ~IsPut(q[j], p)) => q[i].value = v
Outcome(q, base, p, v) == LastWrite(q, p, v) /\ (Untouched(q, p) => base = v)

\* A read in the queue sees the last of the writes.
NoWriteAfterRead(q) ==
  \A i, j \in DOMAIN q : i < j /\ q[i].kind = "get" => ~IsPut(q[j], q[i].path)

\* The count is written before anyone asks whether the item exists.
CountGoesAhead(q) ==
  \E i \in DOMAIN q : IsPut(q[i], Count) /\ \A j \in DOMAIN q : q[j].kind = "ask" => i < j

\* The places of the elements of a concatenation.
LEMMA ConcatIndices ==
  ASSUME NEW S, NEW q \in Seq(S), NEW xs \in Seq(S)
  PROVE  /\ Len(q) \in Nat /\ Len(xs) \in Nat
         /\ DOMAIN q = 1 .. Len(q) /\ DOMAIN xs = 1..Len(xs)
         /\ DOMAIN (q \o xs) = 1..Len(q) + Len(xs)
         /\ \A i \in 1..Len(q) : (q \o xs)[i] = q[i]
         /\ \A i \in 1..Len(xs) : (q \o xs)[Len(q) + i] = xs[i]
         /\ \A i \in 1..Len(q) + Len(xs) :
              i \notin 1..Len(q) =>
                i - Len(q) \in 1 .. Len(xs) /\ (q \o xs)[i] = xs[i - Len(q)]
<1>1. /\ Len(q) \in Nat /\ Len(xs) \in Nat
      /\ DOMAIN q = 1 .. Len(q) /\ DOMAIN xs = 1..Len(xs)
      /\ DOMAIN (q \o xs) = 1..Len(q) + Len(xs)
  OBVIOUS
<1>2. /\ \A i \in 1..Len(q) : (q \o xs)[i] = q[i]
      /\ \A i \in 1..Len(xs) : (q \o xs)[Len(q) + i] = xs[i]
  OBVIOUS
<1>3. ASSUME NEW i \in 1..Len(q) + Len(xs), i \notin 1..Len(q)
      PROVE  i - Len(q) \in 1 .. Len(xs) /\ (q \o xs)[i] = xs[i - Len(q)]
  <2>1. i - Len(q) \in 1 .. Len(xs) /\ i = Len(q) + (i - Len(q))
    BY <1>1, <1>3
  <2> QED BY <2>1, <1>2
<1> QED BY <1>1, <1>2, <1>3

\* The ranks of a concatenation are those of its parts.
LEMMA ConcatRanks ==
  ASSUME NEW S, NEW q \in Seq(S), NEW xs \in Seq(S)
  PROVE  Ranks(q \o xs) = Ranks(q) \cup Ranks(xs)
<1> DEFINE r == q \o xs
           n == Len(q)
           m == Len(xs)
<1>1. /\ n \in Nat /\ m \in Nat /\ DOMAIN q = 1 .. n /\ DOMAIN xs = 1..m
      /\ DOMAIN r = 1..n + m
      /\ \A i \in 1..n : r[i] = q[i]
      /\ \A i \in 1..m : r[n + i] = xs[i]
      /\ \A i \in 1 .. n + m : i \notin 1 .. n => i - n \in 1 .. m /\ r[i] = xs[i - n]
  BY ConcatIndices
<1> HIDE DEF r, n, m
<1>2. Ranks(r) \subseteq Ranks(q) \cup Ranks(xs)
  BY <1>1 DEF Ranks
<1>3. ASSUME NEW i \in DOMAIN q, Rank(q[i]) # 0 PROVE Rank(q[i]) \in Ranks(r)
  <2>1. i \in DOMAIN r /\ r[i] = q[i] BY <1>1
  <2> QED BY <2>1, <1>3 DEF Ranks
<1>4. ASSUME NEW i \in DOMAIN xs, Rank(xs[i]) # 0 PROVE Rank(xs[i]) \in Ranks(r)
  <2>1. n + i \in DOMAIN r /\ r[n + i] = xs[i] BY <1>1
  <2> QED BY <2>1, <1>4 DEF Ranks
<1>5. Ranks(r) = Ranks(q) \cup Ranks(xs)
  BY <1>2, <1>3, <1>4 DEF Ranks
<1> QED BY <1>5 DEF r

AllBelow(A, B) == \A a \in A, b \in B : a < b

\* Two queues in order, the one below the other, are in order one after the other.
LEMMA ConcatAscending ==
  ASSUME NEW S, NEW q \in Seq(S), NEW xs \in Seq(S),
         Ascending(q), Ascending(xs), AllBelow(Ranks(q), Ranks(xs))
  PROVE  Ascending(q \o xs)
<1> DEFINE r == q \o xs
           n == Len(q)
           m == Len(xs)
<1>1. /\ n \in Nat /\ m \in Nat /\ DOMAIN q = 1 .. n /\ DOMAIN xs = 1..m
      /\ DOMAIN r = 1..n + m
      /\ \A i \in 1..n : r[i] = q[i]
      /\ \A i \in 1 .. n + m : i \notin 1 .. n => i - n \in 1 .. m /\ r[i] = xs[i - n]
  BY ConcatIndices
<1> HIDE DEF r, n, m
<1> SUFFICES ASSUME NEW i \in DOMAIN r, NEW j \in DOMAIN r, i < j,
                    Rank(r[i]) # 0, Rank(r[j]) # 0
             PROVE  Rank(r[i]) < Rank(r[j])
  BY DEF Ascending, r
<1>2. CASE j \in 1..n
  <2>1. i \in 1..n
    BY <1>1, <1>2
  <2> QED BY <1>1, <1>2, <2>1 DEF Ascending
<1>3. CASE i \in 1 .. n /\ j \notin 1..n
  <2>1. j - n \in DOMAIN xs /\ r[j] = xs[j - n] /\ i \in DOMAIN q /\ r[i] = q[i]
    BY <1>1, <1>3
  <2>2. Rank(r[i]) \in Ranks(q) /\ Rank(r[j]) \in Ranks(xs)
    BY <2>1 DEF Ranks
  <2> QED BY <2>2 DEF AllBelow
<1>4. CASE i \notin 1 .. n /\ j \notin 1..n
  <2>1. /\ i - n \in DOMAIN xs /\ r[i] = xs[i - n]
        /\ j - n \in DOMAIN xs /\ r[j] = xs[j - n]
        /\ i - n < j - n
    BY <1>1, <1>4
  <2> QED BY <2>1 DEF Ascending
<1> QED BY <1>2, <1>3, <1>4

\* The writes of xs come last.
LEMMA ConcatOutcome ==
  ASSUME NEW S, NEW q \in Seq(S), NEW xs \in Seq(S), NEW base, NEW p, NEW v,
         \/ Untouched(xs, p) /\ Outcome(q, base, p, v)
         \/ ~Untouched(xs, p) /\ LastWrite(xs, p, v)
  PROVE  Outcome(q \o xs, base, p, v)
<1> DEFINE r == q \o xs
           n == Len(q)
           m == Len(xs)
<1>1. /\ n \in Nat /\ m \in Nat /\ DOMAIN q = 1 .. n /\ DOMAIN xs = 1..m
      /\ DOMAIN r = 1..n + m
      /\ \A i \in 1..n : r[i] = q[i]
      /\ \A i \in 1..m : r[n + i] = xs[i]
      /\ \A i \in 1 .. n + m : i \notin 1 .. n => i - n \in 1 .. m /\ r[i] = xs[i - n]
  BY ConcatIndices
<1> HIDE DEF r, n, m
<1>2. Untouched(r, p) => Untouched(q, p) /\ Untouched(xs, p)
  <2>1. ASSUME Untouched(r, p), NEW i \in DOMAIN q PROVE ~IsPut(q[i], p)
    <3>1. i \in DOMAIN r /\ r[i] = q[i] BY <1>1
    <3> QED BY <3>1, <2>1 DEF Untouched
  <2>2. ASSUME Untouched(r, p), NEW i \in DOMAIN xs PROVE ~IsPut(xs[i], p)
    <3>1. n + i \in DOMAIN r /\ r[n + i] = xs[i] BY <1>1
    <3> QED BY <3>1, <2>2 DEF Untouched
  <2> QED BY <2>1, <2>2 DEF Untouched
<1>3. ASSUME NEW i \in DOMAIN r, IsPut(r[i], p), \A j \in DOMAIN r : j > i => ~IsPut(r[j], p)
      PROVE  r[i].value = v
  <2>1. CASE i \in 1..n
    <3>1. \A j \in DOMAIN xs : ~IsPut(xs[j], p)
      <4> SUFFICES ASSUME NEW j \in DOMAIN xs PROVE ~IsPut(xs[j], p) OBVIOUS
      <4>1. n + j \in DOMAIN r /\ r[n + j] = xs[j] /\ n + j > i
        BY <1>1, <2>1
      <4> QED BY <4>1, <1>3
    <3>2. Outcome(q, base, p, v) BY <3>1 DEF Untouched
    <3>3. \A j \in DOMAIN q : j > i => ~IsPut(q[j], p)
      <4> SUFFICES ASSUME NEW j \in DOMAIN q, j > i PROVE ~IsPut(q[j], p) OBVIOUS
      <4>1. j \in DOMAIN r /\ r[j] = q[j]
        BY <1>1
      <4> QED BY <4>1, <1>3
    <3>4. i \in DOMAIN q /\ r[i] = q[i]
      BY <1>1, <2>1
    <3> QED BY <3>2, <3>3, <3>4, <1>3 DEF Outcome, LastWrite
  <2>2. CASE i \notin 1..n
    <3>1. i - n \in DOMAIN xs /\ r[i] = xs[i - n]
      BY <1>1, <2>2
    <3>2. \A j \in DOMAIN xs : j > i - n => ~IsPut(xs[j], p)
      <4> SUFFICES ASSUME NEW j \in DOMAIN xs, j > i - n PROVE ~IsPut(xs[j], p) OBVIOUS
      <4>1. n + j \in DOMAIN r /\ r[n + j] = xs[j] /\ n + j > i
        BY <1>1
      <4> QED BY <4>1, <1>3
    <3>3. LastWrite(xs, p, v) BY <3>1, <1>3 DEF Untouched
    <3> QED BY <3>1, <3>2, <3>3, <1>3 DEF LastWrite
  <2> QED BY <2>1, <2>2
<1>4. Outcome(r, base, p, v)
  <2>1. LastWrite(r, p, v)
    BY <1>3 DEF LastWrite
  <2>2. Untouched(r, p) => base = v
    BY <1>2 DEF Outcome
  <2> QED BY <2>1, <2>2 DEF Outcome
<1> QED BY <1>4 DEF r

\* What neither part writes, the concatenation does not write.
LEMMA ConcatUntouched ==
  ASSUME NEW S, NEW q \in Seq(S), NEW xs \in Seq(S), NEW p, Untouched(q, p), Untouched(xs, p)
  PROVE  Untouched(q \o xs, p)
<1> DEFINE r == q \o xs
           n == Len(q)
           m == Len(xs)
<1>1. /\ DOMAIN q = 1 .. n /\ DOMAIN xs = 1..m
      /\ DOMAIN r = 1..n + m
      /\ \A i \in 1..n : r[i] = q[i]
      /\ \A i \in 1 .. n + m : i \notin 1 .. n => i - n \in 1 .. m /\ r[i] = xs[i - n]
  BY ConcatIndices
<1> HIDE DEF r, n, m
<1>2. Untouched(r, p)
  BY <1>1 DEF Untouched
<1> QED BY <1>2 DEF r

\* No read comes before a write of the same place, if none does in the parts and the
\* second part writes nothing the first one reads.
LEMMA ConcatReads ==
  ASSUME NEW S, NEW q \in Seq(S), NEW xs \in Seq(S),
         NoWriteAfterRead(q), NoWriteAfterRead(xs),
         \A i \in DOMAIN q : q[i].kind = "get" => Untouched(xs, q[i].path)
  PROVE  NoWriteAfterRead(q \o xs)
<1> DEFINE r == q \o xs
           n == Len(q)
           m == Len(xs)
<1>1. /\ n \in Nat /\ m \in Nat /\ DOMAIN q = 1 .. n /\ DOMAIN xs = 1..m
      /\ DOMAIN r = 1..n + m
      /\ \A i \in 1..n : r[i] = q[i]
      /\ \A i \in 1 .. n + m : i \notin 1 .. n => i - n \in 1 .. m /\ r[i] = xs[i - n]
  BY ConcatIndices
<1> HIDE DEF r, n, m
<1> SUFFICES ASSUME NEW i \in DOMAIN r, NEW j \in DOMAIN r, i < j, r[i].kind = "get"
             PROVE  ~IsPut(r[j], r[i].path)
  BY DEF NoWriteAfterRead, r
<1>2. CASE j \in 1..n
  <2>1. i \in 1..n
    BY <1>1, <1>2
  <2> QED BY <1>1, <1>2, <2>1 DEF NoWriteAfterRead
<1>3. CASE i \in 1 .. n /\ j \notin 1..n
  BY <1>1, <1>3 DEF Untouched
<1>4. CASE i \notin 1 .. n /\ j \notin 1..n
  <2>1. /\ i - n \in DOMAIN xs /\ r[i] = xs[i - n]
        /\ j - n \in DOMAIN xs /\ r[j] = xs[j - n]
        /\ i - n < j - n
    BY <1>1, <1>4
  <2> QED BY <2>1 DEF NoWriteAfterRead
<1> QED BY <1>2, <1>3, <1>4

\* A count that goes ahead still does when requests are added behind it.
LEMMA ConcatGoesAhead ==
  ASSUME NEW S, NEW q \in Seq(S), NEW xs \in Seq(S), CountGoesAhead(q)
  PROVE  CountGoesAhead(q \o xs)
<1> DEFINE r == q \o xs
           n == Len(q)
           m == Len(xs)
<1>1. /\ n \in Nat /\ m \in Nat /\ DOMAIN q = 1 .. n /\ DOMAIN xs = 1..m
      /\ DOMAIN r = 1..n + m
      /\ \A i \in 1..n : r[i] = q[i]
  BY ConcatIndices
<1> HIDE DEF r, n, m
<1>2. PICK i \in DOMAIN q :
        IsPut(q[i], Count) /\ \A j \in DOMAIN q : q[j].kind = "ask" => i < j
  BY DEF CountGoesAhead
<1>3. i \in DOMAIN r /\ r[i] = q[i]
  BY <1>1
<1>4. \A j \in DOMAIN r : r[j].kind = "ask" => i < j
  <2> SUFFICES ASSUME NEW j \in DOMAIN r, r[j].kind = "ask" PROVE i < j OBVIOUS
  <2>1. CASE j \in 1..n
    BY <1>1, <1>2, <2>1
  <2>2. CASE j \notin 1..n
    BY <1>1, <2>2
  <2> QED BY <2>1, <2>2
<1>5. CountGoesAhead(r)
  BY <1>2, <1>3, <1>4 DEF CountGoesAhead
<1> QED BY <1>5 DEF r

\* The places of the elements of a tail.
LEMMA TailIndices ==
  ASSUME NEW S, NEW q \in Seq(S), q # <<>>
  PROVE  /\ Len(q) \in Nat /\ Len(q) >= 1 /\ DOMAIN q = 1..Len(q)
         /\ Head(q) = q[1]
         /\ DOMAIN Tail(q) = 1..Len(q) - 1
         /\ \A i \in 1..Len(q) - 1 : Tail(q)[i] = q[i + 1]
OBVIOUS

\* Taking the head away takes its rank away.
LEMMA TailRanks ==
  ASSUME NEW S, NEW q \in Seq(S), q # <<>>
  PROVE  Ranks(q) = Ranks(Tail(q)) \cup ({Rank(Head(q))} \ {0})
<1> DEFINE r == Tail(q)
           n == Len(q)
<1>1. /\ n \in Nat /\ n >= 1 /\ DOMAIN q = 1 .. n /\ Head(q) = q[1]
      /\ DOMAIN r = 1 .. n - 1 /\ \A i \in 1..n - 1 : r[i] = q[i + 1]
  BY TailIndices
<1> HIDE DEF r, n
<1>2. ASSUME NEW i \in DOMAIN q, Rank(q[i]) # 0
      PROVE  Rank(q[i]) \in Ranks(r) \cup {Rank(q[1])}
  <2>1. CASE i # 1
    <3>1. i - 1 \in DOMAIN r /\ r[i - 1] = q[i]
      BY <1>1, <2>1
    <3> QED BY <3>1, <1>2 DEF Ranks
  <2> QED BY <2>1
<1>3. ASSUME NEW i \in DOMAIN r, Rank(r[i]) # 0 PROVE Rank(r[i]) \in Ranks(q)
  <2>1. i + 1 \in DOMAIN q /\ r[i] = q[i + 1]
    BY <1>1
  <2> QED BY <2>1, <1>3 DEF Ranks
<1>4. Rank(q[1]) # 0 => Rank(q[1]) \in Ranks(q)
  BY <1>1 DEF Ranks
<1>5. Ranks(q) = Ranks(r) \cup ({Rank(q[1])} \ {0})
  <2>1. \A k \in Ranks(q) : k \in Ranks(r) \cup ({Rank(q[1])} \ {0})
    BY <1>2 DEF Ranks
  <2>2. \A k \in Ranks(r) : k \in Ranks(q)
    BY <1>3 DEF Ranks
  <2> QED BY <2>1, <2>2, <1>4
<1> QED BY <1>1, <1>5 DEF r

\* The tail of a queue in order is in order, and above its head.
LEMMA TailAscending ==
  ASSUME NEW S, NEW q \in Seq(S), q # <<>>, Ascending(q)
  PROVE  /\ Ascending(Tail(q))
         /\ Rank(Head(q)) # 0 => \A k \in Ranks(Tail(q)) : Rank(Head(q)) < k
<1> DEFINE r == Tail(q)
           n == Len(q)
<1>1. /\ n \in Nat /\ n >= 1 /\ DOMAIN q = 1 .. n /\ Head(q) = q[1]
      /\ DOMAIN r = 1 .. n - 1 /\ \A i \in 1..n - 1 : r[i] = q[i + 1]
  BY TailIndices
<1> HIDE DEF r, n
<1>2. \A i \in DOMAIN r : i + 1 \in DOMAIN q /\ r[i] = q[i + 1] /\ 1 < i + 1
  BY <1>1
<1>3. Ascending(r)
  <2> SUFFICES ASSUME NEW i \in DOMAIN r, NEW j \in DOMAIN r, i < j,
                      Rank(r[i]) # 0, Rank(r[j]) # 0
               PROVE  Rank(r[i]) < Rank(r[j])
    BY DEF Ascending
  <2>1. i + 1 < j + 1
    BY <1>1
  <2> QED BY <1>2, <2>1 DEF Ascending
<1>4. ASSUME Rank(q[1]) # 0, NEW i \in DOMAIN r, Rank(r[i]) # 0 PROVE Rank(q[1]) < Rank(r[i])
  <2>1. 1 \in DOMAIN q
    BY <1>1
  <2> QED BY <2>1, <1>2, <1>4 DEF Ascending
<1> QED BY <1>1, <1>3, <1>4 DEF r, Ranks

\* The head is written, or it writes nothing; the rest is still to come.
LEMMA TailOutcome ==
  ASSUME NEW S, NEW q \in Seq(S), q # <<>>, NEW base, NEW p, NEW v, Outcome(q, base, p, v)
  PROVE  Outcome(Tail(q), IF IsPut(Head(q), p) THEN Head(q).value ELSE base, p, v)
<1> DEFINE r == Tail(q)
           n == Len(q)
           now == IF IsPut(q[1], p) THEN q[1].value ELSE base
<1>1. /\ n \in Nat /\ n >= 1 /\ DOMAIN q = 1 .. n /\ Head(q) = q[1]
      /\ DOMAIN r = 1 .. n - 1 /\ \A i \in 1..n - 1 : r[i] = q[i + 1]
  BY TailIndices
<1> HIDE DEF r, n
<1>2. \A i \in DOMAIN r : i + 1 \in DOMAIN q /\ r[i] = q[i + 1]
  BY <1>1
<1>3. \A j \in DOMAIN q : j = 1 \/ (j - 1 \in DOMAIN r /\ q[j] = r[j - 1])
  BY <1>1
<1>4. LastWrite(r, p, v)
  <2> SUFFICES ASSUME NEW i \in DOMAIN r, IsPut(r[i], p),
                      \A j \in DOMAIN r : j > i => ~IsPut(r[j], p)
               PROVE  r[i].value = v
    BY DEF LastWrite
  <2>1. ASSUME NEW j \in DOMAIN q, j > i + 1 PROVE ~IsPut(q[j], p)
    <3>1. j - 1 \in DOMAIN r /\ q[j] = r[j - 1] /\ j - 1 > i
      BY <1>1, <2>1
    <3> QED BY <3>1
  <2> QED BY <2>1, <1>2 DEF Outcome, LastWrite
<1>5. ASSUME Untouched(r, p) PROVE now = v
  <2>1. \A j \in DOMAIN q : j > 1 => ~IsPut(q[j], p)
    BY <1>1, <1>3, <1>5 DEF Untouched
  <2>2. CASE IsPut(q[1], p)
    <3>1. 1 \in DOMAIN q BY <1>1
    <3> QED BY <2>1, <2>2, <3>1 DEF Outcome, LastWrite
  <2>3. CASE ~IsPut(q[1], p)
    BY <1>1, <2>1, <2>3 DEF Outcome, Untouched
  <2> QED BY <2>2, <2>3
<1> HIDE DEF now
<1>6. Outcome(r, now, p, v)
  BY <1>4, <1>5 DEF Outcome
<1> QED BY <1>1, <1>6 DEF r, now

\* What a queue keeps when its head is taken: what it does not write, that no read
\* precedes a write, and the count ahead of the question, until the count itself is
\* taken.
LEMMA TailKeeps ==
  ASSUME NEW S, NEW q \in Seq(S), q # <<>>
  PROVE  /\ \A p : Untouched(q, p) => Untouched(Tail(q), p) /\ ~IsPut(Head(q), p)
         /\ NoWriteAfterRead(q) => NoWriteAfterRead(Tail(q))
         /\ NoWriteAfterRead(q) /\ Head(q).kind = "get" => Untouched(q, Head(q).path)
         /\ CountGoesAhead(q) =>
              /\ Head(q).kind # "ask"
              /\ IsPut(Head(q), Count) \/ CountGoesAhead(Tail(q))
<1> DEFINE r == Tail(q)
           n == Len(q)
<1>1. /\ n \in Nat /\ n >= 1 /\ DOMAIN q = 1 .. n /\ Head(q) = q[1]
      /\ DOMAIN r = 1 .. n - 1 /\ \A i \in 1..n - 1 : r[i] = q[i + 1]
  BY TailIndices
<1> HIDE DEF r, n
<1>2. \A i \in DOMAIN r : i + 1 \in DOMAIN q /\ r[i] = q[i + 1]
  BY <1>1
<1>3. 1 \in DOMAIN q
  BY <1>1
<1>4. ASSUME NEW p, Untouched(q, p) PROVE Untouched(r, p) /\ ~IsPut(q[1], p)
  BY <1>2, <1>3, <1>4 DEF Untouched
<1>5. ASSUME NoWriteAfterRead(q) PROVE NoWriteAfterRead(r)
  <2> SUFFICES ASSUME NEW i \in DOMAIN r, NEW j \in DOMAIN r, i < j, r[i].kind = "get"
               PROVE  ~IsPut(r[j], r[i].path)
    BY DEF NoWriteAfterRead
  <2>1. i + 1 < j + 1
    BY <1>1
  <2> QED BY <1>2, <1>5, <2>1 DEF NoWriteAfterRead
<1>6. ASSUME NoWriteAfterRead(q), q[1].kind = "get" PROVE Untouched(q, q[1].path)
  <2> SUFFICES ASSUME NEW j \in DOMAIN q PROVE ~IsPut(q[j], q[1].path)
    BY DEF Untouched
  <2>1. CASE j = 1
    BY <2>1, <1>6 DEF IsPut
  <2>2. CASE j # 1
    <3>1. 1 < j BY <1>1, <2>2
    <3> QED BY <3>1, <1>3, <1>6 DEF NoWriteAfterRead
  <2> QED BY <2>1, <2>2
<1>7. ASSUME CountGoesAhead(q)
      PROVE  q[1].kind # "ask" /\ (IsPut(q[1], Count) \/ CountGoesAhead(r))
  <2>1. PICK i \in DOMAIN q :
          IsPut(q[i], Count) /\ \A j \in DOMAIN q : q[j].kind = "ask" => i < j
    BY <1>7 DEF CountGoesAhead
  <2>2. q[1].kind # "ask"
    BY <2>1, <1>1
  <2>3. CASE i # 1
    <3>1. i - 1 \in DOMAIN r /\ r[i - 1] = q[i]
      BY <1>1, <2>3
    <3>2. ASSUME NEW j \in DOMAIN r, r[j].kind = "ask" PROVE i - 1 < j
      <4>1. i < j + 1 BY <1>2, <2>1, <3>2
      <4> QED BY <4>1, <1>1
    <3> QED BY <2>1, <2>2, <3>1, <3>2 DEF CountGoesAhead
  <2>4. CASE i = 1
    BY <2>1, <2>2, <2>4
  <2> QED BY <2>3, <2>4
<1> QED BY <1>1, <1>4, <1>5, <1>6, <1>7 DEF r

------------------------
(* The sums of the ratings. *)

\* The sums are defined by recursion on their place; each is the one before and one
\* rating more (by the recursion of NaturalsBySets).
LEMMA SumsFacts ==
  ASSUME NEW q \in Seq(Submissions)
  PROVE  /\ Sums(q) \in [0..Len(q) -> Nat]
         /\ Sums(q)[0] = 0
         /\ \A n \in 1..Len(q) : Sums(q)[n] = Sums(q)[n - 1] + q[n].rating
<1> DEFINE m == Len(q)
           step == [x \in (1..m) \X Nat |-> x[2] + q[x[1]].rating]
           IsSums(f) == f = [n \in 0..m |-> IF n = 0 THEN 0 ELSE f[n - 1] + q[n].rating]
<1>1. m \in Nat /\ \A i \in 1..m : q[i].rating \in Nat
  <2>1. \A x \in Submissions : x.rating \in Nat
    BY RatingsFact DEF Submissions
  <2>2. m \in Nat /\ \A i \in 1..m : q[i] \in Submissions OBVIOUS
  <2> QED BY <2>1, <2>2
<1>2. step \in [(1..m) \X Nat -> Nat]
  <2> HIDE DEF m
  <2> QED BY <1>1
<1>3. PICK f : IsRecursion(f, m, Nat, 0, step)
  <2> HIDE DEF m, step
  <2> QED BY <1>1, <1>2, RecursionOnInterval
<1> HIDE DEF m
<1>4. f \in [0 .. m -> Nat] /\ f[0] = 0 /\ \A i \in 1..m : f[i] = f[i - 1] + q[i].rating
  <2>1. \A i \in 1 .. m : f[i - 1] \in Nat /\ step[<<i, f[i - 1]>>] = f[i - 1] + q[i].rating
    BY <1>1, <1>3 DEF IsRecursion
  <2> HIDE DEF step
  <2> QED BY <2>1, <1>3 DEF IsRecursion
<1>5. IsSums(f)
  <2>1. \A i \in 0..m : f[i] = IF i = 0 THEN 0 ELSE f[i - 1] + q[i].rating
    BY <1>1, <1>4
  <2> QED BY <1>4, <2>1
<1>6. Sums(q) = CHOOSE g : IsSums(g)
  BY DEF Sums, m
<1>7. IsSums(Sums(q))
  <2> HIDE DEF IsSums
  <2> QED BY <1>5, <1>6
<1>8. Sums(q)[0] = 0 /\ \A n \in 1..m : Sums(q)[n] = Sums(q)[n - 1] + q[n].rating
  <2> DEFINE g == Sums(q)
  <2> HIDE DEF g
  <2>1. g = [n \in 0..m |-> IF n = 0 THEN 0 ELSE g[n - 1] + q[n].rating]
    BY <1>7 DEF g
  <2>2. g[0] = 0 /\ \A n \in 1..m : g[n] = g[n - 1] + q[n].rating
    BY <2>1, <1>1
  <2> QED BY <2>2 DEF g
<1>9. \A n \in 0..m : Sums(q)[n] \in Nat
  <2> DEFINE g == Sums(q)
  <2>1. g[0] \in Nat /\ \A i \in 1..m : g[i - 1] \in Nat => g[i] \in Nat
    BY <1>8, <1>1
  <2> HIDE DEF g
  <2>2. \A i \in 0..m : g[i] \in Nat
    BY <2>1, <1>1, StaysInSet
  <2> QED BY <2>2 DEF g
<1>10. Sums(q) \in [0..m -> Nat]
  <2> DEFINE g == Sums(q)
  <2>1. g = [n \in 0..m |-> g[n]]
    <3>1. g = [n \in 0..m |-> IF n = 0 THEN 0 ELSE g[n - 1] + q[n].rating] BY <1>7
    <3> HIDE DEF g
    <3> QED BY <3>1
  <2> HIDE DEF g
  <2>2. \A n \in 0..m : g[n] \in Nat
    BY <1>9 DEF g
  <2>3. g \in [0..m -> Nat]
    BY <2>1, <2>2
  <2> QED BY <2>3 DEF g
<1> QED BY <1>8, <1>10 DEF m

\* A further submission does not change the sums of those before.
LEMMA SumsStay ==
  ASSUME NEW q \in Seq(Submissions), NEW x \in Submissions, NEW n \in 0..Len(q)
  PROVE  Sums(Append(q, x))[n] = Sums(q)[n]
<1> DEFINE r == Append(q, x)
           P == {i \in Nat : i <= Len(q) => Sums(r)[i] = Sums(q)[i]}
<1>1. /\ r \in Seq(Submissions) /\ Len(q) \in Nat /\ Len(r) = Len(q) + 1
      /\ \A i \in 1..Len(q) : r[i] = q[i]
  OBVIOUS
<1> HIDE DEF r
<1>2. 0 \in P
  BY <1>1, SumsFacts
<1>3. ASSUME NEW i \in P PROVE i + 1 \in P
  <2>1. i \in Nat OBVIOUS
  <2>2. CASE i + 1 <= Len(q)
    <3>1. i + 1 \in 1 .. Len(q) /\ i + 1 \in 1 .. Len(r) /\ (i + 1) - 1 = i /\ i <= Len(q)
      BY <1>1, <2>1, <2>2
    <3>2. Sums(r)[i] = Sums(q)[i] /\ r[i + 1] = q[i + 1]
      BY <1>1, <3>1
    <3>3. /\ Sums(r)[i + 1] = Sums(r)[(i + 1) - 1] + r[i + 1].rating
          /\ Sums(q)[i + 1] = Sums(q)[(i + 1) - 1] + q[i + 1].rating
      BY <1>1, <3>1, SumsFacts
    <3>4. Sums(r)[i + 1] = Sums(q)[i + 1] BY <3>1, <3>2, <3>3
    <3> QED BY <2>1, <3>4
  <2>3. CASE ~(i + 1 <= Len(q))
    BY <2>1, <2>3
  <2> QED BY <2>2, <2>3
<1>4. P = Nat
  <2>1. P \subseteq Nat OBVIOUS
  <2> HIDE DEF P
  <2> QED BY <2>1, <1>2, <1>3, InductionBySet
<1>5. n \in Nat /\ n <= Len(q)
  BY <1>1
<1> QED BY <1>4, <1>5 DEF r

------------------------
(* The reads of a device on their way: requested, asked of the server, answered. *)

AskedRanks(a) == IF a = <<>> THEN {} ELSE {4}

\* The reads of T, in order of their places: answers before what is asked of the server,
\* this before what is still requested.
InLine(e, a, r, T) ==
  /\ Ascending(e) /\ Len(a) <= 1 /\ Ascending(r)
  /\ AllBelow(Ranks(e), AskedRanks(a))
  /\ AllBelow(Ranks(e), Ranks(r))
  /\ AllBelow(AskedRanks(a), Ranks(r))
  /\ Ranks(e) \cup AskedRanks(a) \cup Ranks(r) = T

\* A queue of one is in order.
LEMMA SingleFacts ==
  ASSUME NEW x
  PROVE  /\ <<x>> \in Seq({x}) /\ DOMAIN <<x>> = {1} /\ <<x>>[1] = x
         /\ Ranks(<<x>>) = {Rank(x)} \ {0} /\ Ascending(<<x>>)
<1>1. <<x>> \in Seq({x}) /\ DOMAIN <<x>> = {1} /\ <<x>>[1] = x OBVIOUS
<1> DEFINE q == <<x>>
<1> HIDE DEF q
<1>2. Ranks(q) = {Rank(x)} \ {0} /\ Ascending(q)
  BY <1>1 DEF Ranks, Ascending, q
<1> QED BY <1>1, <1>2 DEF q

\* Adding one is adding a queue of one.
LEMMA AppendOne ==
  ASSUME NEW S, NEW q \in Seq(S), NEW x \in S
  PROVE  Append(q, x) = q \o <<x>> /\ <<x>> \in Seq(S)
OBVIOUS

\* A queue in order stays so when what is added ranks above all of it.
LEMMA AppendInLine ==
  ASSUME NEW S, NEW q \in Seq(S), NEW x \in S, Ascending(q), \A k \in Ranks(q) : k < Rank(x)
  PROVE  Ascending(Append(q, x)) /\ Ranks(Append(q, x)) = Ranks(q) \cup ({Rank(x)} \ {0})
<1>1. Append(q, x) = q \o <<x>> /\ <<x>> \in Seq(S)
  BY AppendOne
<1>2. AllBelow(Ranks(q), Ranks(<<x>>))
  BY SingleFacts DEF AllBelow
<1>3. Ranks(<<x>>) = {Rank(x)} \ {0} /\ Ascending(<<x>>)
  BY SingleFacts
<1>4. Ranks(q \o <<x>>) = Ranks(q) \cup Ranks(<<x>>)
  BY <1>1, ConcatRanks
<1>5. Ascending(q \o <<x>>)
  BY <1>1, <1>2, <1>3, ConcatAscending
<1> QED BY <1>1, <1>3, <1>4, <1>5

\* A read served moves from the head of the requests to the end of the events, and stays
\* in line.
LEMMA ServeInLine ==
  ASSUME NEW S, NEW e \in Seq(S), NEW R, NEW r \in Seq(R), NEW a, NEW T, InLine(e, a, r, T),
         r # <<>>, Head(r).kind = "get", NEW x \in S, Rank(x) = Rank(Head(r))
  PROVE  a = <<>> /\ Rank(x) \in T /\ InLine(Append(e, x), a, Tail(r), T)
<1> DEFINE k == Rank(x)
           rest == Ranks(Tail(r))
<1>1. k \in 1..3
  BY DEF Rank, Place
<1>2. Ranks(r) = rest \cup {k} /\ Ascending(Tail(r)) /\ \A m \in rest : k < m
  BY <1>1, TailRanks, TailAscending DEF InLine
<1>3. a = <<>>
  <2> SUFFICES ASSUME a # <<>> PROVE FALSE OBVIOUS
  <2>1. 4 \in AskedRanks(a) /\ k \in Ranks(r)
    BY <1>2 DEF AskedRanks
  <2>2. 4 < k
    BY <2>1 DEF InLine, AllBelow
  <2> QED BY <1>1, <2>2
<1>4. \A m \in Ranks(e) : m < k
  BY <1>2 DEF InLine, AllBelow
<1>5. Ascending(Append(e, x)) /\ Ranks(Append(e, x)) = Ranks(e) \cup {k}
  BY <1>1, <1>4, AppendInLine DEF InLine
<1> HIDE DEF k, rest
<1>6. Ranks(e) \cup Ranks(r) = T /\ AllBelow(Ranks(e), Ranks(r))
  BY <1>3 DEF InLine, AskedRanks
<1>7. Ranks(e) \cup {k} \cup rest = T /\ AllBelow(Ranks(e) \cup {k}, rest)
  BY <1>2, <1>6 DEF AllBelow
<1> QED BY <1>1, <1>2, <1>3, <1>5, <1>7 DEF InLine, AskedRanks, AllBelow, k, rest

\* So does the question whether the item exists, which goes to the server.
LEMMA AskInLine ==
  ASSUME NEW e, NEW R, NEW r \in Seq(R), NEW a, NEW T, InLine(e, a, r, T),
         r # <<>>, Head(r).kind = "ask"
  PROVE  /\ a = <<>> /\ 4 \in T /\ 4 \notin Ranks(e)
         /\ \A x : InLine(e, <<x>>, Tail(r), T)
<1> DEFINE rest == Ranks(Tail(r))
<1>1. Rank(Head(r)) = 4
  BY DEF Rank
<1>2. Ranks(r) = rest \cup {4} /\ Ascending(Tail(r)) /\ \A m \in rest : 4 < m
  BY <1>1, TailRanks, TailAscending DEF InLine
<1>3. a = <<>>
  <2> SUFFICES ASSUME a # <<>> PROVE FALSE OBVIOUS
  <2>1. 4 \in AskedRanks(a) /\ 4 \in Ranks(r)
    BY <1>2 DEF AskedRanks
  <2>2. 4 < 4
    BY <2>1 DEF InLine, AllBelow
  <2> QED BY <2>2
<1>4. \A x : AskedRanks(<<x>>) = {4} /\ Len(<<x>>) = 1
  BY DEF AskedRanks
<1> HIDE DEF rest
<1> QED BY <1>2, <1>3, <1>4 DEF InLine, AskedRanks, AllBelow, rest

\* The answer of the server takes the place of the question.
LEMMA AnswerInLine ==
  ASSUME NEW S, NEW e \in Seq(S), NEW R, NEW r \in Seq(R), NEW A, NEW a \in Seq(A), NEW T,
         InLine(e, a, r, T), a # <<>>, NEW x \in S, Rank(x) = 4
  PROVE  Len(a) = 1 /\ 4 \in T /\ InLine(Append(e, x), <<>>, r, T)
<1>1. Len(a) = 1
  <2> DEFINE n == Len(a)
  <2>1. n \in Nat /\ n # 0 OBVIOUS
  <2>2. n <= 1
    BY DEF InLine
  <2> HIDE DEF n
  <2>3. n = 1
    BY <2>1, <2>2
  <2> QED BY <2>3 DEF n
<1>2. \A m \in Ranks(e) : m < 4
  BY DEF InLine, AllBelow, AskedRanks
<1>3. Ascending(Append(e, x)) /\ Ranks(Append(e, x)) = Ranks(e) \cup {4}
  BY <1>2, AppendInLine DEF InLine
<1>4. AllBelow(Ranks(e) \cup {4}, Ranks(r)) /\ Ranks(e) \cup {4} \cup Ranks(r) = T
  BY DEF InLine, AllBelow, AskedRanks
<1> QED BY <1>1, <1>3, <1>4 DEF InLine, AllBelow, AskedRanks

\* A write taken up leaves the line as it was: it has no answer.
LEMMA WriteInLine ==
  ASSUME NEW e, NEW R, NEW r \in Seq(R), NEW a, NEW T, InLine(e, a, r, T),
         r # <<>>, Head(r).kind = "put"
  PROVE  InLine(e, a, Tail(r), T) /\ Ranks(Tail(r)) = Ranks(r)
<1>1. Rank(Head(r)) = 0
  BY DEF Rank
<1>2. Ranks(r) = Ranks(Tail(r)) /\ Ascending(Tail(r))
  BY <1>1, TailRanks, TailAscending DEF InLine
<1> QED BY <1>2 DEF InLine

\* The callback that runs is the first of those awaited, and is awaited no more.
LEMMA CallbackInLine ==
  ASSUME NEW S, NEW e \in Seq(S), NEW R, NEW r \in Seq(R), NEW a, NEW T, InLine(e, a, r, T),
         e # <<>>, Rank(Head(e)) \in 1..4
  PROVE  /\ Rank(Head(e)) \in T
         /\ \A k \in T \ {Rank(Head(e))} : Rank(Head(e)) < k
         /\ InLine(Tail(e), a, r, T \ {Rank(Head(e))})
<1> DEFINE k == Rank(Head(e))
           rest == Ranks(Tail(e))
<1>1. Ranks(e) = rest \cup {k} /\ Ascending(Tail(e)) /\ \A m \in rest : k < m
  BY TailRanks, TailAscending DEF InLine
<1> HIDE DEF k, rest
<1>2. \A m \in AskedRanks(a) \cup Ranks(r) : k < m
  BY <1>1 DEF InLine, AllBelow
<1>3. k \in 1..4
  BY DEF k
<1>4. T = Ranks(e) \cup AskedRanks(a) \cup Ranks(r)
  BY DEF InLine
<1>5. \A m \in T \ {k} : k < m
  BY <1>1, <1>2, <1>4
<1>6. T \ {k} = rest \cup AskedRanks(a) \cup Ranks(r) /\ k \in T
  BY <1>1, <1>2, <1>3, <1>4
<1>7. AllBelow(rest, AskedRanks(a)) /\ AllBelow(rest, Ranks(r))
  BY <1>1 DEF InLine, AllBelow
<1> QED BY <1>1, <1>5, <1>6, <1>7 DEF InLine, k, rest

\* Requests issued stand behind all that is awaited.
LEMMA IssueInLine ==
  ASSUME NEW e, NEW R, NEW r \in Seq(R), NEW a, NEW T, InLine(e, a, r, T),
         NEW xs \in Seq(R), Ascending(xs), AllBelow(T, Ranks(xs))
  PROVE  InLine(e, a, r \o xs, T \cup Ranks(xs))
<1>1. AllBelow(Ranks(r), Ranks(xs))
  BY DEF InLine, AllBelow
<1>2. Ranks(r \o xs) = Ranks(r) \cup Ranks(xs) /\ Ascending(r \o xs)
  BY <1>1, ConcatRanks, ConcatAscending DEF InLine
<1> DEFINE all == Ranks(r) \cup Ranks(xs)
<1>3. /\ AllBelow(Ranks(e), all) /\ AllBelow(AskedRanks(a), all)
      /\ Ranks(e) \cup AskedRanks(a) \cup all = T \cup Ranks(xs)
  BY DEF InLine, AllBelow
<1> HIDE DEF all
<1>4. Ranks(r \o xs) = all
  BY <1>2 DEF all
<1> QED BY <1>2, <1>3, <1>4 DEF InLine

------------------------
(* What the device shows and what the server holds. *)

\* The view shows the last of the writes that are not acknowledged; where nothing is still to
\* be applied, the server holds what the view shows.
NetInv(d) ==
  \A p \in Paths :
    /\ LastWrite(pend[d], p, view[d][p])
    /\ (\A i \in DOMAIN pend[d] : i > sent[d] => ~IsPut(pend[d][i], p))
         => server[p] = view[d][p]

\* The writes the server has not applied are the end of those not acknowledged.
LEMMA UnackedFacts ==
  ASSUME TypeOK, NEW d \in Devices
  PROVE  /\ Len(pend[d]) \in Nat /\ sent[d] \in 0..Len(pend[d])
         /\ DOMAIN pend[d] = 1..Len(pend[d])
         /\ DOMAIN Unacked(d) = 1..Len(pend[d]) - sent[d]
         /\ \A i \in 1..Len(pend[d]) - sent[d] : Unacked(d)[i] = pend[d][sent[d] + i]
         /\ \A i \in DOMAIN pend[d] : pend[d][i].kind = "put"
         /\ \A j \in DOMAIN pend[d] : j > sent[d] =>
              j - sent[d] \in DOMAIN Unacked(d) /\ Unacked(d)[j - sent[d]] = pend[d][j]
<1> DEFINE q == pend[d]
           m == sent[d]
           n == Len(q)
           u == Unacked(d)
<1>1. q \in Seq(Puts) /\ m \in Nat /\ m <= n
  BY DEF TypeOK
<1>2. n \in Nat /\ DOMAIN q = 1 .. n /\ \A i \in 1..n : q[i] \in Puts
  BY <1>1
<1>3. DOMAIN u = 1 .. n - m /\ \A i \in 1..n - m : u[i] = q[m + i]
  <2> DEFINE k == m + 1
  <2>1. k \in 1 .. n + 1 /\ u = SubSeq(q, k, n)
    BY <1>1, <1>2 DEF Unacked
  <2> HIDE DEF k, q, n, m, u
  <2>2. Len(u) = n - k + 1 /\ DOMAIN u = 1 .. Len(u) /\ \A i \in 1..n - k + 1 : u[i] = q[k + i - 1]
    BY <1>1, <1>2, <2>1, SubSeqProperties DEF n
  <2>3. k = m + 1 /\ n - k + 1 = n - m /\ \A i \in 1..n - m : k + i - 1 = m + i
    BY <1>1, <1>2 DEF k
  <2> QED BY <2>2, <2>3
<1> HIDE DEF q, m, n, u
<1>4. \A i \in DOMAIN q : q[i].kind = "put"
  BY <1>2 DEF Puts
<1>5. \A j \in DOMAIN q : j > m => j - m \in DOMAIN u /\ u[j - m] = q[j]
  BY <1>1, <1>2, <1>3
<1> QED BY <1>1, <1>2, <1>3, <1>4, <1>5 DEF q, m, n, u

\* So catching up with the server changes nothing on the screen.
LEMMA ViewIsRefreshed ==
  ASSUME TypeOK, NEW d \in Devices, NetInv(d)
  PROVE  Refreshed(d) = view[d]
<1>1. ASSUME NEW p \in Paths PROVE Refreshed(d)[p] = view[d][p]
  <2>1. CASE \E i \in DOMAIN Unacked(d) : Unacked(d)[i].path = p
    BY <2>1 DEF Refreshed
  <2>2. CASE ~\E i \in DOMAIN Unacked(d) : Unacked(d)[i].path = p
    <3>1. \A i \in DOMAIN pend[d] : i > sent[d] => ~IsPut(pend[d][i], p)
      BY <2>2, UnackedFacts DEF IsPut
    <3> QED BY <2>2, <3>1 DEF Refreshed, NetInv
  <2> QED BY <2>1, <2>2
<1>2. view[d] = [p \in Paths |-> view[d][p]]
  BY DEF TypeOK, Node
<1>3. Refreshed(d) = [p \in Paths |-> Refreshed(d)[p]]
  BY DEF Refreshed
<1> QED BY <1>1, <1>2, <1>3, Zenon

\* The view taken after the writes acknowledged is the view that was shown.
LEMMA CatchUpKeepsNet ==
  ASSUME TypeOK, NEW d \in Devices, NetInv(d), CatchUp(d)
  PROVE  NetInv(d)' /\ view' = view
<1>1. view' = view
  BY ViewIsRefreshed DEF CatchUp, TypeOK
<1>2. pend'[d] = Unacked(d) /\ sent'[d] = 0 /\ server' = server
  BY DEF CatchUp, TypeOK
<1> DEFINE q == pend[d]
           m == sent[d]
           u == Unacked(d)
<1>3. /\ Len(q) \in Nat /\ m \in 0 .. Len(q) /\ DOMAIN q = 1..Len(q)
      /\ DOMAIN u = 1 .. Len(q) - m /\ \A i \in 1..Len(q) - m : u[i] = q[m + i]
  BY UnackedFacts
<1>4. \A j \in DOMAIN q : j > m => j - m \in DOMAIN u /\ u[j - m] = q[j]
  BY UnackedFacts
<1> HIDE DEF q, m, u
<1> SUFFICES ASSUME NEW p \in Paths
             PROVE  /\ LastWrite(u, p, view[d][p])
                    /\ (\A i \in DOMAIN u : i > 0 => ~IsPut(u[i], p)) => server[p] = view[d][p]
  BY <1>1, <1>2 DEF NetInv, u
<1>5. LastWrite(q, p, view[d][p])
  BY DEF NetInv, q
<1>6. LastWrite(u, p, view[d][p])
  <2> SUFFICES ASSUME NEW i \in DOMAIN u, IsPut(u[i], p),
                      \A j \in DOMAIN u : j > i => ~IsPut(u[j], p)
               PROVE  u[i].value = view[d][p]
    BY DEF LastWrite
  <2>1. m + i \in DOMAIN q /\ u[i] = q[m + i]
    BY <1>3
  <2>2. ASSUME NEW j \in DOMAIN q, j > m + i PROVE ~IsPut(q[j], p)
    <3>1. j > m /\ j - m > i
      BY <1>3, <2>2
    <3> QED BY <3>1, <1>4
  <2> QED BY <1>5, <2>1, <2>2 DEF LastWrite
<1>7. ASSUME \A i \in DOMAIN u : i > 0 => ~IsPut(u[i], p) PROVE server[p] = view[d][p]
  <2>1. \A i \in DOMAIN q : i > m => ~IsPut(q[i], p)
    BY <1>3, <1>4, <1>7
  <2> QED BY <2>1 DEF NetInv, q, m
<1> QED BY <1>6, <1>7

\* The server applies the writes in order, so what it ends with is what the view shows.
LEMMA ApplyKeepsNet ==
  ASSUME TypeOK, NEW d \in Devices, NetInv(d), ServerApply(d)
  PROVE  NetInv(d)'
<1> DEFINE q == pend[d]
           m == sent[d]
           w == q[m + 1]
<1>1. /\ m + 1 \in DOMAIN q /\ m \in Nat /\ DOMAIN q = 1 .. Len(q) /\ Len(q) \in Nat
      /\ w.kind = "put"
  <2>1. m < Len(q)
    BY DEF ServerApply
  <2> QED BY <2>1, UnackedFacts
<1>2. /\ server' = [server EXCEPT ![w.path] = w.value]
      /\ pend' = pend /\ view' = view /\ sent'[d] = m + 1
  BY DEF ServerApply, TypeOK
<1> HIDE DEF q, m, w
<1> SUFFICES ASSUME NEW p \in Paths, \A i \in DOMAIN q : i > m + 1 => ~IsPut(q[i], p)
             PROVE  server'[p] = view[d][p]
  BY <1>2 DEF NetInv, q
<1>3. CASE w.path = p
  <2>1. IsPut(w, p) /\ w = q[m + 1]
    BY <1>1, <1>3 DEF IsPut, w
  <2>2. w.value = view[d][p]
    BY <1>1, <2>1 DEF NetInv, LastWrite, q
  <2>3. server'[p] = w.value
    BY <1>2, <1>3 DEF TypeOK, Node
  <2> QED BY <2>2, <2>3
<1>4. CASE w.path # p
  <2>1. \A i \in DOMAIN q : i > m => ~IsPut(q[i], p)
    <3> SUFFICES ASSUME NEW i \in DOMAIN q, i > m PROVE ~IsPut(q[i], p) OBVIOUS
    <3>1. i = m + 1 \/ i > m + 1
      BY <1>1
    <3> QED BY <3>1, <1>4 DEF IsPut, w
  <2>2. server[p] = view[d][p]
    BY <2>1 DEF NetInv, q, m
  <2>3. server'[p] = server[p]
    BY <1>2, <1>4 DEF TypeOK, Node
  <2> QED BY <2>2, <2>3
<1> QED BY <1>3, <1>4

\* A write is shown at once and waits behind those issued before it.
LEMMA IssueWriteKeepsNet ==
  ASSUME TypeOK, NEW d \in Devices, NetInv(d), IssueWrite(d)
  PROVE  NetInv(d)'
<1> DEFINE q == pend[d]
           w == Head(requests[d])
           n == Len(q)
           r == Append(q, w)
<1>1. w.kind = "put" /\ w \in Puts
  <2>1. requests[d] # <<>> /\ w.kind = "put"
    BY DEF IssueWrite, TakeUp
  <2>2. w \in RequestsFor(Submitted)
    BY <2>1 DEF TypeOK
  <2> QED BY <2>1, <2>2 DEF RequestsFor
<1>2. q \in Seq(Puts) /\ n \in Nat /\ DOMAIN q = 1 .. n /\ sent[d] \in Nat /\ sent[d] <= n
  BY DEF TypeOK
<1>3. /\ view' = [view EXCEPT ![d][w.path] = w.value] /\ pend'[d] = r
      /\ sent' = sent /\ server' = server
  BY DEF IssueWrite, TakeUp, TypeOK
<1>4. DOMAIN r = 1 .. n + 1 /\ r[n + 1] = w /\ \A i \in 1..n : r[i] = q[i]
  BY <1>1, <1>2
<1> HIDE DEF q, w, n, r
<1> SUFFICES ASSUME NEW p \in Paths
             PROVE  /\ LastWrite(r, p, view'[d][p])
                    /\ (\A i \in DOMAIN r : i > sent[d] => ~IsPut(r[i], p))
                         => server[p] = view'[d][p]
  BY <1>3 DEF NetInv
<1>5. n + 1 \in DOMAIN r /\ n + 1 > sent[d]
  BY <1>2, <1>4
<1>6. CASE w.path = p
  <2>1. IsPut(r[n + 1], p)
    BY <1>1, <1>4, <1>6 DEF IsPut
  <2>2. view'[d][p] = w.value
    BY <1>3, <1>6 DEF TypeOK, Node
  <2>3. ASSUME NEW i \in DOMAIN r, \A j \in DOMAIN r : j > i => ~IsPut(r[j], p) PROVE r[i] = w
    BY <1>2, <1>4, <1>5, <2>1, <2>3
  <2> QED BY <1>5, <2>1, <2>2, <2>3 DEF LastWrite
<1>7. CASE w.path # p
  <2>1. ~IsPut(r[n + 1], p)
    BY <1>4, <1>7 DEF IsPut
  <2>2. view'[d][p] = view[d][p]
    BY <1>3, <1>7 DEF TypeOK, Node
  <2>3. \A i \in DOMAIN r : i = n + 1 \/ (i \in DOMAIN q /\ r[i] = q[i])
    BY <1>2, <1>4
  <2>4. \A i \in DOMAIN q : i \in DOMAIN r /\ r[i] = q[i]
    BY <1>2, <1>4
  <2>5. LastWrite(r, p, view[d][p])
    <3>1. LastWrite(q, p, view[d][p]) BY DEF NetInv, q
    <3> QED BY <3>1, <2>1, <2>3, <2>4 DEF LastWrite
  <2>6. ASSUME \A i \in DOMAIN r : i > sent[d] => ~IsPut(r[i], p) PROVE server[p] = view[d][p]
    <3>1. \A i \in DOMAIN q : i > sent[d] => ~IsPut(q[i], p) BY <2>4, <2>6
    <3> QED BY <3>1 DEF NetInv, q
  <2> QED BY <2>2, <2>5, <2>6
<1> QED BY <1>6, <1>7

\* A step that leaves the node and the pending writes alone keeps NetInv, and so does a
\* reconnection, which sends the writes again.
LEMMA OthersKeepNet ==
  ASSUME TypeOK, NEW d \in Devices, NetInv(d), server' = server, view' = view, pend' = pend,
         sent' = sent \/ sent'[d] = 0
  PROVE  NetInv(d)'
<1> SUFFICES ASSUME sent'[d] = 0, NEW p \in Paths,
                    \A i \in DOMAIN pend[d] : i > sent'[d] => ~IsPut(pend[d][i], p)
             PROVE  server[p] = view[d][p]
  BY DEF NetInv
<1>1. \A i \in DOMAIN pend[d] : i > 0
  BY UnackedFacts
<1>2. \A i \in DOMAIN pend[d] : ~IsPut(pend[d][i], p)
  BY <1>1
<1> QED BY <1>2 DEF NetInv

------------------------
(* The callbacks of one submission after the other. *)

\* The submissions whose first answer has arrived.
Handled(d) == IF form[d] = 0 THEN Len(subs) ELSE Len(subs) - 1

\* The total at p when the first n submissions of the list are counted.
Totals(list, p, n) ==
  IF SeedCount + n = 0 THEN Absent
  ELSE IF p = AverageRating
  THEN [num |-> SeedTotal + Sums(list)[n], den |-> SeedCount + n]
  ELSE Whole(IF p = Count THEN SeedCount + n ELSE SeedTotal + Sums(list)[n])

\* The reads to be answered when s of the three totals have been written for the submission
\* handled last: the others of it, and the form's.
Awaited(d, s) == ((s + 1)..3) \cup (IF form[d] = 0 THEN {} ELSE {4})

EventIsRight(list, h, x) ==
  IF x.kind = "value" THEN x.sub = h /\ x.value = Totals(list, x.path, h - 1)
  ELSE x.sub = Len(list) /\ (x.exists <=> SeedCount + h > 0)
RequestIsRight(list, h, x) ==
  (x.kind = "get" => x.sub = h) /\ (x.kind = "ask" => x.sub = Len(list))

\* The writes issued so far bring the view to the totals: those of s kinds count the
\* submission handled last, the others those before it.
Shows(list, h, s, v, r) ==
  \A p \in TotalPaths :
    Outcome(r, v[p], p, Totals(list, p, IF Place(p) <= s THEN h ELSE h - 1))

\* Before the first review there is nothing; after it the count is seen by whoever asks.
ExistenceIsKnown(h, e, a, r, v) ==
  /\ SeedCount + h = 0 => \A p \in Paths : v[p] = Absent /\ Untouched(r, p)
  /\ SeedCount + h > 0 =>
       v[Count] # Absent \/ (CountGoesAhead(r) /\ a = <<>> /\ 4 \notin Ranks(e))

ClientInv(d, s) ==
  /\ s < 3 => Handled(d) > 0 /\ SeedCount + Handled(d) > 1
  /\ InLine(events[d], asked[d], requests[d], Awaited(d, s))
  /\ \A x \in Elements(events[d]) : EventIsRight(subs, Handled(d), x)
  /\ \A x \in Elements(asked[d]) : x.sub = Len(subs)
  /\ \A x \in Elements(requests[d]) : RequestIsRight(subs, Handled(d), x)
  /\ NoWriteAfterRead(requests[d])
  /\ Shows(subs, Handled(d), s, view[d], requests[d])
  /\ s \in {1, 2} => newCount[Handled(d)] = SeedCount + Handled(d)
  /\ s = 2 => newTotal[Handled(d)] = SeedTotal + Sums(subs)[Handled(d)]
  /\ ExistenceIsKnown(Handled(d), events[d], asked[d], requests[d], view[d])

\* The app runs, a form has one submission, and only those handled are uploading.
FormInv(d) ==
  /\ status[d] = "running"
  /\ form[d] \in {0, Len(subs)}
  /\ \A n \in Submitted : subs[n].form = n
  /\ \A n \in Subs : upload[n] = "running" => n <= Handled(d)

\* The inductive invariant of the fourth part.
CountInv(d) ==
  TypeOK /\ UploadsHaveKey /\ FormInv(d) /\ NetInv(d) /\ \E s \in 0..3 : ClientInv(d, s)

\* The three totals have three places.
LEMMA PlaceFacts ==
  /\ \A p \in TotalPaths : Place(p) \in 1..3
  /\ \A p, q \in TotalPaths : Place(p) = Place(q) => p = q
  /\ Place(Count) = 1 /\ Place(TotalRatings) = 2 /\ Place(AverageRating) = 3
  /\ Count # TotalRatings /\ Count # AverageRating /\ TotalRatings # AverageRating
<1>1. Count # TotalRatings /\ Count # AverageRating /\ TotalRatings # AverageRating
  BY DEF Count, TotalRatings, AverageRating
<1> QED BY <1>1 DEF Place, TotalPaths

\* With one press per form, all the submissions are handled, or all but the one of the
\* form on the screen.
LEMMA HandledFacts ==
  ASSUME TypeOK, NEW d \in Devices, FormInv(d)
  PROVE  /\ Handled(d) \in 0 .. Len(subs) /\ Len(subs) \in Nat
         /\ SeedCount \in Nat /\ SeedTotal \in Nat
         /\ form[d] = 0 => Handled(d) = Len(subs)
         /\ form[d] # 0 => Handled(d) + 1 = Len(subs) /\ form[d] = Len(subs)
         /\ Submitted = 1 .. Len(subs) /\ Submitted \subseteq Subs
<1>1. Len(subs) \in Nat /\ Submitted = 1 .. Len(subs) /\ Submitted \subseteq Subs
  <2>1. subs \in Seq(Submissions)
    BY DEF TypeOK
  <2> QED BY <2>1, SubmittedFact
<1>2. form[d] # 0 => Len(subs) # 0
  BY DEF FormInv
<1> QED BY <1>1, <1>2, SeedAssumption DEF Handled, FormInv

\* One more write in the queue.
LEMMA IssueOneWrite ==
  ASSUME NEW R, NEW r \in Seq(R), NEW x \in R, x.kind = "put",
         NEW e, NEW a, NEW T, InLine(e, a, r, T), NoWriteAfterRead(r),
         \A y \in Elements(r) : y.kind = "get" => y.path # x.path
  PROVE  /\ InLine(e, a, r \o <<x>>, T) /\ NoWriteAfterRead(r \o <<x>>)
         /\ \A p, base, v : p # x.path /\ Outcome(r, base, p, v)
              => Outcome(r \o <<x>>, base, p, v)
         /\ \A base : Outcome(r \o <<x>>, base, x.path, x.value)
         /\ CountGoesAhead(r) => CountGoesAhead(r \o <<x>>)
         /\ Elements(r \o <<x>>) = Elements(r) \cup {x}
<1> DEFINE xs == <<x>>
<1>1. xs \in Seq(R) /\ DOMAIN xs = {1} /\ xs[1] = x OBVIOUS
<1>2. Ranks(xs) = {} /\ Ascending(xs)
  BY SingleFacts DEF Rank
<1> HIDE DEF xs
<1>3. InLine(e, a, r \o xs, T)
  <2>1. InLine(e, a, r \o xs, T \cup Ranks(xs))
    BY <1>1, <1>2, IssueInLine DEF AllBelow
  <2>2. T \cup Ranks(xs) = T
    BY <1>2
  <2> QED BY <2>1, <2>2
<1>4. \A p : p # x.path => Untouched(xs, p)
  BY <1>1 DEF Untouched, IsPut
<1>5. ~Untouched(xs, x.path) /\ LastWrite(xs, x.path, x.value)
  BY <1>1 DEF Untouched, IsPut, LastWrite
<1>6. NoWriteAfterRead(r \o xs)
  <2>1. NoWriteAfterRead(xs)
    BY <1>1 DEF NoWriteAfterRead
  <2>2. \A i \in DOMAIN r : r[i].kind = "get" => Untouched(xs, r[i].path)
    BY <1>4 DEF Elements
  <2> QED BY <1>1, <2>1, <2>2, ConcatReads
<1>7. \A p, base, v : p # x.path /\ Outcome(r, base, p, v) => Outcome(r \o xs, base, p, v)
  BY <1>1, <1>4, ConcatOutcome
<1>8. \A base : Outcome(r \o xs, base, x.path, x.value)
  BY <1>1, <1>5, ConcatOutcome
<1>9. CountGoesAhead(r) => CountGoesAhead(r \o xs)
  BY <1>1, ConcatGoesAhead
<1>10. Elements(r \o xs) = Elements(r) \cup {x}
  <2>1. Elements(xs) = {x}
    BY <1>1 DEF Elements
  <2> QED BY <1>1, <2>1, ElementsFacts
<1> QED BY <1>3, <1>6, <1>7, <1>8, <1>9, <1>10 DEF xs

\* The writes of a review leave the reads and the totals alone.
LEMMA ReviewWritesFacts ==
  ASSUME TypeOK, NEW n \in Submitted
  PROVE  /\ Ranks(ReviewWrites(n)) = {} /\ Ascending(ReviewWrites(n))
         /\ NoWriteAfterRead(ReviewWrites(n))
         /\ \A p \in TotalPaths : Untouched(ReviewWrites(n), p)
         /\ \A x \in Elements(ReviewWrites(n)) : x.kind = "put"
         /\ ReviewWrites(n) \in Seq(RequestsFor(Submitted))
<1> DEFINE q == ReviewWrites(n)
<1>1. \A i \in DOMAIN q : q[i].kind = "put" /\ q[i].path = <<ReviewFields[i], n>>
  BY DEF ReviewWrites, Put
<1>2. \A i \in DOMAIN q : q[i].path \in ReviewPaths
  <2>1. \A i \in DOMAIN q : ReviewFields[i] \in {"date", "review", "rating"}
    BY FieldsAssumption DEF ReviewWrites
  <2>2. n \in Subs
    BY SubmittedFact
  <2> HIDE DEF q
  <2> QED BY <1>1, <2>1, <2>2 DEF ReviewPaths
<1>3. q \in Seq(RequestsFor(Submitted))
  BY ReviewWritesType
<1> HIDE DEF q
<1>4. \A i \in DOMAIN q : Rank(q[i]) = 0
  BY <1>1 DEF Rank
<1>5. Ranks(q) = {} /\ Ascending(q) /\ NoWriteAfterRead(q)
  BY <1>1, <1>4 DEF Ranks, Ascending, NoWriteAfterRead
<1>6. \A p \in TotalPaths : Untouched(q, p)
  BY <1>2, TotalsAreNoReviews DEF Untouched, IsPut
<1>7. \A x \in Elements(q) : x.kind = "put"
  BY <1>1 DEF Elements
<1> QED BY <1>3, <1>5, <1>6, <1>7 DEF q

------------------------
(* The steps of Firebase. *)

\* The types of one device.
LEMMA QueueTypes ==
  ASSUME TypeOK, NEW d \in Devices
  PROVE  /\ requests[d] \in Seq(RequestsFor(Submitted))
         /\ asked[d] \in Seq(AskedFor(Submitted))
         /\ events[d] \in Seq(EventsFor(Submitted, Value \cup {Absent}))
         /\ view[d] \in Node
BY DEF TypeOK

\* A sequence over a set is one over a larger set.
LEMMA WidenSequence ==
  ASSUME NEW S, NEW T, S \subseteq T, NEW q \in Seq(S)
  PROVE  q \in Seq(T)
BY SeqDef

\* The kinds of the requests, and what each holds.
LEMMA RequestKinds ==
  ASSUME TypeOK, NEW x \in RequestsFor(Submitted)
  PROVE  /\ x.kind \in {"ask", "get", "put"}
         /\ x.kind = "put" => x.path \in Paths /\ x.value \in Value /\ x.value # Absent
         /\ x.kind = "get" => x.path \in TotalPaths /\ x.sub \in Submitted
BY AbsentAssumption DEF RequestsFor, Puts

\* What a step that starts no callback has to show.
LEMMA QuietStep ==
  ASSUME NEW d \in Devices, NEW s \in 0..3, ClientInv(d, s),
         subs' = subs, form' = form, newCount' = newCount, newTotal' = newTotal,
         InLine(events'[d], asked'[d], requests'[d], Awaited(d, s)),
         \A x \in Elements(events'[d]) : EventIsRight(subs, Handled(d), x),
         \A x \in Elements(asked'[d]) : x.sub = Len(subs),
         \A x \in Elements(requests'[d]) : RequestIsRight(subs, Handled(d), x),
         NoWriteAfterRead(requests'[d]),
         Shows(subs, Handled(d), s, view'[d], requests'[d]),
         ExistenceIsKnown(Handled(d), events'[d], asked'[d], requests'[d], view'[d])
  PROVE  ClientInv(d, s)'
BY DEF ClientInv, Handled, Awaited

\* The question is sent to the server.
LEMMA AskKeepsClient ==
  ASSUME TypeOK, NEW d \in Devices, FormInv(d), NEW s \in 0..3, ClientInv(d, s), AskServer(d)
  PROVE  ClientInv(d, s)'
<1> DEFINE q == requests[d]
           x == Head(q)
           y == [sub |-> x.sub, behind |-> Len(pend[d])]
<1>1. q # <<>> /\ x.kind = "ask" /\ q \in Seq(RequestsFor(Submitted))
  BY QueueTypes DEF AskServer, TakeUp
<1>2. /\ requests'[d] = Tail(q) /\ asked'[d] = Append(asked[d], y)
      /\ events' = events /\ view' = view /\ subs' = subs /\ form' = form
      /\ newCount' = newCount /\ newTotal' = newTotal
  BY DEF AskServer, TakeUp, form_vars, TypeOK
<1>3. x \in Elements(q) /\ Elements(Tail(q)) \subseteq Elements(q)
  BY <1>1, ElementsFacts
<1>4. asked[d] = <<>> /\ InLine(events[d], <<y>>, Tail(q), Awaited(d, s))
  <2>1. InLine(events[d], asked[d], q, Awaited(d, s)) /\ Head(q).kind = "ask"
    BY <1>1 DEF ClientInv
  <2> HIDE DEF y, q
  <2>2. asked[d] = <<>>
    BY <1>1, <2>1, AskInLine
  <2> DEFINE e == events[d]
             a == asked[d]
             T == Awaited(d, s)
  <2>3. InLine(e, a, q, T) /\ q # <<>> /\ Head(q).kind = "ask" /\ q \in Seq(RequestsFor(Submitted))
    BY <1>1, <2>1
  <2> HIDE DEF e, a, T
  <2>4. \A z : InLine(e, <<z>>, Tail(q), T)
    BY <2>3, AskInLine, Zenon
  <2> QED BY <2>2, <2>4 DEF e, T
<1>5. x.sub = Len(subs)
  BY <1>1, <1>3 DEF ClientInv, RequestIsRight
<1> HIDE DEF q, x
<1>6. asked'[d] = <<y>> /\ Elements(<<y>>) = {y}
  <2> HIDE DEF y
  <2> QED BY <1>2, <1>4 DEF Elements
<1>7. \A p : ~IsPut(x, p)
  BY <1>1 DEF IsPut
<1>8. NoWriteAfterRead(Tail(q)) /\ ~CountGoesAhead(q)
  BY <1>1, TailKeeps DEF ClientInv, q, x
<1>9. Shows(subs, Handled(d), s, view[d], Tail(q))
  <2> SUFFICES ASSUME NEW p \in TotalPaths, NEW v, Outcome(q, view[d][p], p, v)
               PROVE  Outcome(Tail(q), view[d][p], p, v)
    BY DEF ClientInv, Shows, q
  <2>1. Outcome(Tail(q), IF IsPut(Head(q), p) THEN Head(q).value ELSE view[d][p], p, v)
    BY <1>1, TailOutcome
  <2> QED BY <2>1, <1>7 DEF x
<1>10. ExistenceIsKnown(Handled(d), events[d], asked'[d], Tail(q), view[d])
  <2>1. ExistenceIsKnown(Handled(d), events[d], asked[d], q, view[d])
    BY DEF ClientInv, q
  <2>2. \A p : Untouched(q, p) => Untouched(Tail(q), p)
    BY <1>1, TailKeeps
  <2> QED BY <2>1, <2>2, <1>8 DEF ExistenceIsKnown
<1> QED
  <2>1. /\ \A z \in Elements(events[d]) : EventIsRight(subs, Handled(d), z)
        /\ \A z \in Elements(Tail(q)) : RequestIsRight(subs, Handled(d), z)
    BY <1>3 DEF ClientInv, q
  <2>2. \A z \in Elements(asked'[d]) : z.sub = Len(subs)
    BY <1>5, <1>6
  <2>3. InLine(events[d], asked'[d], Tail(q), Awaited(d, s))
    BY <1>4, <1>6
  <2> HIDE DEF y
  <2> QED BY <1>2, <1>8, <1>9, <1>10, <2>1, <2>2, <2>3, QuietStep

\* A read is answered from the view: no write of its place is still in the queue, so it
\* sees what the writes before it left.
LEMMA ServeKeepsClient ==
  ASSUME TypeOK, NEW d \in Devices, FormInv(d), NEW s \in 0..3, ClientInv(d, s), ServeRead(d)
  PROVE  ClientInv(d, s)'
<1> DEFINE q == requests[d]
           e == events[d]
           x == Head(q)
           y == ValueEvent(x.sub, x.path, view[d][x.path])
           E == EventsFor(Submitted, Value \cup {Absent}) \cup {y}
<1>1. q # <<>> /\ x.kind = "get" /\ q \in Seq(RequestsFor(Submitted))
  BY QueueTypes DEF ServeRead, TakeUp
<1>2. /\ requests'[d] = Tail(q) /\ events'[d] = Append(e, y)
      /\ asked' = asked /\ view' = view /\ subs' = subs /\ form' = form
      /\ newCount' = newCount /\ newTotal' = newTotal
  BY DEF ServeRead, TakeUp, form_vars, TypeOK
<1>3. x \in Elements(q) /\ Elements(Tail(q)) \subseteq Elements(q)
  BY <1>1, ElementsFacts
<1>4. e \in Seq(E) /\ y \in E
  <2>1. e \in Seq(EventsFor(Submitted, Value \cup {Absent}))
    BY QueueTypes
  <2> DEFINE old == EventsFor(Submitted, Value \cup {Absent})
  <2> HIDE DEF old, y, e
  <2>2. old \subseteq old \cup {y} /\ e \in Seq(old)
    BY <2>1 DEF old
  <2>3. e \in Seq(old \cup {y})
    BY <2>2, WidenSequence
  <2> QED BY <2>3 DEF old
<1>5. y.kind = "value" /\ y.sub = x.sub /\ y.path = x.path /\ y.value = view[d][x.path]
  BY DEF ValueEvent
<1>6. x.path \in TotalPaths /\ x.sub = Handled(d)
  <2>1. x \in RequestsFor(Submitted)
    BY <1>1
  <2> QED BY <1>1, <1>3, <2>1, RequestKinds DEF ClientInv, RequestIsRight
<1> HIDE DEF q, x, y, e, E
<1>7. Rank(y) = Rank(x) /\ Rank(x) = Place(x.path)
  BY <1>1, <1>5 DEF Rank
<1>8. /\ InLine(Append(e, y), asked[d], Tail(q), Awaited(d, s))
      /\ Place(x.path) \in Awaited(d, s)
  <2>1. InLine(e, asked[d], q, Awaited(d, s)) /\ Head(q).kind = "get" /\ Rank(y) = Rank(Head(q))
    BY <1>1, <1>7 DEF ClientInv, q, e, x
  <2>2. Rank(y) \in Awaited(d, s) /\ InLine(Append(e, y), asked[d], Tail(q), Awaited(d, s))
    BY <1>1, <1>4, <2>1, ServeInLine
  <2> QED BY <1>7, <2>2
<1>9. Place(x.path) > s
  BY <1>6, <1>8, PlaceFacts DEF Awaited
<1>10. Untouched(q, x.path) /\ NoWriteAfterRead(Tail(q))
  BY <1>1, TailKeeps DEF ClientInv, q, x
<1>11. EventIsRight(subs, Handled(d), y)
  <2>1. Outcome(q, view[d][x.path], x.path, Totals(subs, x.path, Handled(d) - 1))
    <3>1. ~(Place(x.path) <= s) BY <1>9, <1>6, PlaceFacts
    <3> QED BY <1>6, <3>1 DEF ClientInv, Shows, q
  <2>2. view[d][x.path] = Totals(subs, x.path, Handled(d) - 1)
    BY <1>10, <2>1 DEF Outcome
  <2> QED BY <1>5, <1>6, <2>2 DEF EventIsRight
<1>12. Elements(Append(e, y)) = Elements(e) \cup {y}
  BY <1>4, ElementsFacts
<1>13. \A p : ~IsPut(x, p)
  BY <1>1 DEF IsPut
<1>14. Shows(subs, Handled(d), s, view[d], Tail(q))
  <2> SUFFICES ASSUME NEW p \in TotalPaths, NEW v, Outcome(q, view[d][p], p, v)
               PROVE  Outcome(Tail(q), view[d][p], p, v)
    BY DEF ClientInv, Shows, q
  <2>1. Outcome(Tail(q), IF IsPut(Head(q), p) THEN Head(q).value ELSE view[d][p], p, v)
    BY <1>1, TailOutcome
  <2> QED BY <2>1, <1>13 DEF x
<1>15. ExistenceIsKnown(Handled(d), Append(e, y), asked[d], Tail(q), view[d])
  <2>1. ExistenceIsKnown(Handled(d), e, asked[d], q, view[d])
    BY DEF ClientInv, q, e
  <2>2. /\ \A p : Untouched(q, p) => Untouched(Tail(q), p)
        /\ CountGoesAhead(q) => CountGoesAhead(Tail(q))
    BY <1>1, <1>13, TailKeeps DEF x
  <2>3. Ranks(Append(e, y)) = Ranks(e) \cup ({Rank(y)} \ {0})
    <3>1. Append(e, y) = e \o <<y>> /\ <<y>> \in Seq(E)
      BY <1>4, AppendOne
    <3>2. Ranks(e \o <<y>>) = Ranks(e) \cup Ranks(<<y>>) BY <1>4, <3>1, ConcatRanks
    <3> QED BY <3>1, <3>2, SingleFacts
  <2>4. 4 \notin Ranks(e) => 4 \notin Ranks(Append(e, y))
    BY <2>3, <1>6, <1>7, PlaceFacts
  <2> QED BY <2>1, <2>2, <2>4 DEF ExistenceIsKnown
<1> QED
  <2>1. /\ \A z \in Elements(e) : EventIsRight(subs, Handled(d), z)
        /\ \A z \in Elements(asked[d]) : z.sub = Len(subs)
        /\ \A z \in Elements(Tail(q)) : RequestIsRight(subs, Handled(d), z)
    BY <1>3 DEF ClientInv, q, e
  <2>2. \A z \in Elements(Append(e, y)) : EventIsRight(subs, Handled(d), z)
    BY <2>1, <1>11, <1>12
  <2> QED BY <1>2, <1>8, <1>10, <1>14, <1>15, <2>1, <2>2, QuietStep

\* A write taken up is seen in the view, no more in the queue: the outcome is the same.
LEMMA WriteKeepsClient ==
  ASSUME TypeOK, NEW d \in Devices, FormInv(d), NEW s \in 0..3, ClientInv(d, s), IssueWrite(d)
  PROVE  ClientInv(d, s)'
<1> DEFINE q == requests[d]
           x == Head(q)
           now == view'[d]
<1>1. q # <<>> /\ x.kind = "put" /\ q \in Seq(RequestsFor(Submitted))
  BY QueueTypes DEF IssueWrite, TakeUp
<1>2. /\ requests'[d] = Tail(q) /\ view' = [view EXCEPT ![d][x.path] = x.value]
      /\ asked' = asked /\ events' = events /\ subs' = subs /\ form' = form
      /\ newCount' = newCount /\ newTotal' = newTotal
  BY DEF IssueWrite, TakeUp, form_vars, TypeOK
<1>3. Elements(Tail(q)) \subseteq Elements(q)
  BY <1>1, ElementsFacts
<1>4. x.path \in Paths /\ x.value # Absent
  <2>1. x \in RequestsFor(Submitted)
    BY <1>1
  <2> QED BY <1>1, <2>1, RequestKinds
<1> HIDE DEF q, x
<1>5. \A p \in Paths : now[p] = IF IsPut(x, p) THEN x.value ELSE view[d][p]
  BY <1>1, <1>2, <1>4 DEF IsPut, TypeOK, Node
<1> HIDE DEF now
<1>6. InLine(events[d], asked[d], Tail(q), Awaited(d, s)) /\ NoWriteAfterRead(Tail(q))
  BY <1>1, WriteInLine, TailKeeps DEF ClientInv, q, x
<1>7. Shows(subs, Handled(d), s, now, Tail(q))
  <2> SUFFICES ASSUME NEW p \in TotalPaths, NEW v, Outcome(q, view[d][p], p, v)
               PROVE  Outcome(Tail(q), now[p], p, v)
    BY DEF ClientInv, Shows, q
  <2>1. Outcome(Tail(q), IF IsPut(Head(q), p) THEN Head(q).value ELSE view[d][p], p, v)
    BY <1>1, TailOutcome
  <2>2. p \in Paths
    BY TotalPathsFact
  <2>3. now[p] = IF IsPut(Head(q), p) THEN Head(q).value ELSE view[d][p]
    BY <1>5, <2>2 DEF x
  <2> QED BY <2>1, <2>3
<1>8. ExistenceIsKnown(Handled(d), events[d], asked[d], Tail(q), now)
  <2>1. ExistenceIsKnown(Handled(d), events[d], asked[d], q, view[d])
    BY DEF ClientInv, q
  <2>2. ~Untouched(q, x.path)
    BY <1>1, TailKeeps DEF x, IsPut
  <2>3. CountGoesAhead(q) => IsPut(x, Count) \/ CountGoesAhead(Tail(q))
    BY <1>1, TailKeeps DEF x
  <2>4. /\ view[d][Count] # Absent => now[Count] # Absent
        /\ IsPut(x, Count) => now[Count] # Absent
    BY <1>4, <1>5, TotalPathsFact
  <2>5. SeedCount + Handled(d) # 0
    BY <2>1, <2>2, <1>4 DEF ExistenceIsKnown
  <2> QED BY <2>1, <2>3, <2>4, <2>5 DEF ExistenceIsKnown
<1> QED
  <2>1. /\ \A z \in Elements(events[d]) : EventIsRight(subs, Handled(d), z)
        /\ \A z \in Elements(asked[d]) : z.sub = Len(subs)
        /\ \A z \in Elements(Tail(q)) : RequestIsRight(subs, Handled(d), z)
    BY <1>3 DEF ClientInv, q
  <2> QED BY <1>2, <1>6, <1>7, <1>8, <2>1, QuietStep DEF now


\* Acknowledgements change what is asked of the server in one field.
LEMMA NetworkKeepsClient ==
  ASSUME TypeOK, NEW d \in Devices, NEW s \in 0..3, ClientInv(d, s),
         events' = events, requests' = requests, view' = view,
         subs' = subs, form' = form, newCount' = newCount, newTotal' = newTotal,
         Len(asked'[d]) = Len(asked[d]), asked'[d] = <<>> <=> asked[d] = <<>>,
         \A x \in Elements(asked'[d]) : \E y \in Elements(asked[d]) : x.sub = y.sub
  PROVE  ClientInv(d, s)'
<1>1. InLine(events[d], asked'[d], requests[d], Awaited(d, s))
  BY DEF ClientInv, InLine, AskedRanks
<1>2. ExistenceIsKnown(Handled(d), events[d], asked'[d], requests[d], view[d])
  BY DEF ClientInv, ExistenceIsKnown
<1>3. \A x \in Elements(asked'[d]) : x.sub = Len(subs)
  BY DEF ClientInv
<1>4. /\ \A x \in Elements(events[d]) : EventIsRight(subs, Handled(d), x)
      /\ \A x \in Elements(requests[d]) : RequestIsRight(subs, Handled(d), x)
      /\ NoWriteAfterRead(requests[d])
      /\ Shows(subs, Handled(d), s, view[d], requests[d])
  BY DEF ClientInv
<1> QED BY <1>1, <1>2, <1>3, <1>4, QuietStep

\* What the server applies changes nothing on the device.
LEMMA ApplyKeepsClient ==
  ASSUME TypeOK, NEW d \in Devices, NEW s \in 0..3, ClientInv(d, s), ServerApply(d)
  PROVE  ClientInv(d, s)'
<1>1. /\ events' = events /\ requests' = requests /\ view' = view /\ asked' = asked
      /\ subs' = subs /\ form' = form /\ newCount' = newCount /\ newTotal' = newTotal
  BY DEF ServerApply, form_vars
<1>2. \A x \in Elements(asked'[d]) : \E y \in Elements(asked[d]) : x.sub = y.sub
  BY <1>1
<1> QED BY <1>1, <1>2, NetworkKeepsClient

\* A connection dropped changes nothing that the form waits for.
LEMMA ReconnectKeepsClient ==
  ASSUME TypeOK, NEW d \in Devices, NEW s \in 0..3, ClientInv(d, s), Reconnect(d)
  PROVE  ClientInv(d, s)'
<1> DEFINE a == asked[d]
           b == [i \in DOMAIN a |-> [a[i] EXCEPT !.behind = 0]]
<1>1. /\ events' = events /\ requests' = requests /\ view' = view /\ asked'[d] = b
      /\ subs' = subs /\ form' = form /\ newCount' = newCount /\ newTotal' = newTotal
  BY DEF Reconnect, form_vars, TypeOK
<1>2. a \in Seq(AskedFor(Submitted)) /\ DOMAIN a = 1 .. Len(a) /\ Len(a) \in Nat
  BY DEF TypeOK
<1>3. DOMAIN b = DOMAIN a /\ \A i \in DOMAIN a : b[i].sub = a[i].sub
  BY <1>2 DEF AskedFor
<1>4. b \in Seq(AskedFor(Submitted))
  <2>1. \A x \in AskedFor(Submitted) : [x EXCEPT !.behind = 0] \in AskedFor(Submitted)
    BY DEF AskedFor
  <2>2. \A i \in DOMAIN a : a[i] \in AskedFor(Submitted)
    BY <1>2
  <2>3. \A i \in DOMAIN a : b[i] \in AskedFor(Submitted)
    BY <2>1, <2>2
  <2> HIDE DEF a, b
  <2>4. b \in [1..Len(a) -> AskedFor(Submitted)]
    <3>1. b = [i \in 1..Len(a) |-> b[i]] BY <1>2 DEF b
    <3> QED BY <1>2, <2>3, <3>1
  <2> QED BY <1>2, <2>4, SeqDef
<1> HIDE DEF a, b
<1>5. Len(b) = Len(a) /\ (b = <<>> <=> a = <<>>)
  BY <1>2, <1>3, <1>4
<1>6. \A x \in Elements(b) : \E y \in Elements(a) : x.sub = y.sub
  BY <1>3 DEF Elements
<1> QED BY <1>1, <1>5, <1>6, NetworkKeepsClient DEF a

\* Catching up leaves the view as it is, since no other device writes.
LEMMA SyncKeepsClient ==
  ASSUME TypeOK, NEW d \in Devices, NetInv(d), NEW s \in 0..3, ClientInv(d, s), Sync(d)
  PROVE  ClientInv(d, s)'
<1> DEFINE a == asked[d]
           b == [i \in DOMAIN a |-> StillBehind(d, a[i])]
<1>1. view' = view
  BY CatchUpKeepsNet DEF Sync
<1>2. /\ events' = events /\ requests' = requests /\ asked'[d] = b
      /\ subs' = subs /\ form' = form /\ newCount' = newCount /\ newTotal' = newTotal
  BY DEF Sync, CatchUp, form_vars, TypeOK
<1>3. a \in Seq(AskedFor(Submitted)) /\ DOMAIN a = 1 .. Len(a) /\ Len(a) \in Nat
  BY DEF TypeOK
<1>4. DOMAIN b = DOMAIN a /\ \A i \in DOMAIN a : b[i].sub = a[i].sub
  BY <1>3 DEF AskedFor, StillBehind
<1>5. b \in Seq(AskedFor(Submitted))
  <2>1. \A i \in DOMAIN a : StillBehind(d, a[i]) \in AskedFor(Submitted)
    BY <1>3, StillBehindType
  <2> QED BY <1>3, <2>1
<1> HIDE DEF a, b
<1>6. Len(b) = Len(a) /\ (b = <<>> <=> a = <<>>)
  BY <1>3, <1>4, <1>5
<1>7. \A x \in Elements(b) : \E y \in Elements(a) : x.sub = y.sub
  BY <1>4 DEF Elements
<1> QED BY <1>1, <1>2, <1>6, <1>7, NetworkKeepsClient DEF a

\* The answer says that the item exists if a submission has been handled: its count is in
\* the view, hence on the server or on its way there.
LEMMA AnswerKeepsClient ==
  ASSUME TypeOK, NEW d \in Devices, FormInv(d), NetInv(d), NEW s \in 0..3, ClientInv(d, s),
         AnswerAsk(d)
  PROVE  ClientInv(d, s)'
<1> DEFINE a == asked[d]
           e == events[d]
           found == \E p \in Paths : Refreshed(d)[p] # Absent
           y == ItemEvent(Head(a).sub, found)
           E == EventsFor(Submitted, Value \cup {Absent}) \cup {y}
<1>1. view' = view
  BY CatchUpKeepsNet DEF AnswerAsk
<1>2. /\ a # <<>> /\ events'[d] = Append(e, y) /\ requests' = requests
      /\ asked'[d] = [i \in 1..Len(a) - 1 |-> StillBehind(d, a[i + 1])]
      /\ subs' = subs /\ form' = form /\ newCount' = newCount /\ newTotal' = newTotal
  BY DEF AnswerAsk, CatchUp, form_vars, TypeOK
<1>3. a \in Seq(AskedFor(Submitted)) /\ requests[d] \in Seq(RequestsFor(Submitted))
  BY QueueTypes
<1>4. e \in Seq(E) /\ y \in E
  <2> DEFINE old == EventsFor(Submitted, Value \cup {Absent})
  <2> HIDE DEF old, y, e
  <2>1. old \subseteq old \cup {y} /\ e \in Seq(old)
    BY QueueTypes DEF old, e
  <2>2. e \in Seq(old \cup {y})
    BY <2>1, WidenSequence
  <2> QED BY <2>2 DEF old
<1>5. y.kind = "item" /\ y.sub = Head(a).sub /\ (y.exists <=> found)
  BY DEF ItemEvent
<1>6. found <=> SeedCount + Handled(d) > 0
  <2>1. found <=> \E p \in Paths : view[d][p] # Absent
    BY ViewIsRefreshed
  <2>2. ExistenceIsKnown(Handled(d), e, a, requests[d], view[d])
    BY DEF ClientInv
  <2>3. SeedCount + Handled(d) \in Nat /\ Count \in Paths
    BY HandledFacts, TotalPathsFact
  <2> HIDE DEF found
  <2> QED BY <1>2, <2>1, <2>2, <2>3 DEF ExistenceIsKnown
<1>7. Head(a) \in Elements(a)
  BY <1>2, <1>3, ElementsFacts
<1>8. EventIsRight(subs, Handled(d), y)
  <2>1. Head(a).sub = Len(subs)
    BY <1>7 DEF ClientInv
  <2> HIDE DEF y, found, a
  <2> QED BY <1>5, <1>6, <2>1 DEF EventIsRight
<1> HIDE DEF y, found, e, E
<1>9. Rank(y) = 4
  BY <1>5 DEF Rank
<1>10. Len(a) = 1 /\ InLine(Append(e, y), <<>>, requests[d], Awaited(d, s))
  <2>1. InLine(e, a, requests[d], Awaited(d, s))
    BY DEF ClientInv, e
  <2> HIDE DEF a
  <2> QED BY <1>2, <1>3, <1>4, <1>9, <2>1, AnswerInLine
<1>11. asked'[d] = <<>>
  BY <1>2, <1>10
<1>12. Elements(Append(e, y)) = Elements(e) \cup {y}
  BY <1>4, ElementsFacts
<1>13. ExistenceIsKnown(Handled(d), Append(e, y), <<>>, requests[d], view[d])
  <2>1. ExistenceIsKnown(Handled(d), e, a, requests[d], view[d])
    BY DEF ClientInv, e
  <2> QED BY <1>2, <2>1 DEF ExistenceIsKnown
<1> QED
  <2>1. /\ \A z \in Elements(e) : EventIsRight(subs, Handled(d), z)
        /\ \A z \in Elements(requests[d]) : RequestIsRight(subs, Handled(d), z)
        /\ NoWriteAfterRead(requests[d])
        /\ Shows(subs, Handled(d), s, view[d], requests[d])
    BY DEF ClientInv, e
  <2>2. \A z \in Elements(Append(e, y)) : EventIsRight(subs, Handled(d), z)
    BY <2>1, <1>8, <1>12
  <2>3. \A z \in Elements(asked'[d]) : z.sub = Len(subs)
    BY <1>11 DEF Elements
  <2> QED BY <1>1, <1>2, <1>10, <1>11, <1>13, <2>1, <2>2, <2>3, QuietStep

------------------------
(* The callbacks of the three reads. *)

\* A total is a whole number or a quotient of two; without reviews there is none.
LEMMA TotalsFacts ==
  ASSUME TypeOK, NEW n \in 0..Len(subs), NEW p \in TotalPaths, SeedCount + n > 0
  PROVE  /\ Totals(subs, p, n) \in Value /\ Totals(subs, p, n) # Absent
         /\ Sums(subs)[n] \in Nat
         /\ Totals(subs, Count, n) = Whole(SeedCount + n)
         /\ Totals(subs, TotalRatings, n) = Whole(SeedTotal + Sums(subs)[n])
         /\ Totals(subs, AverageRating, n)
              = [num |-> SeedTotal + Sums(subs)[n], den |-> SeedCount + n]
         /\ Whole(SeedCount + n).num = SeedCount + n
         /\ Whole(SeedTotal + Sums(subs)[n]).num = SeedTotal + Sums(subs)[n]
<1>1. SeedCount \in Nat /\ SeedTotal \in Nat /\ n \in Nat
  <2>1. Len(subs) \in Nat
    BY DEF TypeOK
  <2> QED BY <2>1, SeedAssumption
<1>2. Sums(subs)[n] \in Nat
  <2>1. subs \in Seq(Submissions)
    BY DEF TypeOK
  <2>2. Sums(subs) \in [0..Len(subs) -> Nat]
    BY <2>1, SumsFacts
  <2> QED BY <2>2
<1> DEFINE t == Sums(subs)[n]
<1> HIDE DEF t
<1>3. t \in Nat /\ SeedCount + n # 0
  BY <1>1, <1>2 DEF t
<1>4. /\ Totals(subs, Count, n) = Whole(SeedCount + n)
      /\ Totals(subs, TotalRatings, n) = Whole(SeedTotal + t)
      /\ Totals(subs, AverageRating, n) = [num |-> SeedTotal + t, den |-> SeedCount + n]
  BY <1>3, PlaceFacts DEF Totals, t
<1>5. /\ Whole(SeedCount + n) \in Value /\ Whole(SeedTotal + t) \in Value
      /\ [num |-> SeedTotal + t, den |-> SeedCount + n] \in Value
      /\ Whole(SeedCount + n).num = SeedCount + n /\ Whole(SeedTotal + t).num = SeedTotal + t
  BY <1>1, <1>3 DEF Value, Whole
<1>6. p = Count \/ p = TotalRatings \/ p = AverageRating
  BY DEF TotalPaths
<1>7. Totals(subs, p, n) \in Value
  BY <1>4, <1>5, <1>6
<1>8. Totals(subs, p, n) # Absent
  BY <1>7, AbsentAssumption
<1> QED BY <1>3, <1>4, <1>5, <1>7, <1>8 DEF t

\* The answer that is next is the next total's, and it holds the total before this review.
LEMMA NextAnswer ==
  ASSUME TypeOK, NEW d \in Devices, FormInv(d), NEW s \in 0..3, ClientInv(d, s),
         events[d] # <<>>, Head(events[d]).kind = "value"
  PROVE  /\ Head(events[d]).path \in TotalPaths /\ Place(Head(events[d]).path) = s + 1
         /\ Head(events[d]).sub = Handled(d)
         /\ Head(events[d]).value = Totals(subs, Head(events[d]).path, Handled(d) - 1)
         /\ Handled(d) > 0 /\ Handled(d) - 1 \in 0 .. Len(subs) /\ SeedCount + (Handled(d) - 1) > 0
         /\ InLine(Tail(events[d]), asked[d], requests[d], Awaited(d, s) \ {s + 1})
         /\ Elements(Tail(events[d])) \subseteq Elements(events[d])
         /\ Ranks(Tail(events[d])) \subseteq Ranks(events[d])
<1> DEFINE e == events[d]
           x == Head(e)
           T == Awaited(d, s)
           E == EventsFor(Submitted, Value \cup {Absent})
<1>1. e \in Seq(E) /\ e # <<>> /\ x.kind = "value"
  BY QueueTypes
<1>2. x \in E /\ x \in Elements(e) /\ Elements(Tail(e)) \subseteq Elements(e)
  <2> HIDE DEF E, e
  <2> QED BY <1>1, ElementsFacts
<1>3. x.path \in TotalPaths
  BY <1>1, <1>2, ValueEventType
<1> HIDE DEF e, x, E, T
<1>4. Rank(x) = Place(x.path) /\ Place(x.path) \in 1..3
  BY <1>1, <1>3, PlaceFacts DEF Rank
<1>5. /\ Place(x.path) \in T
      /\ \A k \in T \ {Place(x.path)} : Place(x.path) < k
      /\ InLine(Tail(e), asked[d], requests[d], T \ {Place(x.path)})
  <2>1. InLine(e, asked[d], requests[d], T) /\ Rank(Head(e)) \in 1..4
    BY <1>4 DEF ClientInv, T, e, x
  <2>2. requests[d] \in Seq(RequestsFor(Submitted))
    BY QueueTypes
  <2>3. /\ Rank(Head(e)) \in T
        /\ \A k \in T \ {Rank(Head(e))} : Rank(Head(e)) < k
        /\ InLine(Tail(e), asked[d], requests[d], T \ {Rank(Head(e))})
    BY <1>1, <2>1, <2>2, CallbackInLine
  <2> QED BY <1>4, <2>3 DEF x
<1>6. Place(x.path) = s + 1 /\ s < 3
  BY <1>4, <1>5 DEF T, Awaited
<1>7. x.sub = Handled(d) /\ x.value = Totals(subs, x.path, Handled(d) - 1)
  BY <1>1, <1>2 DEF ClientInv, EventIsRight, e
<1>8. Handled(d) > 0 /\ SeedCount + Handled(d) > 1
  BY <1>6 DEF ClientInv
<1>9. Handled(d) - 1 \in 0 .. Len(subs) /\ SeedCount + (Handled(d) - 1) > 0
  BY <1>8, HandledFacts
<1>10. Ranks(Tail(e)) \subseteq Ranks(e)
  BY <1>1, TailRanks
<1> QED BY <1>2, <1>3, <1>5, <1>6, <1>7, <1>8, <1>9, <1>10 DEF e, x, T

\* No forced cast fails.
LEMMA NothingToTrap ==
  ASSUME TypeOK, NEW d \in Devices, FormInv(d), NEW s \in 0..3, ClientInv(d, s)
  PROVE  ~CastFails(d)
<1> SUFFICES ASSUME CastFails(d) PROVE FALSE OBVIOUS
<1>1. events[d] # <<>> /\ Head(events[d]).kind = "value" /\ Head(events[d]).value = Absent
  BY DEF CastFails
<1> DEFINE p == Head(events[d]).path
           n == Handled(d) - 1
<1>2. p \in TotalPaths /\ n \in 0 .. Len(subs) /\ SeedCount + n > 0 /\ Totals(subs, p, n) = Absent
  BY <1>1, NextAnswer
<1> QED BY <1>2, TotalsFacts

\* A callback that writes the total that counts its review.
LEMMA ValueKeepsClient ==
  ASSUME TypeOK, NEW d \in Devices, FormInv(d), NEW s \in 0..3, ClientInv(d, s),
         NEW p, ValueArrived(d, p), Issue(d, <<Put(p, Totals(subs, p, Handled(d)))>>),
         s + 1 \in {1, 2} => newCount'[Handled(d)] = SeedCount + Handled(d),
         s + 1 = 2 => newTotal'[Handled(d)] = SeedTotal + Sums(subs)[Handled(d)]
  PROVE  s + 1 \in 0 .. 3 /\ ClientInv(d, s + 1)'
<1> DEFINE h == Handled(d)
           e == events[d]
           r == requests[d]
           a == asked[d]
           v == Totals(subs, p, h)
           x == Put(p, v)
           T == Awaited(d, s + 1)
           R == RequestsFor(Submitted)
<1>1. e # <<>> /\ Head(e).kind = "value" /\ Head(e).path = p /\ events'[d] = Tail(e)
  BY DEF ValueArrived, Callback, TypeOK
<1>2. /\ asked' = asked /\ view' = view /\ subs' = subs /\ form' = form
      /\ requests'[d] = r \o <<x>>
  BY DEF ValueArrived, Issue, TypeOK
<1>3. p \in TotalPaths /\ Place(p) = s + 1 /\ h > 0 /\ h - 1 \in 0..Len(subs)
      /\ SeedCount + (h - 1) > 0
      /\ InLine(Tail(e), a, r, Awaited(d, s) \ {s + 1})
      /\ Elements(Tail(e)) \subseteq Elements(e) /\ Ranks(Tail(e)) \subseteq Ranks(e)
  BY <1>1, NextAnswer
<1>4. s + 1 \in 1..3
  BY <1>3, PlaceFacts
<1>5. Awaited(d, s) \ {s + 1} = T
  <2>1. \A k \in Awaited(d, s) \ {s + 1} : k \in T
    BY <1>4 DEF Awaited
  <2>2. \A k \in T : k \in Awaited(d, s) \ {s + 1}
    BY <1>4 DEF Awaited
  <2> QED BY <2>1, <2>2
<1>6. h \in 0 .. Len(subs) /\ SeedCount + h > 0 /\ SeedCount + h > 1 /\ SeedCount + h # 0
  BY <1>3, HandledFacts
<1>7. v \in Value
  BY <1>3, <1>6, TotalsFacts
<1>8. x \in R /\ x.kind = "put" /\ x.path = p /\ x.value = v
  BY <1>3, <1>7, PutType, TotalPathsFact DEF Put
<1>9. r \in Seq(R)
  BY QueueTypes
<1> HIDE DEF h, e, r, a, v, x, T, R
<1>10. InLine(Tail(e), a, r, T) /\ NoWriteAfterRead(r)
  BY <1>3, <1>5 DEF ClientInv, r
<1>11. \A y \in Elements(r) : y.kind = "get" => y.path # x.path
  <2> SUFFICES ASSUME NEW i \in DOMAIN r, r[i].kind = "get", r[i].path = p PROVE FALSE
    BY <1>8 DEF Elements
  <2>1. Rank(r[i]) = s + 1 /\ s + 1 # 0
    BY <1>3, <1>4 DEF Rank
  <2>2. s + 1 \in Ranks(r)
    BY <2>1 DEF Ranks
  <2>3. s + 1 \in T
    BY <1>10, <2>2 DEF InLine
  <2> QED BY <1>5, <2>3
<1> DEFINE q == r \o <<x>>
<1>12. /\ InLine(Tail(e), a, q, T) /\ NoWriteAfterRead(q)
       /\ \A u, base, w : u # p /\ Outcome(r, base, u, w) => Outcome(q, base, u, w)
       /\ \A base : Outcome(q, base, p, v)
       /\ CountGoesAhead(r) => CountGoesAhead(q)
       /\ Elements(q) = Elements(r) \cup {x}
  BY <1>8, <1>9, <1>10, <1>11, IssueOneWrite
<1> HIDE DEF q
<1>13. Shows(subs, h, s + 1, view[d], q)
  <2> SUFFICES ASSUME NEW u \in TotalPaths
               PROVE  Outcome(q, view[d][u], u,
                              Totals(subs, u, IF Place(u) <= s + 1 THEN h ELSE h - 1))
    BY DEF Shows
  <2>1. CASE u = p
    <3>1. Place(u) <= s + 1 BY <1>3, <1>4, <2>1
    <3> QED BY <2>1, <3>1, <1>12 DEF v
  <2>2. CASE u # p
    <3>1. Place(u) <= s <=> Place(u) <= s + 1 BY <1>3, <1>4, <2>2, PlaceFacts
    <3>2. Outcome(r, view[d][u], u, Totals(subs, u, IF Place(u) <= s THEN h ELSE h - 1))
      BY DEF ClientInv, Shows, r, h
    <3> QED BY <2>2, <3>1, <3>2, <1>12
  <2> QED BY <2>1, <2>2
<1>14. ExistenceIsKnown(h, Tail(e), a, q, view[d])
  <2>1. ExistenceIsKnown(h, e, a, r, view[d])
    BY DEF ClientInv, h, e, a, r
  <2> QED BY <2>1, <1>3, <1>6, <1>12 DEF ExistenceIsKnown
<1>15. /\ \A y \in Elements(Tail(e)) : EventIsRight(subs, h, y)
       /\ \A y \in Elements(a) : y.sub = Len(subs)
       /\ \A y \in Elements(q) : RequestIsRight(subs, h, y)
  <2>1. RequestIsRight(subs, h, x)
    BY <1>8 DEF RequestIsRight
  <2>2. \A y \in Elements(r) : RequestIsRight(subs, h, y)
    BY DEF ClientInv, r, h
  <2>3. /\ \A y \in Elements(Tail(e)) : EventIsRight(subs, h, y)
        /\ \A y \in Elements(a) : y.sub = Len(subs)
    BY <1>3 DEF ClientInv, e, h, a
  <2> QED BY <2>1, <2>2, <2>3, <1>12
<1>16. /\ Handled(d)' = h /\ Awaited(d, s + 1)' = T /\ events'[d] = Tail(e)
       /\ asked'[d] = a /\ requests'[d] = q /\ view'[d] = view[d] /\ subs' = subs
  BY <1>1, <1>2 DEF Handled, Awaited, h, T, a, q
<1>17. /\ s + 1 \in {1, 2} => newCount'[h] = SeedCount + h
       /\ s + 1 = 2 => newTotal'[h] = SeedTotal + Sums(subs)[h]
  BY DEF h
<1> QED BY <1>3, <1>4, <1>6, <1>12, <1>13, <1>14, <1>15, <1>16, <1>17 DEF ClientInv


\* The count read is that of the submissions before: one more is written.
LEMMA CountKeepsClient ==
  ASSUME TypeOK, NEW d \in Devices, FormInv(d), NEW s \in 0..3, ClientInv(d, s),
         CountArrived(d)
  PROVE  \E t \in 0..3 : ClientInv(d, t)'
<1> DEFINE x == Head(events[d])
           h == Handled(d)
<1>1. /\ ValueArrived(d, Count) /\ Issue(d, <<Put(Count, Whole(x.value.num + 1))>>)
      /\ newCount' = [newCount EXCEPT ![x.sub] = x.value.num + 1]
  BY DEF CountArrived
<1>2. events[d] # <<>> /\ x.kind = "value" /\ x.path = Count
  BY <1>1 DEF ValueArrived, Callback
<1>3. /\ Place(Count) = s + 1 /\ x.sub = h /\ x.value = Totals(subs, Count, h - 1)
      /\ h - 1 \in 0 .. Len(subs) /\ SeedCount + (h - 1) > 0
  BY <1>2, NextAnswer
<1>4. h \in 0 .. Len(subs) /\ SeedCount \in Nat /\ Len(subs) \in Nat /\ h \in Subs
  <2>1. h \in 0 .. Len(subs) /\ SeedCount \in Nat /\ Len(subs) \in Nat
    BY HandledFacts
  <2>2. Submitted = 1 .. Len(subs) /\ Submitted \subseteq Subs
    BY HandledFacts
  <2> QED BY <2>1, <2>2, <1>3
<1> HIDE DEF x, h
<1>5. x.value.num = SeedCount + (h - 1)
  BY <1>3, TotalsFacts, PlaceFacts, TotalPathsFact
<1>6. x.value.num + 1 = SeedCount + h
  BY <1>3, <1>4, <1>5
<1>7. Whole(x.value.num + 1) = Totals(subs, Count, h)
  BY <1>3, <1>4, <1>6, TotalsFacts, TotalPathsFact
<1>8. newCount'[h] = SeedCount + h
  BY <1>1, <1>3, <1>4, <1>6 DEF TypeOK
<1>9. s + 1 = 1
  BY <1>3, PlaceFacts
<1>10. s + 1 \in 0 .. 3 /\ ClientInv(d, s + 1)'
  BY <1>1, <1>7, <1>8, <1>9, ValueKeepsClient DEF h
<1> QED BY <1>10

\* The total read is that of the submissions before: this rating is added to it.
LEMMA TotalKeepsClient ==
  ASSUME TypeOK, NEW d \in Devices, FormInv(d), NEW s \in 0..3, ClientInv(d, s),
         TotalArrived(d)
  PROVE  \E t \in 0..3 : ClientInv(d, t)'
<1> DEFINE x == Head(events[d])
           h == Handled(d)
           t == x.value.num + subs[x.sub].rating
<1>1. /\ ValueArrived(d, TotalRatings) /\ Issue(d, <<Put(TotalRatings, Whole(t))>>)
      /\ newTotal' = [newTotal EXCEPT ![x.sub] = t] /\ newCount' = newCount
  BY DEF TotalArrived
<1>2. events[d] # <<>> /\ x.kind = "value" /\ x.path = TotalRatings
  BY <1>1 DEF ValueArrived, Callback
<1>3. /\ Place(TotalRatings) = s + 1 /\ x.sub = h /\ x.value = Totals(subs, TotalRatings, h - 1)
      /\ h - 1 \in 0 .. Len(subs) /\ SeedCount + (h - 1) > 0
  BY <1>2, NextAnswer
<1>4. /\ h \in 0 .. Len(subs) /\ SeedCount \in Nat /\ SeedTotal \in Nat /\ Len(subs) \in Nat
      /\ h \in Subs /\ h \in 1..Len(subs)
  <2>1. h \in 0 .. Len(subs) /\ SeedCount \in Nat /\ SeedTotal \in Nat /\ Len(subs) \in Nat
    BY HandledFacts
  <2>2. Submitted = 1 .. Len(subs) /\ Submitted \subseteq Subs
    BY HandledFacts
  <2> QED BY <2>1, <2>2, <1>3
<1>5. subs[x.sub].rating \in Nat
  BY <1>1, ValueEventFacts
<1> HIDE DEF x, h
<1>6. x.value.num = SeedTotal + Sums(subs)[h - 1] /\ Sums(subs)[h - 1] \in Nat
  BY <1>3, TotalsFacts, PlaceFacts, TotalPathsFact
<1>7. Sums(subs)[h] = Sums(subs)[h - 1] + subs[h].rating
  <2>1. subs \in Seq(Submissions)
    BY DEF TypeOK
  <2> QED BY <1>4, <2>1, SumsFacts
<1>8. t = SeedTotal + Sums(subs)[h]
  BY <1>3, <1>4, <1>5, <1>6, <1>7
<1>9. Whole(t) = Totals(subs, TotalRatings, h)
  <2>1. SeedCount + h > 0
    BY <1>3, <1>4
  <2>2. Totals(subs, TotalRatings, h) = Whole(SeedTotal + Sums(subs)[h])
    BY <1>4, <2>1, TotalsFacts, TotalPathsFact
  <2> QED BY <1>8, <2>2
<1>10. newTotal'[h] = SeedTotal + Sums(subs)[h]
  BY <1>1, <1>3, <1>4, <1>8 DEF TypeOK
<1>11. s + 1 = 2
  BY <1>3, PlaceFacts
<1>12. newCount'[h] = SeedCount + h
  BY <1>1, <1>11 DEF ClientInv, h
<1> HIDE DEF t
<1>13. s + 1 \in 0 .. 3 /\ ClientInv(d, s + 1)'
  BY <1>1, <1>9, <1>10, <1>12, ValueKeepsClient DEF h
<1> QED BY <1>13

\* The average is written of the count and total computed, for this submission, by the
\* two callbacks before it.
LEMMA AverageKeepsClient ==
  ASSUME TypeOK, NEW d \in Devices, FormInv(d), NEW s \in 0..3, ClientInv(d, s),
         AverageArrived(d)
  PROVE  \E t \in 0..3 : ClientInv(d, t)'
<1> DEFINE x == Head(events[d])
           h == Handled(d)
           v == [num |-> newTotal[x.sub], den |-> newCount[x.sub]]
<1>1. ValueArrived(d, AverageRating) /\ Issue(d, <<Put(AverageRating, v)>>)
  BY DEF AverageArrived
<1>2. events[d] # <<>> /\ x.kind = "value" /\ x.path = AverageRating
  BY <1>1 DEF ValueArrived, Callback
<1>3. /\ Place(AverageRating) = s + 1 /\ x.sub = h
      /\ h - 1 \in 0 .. Len(subs) /\ SeedCount + (h - 1) > 0
  BY <1>2, NextAnswer
<1>4. h \in 0 .. Len(subs) /\ SeedCount + h > 0
  <2>1. h \in 0 .. Len(subs) /\ SeedCount \in Nat /\ Len(subs) \in Nat
    BY HandledFacts
  <2> QED BY <2>1, <1>3
<1>5. s = 2
  BY <1>3, PlaceFacts
<1>6. newCount[h] = SeedCount + h /\ newTotal[h] = SeedTotal + Sums(subs)[h]
  BY <1>5 DEF ClientInv
<1>7. v = Totals(subs, AverageRating, h)
  BY <1>3, <1>4, <1>6, TotalsFacts, TotalPathsFact
<1> HIDE DEF v, x
<1>8. s + 1 \in 0 .. 3 /\ ClientInv(d, s + 1)'
  BY <1>1, <1>5, <1>7, ValueKeepsClient DEF h
<1> QED BY <1>8

------------------------
(* The end of an upload. *)

\* The end of an upload writes the URL of the image, no total.
LEMMA UploadKeepsClient ==
  ASSUME TypeOK, UploadsHaveKey, NEW d \in Devices, FormInv(d), NEW s \in 0..3, ClientInv(d, s),
         NEW n \in Subs, NEW ok, UploadFinished(d, n, ok)
  PROVE  ClientInv(d, s)'
<1> DEFINE h == Handled(d)
           e == events[d]
           r == requests[d]
           a == asked[d]
           key == uniqueReviewID[subs[n].form]
           p == <<"imageURL", key>>
           x == Put(p, Whole(n))
           T == Awaited(d, s)
           R == RequestsFor(Submitted)
<1>1. /\ asked' = asked /\ view' = view /\ subs' = subs /\ form' = form /\ events' = events
      /\ newCount' = newCount /\ newTotal' = newTotal
      /\ requests' = requests \/ requests'[d] = r \o <<x>>
  BY DEF UploadFinished, Issue, TypeOK
<1>2. n \in Submitted /\ upload[n] = "running" /\ key # 0 /\ n <= h
  BY DEF UploadFinished, UploadsHaveKey, FormInv
<1>3. key \in Subs
  <2>1. subs[n] \in Submissions
    BY <1>2 DEF TypeOK, Submitted
  <2>2. subs[n].form \in Subs
    BY <2>1 DEF Submissions
  <2> QED BY <1>2, <2>2 DEF TypeOK
<1>4. p \in ReviewPaths /\ p \in Paths
  BY <1>3 DEF ReviewPaths, Paths
<1>5. p \notin TotalPaths
  BY <1>4, TotalsAreNoReviews
<1>6. n \in Nat /\ n > 0
  BY SubsFacts
<1>7. x \in R /\ x.kind = "put" /\ x.path = p
  BY <1>4, <1>6, WholeIsValue, PutType DEF Put
<1>8. h \in Nat /\ SeedCount + h # 0
  BY <1>2, <1>6, HandledFacts
<1>9. r \in Seq(R) /\ InLine(e, a, r, T) /\ NoWriteAfterRead(r)
  BY QueueTypes DEF ClientInv
<1>10. \A y \in Elements(r) : y.kind = "get" => y.path # x.path
  <2>1. \A y \in R : y.kind = "get" => y.path \in TotalPaths
    BY RequestKinds
  <2>2. Elements(r) \subseteq R
    BY <1>9, ElementsFacts
  <2> QED BY <2>1, <2>2, <1>5, <1>7
<1> HIDE DEF h, e, r, a, p, x, T, R
<1> DEFINE q == r \o <<x>>
<1>11. /\ InLine(e, a, q, T) /\ NoWriteAfterRead(q)
       /\ \A u, base, w : u # p /\ Outcome(r, base, u, w) => Outcome(q, base, u, w)
       /\ CountGoesAhead(r) => CountGoesAhead(q)
       /\ Elements(q) = Elements(r) \cup {x}
  BY <1>7, <1>9, <1>10, IssueOneWrite
<1> HIDE DEF q
<1>12. Shows(subs, h, s, view[d], q)
  <2> SUFFICES ASSUME NEW u \in TotalPaths, NEW w, Outcome(r, view[d][u], u, w)
               PROVE  Outcome(q, view[d][u], u, w)
    BY DEF ClientInv, Shows, r, h
  <2> QED BY <1>5, <1>11
<1>13. ExistenceIsKnown(h, e, a, q, view[d])
  <2>1. ExistenceIsKnown(h, e, a, r, view[d])
    BY DEF ClientInv, h, e, a, r
  <2> QED BY <2>1, <1>8, <1>11 DEF ExistenceIsKnown
<1>14. /\ \A y \in Elements(e) : EventIsRight(subs, h, y)
       /\ \A y \in Elements(a) : y.sub = Len(subs)
       /\ \A y \in Elements(r) : RequestIsRight(subs, h, y)
  BY DEF ClientInv, r, h, e, a
<1>15. \A y \in Elements(q) : RequestIsRight(subs, h, y)
  BY <1>7, <1>11, <1>14 DEF RequestIsRight
<1>16. CASE requests' = requests
  BY <1>1, <1>16 DEF ClientInv, Handled, Awaited
<1>17. CASE requests'[d] = q
  <2>1. events'[d] = e /\ asked'[d] = a /\ view'[d] = view[d]
    BY <1>1 DEF e, a
  <2> QED BY <1>1, <1>11, <1>12, <1>13, <1>14, <1>15, <1>17, <2>1, QuietStep DEF h, T
<1> QED BY <1>1, <1>16, <1>17 DEF q

------------------------
(* The answer to the read of the whole tree. *)

\* It comes when nothing else is on its way: the submission handled last is done.
LEMMA ItemAnswer ==
  ASSUME TypeOK, NEW d \in Devices, FormInv(d), NEW s \in 0..3, ClientInv(d, s),
         events[d] # <<>>, Head(events[d]).kind = "item"
  PROVE  /\ s = 3 /\ form[d] # 0 /\ Head(events[d]).sub = Len(subs)
         /\ Head(events[d]).exists <=> SeedCount + Handled(d) > 0
         /\ InLine(Tail(events[d]), asked[d], requests[d], {})
         /\ Elements(Tail(events[d])) = {} /\ asked[d] = <<>>
         /\ \A x \in Elements(requests[d]) : x.kind = "put"
         /\ 4 \in Ranks(events[d])
<1> DEFINE e == events[d]
           x == Head(e)
           T == Awaited(d, s)
           E == EventsFor(Submitted, Value \cup {Absent})
           R == RequestsFor(Submitted)
           r == requests[d]
           a == asked[d]
<1>1. e \in Seq(E) /\ e # <<>> /\ x.kind = "item" /\ r \in Seq(R)
  BY QueueTypes
<1>2. /\ \A y \in E : y.kind \in {"item", "value"} /\ (y.kind = "value" => y.path \in TotalPaths)
      /\ \A y \in R : y.kind \in {"ask", "get", "put"} /\ (y.kind = "get" => y.path \in TotalPaths)
  BY RequestKinds DEF EventsFor
<1> HIDE DEF e, x, E, T, R, r, a
<1>3. /\ \A y \in E : Rank(y) # 0
      /\ \A y \in R : Rank(y) = 0 => y.kind = "put"
  BY <1>2, PlaceFacts DEF Rank
<1>4. x \in Elements(e) /\ Rank(x) = 4
  BY <1>1, ElementsFacts DEF Rank, x
<1>5. /\ 4 \in T /\ \A k \in T \ {4} : 4 < k
      /\ InLine(Tail(e), a, r, T \ {4})
  <2>1. InLine(e, a, r, T) /\ Rank(Head(e)) \in 1..4
    BY <1>4 DEF ClientInv, T, e, x, a, r
  <2>2. /\ Rank(Head(e)) \in T
        /\ \A k \in T \ {Rank(Head(e))} : Rank(Head(e)) < k
        /\ InLine(Tail(e), a, r, T \ {Rank(Head(e))})
    BY <1>1, <2>1, CallbackInLine
  <2> QED BY <1>4, <2>2 DEF x
<1>6. s = 3 /\ form[d] # 0
  <2>1. form[d] # 0
    BY <1>5 DEF T, Awaited
  <2>2. s < 3 => s + 1 \in T \ {4} /\ ~(4 < s + 1)
    BY DEF T, Awaited
  <2> QED BY <1>5, <2>1, <2>2
<1>7. T \ {4} = {}
  BY <1>6 DEF T, Awaited
<1>8. InLine(Tail(e), a, r, {})
  BY <1>5, <1>7
<1>9. Ranks(Tail(e)) = {} /\ AskedRanks(a) = {} /\ Ranks(r) = {}
  BY <1>8 DEF InLine
<1>10. Tail(e) \in Seq(E)
  BY <1>1
<1>11. Elements(Tail(e)) = {}
  <2> SUFFICES ASSUME NEW i \in DOMAIN Tail(e) PROVE FALSE
    BY DEF Elements
  <2>1. Tail(e)[i] \in E
    BY <1>10
  <2>2. Rank(Tail(e)[i]) \in Ranks(Tail(e))
    BY <1>3, <2>1 DEF Ranks
  <2> QED BY <1>9, <2>2
<1>12. a = <<>>
  BY <1>9 DEF AskedRanks
<1>13. \A y \in Elements(r) : y.kind = "put"
  <2> SUFFICES ASSUME NEW i \in DOMAIN r PROVE r[i].kind = "put"
    BY DEF Elements
  <2>1. r[i] \in R
    BY <1>1
  <2>2. Rank(r[i]) = 0
    BY <1>9 DEF Ranks
  <2> QED BY <1>3, <2>1, <2>2
<1>14. x.sub = Len(subs) /\ (x.exists <=> SeedCount + Handled(d) > 0)
  BY <1>1, <1>4 DEF ClientInv, EventIsRight, e
<1>15. 4 \in Ranks(e)
  BY <1>4 DEF Elements, Ranks
<1> QED BY <1>6, <1>8, <1>11, <1>12, <1>13, <1>14, <1>15 DEF e, x, a, r

\* The form leaves the screen: its submission is the one handled last.
LEMMA FinishIsHandled ==
  ASSUME TypeOK, NEW d \in Devices, FormInv(d), form[d] # 0, FinishSubmit(d, Len(subs))
  PROVE  /\ form'[d] = 0 /\ subs' = subs /\ Handled(d)' = Len(subs)
         /\ Handled(d) + 1 = Len(subs) /\ Len(subs) \in Submitted
         /\ view' = view /\ asked' = asked
         /\ FormInv(d)'
<1> DEFINE n == Len(subs)
<1>1. n \in Nat /\ form[d] = n /\ n # 0 /\ Handled(d) + 1 = n /\ Submitted = 1..n
  BY HandledFacts
<1>2. n \in Submitted
  BY <1>1
<1>3. subs[n].form = n
  BY <1>2 DEF FormInv
<1>4. subs' = subs /\ form'[d] = 0 /\ view' = view /\ asked' = asked /\ status' = status
  BY <1>1, <1>3 DEF FinishSubmit, TypeOK, faults
<1>5. Handled(d)' = n
  BY <1>4 DEF Handled
<1>6. FormInv(d)'
  <2>1. ASSUME NEW m \in Subs, upload'[m] = "running" PROVE m <= n
    <3>1. m = n \/ upload[m] = "running"
      BY <2>1 DEF FinishSubmit, TypeOK
    <3>2. upload[m] = "running" => m <= Handled(d) BY DEF FormInv
    <3>3. m \in Nat /\ Handled(d) \in Nat
      BY SubsFacts, HandledFacts
    <3> QED BY <3>1, <3>2, <3>3, <1>1
  <2>2. status'[d] = "running" /\ \A m \in Submitted' : subs'[m].form = m
    BY <1>4 DEF FormInv, Submitted
  <2> QED BY <1>4, <1>5, <2>1, <2>2 DEF FormInv
<1> QED BY <1>1, <1>2, <1>4, <1>5, <1>6

\* What has to be shown of the queues and the view after the step.
LEMMA ClientFrom ==
  ASSUME NEW d, NEW s \in 0..3, NEW h, NEW e, NEW a, NEW r, NEW v, NEW T,
         subs' = subs, Handled(d)' = h, Awaited(d, s)' = T, events'[d] = e, asked'[d] = a, requests'[d] = r, view'[d] = v,
         s < 3 => h > 0 /\ SeedCount + h > 1,
         InLine(e, a, r, T),
         \A x \in Elements(e) : EventIsRight(subs, h, x),
         \A x \in Elements(a) : x.sub = Len(subs),
         \A x \in Elements(r) : RequestIsRight(subs, h, x),
         NoWriteAfterRead(r), Shows(subs, h, s, v, r), s \notin {1, 2},
         ExistenceIsKnown(h, e, a, r, v)
  PROVE  ClientInv(d, s)'
BY DEF ClientInv

\* The totals are read in the order of their places.
LEMMA TotalReadsFacts ==
  ASSUME NEW n
  PROVE  /\ Ranks(TotalReads(n)) = 1 .. 3 /\ Ascending(TotalReads(n))
         /\ \A x \in Elements(TotalReads(n)) : x.kind = "get" /\ x.sub = n
<1> DEFINE q == TotalReads(n)
<1>1. /\ DOMAIN q = 1..3
      /\ q[1] = Get(n, Count) /\ q[2] = Get(n, TotalRatings) /\ q[3] = Get(n, AverageRating)
  BY DEF TotalReads
<1> HIDE DEF q
<1>2. \A p : Get(n, p).kind = "get" /\ Get(n, p).sub = n /\ Rank(Get(n, p)) = Place(p)
  BY DEF Get, Rank
<1>3. \A i \in 1 .. 3 : i = 1 \/ i = 2 \/ i = 3 OBVIOUS
<1>4. \A i \in DOMAIN q : q[i].kind = "get" /\ q[i].sub = n /\ Rank(q[i]) = i
  BY <1>1, <1>2, <1>3, PlaceFacts
<1>5. Ascending(q)
  BY <1>4 DEF Ascending
<1>6. Ranks(q) = 1..3
  BY <1>1, <1>4 DEF Ranks
<1>7. \A x \in Elements(q) : x.kind = "get" /\ x.sub = n
  BY <1>4 DEF Elements
<1> QED BY <1>5, <1>6, <1>7 DEF q

\* The item is there: the submission is handled, and its three reads are awaited behind
\* those of the submission before.
LEMMA ExistsKeepsClient ==
  ASSUME TypeOK, NEW d \in Devices, FormInv(d), NEW s \in 0..3, ClientInv(d, s), ItemExists(d)
  PROVE  FormInv(d)' /\ ClientInv(d, 0)'
<1> DEFINE h == Handled(d)
           n == Len(subs)
           e == events[d]
           r == requests[d]
           gets == TotalReads(n)
           puts == ReviewWrites(n)
           R == RequestsFor(Submitted)
<1>1. /\ e # <<>> /\ Head(e).kind = "item" /\ Head(e).exists /\ events'[d] = Tail(e)
      /\ Issue(d, TotalReads(Head(e).sub) \o ReviewWrites(Head(e).sub))
      /\ FinishSubmit(d, Head(e).sub)
  BY DEF ItemExists, Callback, TypeOK
<1>2. /\ s = 3 /\ form[d] # 0 /\ Head(e).sub = n /\ SeedCount + h > 0
      /\ InLine(Tail(e), asked[d], r, {})
      /\ Elements(Tail(e)) = {} /\ asked[d] = <<>> /\ 4 \in Ranks(e)
      /\ \A x \in Elements(r) : x.kind = "put"
  BY <1>1, ItemAnswer
<1>3. /\ form'[d] = 0 /\ subs' = subs /\ Handled(d)' = n /\ h + 1 = n /\ n \in Submitted
      /\ view' = view /\ asked' = asked /\ FormInv(d)'
  BY <1>1, <1>2, FinishIsHandled
<1>4. requests'[d] = r \o (gets \o puts)
  BY <1>1, <1>2 DEF Issue, TypeOK
<1>5. h \in Nat /\ SeedCount \in Nat /\ n > 0 /\ n \in Nat
  BY <1>3, HandledFacts
<1>6. /\ gets \in Seq(R) /\ Ranks(gets) = 1 .. 3 /\ Ascending(gets)
      /\ \A x \in Elements(gets) : x.kind = "get" /\ x.sub = n
  BY <1>3, TotalReadsType, TotalReadsFacts
<1>7. /\ puts \in Seq(R) /\ Ranks(puts) = {} /\ Ascending(puts) /\ NoWriteAfterRead(puts)
      /\ \A p \in TotalPaths : Untouched(puts, p)
      /\ \A x \in Elements(puts) : x.kind = "put"
  BY <1>3, ReviewWritesFacts
<1>8. r \in Seq(R) /\ \A y \in R : y.kind = "get" => y.path \in TotalPaths
  BY QueueTypes, RequestKinds
<1> DEFINE xs == gets \o puts
<1> HIDE DEF h, e, r, gets, puts, R
<1>9. xs \in Seq(R) /\ Ranks(xs) = 1 .. 3 /\ Ascending(xs) /\ Elements(xs) = Elements(gets) \cup Elements(puts)
  <2>1. xs \in Seq(R)
    BY <1>6, <1>7
  <2>2. Ranks(xs) = Ranks(gets) \cup Ranks(puts)
    BY <1>6, <1>7, ConcatRanks
  <2>3. Ascending(xs)
    BY <1>6, <1>7, ConcatAscending DEF AllBelow
  <2>4. Elements(xs) = Elements(gets) \cup Elements(puts)
    BY <1>6, <1>7, ElementsFacts
  <2> QED BY <2>1, <2>2, <2>3, <2>4, <1>6, <1>7
<1>10. \A p \in TotalPaths : Untouched(gets, p)
  BY <1>6 DEF Untouched, Elements, IsPut
<1>11. NoWriteAfterRead(xs)
  <2>1. NoWriteAfterRead(gets)
    BY <1>6 DEF NoWriteAfterRead, Elements, IsPut
  <2>2. \A i \in DOMAIN gets : Untouched(puts, gets[i].path)
    <3>1. \A i \in DOMAIN gets : gets[i] \in R /\ gets[i].kind = "get"
      BY <1>6 DEF Elements
    <3> QED BY <3>1, <1>7, <1>8
  <2> QED BY <1>6, <1>7, <2>1, <2>2, ConcatReads
<1>12. \A p \in TotalPaths : Untouched(xs, p)
  BY <1>6, <1>7, <1>10, ConcatUntouched
<1> HIDE DEF xs
<1> DEFINE q == r \o xs
<1>13. InLine(Tail(e), asked[d], q, 1..3)
  <2>1. InLine(Tail(e), asked[d], q, {} \cup Ranks(xs))
    BY <1>2, <1>8, <1>9, IssueInLine DEF AllBelow
  <2>2. {} \cup Ranks(xs) = 1..3
    BY <1>9
  <2> QED BY <2>1, <2>2
<1>14. NoWriteAfterRead(q)
  <2>1. NoWriteAfterRead(r)
    BY DEF ClientInv, r
  <2>2. \A i \in DOMAIN r : r[i].kind # "get"
    BY <1>2 DEF Elements
  <2> QED BY <1>8, <1>9, <1>11, <2>1, <2>2, ConcatReads
<1>15. Shows(subs, n, 0, view[d], q)
  <2> SUFFICES ASSUME NEW p \in TotalPaths
               PROVE  Outcome(q, view[d][p], p, Totals(subs, p, IF Place(p) <= 0 THEN n ELSE n - 1))
    BY DEF Shows
  <2>1. ~(Place(p) <= 0) /\ Place(p) <= 3
    BY PlaceFacts
  <2>2. Outcome(r, view[d][p], p, Totals(subs, p, h))
    BY <1>2, <2>1 DEF ClientInv, Shows, r, h
  <2>3. Outcome(q, view[d][p], p, Totals(subs, p, h))
    BY <1>8, <1>9, <1>12, <2>2, ConcatOutcome
  <2>4. h = n - 1
    BY <1>3, <1>5
  <2> QED BY <2>1, <2>3, <2>4
<1>16. \A x \in Elements(q) : RequestIsRight(subs, n, x)
  <2>1. Elements(q) = Elements(r) \cup Elements(xs)
    BY <1>8, <1>9, ElementsFacts
  <2> QED BY <2>1, <1>2, <1>6, <1>7, <1>9 DEF RequestIsRight
<1>17. ExistenceIsKnown(n, Tail(e), <<>>, q, view[d])
  <2>1. ExistenceIsKnown(h, e, asked[d], r, view[d])
    BY DEF ClientInv, h, e, r
  <2>2. view[d][Count] # Absent
    BY <1>2, <2>1 DEF ExistenceIsKnown
  <2> QED BY <2>2, <1>5 DEF ExistenceIsKnown
<1>18. Awaited(d, 0)' = 1..3
  BY <1>3 DEF Awaited
<1>19. /\ events'[d] = Tail(e) /\ requests'[d] = q /\ asked'[d] = <<>> /\ asked'[d] = asked[d]
       /\ view'[d] = view[d]
  BY <1>1, <1>2, <1>3, <1>4 DEF xs
<1>20. Elements(<<>>) = {}
  BY DEF Elements
<1>21. n > 0 /\ SeedCount + n > 1
  BY <1>2, <1>3, <1>5
<1> HIDE DEF q, n
<1>22. InLine(Tail(e), <<>>, q, 1..3)
  BY <1>2, <1>13
<1>23. /\ \A x \in Elements(Tail(e)) : EventIsRight(subs, n, x)
       /\ \A x \in Elements(<<>>) : x.sub = Len(subs)
  BY <1>2, <1>20
<1>24. ClientInv(d, 0)'
  <2> DEFINE z == 0
             none == <<>>
             T == 1..3
             rest == Tail(e)
             now == view[d]
  <2>1. z \in 0 .. 3 /\ z \notin {1, 2} /\ (z < 3 => n > 0 /\ SeedCount + n > 1)
    BY <1>21
  <2>2. /\ subs' = subs /\ Handled(d)' = n /\ Awaited(d, z)' = T
        /\ events'[d] = rest /\ asked'[d] = none /\ requests'[d] = q /\ view'[d] = now
    BY <1>3, <1>18, <1>19 DEF n
  <2>3. /\ InLine(rest, none, q, T) /\ Shows(subs, n, z, now, q)
        /\ ExistenceIsKnown(n, rest, none, q, now)
        /\ \A x \in Elements(rest) : EventIsRight(subs, n, x)
        /\ \A x \in Elements(none) : x.sub = Len(subs)
    BY <1>15, <1>17, <1>22, <1>23
  <2> HIDE DEF z, none, T, rest, now
  <2>4. ClientInv(d, z)'
    BY <1>14, <1>16, <2>1, <2>2, <2>3, ClientFrom
  <2> QED BY <2>4 DEF z
<1> QED BY <1>3, <1>24


\* The totals the first review writes are those of one review.
LEMMA FirstTotalsOutcome ==
  ASSUME TypeOK, Len(subs) = 1, SeedCount = 0
  PROVE  /\ FirstTotals(1) \in Seq(RequestsFor(Submitted))
         /\ Ranks(FirstTotals(1)) = {} /\ Ascending(FirstTotals(1))
         /\ NoWriteAfterRead(FirstTotals(1))
         /\ \A x \in Elements(FirstTotals(1)) : x.kind = "put"
         /\ \A p \in TotalPaths : \A base : Outcome(FirstTotals(1), base, p, Totals(subs, p, 1))
         /\ \A p \in TotalPaths : \E x \in Elements(FirstTotals(1)) : IsPut(x, p)
<1> DEFINE q == FirstTotals(1)
           k == subs[1].rating
<1>1. 1 \in Submitted /\ subs \in Seq(Submissions) /\ 1 \in 1..Len(subs)
  <2>1. subs \in Seq(Submissions)
    BY DEF TypeOK
  <2> QED BY <2>1 DEF Submitted
<1>2. k \in Nat
  <2>1. subs[1] \in Submissions
    BY <1>1
  <2> QED BY <2>1, RatingsFact DEF Submissions
<1>3. Sums(subs)[1] = k /\ SeedTotal = 0
  <2>1. Sums(subs)[1] = Sums(subs)[1 - 1] + subs[1].rating /\ Sums(subs)[0] = 0
    BY <1>1, SumsFacts
  <2>2. 5 * SeedCount = 0 OBVIOUS
  <2> QED BY <1>2, <2>1, <2>2, SeedAssumption
<1>4. /\ Totals(subs, Count, 1) = Whole(1) /\ Totals(subs, TotalRatings, 1) = Whole(k)
      /\ Totals(subs, AverageRating, 1) = Whole(k)
  <2>1. /\ Totals(subs, Count, 1) = Whole(SeedCount + 1)
        /\ Totals(subs, TotalRatings, 1) = Whole(SeedTotal + Sums(subs)[1])
        /\ Totals(subs, AverageRating, 1)
             = [num |-> SeedTotal + Sums(subs)[1], den |-> SeedCount + 1]
    <3>1. 1 \in 0 .. Len(subs) /\ SeedCount + 1 > 0 OBVIOUS
    <3> QED BY <3>1, TotalsFacts, TotalPathsFact
  <2>2. SeedCount + 1 = 1 /\ SeedTotal + Sums(subs)[1] = k
    BY <1>2, <1>3
  <2> QED BY <2>1, <2>2 DEF Whole
<1>5. q \in Seq(RequestsFor(Submitted))
  BY <1>1, FirstTotalsType
<1>6. /\ DOMAIN q = 1 .. 3 /\ q[1] = Put(Count, Whole(1))
      /\ q[2] = Put(TotalRatings, Whole(k)) /\ q[3] = Put(AverageRating, Whole(k))
  BY DEF FirstTotals
<1> HIDE DEF q, k
<1>7. \A p, v : Put(p, v).kind = "put" /\ Put(p, v).path = p /\ Put(p, v).value = v
  BY DEF Put
<1>8. \A i \in 1 .. 3 : i = 1 \/ i = 2 \/ i = 3 OBVIOUS
<1>9. \A i \in DOMAIN q : q[i].kind = "put" /\ q[i].path \in TotalPaths
                          /\ q[i].value = Totals(subs, q[i].path, 1)
  BY <1>4, <1>6, <1>7, <1>8, TotalPathsFact
<1>10. ASSUME NEW p \in TotalPaths PROVE \E i \in DOMAIN q : IsPut(q[i], p)
  <2>1. p = Count \/ p = TotalRatings \/ p = AverageRating
    BY DEF TotalPaths
  <2>2. 1 \in DOMAIN q /\ 2 \in DOMAIN q /\ 3 \in DOMAIN q
    BY <1>6
  <2>3. IsPut(q[1], Count) /\ IsPut(q[2], TotalRatings) /\ IsPut(q[3], AverageRating)
    BY <1>6, <1>7 DEF IsPut
  <2> QED BY <2>1, <2>2, <2>3
<1>11. \A i \in DOMAIN q : Rank(q[i]) = 0
  BY <1>9 DEF Rank
<1>12. Ranks(q) = {} /\ Ascending(q) /\ NoWriteAfterRead(q) /\ \A x \in Elements(q) : x.kind = "put"
  BY <1>9, <1>11 DEF Ranks, Ascending, NoWriteAfterRead, Elements
<1>13. ASSUME NEW p \in TotalPaths, NEW base PROVE Outcome(q, base, p, Totals(subs, p, 1))
  BY <1>9, <1>10 DEF Outcome, LastWrite, Untouched, IsPut
<1>14. \A p \in TotalPaths : \E x \in Elements(q) : IsPut(x, p)
  BY <1>10 DEF Elements
<1> QED BY <1>5, <1>12, <1>13, <1>14 DEF q

\* A queue in which the count is written and nobody asks.
LEMMA NobodyAsks ==
  ASSUME NEW q, NEW x \in Elements(q), IsPut(x, Count), \A y \in Elements(q) : y.kind = "put"
  PROVE  CountGoesAhead(q)
<1>1. PICK i \in DOMAIN q : q[i] = x
  BY DEF Elements
<1>2. \A j \in DOMAIN q : q[j].kind # "ask"
  BY DEF Elements
<1> QED BY <1>1, <1>2 DEF CountGoesAhead

\* The item is not there: this is the first review of it, and all three totals are
\* written at once.
LEMMA MissingKeepsClient ==
  ASSUME TypeOK, NEW d \in Devices, FormInv(d), NEW s \in 0..3, ClientInv(d, s), ItemMissing(d)
  PROVE  FormInv(d)' /\ ClientInv(d, 3)'
<1> DEFINE h == Handled(d)
           n == Len(subs)
           e == events[d]
           r == requests[d]
           sums == FirstTotals(1)
           puts == ReviewWrites(1)
           R == RequestsFor(Submitted)
<1>1. /\ e # <<>> /\ Head(e).kind = "item" /\ ~Head(e).exists /\ events'[d] = Tail(e)
      /\ Issue(d, FirstTotals(Head(e).sub) \o ReviewWrites(Head(e).sub))
      /\ FinishSubmit(d, Head(e).sub)
  BY DEF ItemMissing, Callback, TypeOK
<1>2. /\ s = 3 /\ form[d] # 0 /\ Head(e).sub = n /\ ~(SeedCount + h > 0)
      /\ InLine(Tail(e), asked[d], r, {})
      /\ Elements(Tail(e)) = {} /\ asked[d] = <<>>
      /\ \A x \in Elements(r) : x.kind = "put"
  BY <1>1, ItemAnswer
<1>3. /\ form'[d] = 0 /\ subs' = subs /\ Handled(d)' = n /\ h + 1 = n /\ n \in Submitted
      /\ view' = view /\ asked' = asked /\ FormInv(d)'
  BY <1>1, <1>2, FinishIsHandled
<1>4. n = 1 /\ SeedCount = 0
  <2>1. h \in Nat /\ SeedCount \in Nat
    BY HandledFacts
  <2> QED BY <1>2, <1>3, <2>1
<1>5. requests'[d] = r \o (sums \o puts)
  BY <1>1, <1>2, <1>4 DEF Issue, TypeOK
<1>6. /\ sums \in Seq(R) /\ Ranks(sums) = {} /\ Ascending(sums) /\ NoWriteAfterRead(sums)
      /\ \A x \in Elements(sums) : x.kind = "put"
      /\ \A p \in TotalPaths : \A base : Outcome(sums, base, p, Totals(subs, p, 1))
      /\ \A p \in TotalPaths : \E x \in Elements(sums) : IsPut(x, p)
  BY <1>4, FirstTotalsOutcome
<1>7. /\ puts \in Seq(R) /\ Ranks(puts) = {} /\ Ascending(puts) /\ NoWriteAfterRead(puts)
      /\ \A p \in TotalPaths : Untouched(puts, p)
      /\ \A x \in Elements(puts) : x.kind = "put"
  BY <1>3, <1>4, ReviewWritesFacts
<1>8. r \in Seq(R)
  BY QueueTypes
<1> DEFINE xs == sums \o puts
<1> HIDE DEF h, e, r, sums, puts, R
<1>9. xs \in Seq(R) /\ Ranks(xs) = {} /\ Ascending(xs) /\ Elements(xs) = Elements(sums) \cup Elements(puts)
  <2>1. xs \in Seq(R)
    BY <1>6, <1>7
  <2>2. Ranks(xs) = Ranks(sums) \cup Ranks(puts)
    BY <1>6, <1>7, ConcatRanks
  <2>3. Ascending(xs)
    BY <1>6, <1>7, ConcatAscending DEF AllBelow
  <2>4. Elements(xs) = Elements(sums) \cup Elements(puts)
    BY <1>6, <1>7, ElementsFacts
  <2> QED BY <2>1, <2>2, <2>3, <2>4, <1>6, <1>7
<1>10. \A x \in Elements(xs) : x.kind = "put"
  BY <1>6, <1>7, <1>9
<1>11. NoWriteAfterRead(xs)
  BY <1>10 DEF NoWriteAfterRead, Elements
<1>12. ASSUME NEW p \in TotalPaths PROVE ~Untouched(xs, p) /\ LastWrite(xs, p, Totals(subs, p, 1))
  <2>1. Outcome(sums, 0, p, Totals(subs, p, 1)) /\ Untouched(puts, p)
    BY <1>6, <1>7
  <2>2. Outcome(xs, 0, p, Totals(subs, p, 1))
    BY <1>6, <1>7, <2>1, ConcatOutcome
  <2>3. PICK x \in Elements(xs) : IsPut(x, p)
    BY <1>6, <1>9
  <2> QED BY <2>2, <2>3 DEF Outcome, Untouched, Elements
<1> HIDE DEF xs
<1> DEFINE q == r \o xs
<1>13. InLine(Tail(e), asked[d], q, {})
  <2>1. InLine(Tail(e), asked[d], q, {} \cup Ranks(xs))
    BY <1>2, <1>8, <1>9, IssueInLine DEF AllBelow
  <2> QED BY <1>9, <2>1
<1>14. NoWriteAfterRead(q)
  <2>1. NoWriteAfterRead(r)
    BY DEF ClientInv, r
  <2>2. \A i \in DOMAIN r : r[i].kind # "get"
    BY <1>2 DEF Elements
  <2> QED BY <1>8, <1>9, <1>11, <2>1, <2>2, ConcatReads
<1>15. Shows(subs, n, 3, view[d], q)
  <2> SUFFICES ASSUME NEW p \in TotalPaths
               PROVE  Outcome(q, view[d][p], p, Totals(subs, p, IF Place(p) <= 3 THEN n ELSE n - 1))
    BY DEF Shows
  <2>1. Place(p) <= 3
    BY PlaceFacts
  <2>2. Outcome(q, view[d][p], p, Totals(subs, p, 1))
    BY <1>8, <1>9, <1>12, ConcatOutcome
  <2> QED BY <2>1, <2>2, <1>4
<1>16. Elements(q) = Elements(r) \cup Elements(xs)
  BY <1>8, <1>9, ElementsFacts
<1>17. \A x \in Elements(q) : x.kind = "put" /\ RequestIsRight(subs, n, x)
  BY <1>2, <1>10, <1>16 DEF RequestIsRight
<1> HIDE DEF q
<1>18. ExistenceIsKnown(n, Tail(e), <<>>, q, view[d])
  <2>1. PICK x \in Elements(q) : IsPut(x, Count)
    BY <1>6, <1>9, <1>16, TotalPathsFact
  <2>2. CountGoesAhead(q)
    BY <2>1, <1>17, NobodyAsks
  <2>3. 4 \notin Ranks(Tail(e))
    BY <1>2 DEF Ranks, Elements
  <2>4. SeedCount + n # 0
    BY <1>4
  <2> QED BY <2>2, <2>3, <2>4 DEF ExistenceIsKnown
<1>19. Awaited(d, 3)' = {}
  BY <1>3 DEF Awaited
<1>20. /\ events'[d] = Tail(e) /\ requests'[d] = q /\ asked'[d] = <<>> /\ view'[d] = view[d]
  BY <1>1, <1>2, <1>3, <1>5 DEF xs, q
<1>21. Elements(<<>>) = {}
  BY DEF Elements
<1> HIDE DEF n
<1>22. ClientInv(d, 3)'
  <2> DEFINE z == 3
             none == <<>>
             rest == Tail(e)
             now == view[d]
  <2>1. z \in 0 .. 3 /\ z \notin {1, 2} /\ ~(z < 3) OBVIOUS
  <2>2. /\ subs' = subs /\ Handled(d)' = n /\ Awaited(d, z)' = {}
        /\ events'[d] = rest /\ asked'[d] = none /\ requests'[d] = q /\ view'[d] = now
    BY <1>3, <1>19, <1>20 DEF n
  <2>3. /\ InLine(rest, none, q, {}) /\ Shows(subs, n, z, now, q)
        /\ ExistenceIsKnown(n, rest, none, q, now)
        /\ \A x \in Elements(rest) : EventIsRight(subs, n, x)
        /\ \A x \in Elements(none) : x.sub = Len(subs)
    BY <1>2, <1>13, <1>15, <1>18, <1>21
  <2>4. \A x \in Elements(q) : RequestIsRight(subs, n, x)
    BY <1>17
  <2> HIDE DEF z, none, rest, now
  <2>5. ClientInv(d, z)'
    BY <1>14, <2>1, <2>2, <2>3, <2>4, ClientFrom
  <2> QED BY <2>5 DEF z
<1> QED BY <1>3, <1>22

------------------------
(* The press of Submit. *)

\* A form takes one press: it is a new one.
LEMMA PressIsFirst ==
  ASSUME TypeOK, NEW d \in Devices, FormInv(d), MaxTaps <= 1, NEW k \in Ratings,
         SubmitPressed(d, k)
  PROVE  form[d] = 0
<1> SUFFICES ASSUME form[d] # 0 PROVE FALSE OBVIOUS
<1> DEFINE S == {n \in Submitted : subs[n].form = form[d]}
<1>1. Cardinality(S) < MaxTaps
  BY DEF SubmitPressed, PressesIn
<1>2. Len(subs) \in S
  <2>1. form[d] = Len(subs) /\ Len(subs) \in Submitted
    BY HandledFacts
  <2> QED BY <2>1 DEF FormInv
<1>3. IsFiniteSet(S)
  <2>1. 1 \in Int /\ Len(subs) \in Int /\ Submitted = 1..Len(subs)
    BY HandledFacts
  <2>2. S \subseteq 1..Len(subs)
    BY <2>1
  <2> HIDE DEF S
  <2>3. IsFiniteSet(1..Len(subs))
    BY <2>1, FS_Interval
  <2> QED BY <2>2, <2>3, FS_Subset
<1> HIDE DEF S
<1>4. Cardinality(S) \in Nat /\ Cardinality(S) # 0
  BY <1>2, <1>3, FS_CardinalityType, FS_EmptySet
<1> QED BY <1>1, <1>4, BoundsAssumption

\* A press of Submit adds a submission not handled yet, and asks whether the item exists.
LEMMA PressKeepsClient ==
  ASSUME TypeOK, NEW d \in Devices, FormInv(d), NEW s \in 0..3, ClientInv(d, s),
         MaxTaps <= 1, NEW k \in Ratings, SubmitPressed(d, k)
  PROVE  FormInv(d)' /\ ClientInv(d, s)'
<1> DEFINE h == Handled(d)
           n == Len(subs) + 1
           new == [dev |-> d, form |-> n, rating |-> k]
           list == Append(subs, new)
           e == events[d]
           r == requests[d]
           a == asked[d]
           x == Ask(n)
           R == RequestsFor(Submitted) \cup {x}
           T == Awaited(d, s)
           now == view[d]
<1>1. form[d] = 0
  BY PressIsFirst
<1>2. /\ subs' = list /\ form'[d] = n /\ requests'[d] = Append(r, x) /\ n \in Subs
      /\ view' = view /\ asked' = asked /\ events' = events /\ status' = status
      /\ upload' = upload /\ newCount' = newCount /\ newTotal' = newTotal
  BY <1>1 DEF SubmitPressed, TypeOK, faults
<1>3. subs \in Seq(Submissions) /\ new \in Submissions /\ list \in Seq(Submissions)
  <2>1. subs \in Seq(Submissions)
    BY DEF TypeOK
  <2>2. new \in Submissions
    BY <1>2 DEF Submissions
  <2> QED BY <2>1, <2>2
<1>4. h = Len(subs) /\ Len(subs) \in Nat /\ SeedCount \in Nat /\ Submitted = 1..Len(subs)
  BY <1>1, HandledFacts
<1>5. Len(list) = n /\ DOMAIN list = 1 .. n /\ list[n] = new /\ \A i \in 1..Len(subs) : list[i] = subs[i]
  BY <1>3, <1>4
<1>6. n # 0 /\ n - 1 = h
  BY <1>4
<1>7. Handled(d)' = h
  BY <1>2, <1>5, <1>6 DEF Handled
<1>8. FormInv(d)'
  <2>1. \A m \in Submitted' : list[m].form = m
    <3> SUFFICES ASSUME NEW m \in 1..n PROVE list[m].form = m
      BY <1>2, <1>5 DEF Submitted
    <3>1. CASE m = n
      BY <3>1, <1>5
    <3>2. CASE m # n
      <4>1. m \in 1..Len(subs) BY <3>2, <1>4
      <4> QED BY <4>1, <1>4, <1>5 DEF FormInv
    <3> QED BY <3>1, <3>2
  <2> QED BY <1>2, <1>5, <1>7, <2>1 DEF FormInv
<1>9. r \in Seq(R) /\ x \in R
  <2> DEFINE old == RequestsFor(Submitted)
  <2> HIDE DEF old, x, r
  <2>1. old \subseteq old \cup {x} /\ r \in Seq(old)
    BY QueueTypes DEF old, r
  <2>2. r \in Seq(old \cup {x})
    BY <2>1, WidenSequence
  <2> QED BY <2>2 DEF old
<1>10. x.kind = "ask" /\ x.sub = n
  BY DEF Ask
<1>11. T = (s + 1) .. 3 /\ Awaited(d, s)' = T \cup {4}
  BY <1>1, <1>2, <1>6 DEF Awaited
<1>12. InLine(e, a, r, T) /\ NoWriteAfterRead(r)
  BY DEF ClientInv
<1>13. ASSUME NEW p, NEW m \in 0..Len(subs) PROVE Totals(list, p, m) = Totals(subs, p, m)
  <2>1. Sums(list)[m] = Sums(subs)[m]
    BY <1>3, SumsStay
  <2> HIDE DEF list
  <2> QED BY <2>1 DEF Totals
<1> DEFINE xs == <<x>>
           q == r \o xs
<1> HIDE DEF h, n, new, list, e, r, a, x, R, T, now
<1>14. xs \in Seq(R) /\ DOMAIN xs = {1} /\ xs[1] = x /\ Append(r, x) = q
  BY <1>9, AppendOne
<1>15. Ranks(xs) = {4} /\ Ascending(xs)
  BY <1>10, SingleFacts DEF Rank
<1> HIDE DEF xs
<1>16. InLine(e, a, q, T \cup {4})
  <2>1. AllBelow(T, {4})
    BY <1>11 DEF AllBelow
  <2> QED BY <1>9, <1>12, <1>14, <1>15, <2>1, IssueInLine
<1>17. \A p : Untouched(xs, p)
  BY <1>10, <1>14 DEF Untouched, IsPut
<1>18. NoWriteAfterRead(q)
  <2>1. NoWriteAfterRead(xs)
    BY <1>10, <1>14 DEF NoWriteAfterRead
  <2> QED BY <1>9, <1>12, <1>14, <1>17, <2>1, ConcatReads
<1>19. Shows(list, h, s, now, q)
  <2> SUFFICES ASSUME NEW p \in TotalPaths
               PROVE  Outcome(q, now[p], p, Totals(list, p, IF Place(p) <= s THEN h ELSE h - 1))
    BY DEF Shows
  <2> DEFINE m == IF Place(p) <= s THEN h ELSE h - 1
  <2>1. m \in 0..Len(subs)
    <3>1. Place(p) <= 3 BY PlaceFacts
    <3>2. s < 3 => h > 0 BY DEF ClientInv, h
    <3>3. Place(p) \in Nat BY PlaceFacts
    <3> QED BY <3>1, <3>2, <3>3, <1>4
  <2>2. Outcome(r, now[p], p, Totals(subs, p, m))
    BY DEF ClientInv, Shows, r, h, now
  <2> HIDE DEF m
  <2>3. Outcome(q, now[p], p, Totals(list, p, m))
    BY <2>1, <2>2, <1>9, <1>13, <1>14, <1>17, ConcatOutcome
  <2> QED BY <2>3 DEF m
<1>20. Elements(q) = Elements(r) \cup {x}
  <2>1. Elements(xs) = {x}
    BY <1>14 DEF Elements
  <2> QED BY <2>1, <1>9, <1>14, ElementsFacts
<1>21. AskedRanks(a) = {} /\ 4 \notin Ranks(e) /\ 4 \notin Ranks(r) /\ 4 \notin T
  <2>1. 4 \notin T
    BY <1>11
  <2>2. Ranks(e) \cup AskedRanks(a) \cup Ranks(r) = T
    BY <1>12 DEF InLine
  <2> QED BY <2>1, <2>2 DEF AskedRanks
<1>22. a = <<>>
  BY <1>21 DEF AskedRanks
<1>23. \A y \in Elements(q) : RequestIsRight(list, h, y)
  <2>1. ASSUME NEW y \in Elements(r) PROVE RequestIsRight(list, h, y)
    <3>1. y.kind # "ask"
      <4>1. PICK i \in DOMAIN r : r[i] = y BY DEF Elements
      <4>2. y.kind = "ask" => Rank(r[i]) = 4 BY <4>1 DEF Rank
      <4> QED BY <1>21, <4>2 DEF Ranks
    <3>2. y.kind = "get" => y.sub = h BY DEF ClientInv, RequestIsRight, r, h
    <3> QED BY <3>1, <3>2 DEF RequestIsRight
  <2>2. RequestIsRight(list, h, x)
    BY <1>5, <1>10 DEF RequestIsRight
  <2> QED BY <1>20, <2>1, <2>2
<1>24. \A y \in Elements(e) : EventIsRight(list, h, y)
  <2> SUFFICES ASSUME NEW y \in Elements(e) PROVE EventIsRight(list, h, y) OBVIOUS
  <2>1. PICK i \in DOMAIN e : e[i] = y
    BY DEF Elements
  <2>2. y \in EventsFor(Submitted, Value \cup {Absent})
    <3>1. e \in Seq(EventsFor(Submitted, Value \cup {Absent})) BY QueueTypes DEF e
    <3> QED BY <2>1, <3>1
  <2>3. y.kind = "item" => Rank(y) = 4
    BY DEF Rank
  <2>4. y.kind = "value"
    <3>1. y.kind \in {"item", "value"} BY <2>2 DEF EventsFor
    <3> QED BY <3>1, <2>1, <2>3, <1>21 DEF Ranks
  <2>5. y.sub = h /\ y.value = Totals(subs, y.path, h - 1)
    BY <2>4 DEF ClientInv, EventIsRight, e, h
  <2>6. y.path \in TotalPaths
    BY <2>2, <2>4, ValueEventType
  <2>7. Rank(y) = Place(y.path) /\ Place(y.path) \in 1..3
    BY <2>4, <2>6, PlaceFacts DEF Rank
  <2>8. Place(y.path) \in T
    <3>1. Place(y.path) # 0 BY <2>7
    <3>2. Rank(y) \in Ranks(e) BY <2>1, <2>7, <3>1 DEF Ranks
    <3> QED BY <3>2, <2>7, <1>12 DEF InLine
  <2>9. s < 3
    BY <2>7, <2>8, <1>11
  <2>10. h > 0
    BY <2>9 DEF ClientInv, h
  <2>11. h - 1 \in 0..Len(subs)
    BY <2>10, <1>4
  <2>12. y.value = Totals(list, y.path, h - 1)
    BY <2>5, <2>11, <1>13
  <2> QED BY <2>4, <2>5, <2>12 DEF EventIsRight
<1>25. ExistenceIsKnown(h, e, a, q, now)
  <2>1. ExistenceIsKnown(h, e, a, r, now)
    BY DEF ClientInv, h, e, a, r, now
  <2>2. CountGoesAhead(r) => CountGoesAhead(q)
    BY <1>9, <1>14, ConcatGoesAhead
  <2>3. \A p : Untouched(r, p) => Untouched(q, p)
    BY <1>9, <1>14, <1>17, ConcatUntouched
  <2> QED BY <2>1, <2>2, <2>3 DEF ExistenceIsKnown
<1>26. s = 2 => newTotal[h] = SeedTotal + Sums(list)[h]
  <2>1. h \in 0..Len(subs)
    BY <1>4
  <2>2. Sums(list)[h] = Sums(subs)[h]
    BY <1>3, <2>1, SumsStay DEF list
  <2> QED BY <2>2 DEF ClientInv, h
<1>27. /\ s < 3 => h > 0 /\ SeedCount + h > 1
       /\ s \in {1, 2} => newCount[h] = SeedCount + h
  BY DEF ClientInv, h
<1>28. Elements(a) = {}
  BY <1>22 DEF Elements
<1>29. /\ events'[d] = e /\ asked'[d] = a /\ requests'[d] = q /\ view'[d] = now /\ subs' = list
       /\ newCount' = newCount /\ newTotal' = newTotal
  BY <1>2, <1>14 DEF e, a, now
<1> HIDE DEF q
<1>30. ClientInv(d, s)'
  BY <1>7, <1>11, <1>16, <1>18, <1>19, <1>23, <1>24, <1>25, <1>26, <1>27, <1>28, <1>29
     DEF ClientInv
<1> QED BY <1>8, <1>30

------------------------
(* All the steps together. *)

\* A step that touches neither the forms nor the submissions, and starts no upload, keeps
\* FormInv.
LEMMA FormStays ==
  ASSUME NEW d, FormInv(d), status' = status, form' = form, subs' = subs,
         \A n \in Subs : upload'[n] = "running" => upload[n] = "running"
  PROVE  FormInv(d)'
BY DEF FormInv, Handled, Submitted

\* The answers of the three reads.
LEMMA ValueStep ==
  ASSUME TypeOK, NEW d \in Devices, FormInv(d), NetInv(d), NEW s \in 0..3, ClientInv(d, s),
         CountArrived(d) \/ TotalArrived(d) \/ AverageArrived(d)
  PROVE  FormInv(d)' /\ NetInv(d)' /\ \E t \in 0..3 : ClientInv(d, t)'
<1>1. /\ server' = server /\ view' = view /\ pend' = pend /\ sent' = sent
      /\ status' = status /\ form' = form /\ subs' = subs /\ upload' = upload
  BY DEF CountArrived, TotalArrived, AverageArrived, ValueArrived, faults
<1>2. FormInv(d)'
  BY <1>1, FormStays
<1>3. NetInv(d)'
  BY <1>1, OthersKeepNet
<1>4. \E t \in 0..3 : ClientInv(d, t)'
  BY CountKeepsClient, TotalKeepsClient, AverageKeepsClient
<1> QED BY <1>2, <1>3, <1>4

\* The answer to the read of the whole tree.
LEMMA ItemStep ==
  ASSUME TypeOK, NEW d \in Devices, FormInv(d), NetInv(d), NEW s \in 0..3, ClientInv(d, s),
         ItemExists(d) \/ ItemMissing(d)
  PROVE  FormInv(d)' /\ NetInv(d)' /\ \E t \in 0..3 : ClientInv(d, t)'
<1>1. server' = server /\ view' = view /\ pend' = pend /\ sent' = sent
  BY DEF ItemExists, ItemMissing, FinishSubmit
<1>2. NetInv(d)'
  BY <1>1, OthersKeepNet
<1>3. CASE ItemExists(d)
  <2>1. FormInv(d)' /\ ClientInv(d, 0)'
    BY <1>3, ExistsKeepsClient
  <2>2. \E t \in 0..3 : ClientInv(d, t)'
    <3>1. 0 \in 0..3 OBVIOUS
    <3> QED BY <2>1, <3>1
  <2> QED BY <1>2, <2>1, <2>2
<1>4. CASE ItemMissing(d)
  <2>1. FormInv(d)' /\ ClientInv(d, 3)'
    BY <1>4, MissingKeepsClient
  <2>2. \E t \in 0..3 : ClientInv(d, t)'
    <3>1. 3 \in 0..3 OBVIOUS
    <3> QED BY <2>1, <3>1
  <2> QED BY <1>2, <2>1, <2>2
<1> QED BY <1>3, <1>4

\* The end of an upload, and the press of Submit.
LEMMA UserStep ==
  ASSUME TypeOK, UploadsHaveKey, NEW d \in Devices, FormInv(d), NetInv(d),
         NEW s \in 0..3, ClientInv(d, s), MaxTaps <= 1,
         Uploads(d) \/ \E k \in Ratings : SubmitPressed(d, k)
  PROVE  FormInv(d)' /\ NetInv(d)' /\ ClientInv(d, s)'
<1>1. CASE Uploads(d)
  <2>1. PICK n \in Subs, ok \in UploadOutcomes : UploadFinished(d, n, ok)
    BY <1>1 DEF Uploads
  <2>2. /\ server' = server /\ view' = view /\ pend' = pend /\ sent' = sent
        /\ status' = status /\ form' = form /\ subs' = subs
        /\ upload' = [upload EXCEPT ![n] = "done"]
    BY <2>1 DEF UploadFinished, faults
  <2>3. \A m \in Subs : upload'[m] = "running" => upload[m] = "running"
    BY <2>2 DEF TypeOK
  <2>4. FormInv(d)'
    BY <2>2, <2>3, FormStays
  <2>5. NetInv(d)'
    BY <2>2, OthersKeepNet
  <2>6. ClientInv(d, s)'
    BY <2>1, UploadKeepsClient
  <2> QED BY <2>4, <2>5, <2>6
<1>2. ASSUME NEW k \in Ratings, SubmitPressed(d, k)
      PROVE  FormInv(d)' /\ NetInv(d)' /\ ClientInv(d, s)'
  <2>1. server' = server /\ view' = view /\ pend' = pend /\ sent' = sent
    BY <1>2 DEF SubmitPressed
  <2>2. NetInv(d)'
    BY <2>1, OthersKeepNet
  <2> QED BY <1>2, <2>2, PressKeepsClient
<1> QED BY <1>1, <1>2

\* Firebase's queue and the connection.
LEMMA FirebaseStep ==
  ASSUME TypeOK, NEW d \in Devices, FormInv(d), NetInv(d), NEW s \in 0..3, ClientInv(d, s),
         \/ FirebaseQueue(d) \/ ServerApply(d) \/ Sync(d) \/ AnswerAsk(d) \/ Reconnect(d)
  PROVE  FormInv(d)' /\ NetInv(d)' /\ ClientInv(d, s)'
<1>1. CASE AskServer(d) \/ ServeRead(d)
  <2>1. /\ server' = server /\ view' = view /\ pend' = pend /\ sent' = sent
        /\ status' = status /\ form' = form /\ subs' = subs /\ upload' = upload
    BY <1>1 DEF AskServer, ServeRead, TakeUp, form_vars, faults
  <2>2. FormInv(d)' /\ NetInv(d)'
    BY <2>1, FormStays, OthersKeepNet
  <2> QED BY <1>1, <2>2, AskKeepsClient, ServeKeepsClient
<1>2. CASE IssueWrite(d)
  <2>1. status' = status /\ form' = form /\ subs' = subs /\ upload' = upload
    BY <1>2 DEF IssueWrite, TakeUp, form_vars, faults
  <2>2. FormInv(d)'
    BY <2>1, FormStays
  <2> QED BY <1>2, <2>2, IssueWriteKeepsNet, WriteKeepsClient
<1>3. CASE ServerApply(d)
  <2>1. status' = status /\ form' = form /\ subs' = subs /\ upload' = upload
    BY <1>3 DEF ServerApply, form_vars, faults
  <2>2. FormInv(d)'
    BY <2>1, FormStays
  <2> QED BY <1>3, <2>2, ApplyKeepsNet, ApplyKeepsClient
<1>4. CASE Sync(d) \/ AnswerAsk(d)
  <2>1. /\ CatchUp(d)
        /\ status' = status /\ form' = form /\ subs' = subs /\ upload' = upload
    BY <1>4 DEF Sync, AnswerAsk, CatchUp, form_vars, faults
  <2>2. FormInv(d)' /\ NetInv(d)'
    BY <2>1, FormStays, CatchUpKeepsNet
  <2> QED BY <1>4, <2>2, SyncKeepsClient, AnswerKeepsClient
<1>5. CASE Reconnect(d)
  <2>1. /\ server' = server /\ view' = view /\ pend' = pend /\ sent'[d] = 0
        /\ status' = status /\ form' = form /\ subs' = subs /\ upload' = upload
    BY <1>5 DEF Reconnect, form_vars, TypeOK
  <2>2. FormInv(d)' /\ NetInv(d)'
    BY <2>1, FormStays, OthersKeepNet
  <2> QED BY <1>5, <2>2, ReconnectKeepsClient
<1> QED BY <1>1, <1>2, <1>3, <1>4, <1>5 DEF FirebaseQueue

\* Every step keeps the invariant.
LEMMA CountStep ==
  ASSUME NEW d, Devices = {d}, MaxTaps <= 1, MaxKills = 0, CountInv(d), [Next]_vars
  PROVE  CountInv(d)'
<1>1. TypeOK /\ UploadsHaveKey /\ FormInv(d) /\ NetInv(d) /\ d \in Devices
  BY DEF CountInv
<1>2. PICK s \in 0..3 : ClientInv(d, s)
  BY DEF CountInv
<1>3. TypeOK' /\ UploadsHaveKey'
  BY <1>1, TypeStep
<1>4. CASE UNCHANGED vars
  BY <1>1, <1>2, <1>3, <1>4 DEF vars, client, form_vars, faults, CountInv, FormInv, NetInv,
     ClientInv, Handled, Awaited, Submitted
<1>5. CASE Next
  <2>1. \/ \E k \in Ratings : SubmitPressed(d, k)
        \/ MainQueue(d) \/ Uploads(d) \/ FirebaseQueue(d)
        \/ ServerApply(d) \/ Sync(d) \/ AnswerAsk(d)
        \/ Reconnect(d) \/ Kill(d) \/ Relaunch(d)
    BY <1>5 DEF Next
  <2>2. ~Kill(d) /\ ~Relaunch(d)
    <3>1. status[d] = "running" BY <1>1 DEF FormInv
    <3>2. ~Kill(d) BY <1>1 DEF Kill, TypeOK
    <3> QED BY <3>1, <3>2 DEF Relaunch
  <2>3. ~CastFails(d)
    BY <1>1, <1>2, NothingToTrap
  <2>4. FormInv(d)' /\ NetInv(d)' /\ \E t \in 0..3 : ClientInv(d, t)'
    <3>1. CASE MainQueue(d)
      BY <3>1, <2>3, <1>1, <1>2, ValueStep, ItemStep DEF MainQueue
    <3>2. CASE Uploads(d) \/ \E k \in Ratings : SubmitPressed(d, k)
      BY <3>2, <1>1, <1>2, UserStep
    <3>3. CASE FirebaseQueue(d) \/ ServerApply(d) \/ Sync(d) \/ AnswerAsk(d) \/ Reconnect(d)
      BY <3>3, <1>1, <1>2, FirebaseStep
    <3> QED BY <2>1, <2>2, <3>1, <3>2, <3>3
  <2> QED BY <1>3, <2>4 DEF CountInv
<1> QED BY <1>4, <1>5

\* It holds at first, whether or not the item has been reviewed.
LEMMA CountInit ==
  ASSUME NEW d \in Devices, Init
  PROVE  CountInv(d)
<1>1. TypeOK /\ UploadsHaveKey
  BY TypeInit DEF Init, UploadsHaveKey
<1>2. /\ subs = <<>> /\ form[d] = 0 /\ view[d] = SeedNode /\ server = SeedNode
      /\ events[d] = <<>> /\ asked[d] = <<>> /\ requests[d] = <<>> /\ pend[d] = <<>>
      /\ status[d] = "running" /\ \A n \in Subs : upload[n] # "running"
  BY DEF Init
<1>3. Handled(d) = 0 /\ SeedCount \in Nat /\ SeedTotal \in Nat
  BY <1>2, SeedAssumption DEF Handled
<1>4. DOMAIN <<>> = {} /\ Elements(<<>>) = {} /\ Ranks(<<>>) = {}
  BY DEF Elements, Ranks
<1>5. FormInv(d)
  BY <1>2 DEF FormInv, Submitted
<1>6. NetInv(d)
  BY <1>2 DEF NetInv, LastWrite
<1>7. InLine(events[d], asked[d], requests[d], Awaited(d, 3))
  BY <1>2, <1>4 DEF InLine, Ascending, AllBelow, AskedRanks, Awaited
<1>8. /\ SeedCount = 0 => \A p \in Paths : SeedNode[p] = Absent
      /\ SeedCount # 0 => SeedNode[Count] = Whole(SeedCount) /\ SeedNode[TotalRatings] = Whole(SeedTotal)
                          /\ SeedNode[AverageRating] = [num |-> SeedTotal, den |-> SeedCount]
  <2>1. ASSUME SeedCount = 0, NEW p \in Paths PROVE SeedNode[p] = Absent
    BY <2>1 DEF SeedNode
  <2>2. ASSUME SeedCount # 0 PROVE SeedNode[Count] = Whole(SeedCount)
    BY <2>2, TotalPathsFact, PlaceFacts DEF SeedNode
  <2>3. ASSUME SeedCount # 0 PROVE SeedNode[TotalRatings] = Whole(SeedTotal)
    BY <2>3, TotalPathsFact, PlaceFacts DEF SeedNode
  <2>4. ASSUME SeedCount # 0
        PROVE  SeedNode[AverageRating] = [num |-> SeedTotal, den |-> SeedCount]
    BY <2>4, TotalPathsFact, PlaceFacts DEF SeedNode
  <2> QED BY <2>1, <2>2, <2>3, <2>4
<1>9. Sums(subs)[0] = 0
  BY <1>1, SumsFacts DEF TypeOK
<1>10. \A p \in TotalPaths : SeedNode[p] = Totals(subs, p, 0)
  <2>1. CASE SeedCount = 0
    BY <2>1, <1>8, TotalPathsFact DEF Totals
  <2>2. CASE SeedCount # 0
    BY <2>2, <1>3, <1>8, <1>9, PlaceFacts DEF Totals, TotalPaths
  <2> QED BY <2>1, <2>2
<1>11. Shows(subs, 0, 3, SeedNode, <<>>)
  BY <1>4, <1>10, PlaceFacts DEF Shows, Outcome, LastWrite, Untouched
<1>12. ExistenceIsKnown(0, <<>>, <<>>, <<>>, SeedNode)
  <2>1. SeedCount # 0 => SeedNode[Count] # Absent
    BY <1>3, <1>8, WholeIsValue, AbsentAssumption
  <2> QED BY <1>3, <1>4, <1>8, <2>1 DEF ExistenceIsKnown, Untouched
<1>13. ClientInv(d, 3)
  BY <1>2, <1>3, <1>4, <1>7, <1>11, <1>12 DEF ClientInv, NoWriteAfterRead
<1> QED BY <1>1, <1>5, <1>6, <1>13 DEF CountInv

\* When one device is quiet, the three totals count every review it submitted, each once and
\* with its own rating: whatever the number of reviews, of uploads and of dropped
\* connections, and whether or not the item had reviews before. (A form that takes one press
\* and an app that is not killed: with two presses, or after a kill, it is not so.)
THEOREM AllReviewsCounted ==
  ASSUME NEW d, Devices = {d}, MaxTaps <= 1, MaxKills = 0
  PROVE  Spec => []EveryReviewCounted
<1>1. CountInv(d) => EveryReviewCounted
  <2> SUFFICES ASSUME CountInv(d), Settled, SeedCount + Len(subs) > 0
               PROVE  /\ server[Count] = Whole(SeedCount + Len(subs))
                      /\ server[TotalRatings] = Whole(SeedTotal + Sums(subs)[Len(subs)])
                      /\ server[AverageRating] = [num |-> SeedTotal + Sums(subs)[Len(subs)],
                                                  den |-> SeedCount + Len(subs)]
    BY DEF EveryReviewCounted
  <2>1. TypeOK /\ FormInv(d) /\ NetInv(d) /\ d \in Devices
    BY DEF CountInv
  <2>2. PICK s \in 0..3 : ClientInv(d, s)
    BY DEF CountInv
  <2>3. requests[d] = <<>> /\ asked[d] = <<>> /\ pend[d] = <<>> /\ events[d] = <<>>
    BY <2>1 DEF Settled
  <2>4. DOMAIN <<>> = {} /\ Ranks(<<>>) = {}
    BY DEF Ranks
  <2>5. Awaited(d, s) = {}
    BY <2>2, <2>3, <2>4 DEF ClientInv, InLine, AskedRanks
  <2>6. form[d] = 0
    BY <2>5 DEF Awaited
  <2>7. s = 3
    <3>1. s < 3 => s + 1 \in Awaited(d, s) BY DEF Awaited
    <3> QED BY <2>5, <3>1
  <2>8. Handled(d) = Len(subs) /\ Len(subs) \in Nat
    BY <2>1, <2>6, HandledFacts
  <2>9. \A p \in TotalPaths : view[d][p] = Totals(subs, p, Len(subs))
    <3> SUFFICES ASSUME NEW p \in TotalPaths PROVE view[d][p] = Totals(subs, p, Len(subs))
      OBVIOUS
    <3>1. Outcome(<<>>, view[d][p], p, Totals(subs, p, Len(subs)))
      BY <2>2, <2>3, <2>7, <2>8, PlaceFacts DEF ClientInv, Shows
    <3> QED BY <2>4, <3>1 DEF Outcome, Untouched
  <2>10. \A p \in TotalPaths : server[p] = view[d][p]
    BY <2>1, <2>3, <2>4, TotalPathsFact DEF NetInv
  <2> QED BY <2>1, <2>8, <2>9, <2>10, TotalsFacts, TotalPathsFact
<1>2. Init => CountInv(d)
  BY CountInit
<1>3. CountInv(d) /\ [Next]_vars => CountInv(d)'
  BY CountStep
<1> QED BY <1>1, <1>2, <1>3, PTL DEF Spec

------------------------
(* Fifth part: on one device whose connection holds, the averages are published in order. *)

\* The averages that the writes of a queue bring are those of the first lo + 1, lo + 2, ...
\* hi submissions of the list: f counts them along the queue.
Counts(list, q, lo, hi, f) ==
  /\ f \in [0..Len(q) -> 0..Len(list)]
  /\ f[0] = lo /\ f[Len(q)] = hi
  /\ \A i \in 1..Len(q) :
       IF IsPut(q[i], AverageRating)
       THEN f[i] = f[i - 1] + 1 /\ q[i].value = Totals(list, AverageRating, f[i])
       ELSE f[i] = f[i - 1]
StepsUp(list, q, lo, hi) == \E f : Counts(list, q, lo, hi, f)

\* Two queues that step up, the second from where the first ends, do so one after the other.
LEMMA ConcatSteps ==
  ASSUME NEW list, NEW S, NEW q \in Seq(S), NEW xs \in Seq(S), NEW a, NEW b, NEW c,
         StepsUp(list, q, a, b), StepsUp(list, xs, b, c)
  PROVE  StepsUp(list, q \o xs, a, c)
<1> DEFINE r == q \o xs
           n == Len(q)
           m == Len(xs)
           L == 0..Len(list)
<1>1. /\ n \in Nat /\ m \in Nat /\ Len(r) = n + m
      /\ \A i \in 1..n : r[i] = q[i]
      /\ \A i \in 1 .. n + m : i \notin 1 .. n => i - n \in 1 .. m /\ r[i] = xs[i - n]
  BY ConcatIndices
<1>2. PICK f : Counts(list, q, a, b, f)
  BY DEF StepsUp
<1>3. PICK g : Counts(list, xs, b, c, g)
  BY DEF StepsUp
<1>4. /\ f \in [0 .. n -> L] /\ f[0] = a /\ f[n] = b
      /\ g \in [0 .. m -> L] /\ g[0] = b /\ g[m] = c
  BY <1>2, <1>3 DEF Counts
<1> HIDE DEF r, n, m, L
<1> DEFINE k == [i \in 0..n + m |-> IF i <= n THEN f[i] ELSE g[i - n]]
<1>5. \A i \in 0..n : k[i] = f[i]
  BY <1>1
<1>6. \A i \in 1 .. n + m : i \notin 1 .. n => k[i] = g[i - n] /\ k[i - 1] = g[(i - n) - 1]
  <2> SUFFICES ASSUME NEW i \in 1..n + m, i \notin 1..n
               PROVE  k[i] = g[i - n] /\ k[i - 1] = g[(i - n) - 1]
    OBVIOUS
  <2>1. i > n /\ i - 1 \in 0 .. n + m /\ (i - 1) - n = (i - n) - 1
    BY <1>1
  <2>2. k[i] = g[i - n]
    BY <1>1, <2>1
  <2>3. CASE i = n + 1
    <3>1. i - 1 = n /\ (i - n) - 1 = 0
      BY <1>1, <2>3
    <3> QED BY <1>1, <1>4, <1>5, <2>2, <3>1
  <2>4. CASE i # n + 1
    <3>1. ~(i - 1 <= n) BY <1>1, <2>1, <2>4
    <3> QED BY <2>1, <2>2, <3>1
  <2> QED BY <2>3, <2>4
<1>7. k \in [0..n + m -> L]
  <2> SUFFICES ASSUME NEW i \in 0..n + m PROVE k[i] \in L OBVIOUS
  <2>1. CASE i <= n
    BY <2>1, <1>1, <1>4
  <2>2. CASE ~(i <= n)
    <3>1. i - n \in 0..m BY <2>2, <1>1
    <3> QED BY <2>2, <3>1, <1>4
  <2> QED BY <2>1, <2>2
<1>8. k[0] = a /\ k[n + m] = c
  <2>1. k[0] = a
    BY <1>1, <1>4, <1>5
  <2>2. CASE m = 0
    <3>1. n + m = n BY <1>1, <2>2
    <3> QED BY <1>1, <1>4, <1>5, <2>1, <2>2, <3>1
  <2>3. CASE m # 0
    <3>1. n + m \in 1 .. n + m /\ n + m \notin 1 .. n /\ (n + m) - n = m
      BY <1>1, <2>3
    <3> QED BY <1>4, <1>6, <2>1, <3>1
  <2> QED BY <2>2, <2>3
<1> HIDE DEF k
<1>9. ASSUME NEW i \in 1..n + m
      PROVE  IF IsPut(r[i], AverageRating)
             THEN k[i] = k[i - 1] + 1 /\ r[i].value = Totals(list, AverageRating, k[i])
             ELSE k[i] = k[i - 1]
  <2>1. CASE i \in 1..n
    <3>1. r[i] = q[i] /\ k[i] = f[i] /\ k[i - 1] = f[i - 1]
      BY <1>1, <1>5, <2>1
    <3> QED BY <1>2, <2>1, <3>1 DEF Counts, n
  <2>2. CASE i \notin 1..n
    <3>1. i - n \in 1 .. m /\ r[i] = xs[i - n] /\ k[i] = g[i - n] /\ k[i - 1] = g[(i - n) - 1]
      BY <1>1, <1>6, <2>2
    <3> QED BY <1>3, <3>1 DEF Counts, m
  <2> QED BY <2>1, <2>2
<1>10. Counts(list, r, a, c, k)
  BY <1>1, <1>7, <1>8, <1>9 DEF Counts, L
<1> QED BY <1>10 DEF StepsUp, r

\* Taking the head away: if it is an average, it is the next one.
LEMMA TailSteps ==
  ASSUME NEW list, NEW S, NEW q \in Seq(S), q # <<>>, NEW a, NEW b, StepsUp(list, q, a, b)
  PROVE  IF IsPut(Head(q), AverageRating)
         THEN /\ a + 1 \in 0 .. Len(list) /\ Head(q).value = Totals(list, AverageRating, a + 1)
              /\ StepsUp(list, Tail(q), a + 1, b)
         ELSE StepsUp(list, Tail(q), a, b)
<1> DEFINE r == Tail(q)
           n == Len(q)
           L == 0..Len(list)
<1>1. /\ n \in Nat /\ n >= 1 /\ Head(q) = q[1] /\ Len(r) = n - 1
      /\ \A i \in 1..n - 1 : r[i] = q[i + 1]
  BY TailIndices
<1>2. PICK f : Counts(list, q, a, b, f)
  BY DEF StepsUp
<1>3. f \in [0 .. n -> L] /\ f[0] = a /\ f[n] = b
  BY <1>2 DEF Counts
<1>4. \A i \in 1..n :
        IF IsPut(q[i], AverageRating)
        THEN f[i] = f[i - 1] + 1 /\ q[i].value = Totals(list, AverageRating, f[i])
        ELSE f[i] = f[i - 1]
  BY <1>2 DEF Counts
<1> HIDE DEF r, n, L
<1> DEFINE g == [i \in 0..n - 1 |-> f[i + 1]]
<1>5. /\ g \in [0 .. n - 1 -> L] /\ g[0] = f[1] /\ g[n - 1] = b
      /\ \A i \in 1 .. n - 1 : g[i] = f[i + 1] /\ g[i - 1] = f[(i + 1) - 1] /\ i + 1 \in 1..n
  <2>1. \A i \in 0 .. n - 1 : i + 1 \in 0 .. n /\ f[i + 1] \in L
    BY <1>1, <1>3
  <2>2. g \in [0..n - 1 -> L]
    BY <2>1
  <2>3. 0 \in 0 .. n - 1 /\ n - 1 \in 0 .. n - 1 /\ (n - 1) + 1 = n /\ 0 + 1 = 1
    BY <1>1
  <2>4. g[0] = f[1] /\ g[n - 1] = b
    BY <1>3, <2>3
  <2>5. ASSUME NEW i \in 1..n - 1
        PROVE  g[i] = f[i + 1] /\ g[i - 1] = f[(i + 1) - 1] /\ i + 1 \in 1..n
    <3>1. i \in 0 .. n - 1 /\ i - 1 \in 0 .. n - 1 /\ (i - 1) + 1 = (i + 1) - 1 /\ i + 1 \in 1..n
      BY <1>1
    <3> QED BY <3>1
  <2> QED BY <2>2, <2>4, <2>5
<1> HIDE DEF g
<1>6. Counts(list, r, f[1], b, g)
  <2>1. ASSUME NEW i \in 1..n - 1
        PROVE  IF IsPut(r[i], AverageRating)
               THEN g[i] = g[i - 1] + 1 /\ r[i].value = Totals(list, AverageRating, g[i])
               ELSE g[i] = g[i - 1]
    <3> DEFINE j == i + 1
    <3>1. r[i] = q[j] /\ g[i] = f[j] /\ g[i - 1] = f[j - 1] /\ j \in 1..n
      BY <1>1, <1>5
    <3> HIDE DEF j
    <3>2. IF IsPut(q[j], AverageRating)
          THEN f[j] = f[j - 1] + 1 /\ q[j].value = Totals(list, AverageRating, f[j])
          ELSE f[j] = f[j - 1]
      BY <1>4, <3>1
    <3> QED BY <3>1, <3>2
  <2>2. \A i \in 1..Len(r) :
          IF IsPut(r[i], AverageRating)
          THEN g[i] = g[i - 1] + 1 /\ r[i].value = Totals(list, AverageRating, g[i])
          ELSE g[i] = g[i - 1]
    BY <1>1, <2>1
  <2>3. g \in [0 .. Len(r) -> L] /\ g[0] = f[1] /\ g[Len(r)] = b
    BY <1>1, <1>5
  <2> QED BY <2>2, <2>3 DEF Counts, L
<1>7. StepsUp(list, r, f[1], b)
  BY <1>6 DEF StepsUp
<1>8. f[1] \in L /\ 1 \in 1 .. n /\ 1 - 1 = 0
  BY <1>1, <1>3
<1> QED BY <1>1, <1>3, <1>4, <1>7, <1>8 DEF r, L

\* A queue without an average does not step.
LEMMA StillSteps ==
  ASSUME NEW list, NEW S, NEW q \in Seq(S), Untouched(q, AverageRating), NEW k \in 0..Len(list)
  PROVE  StepsUp(list, q, k, k)
<1> DEFINE n == Len(q)
           f == [i \in 0..n |-> k]
<1>1. n \in Nat /\ DOMAIN q = 1..n OBVIOUS
<1> HIDE DEF n
<1>2. f \in [0 .. n -> 0 .. Len(list)] /\ f[0] = k /\ f[n] = k
  BY <1>1
<1>3. ASSUME NEW i \in 1 .. n PROVE f[i] = f[i - 1] /\ ~IsPut(q[i], AverageRating)
  BY <1>1 DEF Untouched
<1> HIDE DEF f
<1>4. Counts(list, q, k, k, f)
  BY <1>2, <1>3 DEF Counts, n
<1> QED BY <1>4 DEF StepsUp

\* A queue of one average steps once.
LEMMA OneStep ==
  ASSUME NEW list, NEW k \in 1..Len(list), Len(list) \in Nat, NEW x,
         IsPut(x, AverageRating), x.value = Totals(list, AverageRating, k)
  PROVE  StepsUp(list, <<x>>, k - 1, k)
<1> DEFINE q == <<x>>
           f == [i \in 0..1 |-> IF i = 0 THEN k - 1 ELSE k]
<1>1. Len(q) = 1 /\ q[1] = x OBVIOUS
<1> HIDE DEF q
<1>2. /\ f \in [0 .. 1 -> 0 .. Len(list)] /\ f[0] = k - 1 /\ f[1] = k /\ k = (k - 1) + 1
      /\ \A i \in 1 .. 1 : i = 1 /\ i - 1 = 0
  OBVIOUS
<1> HIDE DEF f
<1>3. Counts(list, q, k - 1, k, f)
  BY <1>1, <1>2 DEF Counts
<1> QED BY <1>3 DEF StepsUp, q

\* The totals of the first submissions stay what they are when there is one more.
LEMMA TotalsStay ==
  ASSUME NEW list \in Seq(Submissions), NEW x \in Submissions, NEW n \in 0..Len(list), NEW p
  PROVE  Totals(Append(list, x), p, n) = Totals(list, p, n)
<1>1. Sums(Append(list, x))[n] = Sums(list)[n]
  BY SumsStay
<1> DEFINE longer == Append(list, x)
<1> HIDE DEF longer
<1>2. Totals(longer, p, n) = Totals(list, p, n)
  BY <1>1 DEF Totals, longer
<1> QED BY <1>2 DEF longer

\* And so do the steps of a queue.
LEMMA LongerList ==
  ASSUME NEW list \in Seq(Submissions), NEW x \in Submissions, NEW q, NEW a, NEW b,
         StepsUp(list, q, a, b), Len(q) \in Nat
  PROVE  StepsUp(Append(list, x), q, a, b)
<1> DEFINE longer == Append(list, x)
           n == Len(list)
<1>1. n \in Nat /\ Len(longer) = n + 1 OBVIOUS
<1>2. PICK f : Counts(list, q, a, b, f)
  BY DEF StepsUp
<1>3. f \in [0 .. Len(q) -> 0 .. n] /\ f[0] = a /\ f[Len(q)] = b
  BY <1>2 DEF Counts
<1>4. \A k \in 0..n : Totals(longer, AverageRating, k) = Totals(list, AverageRating, k)
  BY TotalsStay
<1>5. \A i \in 1..Len(q) :
        IF IsPut(q[i], AverageRating)
        THEN f[i] = f[i - 1] + 1 /\ q[i].value = Totals(list, AverageRating, f[i])
        ELSE f[i] = f[i - 1]
  BY <1>2 DEF Counts
<1> HIDE DEF longer, n
<1>6. f \in [0..Len(q) -> 0..Len(longer)]
  BY <1>1, <1>3
<1>7. \A i \in 1..Len(q) : f[i] \in 0..n
  BY <1>3
<1>8. Counts(longer, q, a, b, f)
  BY <1>3, <1>4, <1>5, <1>6, <1>7 DEF Counts
<1> QED BY <1>8 DEF StepsUp, longer

\* Whether the read of the average, among those of the submission handled last, is awaited.
AverageAwaited(e, r) == 3 \in Ranks(e) \cup Ranks(r)

\* The server's average is of some first submissions, the writes not applied and those not
\* issued step up from there, and end with the k-th.
Published(list, node, u, r, k) ==
  \E c, m \in 0..Len(list) :
    /\ node[AverageRating] = Totals(list, AverageRating, c)
    /\ StepsUp(list, u, c, m) /\ StepsUp(list, r, m, k)

\* The average of the submission handled last is still to be written as long as its read is
\* awaited.
Issued(e, r, h) == IF AverageAwaited(e, r) THEN h - 1 ELSE h

\* The inductive invariant of the fifth part, together with CountInv.
LedgerInv(d) ==
  Published(subs, server, Unacked(d), requests[d], Issued(events[d], requests[d], Handled(d)))

\* The read of the average is awaited if its place is in the line.
LEMMA ThirdInLine ==
  ASSUME NEW e, NEW a, NEW r, NEW T, InLine(e, a, r, T)
  PROVE  AverageAwaited(e, r) <=> 3 \in T
BY DEF InLine, AskedRanks, AverageAwaited

\* It is awaited unless all three totals are written.
LEMMA IssuedIs ==
  ASSUME NEW d, NEW s \in 0..3, ClientInv(d, s)
  PROVE  /\ AverageAwaited(events[d], requests[d]) <=> s < 3
         /\ Issued(events[d], requests[d], Handled(d))
              = IF s < 3 THEN Handled(d) - 1 ELSE Handled(d)
<1>1. InLine(events[d], asked[d], requests[d], Awaited(d, s))
  BY DEF ClientInv
<1>2. 3 \in Awaited(d, s) <=> s < 3
  BY DEF Awaited
<1>3. AverageAwaited(events[d], requests[d]) <=> s < 3
  BY <1>1, <1>2, ThirdInLine
<1> QED BY <1>3 DEF Issued

\* The steps are among the submissions.
LEMMA StepsWithin ==
  ASSUME NEW list, NEW S, NEW q \in Seq(S), NEW a, NEW b, StepsUp(list, q, a, b)
  PROVE  a \in 0 .. Len(list) /\ b \in 0..Len(list)
<1>1. PICK f : Counts(list, q, a, b, f)
  BY DEF StepsUp
<1>2. Len(q) \in Nat OBVIOUS
<1>3. 0 \in 0 .. Len(q) /\ Len(q) \in 0..Len(q)
  BY <1>2
<1> QED BY <1>1, <1>3 DEF Counts

\* Requests are added that step on from the k-th average.
LEMMA IssueSteps ==
  ASSUME NEW list, NEW node, NEW u, NEW S, NEW r \in Seq(S), NEW xs \in Seq(S), NEW k, NEW n,
         Published(list, node, u, r, k), StepsUp(list, xs, k, n)
  PROVE  Published(list, node, u, r \o xs, n)
<1>1. PICK c, m \in 0..Len(list) :
        /\ node[AverageRating] = Totals(list, AverageRating, c)
        /\ StepsUp(list, u, c, m) /\ StepsUp(list, r, m, k)
  BY DEF Published
<1>2. StepsUp(list, r \o xs, m, n)
  BY <1>1, ConcatSteps
<1> QED BY <1>1, <1>2 DEF Published

\* Requests are added of which none writes the average.
LEMMA IssueOthers ==
  ASSUME NEW list, NEW node, NEW u, NEW S, NEW r \in Seq(S), NEW xs \in Seq(S), NEW k,
         Published(list, node, u, r, k), Untouched(xs, AverageRating)
  PROVE  Published(list, node, u, r \o xs, k)
<1>1. k \in 0..Len(list)
  BY StepsWithin DEF Published
<1> QED BY <1>1, StillSteps, IssueSteps

\* A request taken up that is no write of the average.
LEMMA TakeOther ==
  ASSUME NEW list, NEW node, NEW u, NEW S, NEW r \in Seq(S), NEW k, Published(list, node, u, r, k),
         r # <<>>, ~IsPut(Head(r), AverageRating)
  PROVE  Published(list, node, u, Tail(r), k)
<1>1. PICK c, m \in 0..Len(list) :
        /\ node[AverageRating] = Totals(list, AverageRating, c)
        /\ StepsUp(list, u, c, m) /\ StepsUp(list, r, m, k)
  BY DEF Published
<1>2. StepsUp(list, Tail(r), m, k)
  BY <1>1, TailSteps
<1> QED BY <1>1, <1>2 DEF Published

\* A write taken up goes behind those that are not applied.
LEMMA TakeWrite ==
  ASSUME NEW list, Len(list) \in Nat, NEW node, NEW U, NEW u \in Seq(U), NEW S, NEW r \in Seq(S), NEW k,
         Published(list, node, u, r, k), r # <<>>, Head(r) \in U
  PROVE  Published(list, node, u \o <<Head(r)>>, Tail(r), k)
<1> DEFINE x == Head(r)
           xs == <<x>>
<1>1. PICK c, m \in 0..Len(list) :
        /\ node[AverageRating] = Totals(list, AverageRating, c)
        /\ StepsUp(list, u, c, m) /\ StepsUp(list, r, m, k)
  BY DEF Published
<1>2. xs \in Seq(U) /\ DOMAIN xs = {1} /\ xs[1] = x OBVIOUS
<1>3. CASE IsPut(x, AverageRating)
  <2>1. /\ m + 1 \in 0 .. Len(list) /\ x.value = Totals(list, AverageRating, m + 1)
        /\ StepsUp(list, Tail(r), m + 1, k)
    BY <1>1, <1>3, TailSteps
  <2>2. m + 1 \in 1 .. Len(list) /\ (m + 1) - 1 = m
    BY <2>1
  <2> DEFINE n == m + 1
  <2>3. n \in 1 .. Len(list) /\ n - 1 = m /\ x.value = Totals(list, AverageRating, n)
    BY <2>1, <2>2
  <2> HIDE DEF n, x, xs
  <2>4. StepsUp(list, <<x>>, n - 1, n)
    BY <1>3, <2>3, OneStep
  <2>5. StepsUp(list, xs, m, n)
    BY <2>3, <2>4 DEF xs
  <2>6. StepsUp(list, u \o xs, c, n)
    BY <1>1, <1>2, <2>5, ConcatSteps
  <2> QED BY <1>1, <2>1, <2>6 DEF Published, n, xs, x
<1>4. CASE ~IsPut(x, AverageRating)
  <2>1. StepsUp(list, Tail(r), m, k)
    BY <1>1, <1>4, TailSteps
  <2>2. Untouched(xs, AverageRating)
    BY <1>2, <1>4 DEF Untouched
  <2> HIDE DEF xs
  <2>3. StepsUp(list, xs, m, m)
    BY <1>2, <2>2, StillSteps
  <2>4. StepsUp(list, u \o xs, c, m)
    BY <1>1, <1>2, <2>3, ConcatSteps
  <2> QED BY <1>1, <2>1, <2>4 DEF Published, xs
<1> QED BY <1>3, <1>4

\* A write applied: if it is an average, it is that of one submission more.
LEMMA ApplySteps ==
  ASSUME NEW list, NEW node \in Node, NEW U, NEW u \in Seq(U), NEW r, NEW k,
         Published(list, node, u, r, k), u # <<>>, Head(u).kind = "put"
  PROVE  Published(list, [node EXCEPT ![Head(u).path] = Head(u).value], Tail(u), r, k)
<1> DEFINE w == Head(u)
           new == [node EXCEPT ![w.path] = w.value]
<1>1. PICK c, m \in 0..Len(list) :
        /\ node[AverageRating] = Totals(list, AverageRating, c)
        /\ StepsUp(list, u, c, m) /\ StepsUp(list, r, m, k)
  BY DEF Published
<1>2. AverageRating \in DOMAIN node
  BY TotalPathsFact DEF Node
<1>3. CASE w.path = AverageRating
  <2>1. IsPut(w, AverageRating) /\ new[AverageRating] = w.value
    BY <1>2, <1>3 DEF IsPut
  <2>2. /\ c + 1 \in 0 .. Len(list) /\ w.value = Totals(list, AverageRating, c + 1)
        /\ StepsUp(list, Tail(u), c + 1, m)
    BY <1>1, <2>1, TailSteps
  <2> HIDE DEF new, w
  <2> QED BY <1>1, <2>1, <2>2 DEF Published, new, w
<1>4. CASE w.path # AverageRating
  <2>1. ~IsPut(w, AverageRating) /\ new[AverageRating] = node[AverageRating]
    BY <1>2, <1>4 DEF IsPut
  <2>2. StepsUp(list, Tail(u), c, m)
    BY <1>1, <2>1, TailSteps
  <2> HIDE DEF new, w
  <2> QED BY <1>1, <2>1, <2>2 DEF Published, new, w
<1> QED BY <1>3, <1>4

\* One submission more.
LEMMA PublishedLonger ==
  ASSUME NEW list \in Seq(Submissions), NEW x \in Submissions, NEW node, NEW U, NEW u \in Seq(U),
         NEW S, NEW r \in Seq(S), NEW k, Published(list, node, u, r, k)
  PROVE  Published(Append(list, x), node, u, r, k)
<1>1. PICK c, m \in 0..Len(list) :
        /\ node[AverageRating] = Totals(list, AverageRating, c)
        /\ StepsUp(list, u, c, m) /\ StepsUp(list, r, m, k)
  BY DEF Published
<1> DEFINE longer == Append(list, x)
<1>2. c \in 0 .. Len(longer) /\ m \in 0..Len(longer) OBVIOUS
<1>3. Totals(longer, AverageRating, c) = Totals(list, AverageRating, c)
  BY TotalsStay
<1>4. Len(u) \in Nat /\ Len(r) \in Nat OBVIOUS
<1>5. StepsUp(longer, u, c, m) /\ StepsUp(longer, r, m, k)
  BY <1>1, <1>4, LongerList
<1> HIDE DEF longer
<1> QED BY <1>1, <1>2, <1>3, <1>5 DEF Published, longer

\* What is not applied of a queue: its places.
LEMMA RestIndices ==
  ASSUME NEW S, NEW q \in Seq(S), NEW m \in 0..Len(q)
  PROVE  /\ Len(q) \in Nat /\ DOMAIN q = 1 .. Len(q) /\ \A i \in 1..Len(q) : q[i] \in S
         /\ SubSeq(q, m + 1, Len(q)) \in Seq(S)
         /\ Len(SubSeq(q, m + 1, Len(q))) = Len(q) - m
         /\ \A i \in 1..Len(q) - m : SubSeq(q, m + 1, Len(q))[i] = q[m + i]
<1> DEFINE n == Len(q)
           u == SubSeq(q, m + 1, n)
<1>1. n \in Nat /\ m \in 0 .. n /\ DOMAIN q = 1 .. n /\ \A i \in 1..n : q[i] \in S
  OBVIOUS
<1> HIDE DEF n
<1>2. /\ u \in Seq(S) /\ Len(u) = n - m /\ \A i \in 1..n - m : u[i] = q[m + i]
  <2> DEFINE k == m + 1
  <2>1. k \in Int /\ n \in Int /\ \A i \in k..n : q[i] \in S
    BY <1>1
  <2> HIDE DEF k
  <2>2. /\ SubSeq(q, k, n) \in Seq(S) /\ Len(SubSeq(q, k, n)) = IF k <= n THEN n - k + 1 ELSE 0
        /\ \A i \in 1..n - k + 1 : SubSeq(q, k, n)[i] = q[k + i - 1]
    BY <2>1, SubSeqProperties
  <2>3. /\ n - k + 1 = n - m /\ \A i \in 1..n - m : k + i - 1 = m + i
        /\ (IF k <= n THEN n - k + 1 ELSE 0) = n - m
    BY <1>1 DEF k
  <2> QED BY <2>2, <2>3 DEF k
<1> QED BY <1>1, <1>2 DEF n, u

\* What is not applied of a queue with one write more.
LEMMA RestAndOneMore ==
  ASSUME NEW S, NEW q \in Seq(S), NEW m \in 0..Len(q), NEW w \in S
  PROVE  SubSeq(Append(q, w), m + 1, Len(Append(q, w))) = SubSeq(q, m + 1, Len(q)) \o <<w>>
<1> DEFINE n == Len(q)
           u == SubSeq(q, m + 1, n)
<1>1. n \in Nat /\ m \in 0 .. n /\ DOMAIN q = 1 .. n /\ \A i \in 1..n : q[i] \in S
  OBVIOUS
<1>2. /\ u \in Seq(S) /\ Len(u) = n - m /\ \A i \in 1..n - m : u[i] = q[m + i]
  BY RestIndices
<1> HIDE DEF n
<1> DEFINE r == Append(q, w)
           k == m + 1
           v == u \o <<w>>
           x == SubSeq(r, k, n + 1)
<1>3. /\ r \in Seq(S) /\ Len(r) = n + 1 /\ DOMAIN r = 1 .. n + 1 /\ r[n + 1] = w
      /\ \A i \in 1..n : r[i] = q[i]
  BY DEF n
<1>4. /\ v \in Seq(S) /\ Len(v) = (n - m) + 1 /\ v[(n - m) + 1] = w
      /\ \A i \in 1..n - m : v[i] = u[i]
  <2> HIDE DEF u
  <2>1. <<w>> \in Seq(S) /\ Len(<<w>>) = 1 /\ <<w>>[1] = w OBVIOUS
  <2> QED BY <1>2, <2>1
<1> HIDE DEF r, v, u
<1>5. k \in Int /\ n + 1 \in Int /\ \A i \in k..n + 1 : r[i] \in S
  BY <1>1, <1>3
<1> HIDE DEF k
<1>6. /\ x \in Seq(S) /\ Len(x) = IF k <= n + 1 THEN (n + 1) - k + 1 ELSE 0
      /\ \A i \in 1..(n + 1) - k + 1 : x[i] = r[k + i - 1]
  BY <1>5, SubSeqProperties
<1> HIDE DEF x
<1>7. Len(x) = (n - m) + 1 /\ \A i \in 1..(n - m) + 1 : x[i] = r[m + i]
  <2>1. /\ (n + 1) - k + 1 = (n - m) + 1 /\ \A i \in 1..(n - m) + 1 : k + i - 1 = m + i
        /\ (IF k <= n + 1 THEN (n + 1) - k + 1 ELSE 0) = (n - m) + 1
    BY <1>1 DEF k, n
  <2> QED BY <1>6, <2>1
<1>8. ASSUME NEW i \in 1..(n - m) + 1 PROVE x[i] = v[i]
  <2>1. CASE i = (n - m) + 1
    <3>1. m + i = n + 1 BY <1>1, <2>1
    <3> QED BY <2>1, <3>1, <1>3, <1>4, <1>7
  <2>2. CASE i # (n - m) + 1
    <3>1. i \in 1 .. n - m /\ m + i \in 1..n
      BY <1>1, <2>2
    <3> QED BY <3>1, <1>2, <1>3, <1>4, <1>7
  <2> QED BY <2>1, <2>2
<1>9. x = v
  BY <1>4, <1>6, <1>7, <1>8, SeqEqual
<1>10. SubSeq(r, k, Len(r)) = v
  BY <1>3, <1>9 DEF x
<1> QED BY <1>10, Zenon DEF v, r, k, n, u

\* What is not applied of a queue with a write applied, and all of a queue.
LEMMA RestOfQueue ==
  ASSUME NEW S, NEW q \in Seq(S), NEW m \in 0..Len(q)
  PROVE  /\ SubSeq(q, m + 1, Len(q)) \in Seq(S)
         /\ m < Len(q) => /\ SubSeq(q, m + 1, Len(q)) # <<>>
                          /\ Head(SubSeq(q, m + 1, Len(q))) = q[m + 1]
                          /\ SubSeq(q, (m + 1) + 1, Len(q)) = Tail(SubSeq(q, m + 1, Len(q)))
         /\ SubSeq(q, 1, Len(q)) = q
<1> DEFINE n == Len(q)
           u == SubSeq(q, m + 1, n)
<1>1. n \in Nat /\ m \in 0 .. n /\ DOMAIN q = 1 .. n /\ \A i \in 1..n : q[i] \in S
  OBVIOUS
<1>2. /\ u \in Seq(S) /\ Len(u) = n - m /\ \A i \in 1..n - m : u[i] = q[m + i]
  BY RestIndices
<1> HIDE DEF n
<1>3. ASSUME m < n
      PROVE  /\ u # <<>> /\ Head(u) = q[m + 1]
             /\ SubSeq(q, (m + 1) + 1, n) = Tail(u)
  <2> DEFINE k == (m + 1) + 1
             x == SubSeq(q, k, n)
             v == Tail(u)
  <2> HIDE DEF u
  <2>1. 1 \in 1 .. n - m /\ Len(u) # 0
    BY <1>1, <1>2, <1>3
  <2>2. u # <<>> /\ Head(u) = q[m + 1]
    BY <1>2, <2>1
  <2>3. v \in Seq(S) /\ Len(v) = (n - m) - 1 /\ \A i \in 1..(n - m) - 1 : v[i] = u[i + 1]
    BY <1>2, <2>2
  <2>4. k \in Int /\ n \in Int /\ \A i \in k..n : q[i] \in S
    BY <1>1
  <2> HIDE DEF k
  <2>5. /\ x \in Seq(S) /\ Len(x) = IF k <= n THEN n - k + 1 ELSE 0
        /\ \A i \in 1..n - k + 1 : x[i] = q[k + i - 1]
    BY <2>4, SubSeqProperties
  <2>6. /\ n - k + 1 = (n - m) - 1 /\ \A i \in 1..(n - m) - 1 : k + i - 1 = m + (i + 1)
        /\ (IF k <= n THEN n - k + 1 ELSE 0) = (n - m) - 1
    BY <1>1, <1>3 DEF k
  <2> HIDE DEF x, v
  <2>7. ASSUME NEW i \in 1..(n - m) - 1 PROVE x[i] = v[i]
    <3>1. i + 1 \in 1..n - m BY <1>1
    <3> QED BY <3>1, <1>2, <2>3, <2>5, <2>6
  <2>8. x = v
    BY <2>3, <2>5, <2>6, <2>7, SeqEqual
  <2> QED BY <2>2, <2>8 DEF x, v, k
<1>4. SubSeq(q, 1, n) = q
  BY DEF n
<1> QED BY <1>2, <1>3, <1>4 DEF n, u

\* What the server has not applied is a queue of writes.
LEMMA UnackedType ==
  ASSUME TypeOK, NEW d \in Devices
  PROVE  Unacked(d) \in Seq(Puts)
<1>1. pend[d] \in Seq(Puts) /\ sent[d] \in 0..Len(pend[d])
  BY DEF TypeOK
<1> QED BY <1>1, RestOfQueue DEF Unacked

------------------------
(* The steps of the client. *)

\* What stays when neither the writes sent nor the server change.
LEMMA UnackedStays ==
  ASSUME NEW d, pend' = pend, sent' = sent
  PROVE  Unacked(d)' = Unacked(d)
BY DEF Unacked

\* A rank is that of a queue with one request more if it is of the queue or of the request.
LEMMA AddedRank ==
  ASSUME NEW S, NEW r \in Seq(S), NEW x \in S, NEW n, n # 0
  PROVE  n \in Ranks(r \o <<x>>) <=> n \in Ranks(r) \/ n = Rank(x)
<1> DEFINE xs == <<x>>
<1>1. xs \in Seq(S) /\ Ranks(xs) = {Rank(x)} \ {0}
  BY SingleFacts
<1> HIDE DEF xs
<1>2. Ranks(r \o xs) = Ranks(r) \cup Ranks(xs)
  BY <1>1, ConcatRanks
<1> QED BY <1>1, <1>2 DEF xs

\* A press of Submit adds a submission at the end of the list.
LEMMA PressKeepsLedger ==
  ASSUME TypeOK, NEW d \in Devices, FormInv(d), LedgerInv(d), MaxTaps <= 1,
         NEW k \in Ratings, SubmitPressed(d, k)
  PROVE  LedgerInv(d)'
<1> DEFINE n == Len(subs) + 1
           new == [dev |-> d, form |-> n, rating |-> k]
           list == Append(subs, new)
           e == events[d]
           r == requests[d]
           x == Ask(n)
           R == RequestsFor(Submitted) \cup {x}
           h == Handled(d)
           u == Unacked(d)
<1>1. form[d] = 0
  BY PressIsFirst
<1>2. /\ subs' = list /\ form'[d] = n /\ requests'[d] = Append(r, x) /\ n \in Subs
      /\ events' = events /\ server' = server /\ pend' = pend /\ sent' = sent
  BY <1>1 DEF SubmitPressed, TypeOK
<1>3. subs \in Seq(Submissions) /\ new \in Submissions
  <2>1. subs \in Seq(Submissions)
    BY DEF TypeOK
  <2>2. new \in Submissions
    BY <1>2 DEF Submissions
  <2> QED BY <2>1, <2>2
<1>4. h = Len(subs) /\ Len(subs) \in Nat
  BY <1>1, HandledFacts
<1>5. Handled(d)' = h
  <2>1. Len(list) = n /\ n # 0 /\ n - 1 = h
    BY <1>3, <1>4
  <2> QED BY <1>2, <2>1 DEF Handled
<1>6. r \in Seq(R) /\ x \in R
  <2> DEFINE old == RequestsFor(Submitted)
  <2> HIDE DEF old, x, r
  <2>1. old \subseteq old \cup {x} /\ r \in Seq(old)
    BY QueueTypes DEF old, r
  <2>2. r \in Seq(old \cup {x})
    BY <2>1, WidenSequence
  <2> QED BY <2>2 DEF old
<1>7. Rank(x) = 4 /\ x.kind = "ask"
  BY DEF Ask, Rank
<1>8. Unacked(d)' = u /\ u \in Seq(Puts)
  <2>1. Unacked(d)' = u
    BY <1>2, UnackedStays
  <2>2. u \in Seq(Puts)
    BY UnackedType
  <2> QED BY <2>1, <2>2
<1> HIDE DEF n, new, list, e, r, x, R, h, u
<1> DEFINE xs == <<x>>
           q == r \o xs
<1>9. Append(r, x) = q /\ xs \in Seq(R) /\ DOMAIN xs = {1} /\ xs[1] = x
  BY <1>6
<1>10. 3 \in Ranks(q) <=> 3 \in Ranks(r)
  BY <1>6, <1>7, AddedRank
<1>11. Untouched(xs, AverageRating)
  BY <1>7, <1>9 DEF Untouched, IsPut
<1> HIDE DEF xs
<1>12. Published(subs, server, u, r, Issued(e, r, h))
  BY DEF LedgerInv, u, r, e, h
<1>13. Published(subs, server, u, q, Issued(e, r, h))
  BY <1>6, <1>9, <1>11, <1>12, IssueOthers
<1>14. q \in Seq(R)
  BY <1>6, <1>9
<1> HIDE DEF q
<1>15. Published(list, server, u, q, Issued(e, r, h))
  BY <1>3, <1>8, <1>13, <1>14, PublishedLonger DEF list
<1>16. Issued(e, q, h) = Issued(e, r, h)
  BY <1>10 DEF Issued, AverageAwaited
<1> QED BY <1>2, <1>5, <1>8, <1>9, <1>15, <1>16 DEF LedgerInv, e

\* A callback or an upload that issues no write of the average, while the reads of the
\* average that are awaited and the submissions handled stay as they are.
LEMMA OtherWriteKeepsLedger ==
  ASSUME TypeOK, NEW d \in Devices, LedgerInv(d), NEW xs \in Seq(RequestsFor(Submitted)),
         Untouched(xs, AverageRating), Issue(d, xs),
         AverageAwaited(events'[d], requests'[d]) <=> AverageAwaited(events[d], requests[d]),
         Handled(d)' = Handled(d), subs' = subs, server' = server, pend' = pend, sent' = sent
  PROVE  LedgerInv(d)'
<1> DEFINE r == requests[d]
           k == Issued(events[d], r, Handled(d))
<1>1. requests'[d] = r \o xs /\ r \in Seq(RequestsFor(Submitted))
  BY QueueTypes DEF Issue, TypeOK
<1>2. Published(subs, server, Unacked(d), r, k)
  BY DEF LedgerInv
<1>3. Issued(events'[d], requests'[d], Handled(d)') = k
  BY DEF Issued
<1> HIDE DEF r, k
<1>4. Published(subs, server, Unacked(d), r \o xs, k)
  BY <1>1, <1>2, IssueOthers
<1>5. Unacked(d)' = Unacked(d)
  BY UnackedStays
<1> QED BY <1>1, <1>3, <1>4, <1>5 DEF LedgerInv

\* The count or the total is written.
LEMMA ValueKeepsLedger ==
  ASSUME TypeOK, NEW d \in Devices, FormInv(d), NEW s \in 0..3, ClientInv(d, s), LedgerInv(d),
         NEW p \in {Count, TotalRatings}, NEW v \in Value, ValueArrived(d, p), Issue(d, <<Put(p, v)>>)
  PROVE  LedgerInv(d)'
<1> DEFINE e == events[d]
           r == requests[d]
           x == Put(p, v)
           xs == <<x>>
           R == RequestsFor(Submitted)
           E == EventsFor(Submitted, Value \cup {Absent})
<1>1. /\ e # <<>> /\ Head(e).kind = "value" /\ Head(e).path = p /\ events'[d] = Tail(e)
      /\ server' = server /\ pend' = pend /\ sent' = sent /\ subs' = subs /\ form' = form
  BY DEF ValueArrived, Callback, TypeOK
<1>2. p \in TotalPaths /\ p # AverageRating /\ Place(p) \in {1, 2}
  BY TotalPathsFact, PlaceFacts
<1>3. x \in R /\ xs \in Seq(R) /\ DOMAIN xs = {1} /\ xs[1] = x
  <2>1. x \in R
    BY <1>2, TotalPathsFact, PutType
  <2> HIDE DEF R, x
  <2> QED BY <2>1
<1>4. x.kind = "put" /\ x.path = p /\ Rank(x) = 0
  BY DEF Put, Rank
<1>5. Rank(Head(e)) = Place(p)
  BY <1>1 DEF Rank
<1>6. e \in Seq(E) /\ r \in Seq(R)
  BY QueueTypes
<1>7. requests'[d] = r \o xs
  BY DEF Issue, TypeOK
<1> HIDE DEF e, r, x, R, E
<1>8. Untouched(xs, AverageRating)
  BY <1>2, <1>3, <1>4 DEF Untouched, IsPut
<1>9. 3 \in Ranks(r \o xs) <=> 3 \in Ranks(r)
  BY <1>3, <1>4, <1>6, AddedRank
<1>10. 3 \in Ranks(Tail(e)) <=> 3 \in Ranks(e)
  BY <1>1, <1>2, <1>5, <1>6, TailRanks
<1>11. AverageAwaited(Tail(e), r \o xs) <=> AverageAwaited(e, r)
  BY <1>9, <1>10 DEF AverageAwaited
<1>12. Handled(d)' = Handled(d)
  BY <1>1 DEF Handled
<1> HIDE DEF xs
<1>13. Issue(d, xs)
  BY DEF xs, x
<1> QED BY <1>1, <1>3, <1>7, <1>8, <1>11, <1>12, <1>13, OtherWriteKeepsLedger DEF e, r, R

\* The average is written: it is the next one.
LEMMA AverageKeepsLedger ==
  ASSUME TypeOK, NEW d \in Devices, FormInv(d), NEW s \in 0..3, ClientInv(d, s), LedgerInv(d),
         AverageArrived(d)
  PROVE  LedgerInv(d)'
<1> DEFINE y == Head(events[d])
           h == Handled(d)
           v == [num |-> newTotal[y.sub], den |-> newCount[y.sub]]
           x == Put(AverageRating, v)
           xs == <<x>>
           e == events[d]
           r == requests[d]
           R == RequestsFor(Submitted)
<1>1. ValueArrived(d, AverageRating) /\ Issue(d, <<Put(AverageRating, v)>>)
  BY DEF AverageArrived
<1>2. /\ e # <<>> /\ y.kind = "value" /\ y.path = AverageRating /\ events'[d] = Tail(e)
      /\ server' = server /\ pend' = pend /\ sent' = sent /\ subs' = subs /\ form' = form
      /\ requests'[d] = r \o xs
  BY <1>1 DEF ValueArrived, Callback, Issue, TypeOK
<1>3. /\ s + 1 = 3 /\ y.sub = h /\ h > 0
      /\ h - 1 \in 0 .. Len(subs) /\ SeedCount + (h - 1) > 0
      /\ InLine(Tail(e), asked[d], r, Awaited(d, s) \ {s + 1})
  BY <1>2, NextAnswer, PlaceFacts
<1>4. h \in 0 .. Len(subs) /\ Len(subs) \in Nat /\ SeedCount \in Nat
  BY HandledFacts
<1>5. SeedCount + h > 0 /\ s = 2 /\ h \in 1..Len(subs)
  BY <1>3, <1>4
<1>6. newCount[h] = SeedCount + h /\ newTotal[h] = SeedTotal + Sums(subs)[h]
  BY <1>5 DEF ClientInv
<1>7. v = Totals(subs, AverageRating, h) /\ v \in Value
  <2>1. v = Totals(subs, AverageRating, h)
    BY <1>3, <1>4, <1>5, <1>6, TotalsFacts, TotalPathsFact
  <2> HIDE DEF v
  <2> QED BY <2>1, <1>4, <1>5, TotalsFacts, TotalPathsFact
<1>8. r \in Seq(R) /\ x \in R
  BY <1>7, QueueTypes, TotalPathsFact, PutType
<1>9. x.value = v /\ Rank(x) = 0 /\ IsPut(x, AverageRating)
  BY DEF Put, Rank, IsPut
<1>10. Issued(e, r, h) = h - 1
  BY <1>5, IssuedIs
<1>11. 3 \notin Ranks(Tail(e)) /\ 3 \notin Ranks(r)
  BY <1>3, ThirdInLine DEF AverageAwaited
<1>12. Handled(d)' = h
  BY <1>2 DEF Handled
<1>13. Published(subs, server, Unacked(d), r, h - 1)
  BY <1>10 DEF LedgerInv
<1> HIDE DEF y, h, v, x, e, r, R
<1>14. StepsUp(subs, xs, h - 1, h)
  BY <1>4, <1>5, <1>7, <1>9, OneStep
<1>15. xs \in Seq(R)
  BY <1>8
<1>16. 3 \notin Ranks(r \o xs)
  BY <1>8, <1>9, <1>11, AddedRank
<1> HIDE DEF xs
<1>17. Published(subs, server, Unacked(d), r \o xs, h)
  BY <1>8, <1>13, <1>14, <1>15, IssueSteps
<1>18. Issued(Tail(e), r \o xs, h) = h
  BY <1>11, <1>16 DEF Issued, AverageAwaited
<1>19. Unacked(d)' = Unacked(d)
  BY <1>2, UnackedStays
<1> QED BY <1>2, <1>12, <1>17, <1>18, <1>19 DEF LedgerInv

\* The end of an upload.
LEMMA UploadKeepsLedger ==
  ASSUME TypeOK, UploadsHaveKey, NEW d \in Devices, LedgerInv(d), NEW n \in Subs, NEW ok,
         UploadFinished(d, n, ok)
  PROVE  LedgerInv(d)'
<1> DEFINE key == uniqueReviewID[subs[n].form]
           p == <<"imageURL", key>>
           x == Put(p, Whole(n))
           xs == <<x>>
           r == requests[d]
           R == RequestsFor(Submitted)
<1>1. /\ subs' = subs /\ form' = form /\ events' = events /\ server' = server
      /\ pend' = pend /\ sent' = sent /\ (requests' = requests \/ Issue(d, xs))
  BY DEF UploadFinished
<1>2. n \in Submitted /\ upload[n] = "running" /\ key # 0
  BY DEF UploadFinished, UploadsHaveKey
<1>3. key \in Subs
  <2>1. subs[n] \in Submissions
    BY <1>2 DEF TypeOK, Submitted
  <2>2. subs[n].form \in Subs
    BY <2>1 DEF Submissions
  <2> QED BY <1>2, <2>2 DEF TypeOK
<1>4. p \in ReviewPaths /\ p \in Paths
  BY <1>3 DEF ReviewPaths, Paths
<1>5. p # AverageRating
  BY <1>4, TotalsAreNoReviews, TotalPathsFact
<1>6. n \in Nat
  BY SubsFacts
<1>7. x \in R /\ x.kind = "put" /\ x.path = p /\ Rank(x) = 0
  BY <1>4, <1>6, WholeIsValue, PutType DEF Put, Rank
<1>8. Handled(d)' = Handled(d)
  BY <1>1 DEF Handled
<1>9. Unacked(d)' = Unacked(d)
  BY <1>1, UnackedStays
<1>10. CASE requests' = requests
  BY <1>1, <1>8, <1>9, <1>10 DEF LedgerInv
<1>11. CASE Issue(d, xs)
  <2>1. requests'[d] = r \o xs /\ r \in Seq(R)
    BY <1>11, QueueTypes DEF Issue, TypeOK
  <2> HIDE DEF p, x, r, R
  <2>2. xs \in Seq(R) /\ DOMAIN xs = {1} /\ xs[1] = x
    BY <1>7
  <2>3. Untouched(xs, AverageRating)
    BY <2>2, <1>5, <1>7 DEF Untouched, IsPut
  <2>4. 3 \in Ranks(r \o xs) <=> 3 \in Ranks(r)
    BY <2>1, <1>7, AddedRank
  <2>5. AverageAwaited(events[d], r \o xs) <=> AverageAwaited(events[d], r)
    BY <2>4 DEF AverageAwaited
  <2> HIDE DEF xs
  <2> QED BY <1>1, <1>8, <1>11, <2>1, <2>2, <2>3, <2>5, OtherWriteKeepsLedger DEF r, R
<1> QED BY <1>1, <1>10, <1>11

\* The item is there: the submission is handled, and its average still to be read.
LEMMA ExistsKeepsLedger ==
  ASSUME TypeOK, NEW d \in Devices, FormInv(d), NEW s \in 0..3, ClientInv(d, s), LedgerInv(d),
         ItemExists(d)
  PROVE  LedgerInv(d)'
<1> DEFINE h == Handled(d)
           n == Len(subs)
           e == events[d]
           r == requests[d]
           gets == TotalReads(n)
           puts == ReviewWrites(n)
           xs == gets \o puts
           R == RequestsFor(Submitted)
<1>1. /\ e # <<>> /\ Head(e).kind = "item" /\ events'[d] = Tail(e)
      /\ Issue(d, TotalReads(Head(e).sub) \o ReviewWrites(Head(e).sub))
      /\ FinishSubmit(d, Head(e).sub)
  BY DEF ItemExists, Callback, TypeOK
<1>2. s = 3 /\ form[d] # 0 /\ Head(e).sub = n
  BY <1>1, ItemAnswer
<1>3. /\ subs' = subs /\ Handled(d)' = n /\ h + 1 = n /\ n \in Submitted
      /\ server' = server /\ pend' = pend /\ sent' = sent
  <2>1. FinishSubmit(d, n)
    BY <1>1, <1>2
  <2>2. subs' = subs /\ Handled(d)' = n /\ h + 1 = n /\ n \in Submitted
    BY <1>2, <2>1, FinishIsHandled
  <2>3. server' = server /\ pend' = pend /\ sent' = sent
    BY <2>1 DEF FinishSubmit
  <2> QED BY <2>2, <2>3
<1>4. requests'[d] = r \o xs
  BY <1>1, <1>2 DEF Issue, TypeOK
<1>5. /\ gets \in Seq(R) /\ Ranks(gets) = 1..3
      /\ \A x \in Elements(gets) : x.kind = "get"
  BY <1>3, TotalReadsType, TotalReadsFacts
<1>6. puts \in Seq(R) /\ Ranks(puts) = {} /\ Untouched(puts, AverageRating)
  BY <1>3, ReviewWritesFacts, TotalPathsFact
<1>7. r \in Seq(R)
  BY QueueTypes
<1>8. Issued(e, r, h) = h
  BY <1>2, IssuedIs
<1>9. Published(subs, server, Unacked(d), r, h)
  BY <1>8 DEF LedgerInv
<1>10. n - 1 = h
  BY <1>3, HandledFacts
<1> HIDE DEF h, n, e, r, gets, puts, R
<1>11. Untouched(gets, AverageRating)
  BY <1>5 DEF Untouched, Elements, IsPut
<1>12. /\ xs \in Seq(R) /\ Untouched(xs, AverageRating) /\ Ranks(xs) = 1..3
  <2>1. xs \in Seq(R)
    BY <1>5, <1>6
  <2>2. Untouched(xs, AverageRating)
    BY <1>5, <1>6, <1>11, ConcatUntouched
  <2>3. Ranks(xs) = Ranks(gets) \cup Ranks(puts)
    BY <1>5, <1>6, ConcatRanks
  <2> QED BY <2>1, <2>2, <2>3, <1>5, <1>6
<1> HIDE DEF xs
<1>13. Published(subs, server, Unacked(d), r \o xs, h)
  BY <1>7, <1>9, <1>12, IssueOthers
<1>14. 3 \in Ranks(r \o xs)
  <2>1. Ranks(r \o xs) = Ranks(r) \cup Ranks(xs)
    BY <1>7, <1>12, ConcatRanks
  <2>2. 3 \in 1..3 OBVIOUS
  <2> QED BY <2>1, <2>2, <1>12
<1>15. Issued(Tail(e), r \o xs, n) = h
  BY <1>10, <1>14 DEF Issued, AverageAwaited
<1>16. Unacked(d)' = Unacked(d)
  BY <1>3, UnackedStays
<1> QED BY <1>1, <1>3, <1>4, <1>13, <1>15, <1>16 DEF LedgerInv

\* The first averages: one, of one submission.
LEMMA FirstAverage ==
  ASSUME TypeOK, Len(subs) = 1, SeedCount = 0
  PROVE  StepsUp(subs, FirstTotals(1), 0, 1)
<1> DEFINE q == FirstTotals(1)
           f == [i \in 0..3 |-> IF i = 3 THEN 1 ELSE 0]
<1>1. Outcome(q, 0, AverageRating, Totals(subs, AverageRating, 1))
  BY FirstTotalsOutcome, TotalPathsFact
<1>2. /\ Len(q) = 3 /\ DOMAIN q = 1..3
      /\ ~IsPut(q[1], AverageRating) /\ ~IsPut(q[2], AverageRating) /\ IsPut(q[3], AverageRating)
  <2>1. /\ Len(q) = 3 /\ DOMAIN q = 1..3
        /\ q[1].path = Count /\ q[2].path = TotalRatings
        /\ q[3].path = AverageRating /\ q[3].kind = "put"
    BY DEF FirstTotals, Put
  <2> QED BY <2>1, PlaceFacts DEF IsPut
<1> HIDE DEF q
<1>3. q[3].value = Totals(subs, AverageRating, 1)
  <2>1. 3 \in DOMAIN q /\ ~\E j \in DOMAIN q : j > 3
    BY <1>2
  <2> QED BY <1>1, <1>2, <2>1 DEF Outcome, LastWrite
<1>4. f \in [0 .. 3 -> 0 .. 1] /\ f[0] = 0 /\ f[1] = 0 /\ f[2] = 0 /\ f[3] = 1
  OBVIOUS
<1> HIDE DEF f
<1>5. ASSUME NEW i \in 1..3
      PROVE  IF IsPut(q[i], AverageRating)
             THEN f[i] = f[i - 1] + 1 /\ q[i].value = Totals(subs, AverageRating, f[i])
             ELSE f[i] = f[i - 1]
  <2>1. i = 1 \/ i = 2 \/ i = 3 OBVIOUS
  <2>2. 1 - 1 = 0 /\ 2 - 1 = 1 /\ 3 - 1 = 2 /\ 0 + 1 = 1 OBVIOUS
  <2> QED BY <2>1, <2>2, <1>2, <1>3, <1>4
<1>6. Counts(subs, q, 0, 1, f)
  BY <1>2, <1>4, <1>5 DEF Counts
<1> QED BY <1>6 DEF StepsUp, q

\* The item is not there: the first average is written.
LEMMA MissingKeepsLedger ==
  ASSUME TypeOK, NEW d \in Devices, FormInv(d), NEW s \in 0..3, ClientInv(d, s), LedgerInv(d),
         ItemMissing(d)
  PROVE  LedgerInv(d)'
<1> DEFINE h == Handled(d)
           n == Len(subs)
           e == events[d]
           r == requests[d]
           sums == FirstTotals(1)
           puts == ReviewWrites(1)
           xs == sums \o puts
           R == RequestsFor(Submitted)
<1>1. /\ e # <<>> /\ Head(e).kind = "item" /\ ~Head(e).exists /\ events'[d] = Tail(e)
      /\ Issue(d, FirstTotals(Head(e).sub) \o ReviewWrites(Head(e).sub))
      /\ FinishSubmit(d, Head(e).sub)
  BY DEF ItemMissing, Callback, TypeOK
<1>2. /\ s = 3 /\ form[d] # 0 /\ Head(e).sub = n /\ ~(SeedCount + h > 0)
      /\ InLine(Tail(e), asked[d], r, {})
  BY <1>1, ItemAnswer
<1>3. /\ subs' = subs /\ Handled(d)' = n /\ h + 1 = n /\ n \in Submitted
      /\ server' = server /\ pend' = pend /\ sent' = sent
  <2>1. FinishSubmit(d, n)
    BY <1>1, <1>2
  <2>2. subs' = subs /\ Handled(d)' = n /\ h + 1 = n /\ n \in Submitted
    BY <1>2, <2>1, FinishIsHandled
  <2>3. server' = server /\ pend' = pend /\ sent' = sent
    BY <2>1 DEF FinishSubmit
  <2> QED BY <2>2, <2>3
<1>4. n = 1 /\ SeedCount = 0 /\ h = 0
  <2>1. h \in Nat /\ SeedCount \in Nat
    BY HandledFacts
  <2> QED BY <1>2, <1>3, <2>1
<1>5. requests'[d] = r \o xs
  BY <1>1, <1>2, <1>4 DEF Issue, TypeOK
<1>6. sums \in Seq(R) /\ Ranks(sums) = {} /\ StepsUp(subs, sums, 0, 1)
  BY <1>4, FirstTotalsOutcome, FirstAverage
<1>7. puts \in Seq(R) /\ Ranks(puts) = {} /\ Untouched(puts, AverageRating)
  BY <1>3, <1>4, ReviewWritesFacts, TotalPathsFact
<1>8. r \in Seq(R)
  BY QueueTypes
<1>9. Published(subs, server, Unacked(d), r, 0)
  <2>1. Issued(e, r, h) = h
    BY <1>2, IssuedIs
  <2> QED BY <2>1, <1>4 DEF LedgerInv
<1> HIDE DEF h, e, r, sums, puts, R
<1>10. StepsUp(subs, puts, 1, 1)
  <2>1. 1 \in 0..Len(subs)
    BY <1>4
  <2> QED BY <2>1, <1>7, StillSteps
<1>11. StepsUp(subs, xs, 0, 1)
  BY <1>6, <1>7, <1>10, ConcatSteps
<1>12. xs \in Seq(R) /\ Ranks(xs) = {}
  <2>1. xs \in Seq(R)
    BY <1>6, <1>7
  <2>2. Ranks(xs) = Ranks(sums) \cup Ranks(puts)
    BY <1>6, <1>7, ConcatRanks
  <2> QED BY <2>1, <2>2, <1>6, <1>7
<1> HIDE DEF xs
<1>13. Published(subs, server, Unacked(d), r \o xs, 1)
  BY <1>8, <1>9, <1>11, <1>12, IssueSteps
<1>14. ~AverageAwaited(Tail(e), r \o xs)
  <2>1. Ranks(r \o xs) = Ranks(r)
    <3>1. Ranks(r \o xs) = Ranks(r) \cup Ranks(xs) BY <1>8, <1>12, ConcatRanks
    <3> QED BY <3>1, <1>12
  <2>2. ~AverageAwaited(Tail(e), r)
    BY <1>2, ThirdInLine
  <2> QED BY <2>1, <2>2 DEF AverageAwaited
<1>15. Issued(Tail(e), r \o xs, n) = 1
  BY <1>4, <1>14 DEF Issued
<1>16. Unacked(d)' = Unacked(d)
  BY <1>3, UnackedStays
<1> QED BY <1>1, <1>3, <1>5, <1>13, <1>15, <1>16 DEF LedgerInv

------------------------
(* The steps of Firebase's queue and of the connection. *)

\* A read taken up, or the question.
LEMMA ReadKeepsLedger ==
  ASSUME TypeOK, NEW d \in Devices, LedgerInv(d), AskServer(d) \/ ServeRead(d)
  PROVE  LedgerInv(d)'
<1> DEFINE r == requests[d]
           x == Head(r)
           e == events[d]
           k == Issued(e, r, Handled(d))
           R == RequestsFor(Submitted)
           y == ValueEvent(x.sub, x.path, view[d][x.path])
           E == EventsFor(Submitted, Value \cup {Absent}) \cup {y}
<1>1. /\ r # <<>> /\ x.kind \in {"ask", "get"} /\ requests'[d] = Tail(r)
      /\ subs' = subs /\ form' = form /\ server' = server /\ pend' = pend /\ sent' = sent
  BY DEF AskServer, ServeRead, TakeUp, form_vars, TypeOK
<1>2. \/ x.kind = "ask" /\ events'[d] = e
      \/ x.kind = "get" /\ events'[d] = Append(e, y)
  BY DEF AskServer, ServeRead, TakeUp, TypeOK
<1>3. r \in Seq(R)
  BY QueueTypes
<1>4. e \in Seq(E) /\ y \in E
  <2> DEFINE old == EventsFor(Submitted, Value \cup {Absent})
  <2> HIDE DEF old, y, e
  <2>1. old \subseteq old \cup {y} /\ e \in Seq(old)
    BY QueueTypes DEF old, e
  <2>2. e \in Seq(old \cup {y})
    BY <2>1, WidenSequence
  <2> QED BY <2>2 DEF old
<1>5. x.kind = "get" => Rank(y) = Rank(x)
  BY DEF ValueEvent, Rank
<1>6. x.kind = "ask" => Rank(x) = 4
  BY DEF Rank
<1>7. Handled(d)' = Handled(d)
  BY <1>1 DEF Handled
<1>8. Published(subs, server, Unacked(d), r, k)
  BY DEF LedgerInv
<1> HIDE DEF r, x, e, R, y, E
<1>9. Published(subs, server, Unacked(d), Tail(r), k)
  <2>1. ~IsPut(Head(r), AverageRating)
    BY <1>1 DEF IsPut, x
  <2> HIDE DEF k
  <2> QED BY <1>1, <1>3, <1>8, <2>1, TakeOther
<1>10. AverageAwaited(events'[d], Tail(r)) <=> AverageAwaited(e, r)
  <2>1. Ranks(r) = Ranks(Tail(r)) \cup ({Rank(x)} \ {0})
    BY <1>1, <1>3, TailRanks DEF x
  <2>2. CASE x.kind = "ask"
    BY <1>2, <1>6, <2>1, <2>2 DEF AverageAwaited
  <2>3. CASE x.kind = "get"
    <3>1. events'[d] = e \o <<y>> BY <1>2, <1>4, <2>3, AppendOne
    <3>2. 3 \in Ranks(e \o <<y>>) <=> 3 \in Ranks(e) \/ 3 = Rank(y)
      BY <1>4, AddedRank
    <3> QED BY <1>5, <2>1, <2>3, <3>1, <3>2 DEF AverageAwaited
  <2> QED BY <1>1, <2>2, <2>3
<1>11. Issued(events'[d], Tail(r), Handled(d)) = k
  BY <1>10 DEF Issued
<1>12. Unacked(d)' = Unacked(d)
  BY <1>1, UnackedStays
<1> QED BY <1>1, <1>7, <1>9, <1>11, <1>12 DEF LedgerInv

\* A write taken up.
LEMMA WriteKeepsLedger ==
  ASSUME TypeOK, NEW d \in Devices, LedgerInv(d), IssueWrite(d)
  PROVE  LedgerInv(d)'
<1> DEFINE r == requests[d]
           w == Head(r)
           e == events[d]
           q == pend[d]
           k == Issued(e, r, Handled(d))
           R == RequestsFor(Submitted)
<1>1. /\ r # <<>> /\ w.kind = "put" /\ requests'[d] = Tail(r) /\ pend'[d] = Append(q, w)
      /\ subs' = subs /\ form' = form /\ server' = server /\ sent' = sent /\ events' = events
  BY DEF IssueWrite, TakeUp, form_vars, TypeOK
<1>2. r \in Seq(R)
  BY QueueTypes
<1>3. w \in Puts
  <2>1. w \in R
    BY <1>1, <1>2
  <2> QED BY <1>1, <2>1 DEF RequestsFor
<1>4. q \in Seq(Puts) /\ sent[d] \in 0..Len(q)
  BY DEF TypeOK
<1>5. Unacked(d)' = Unacked(d) \o <<w>>
  <2> HIDE DEF q, w
  <2>1. SubSeq(Append(q, w), sent[d] + 1, Len(Append(q, w))) = SubSeq(q, sent[d] + 1, Len(q)) \o <<w>>
    BY <1>3, <1>4, RestAndOneMore, Zenon
  <2> QED BY <1>1, <2>1 DEF Unacked, q
<1>6. Handled(d)' = Handled(d)
  BY <1>1 DEF Handled
<1>7. Published(subs, server, Unacked(d), r, k)
  BY DEF LedgerInv
<1>8. Rank(w) = 0
  BY <1>1 DEF Rank
<1>9. Unacked(d) \in Seq(Puts) /\ Len(subs) \in Nat
  <2>1. subs \in Seq(Submissions)
    BY DEF TypeOK
  <2> QED BY <2>1, UnackedType
<1>10. Ranks(r) = Ranks(Tail(r))
  BY <1>1, <1>2, <1>8, TailRanks
<1>11. Issued(events'[d], Tail(r), Handled(d)) = k
  BY <1>1, <1>10 DEF Issued, AverageAwaited
<1> HIDE DEF r, e, q, k, R
<1>12. Published(subs, server, Unacked(d) \o <<Head(r)>>, Tail(r), k)
  BY <1>1, <1>2, <1>3, <1>7, <1>9, TakeWrite DEF w
<1> QED BY <1>1, <1>5, <1>6, <1>11, <1>12 DEF LedgerInv, w

\* The server applies a write.
LEMMA ApplyKeepsLedger ==
  ASSUME TypeOK, NEW d \in Devices, LedgerInv(d), ServerApply(d)
  PROVE  LedgerInv(d)'
<1> DEFINE q == pend[d]
           u == Unacked(d)
           w == q[sent[d] + 1]
           r == requests[d]
           k == Issued(events[d], r, Handled(d))
<1>1. /\ sent[d] < Len(q) /\ server' = [server EXCEPT ![w.path] = w.value]
      /\ sent'[d] = sent[d] + 1 /\ pend' = pend
      /\ subs' = subs /\ form' = form /\ requests' = requests /\ events' = events
  BY DEF ServerApply, form_vars, TypeOK
<1>2. q \in Seq(Puts) /\ sent[d] \in 0 .. Len(q) /\ server \in Node
  BY DEF TypeOK
<1>3. /\ u \in Seq(Puts) /\ u # <<>> /\ Head(u) = w
      /\ SubSeq(q, (sent[d] + 1) + 1, Len(q)) = Tail(u)
  BY <1>1, <1>2, RestOfQueue DEF Unacked
<1>4. Unacked(d)' = Tail(u)
  BY <1>1, <1>3 DEF Unacked
<1>5. w.kind = "put"
  <2> HIDE DEF u, w
  <2>1. Head(u) \in Puts
    BY <1>3
  <2> QED BY <1>3, <2>1 DEF Puts
<1>6. Handled(d)' = Handled(d)
  BY <1>1 DEF Handled
<1>7. Published(subs, server, u, r, k)
  BY DEF LedgerInv
<1> HIDE DEF q, u, w, r, k
<1>8. Published(subs, server', Tail(u), r, k)
  BY <1>1, <1>2, <1>3, <1>5, <1>7, ApplySteps
<1> QED BY <1>1, <1>4, <1>6, <1>8 DEF LedgerInv, r, k

\* Acknowledgements, and the answer of the server to the question.
LEMMA CatchUpKeepsLedger ==
  ASSUME TypeOK, NEW d \in Devices, LedgerInv(d), Sync(d) \/ AnswerAsk(d)
  PROVE  LedgerInv(d)'
<1> DEFINE u == Unacked(d)
           e == events[d]
           r == requests[d]
           k == Issued(e, r, Handled(d))
<1>1. /\ pend'[d] = u /\ sent'[d] = 0 /\ server' = server /\ requests' = requests
      /\ subs' = subs /\ form' = form
  BY DEF Sync, AnswerAsk, CatchUp, form_vars, TypeOK
<1>2. \/ events' = events
      \/ \E n, b : events'[d] = Append(e, ItemEvent(n, b))
  <2>1. CASE Sync(d)
    BY <2>1 DEF Sync
  <2>2. CASE AnswerAsk(d)
    <3>1. events'[d] = Append(e, ItemEvent(Head(asked[d]).sub,
                                           \E p \in Paths : Refreshed(d)[p] # Absent))
      BY <2>2 DEF AnswerAsk, TypeOK
    <3> QED BY <3>1
  <2> QED BY <2>1, <2>2
<1>3. u \in Seq(Puts)
  BY UnackedType
<1>4. Unacked(d)' = u
  <2> HIDE DEF u
  <2>1. 0 + 1 = 1 /\ 0 \in 0..Len(u)
    BY <1>3
  <2>2. SubSeq(u, 1, Len(u)) = u
    BY <1>3, <2>1, RestOfQueue
  <2> QED BY <1>1, <2>1, <2>2 DEF Unacked
<1>5. Handled(d)' = Handled(d)
  BY <1>1 DEF Handled
<1>6. AverageAwaited(events'[d], r) <=> AverageAwaited(e, r)
  <2>1. CASE events' = events
    BY <2>1
  <2>2. ASSUME NEW n, NEW b, events'[d] = Append(e, ItemEvent(n, b))
        PROVE  AverageAwaited(events'[d], r) <=> AverageAwaited(e, r)
    <3> DEFINE y == ItemEvent(n, b)
               E == EventsFor(Submitted, Value \cup {Absent}) \cup {y}
    <3>1. e \in Seq(E) /\ y \in E
      <4> DEFINE old == EventsFor(Submitted, Value \cup {Absent})
      <4> HIDE DEF old, y, e
      <4>1. old \subseteq old \cup {y} /\ e \in Seq(old)
        BY QueueTypes DEF old, e
      <4>2. e \in Seq(old \cup {y}) BY <4>1, WidenSequence
      <4> QED BY <4>2 DEF old
    <3>2. Rank(y) = 4 BY DEF ItemEvent, Rank
    <3> HIDE DEF e, y, E
    <3>3. Append(e, y) = e \o <<y>> BY <3>1, AppendOne
    <3>4. 3 \in Ranks(e \o <<y>>) <=> 3 \in Ranks(e) BY <3>1, <3>2, AddedRank
    <3> QED BY <2>2, <3>3, <3>4 DEF AverageAwaited, y
  <2> QED BY <1>2, <2>1, <2>2
<1>7. Issued(events'[d], r, Handled(d)) = k
  BY <1>6 DEF Issued
<1> QED BY <1>1, <1>4, <1>5, <1>7 DEF LedgerInv

------------------------
(* All the steps together, and what they are to the ledger. *)

\* Every step keeps the steps of the averages.
LEMMA LedgerStep ==
  ASSUME NEW d, Devices = {d}, MaxTaps <= 1, MaxKills = 0, MaxReconnects = 0,
         CountInv(d), LedgerInv(d), [Next]_vars
  PROVE  LedgerInv(d)'
<1>1. TypeOK /\ UploadsHaveKey /\ FormInv(d) /\ d \in Devices
  BY DEF CountInv
<1>2. PICK s \in 0..3 : ClientInv(d, s)
  BY DEF CountInv
<1>3. CASE UNCHANGED vars
  BY <1>3 DEF vars, client, form_vars, faults, LedgerInv, Unacked, Handled
<1>4. CASE Next
  <2>1. \/ \E k \in Ratings : SubmitPressed(d, k)
        \/ MainQueue(d) \/ Uploads(d) \/ FirebaseQueue(d)
        \/ ServerApply(d) \/ Sync(d) \/ AnswerAsk(d)
        \/ Reconnect(d) \/ Kill(d) \/ Relaunch(d)
    BY <1>4 DEF Next
  <2>2. ~Kill(d) /\ ~Relaunch(d) /\ ~Reconnect(d)
    <3>1. status[d] = "running" BY <1>1 DEF FormInv
    <3>2. ~Kill(d) /\ ~Reconnect(d)
      BY <1>1 DEF Kill, Reconnect, TypeOK
    <3> QED BY <3>1, <3>2 DEF Relaunch
  <2>3. ~CastFails(d)
    BY <1>1, <1>2, NothingToTrap
  <2>4. CASE CountArrived(d)
    <3> DEFINE v == Whole(Head(events[d]).value.num + 1)
    <3>1. ValueArrived(d, Count) /\ Issue(d, <<Put(Count, v)>>)
      BY <2>4 DEF CountArrived
    <3>2. v \in Value BY <1>1, <3>1, ValueEventFacts, WholeIsValue
    <3> HIDE DEF v
    <3> QED BY <1>1, <1>2, <3>1, <3>2, ValueKeepsLedger
  <2>5. CASE TotalArrived(d)
    <3> DEFINE e == Head(events[d])
               v == Whole(e.value.num + subs[e.sub].rating)
    <3>1. ValueArrived(d, TotalRatings) /\ Issue(d, <<Put(TotalRatings, v)>>)
      BY <2>5 DEF TotalArrived
    <3>2. e.value.num \in Nat /\ subs[e.sub].rating \in Nat
      BY <1>1, <3>1, ValueEventFacts
    <3>3. v \in Value BY <3>2, WholeIsValue
    <3> HIDE DEF v
    <3> QED BY <1>1, <1>2, <3>1, <3>3, ValueKeepsLedger
  <2>6. CASE AverageArrived(d)
    BY <2>6, <1>1, <1>2, AverageKeepsLedger
  <2>7. CASE ItemExists(d)
    BY <2>7, <1>1, <1>2, ExistsKeepsLedger
  <2>8. CASE ItemMissing(d)
    BY <2>8, <1>1, <1>2, MissingKeepsLedger
  <2>9. CASE \E k \in Ratings : SubmitPressed(d, k)
    BY <2>9, <1>1, PressKeepsLedger
  <2>10. CASE Uploads(d)
    BY <2>10, <1>1, UploadKeepsLedger DEF Uploads
  <2>11. CASE AskServer(d) \/ ServeRead(d)
    BY <2>11, <1>1, ReadKeepsLedger
  <2>12. CASE IssueWrite(d)
    BY <2>12, <1>1, WriteKeepsLedger
  <2>13. CASE ServerApply(d)
    BY <2>13, <1>1, ApplyKeepsLedger
  <2>14. CASE Sync(d) \/ AnswerAsk(d)
    BY <2>14, <1>1, CatchUpKeepsLedger
  <2> QED
    BY <2>1, <2>2, <2>3, <2>4, <2>5, <2>6, <2>7, <2>8, <2>9, <2>10, <2>11, <2>12, <2>13, <2>14
       DEF MainQueue, FirebaseQueue
<1> QED BY <1>3, <1>4

\* What an average says to the ledger, when it is of the first c submissions.
LEMMA LedgerIs ==
  ASSUME TypeOK, NEW c \in 0..Len(subs), NEW a, a = Totals(subs, AverageRating, c)
  PROVE  (IF a = Absent THEN [num |-> 0, den |-> 0] ELSE a)
            = [num |-> SeedTotal + Sums(subs)[c], den |-> SeedCount + c]
<1>1. c \in Nat /\ SeedCount \in Nat /\ SeedTotal \in Nat /\ Len(subs) \in Nat
  <2>1. subs \in Seq(Submissions)
    BY DEF TypeOK
  <2> QED BY <2>1, SeedAssumption
<1>2. CASE SeedCount + c > 0
  <2>1. /\ Totals(subs, AverageRating, c) # Absent
        /\ Totals(subs, AverageRating, c)
             = [num |-> SeedTotal + Sums(subs)[c], den |-> SeedCount + c]
    BY <1>2, TotalsFacts, TotalPathsFact
  <2> QED BY <2>1
<1>3. CASE ~(SeedCount + c > 0)
  <2>1. SeedCount = 0 /\ c = 0 /\ SeedCount + c = 0
    BY <1>1, <1>3
  <2>2. SeedTotal = 0
    <3>1. 5 * SeedCount = 0 BY <2>1
    <3> QED BY <1>1, <3>1, SeedAssumption
  <2>3. Sums(subs)[c] = 0
    BY <2>1, SumsFacts DEF TypeOK
  <2>4. a = Absent
    BY <2>1 DEF Totals
  <2>5. SeedTotal + Sums(subs)[c] = 0
    BY <2>2, <2>3
  <2> QED BY <2>1, <2>4, <2>5
<1> QED BY <1>2, <1>3

\* The ledger's list of ratings.
LEMMA LogFacts ==
  ASSUME NEW list \in Seq(Submissions)
  PROVE  /\ [n \in DOMAIN list |-> list[n].rating] \in Seq(Ratings)
         /\ Len([n \in DOMAIN list |-> list[n].rating]) = Len(list)
<1>1. DOMAIN list = 1 .. Len(list) /\ Len(list) \in Nat
      /\ \A n \in 1..Len(list) : list[n] \in Submissions
  OBVIOUS
<1>2. \A n \in 1..Len(list) : list[n].rating \in Ratings
  BY <1>1 DEF Submissions
<1> QED BY <1>1, <1>2

\* One submission more is one rating more.
LEMMA LogAppend ==
  ASSUME NEW list \in Seq(Submissions), NEW x \in Submissions
  PROVE  [n \in DOMAIN Append(list, x) |-> Append(list, x)[n].rating]
           = Append([n \in DOMAIN list |-> list[n].rating], x.rating)
<1> DEFINE longer == Append(list, x)
           m == Len(list)
           f == [n \in DOMAIN list |-> list[n].rating]
           g == [n \in DOMAIN longer |-> longer[n].rating]
           h == Append(f, x.rating)
<1>1. /\ m \in Nat /\ DOMAIN list = 1 .. m /\ DOMAIN longer = 1 .. m + 1 /\ longer[m + 1] = x
      /\ \A i \in 1..m : longer[i] = list[i]
      /\ longer \in Seq(Submissions) /\ Len(longer) = m + 1
  OBVIOUS
<1>2. f \in Seq(Ratings) /\ Len(f) = m
  BY LogFacts
<1>3. x.rating \in Ratings
  BY DEF Submissions
<1>4. \A i \in 1..m : f[i] = list[i].rating
  BY <1>1
<1>5. \A i \in 1..m + 1 : g[i] = longer[i].rating
  BY <1>1
<1> HIDE DEF longer, m
<1>6. g \in Seq(Ratings) /\ Len(g) = m + 1
  BY <1>1, LogFacts
<1> HIDE DEF f, g
<1>7. /\ h \in Seq(Ratings) /\ Len(h) = m + 1 /\ h[m + 1] = x.rating
      /\ \A i \in 1..m : h[i] = f[i]
  BY <1>2, <1>3
<1> HIDE DEF h
<1>8. ASSUME NEW i \in 1..m + 1 PROVE g[i] = h[i]
  <2>1. CASE i = m + 1
    BY <2>1, <1>1, <1>5, <1>7
  <2>2. CASE i # m + 1
    <3>1. i \in 1..m BY <2>2, <1>1
    <3> QED BY <3>1, <1>1, <1>4, <1>5, <1>7
  <2> QED BY <2>1, <2>2
<1>9. g = h
  BY <1>6, <1>7, <1>8, SeqEqual
<1> QED BY <1>9 DEF g, h, f, longer

\* The initial states: nothing is submitted, and the average is that of the seed.
LEMMA LedgerInit ==
  ASSUME NEW d \in Devices, Init
  PROVE  LedgerInv(d) /\ Ledger!Init
<1>1. /\ subs = <<>> /\ form[d] = 0 /\ server = SeedNode /\ events[d] = <<>>
      /\ requests[d] = <<>> /\ pend[d] = <<>> /\ sent[d] = 0
  BY DEF Init
<1>2. TypeOK /\ SeedCount \in Nat /\ SeedTotal \in Nat /\ Len(subs) = 0
  BY <1>1, TypeInit, SeedAssumption
<1>3. Sums(subs)[0] = 0
  BY <1>2, SumsFacts DEF TypeOK
<1>4. SeedNode[AverageRating] = Totals(subs, AverageRating, 0)
  <2>1. CASE SeedCount = 0
    BY <2>1, TotalPathsFact DEF SeedNode, Totals
  <2>2. CASE SeedCount # 0
    <3>1. SeedNode[AverageRating] = [num |-> SeedTotal, den |-> SeedCount]
      BY <2>2, TotalPathsFact, PlaceFacts DEF SeedNode
    <3> QED BY <2>2, <3>1, <1>2, <1>3 DEF Totals
  <2> QED BY <2>1, <2>2
<1>5. LedgerInv(d)
  <2>1. Unacked(d) = <<>> /\ Handled(d) = 0
    BY <1>1, <1>2 DEF Unacked, Handled
  <2>2. Issued(<<>>, <<>>, 0) = 0
    <3>1. Ranks(<<>>) = {} BY DEF Ranks
    <3> QED BY <3>1 DEF Issued, AverageAwaited
  <2>3. <<>> \in Seq(Puts) /\ Untouched(<<>>, AverageRating) /\ 0 \in 0..Len(subs)
    BY <1>2 DEF Untouched
  <2>4. StepsUp(subs, <<>>, 0, 0)
    BY <2>3, StillSteps
  <2>5. Published(subs, server, <<>>, <<>>, 0)
    BY <1>1, <1>4, <2>3, <2>4 DEF Published
  <2> QED BY <1>1, <2>1, <2>2, <2>5 DEF LedgerInv
<1>6. LedgerAverage = [num |-> SeedTotal, den |-> SeedCount]
  <2>1. 0 \in 0 .. Len(subs) /\ server[AverageRating] = Totals(subs, AverageRating, 0)
    BY <1>1, <1>2, <1>4
  <2>2. LedgerAverage = [num |-> SeedTotal + Sums(subs)[0], den |-> SeedCount + 0]
    BY <1>2, <2>1, LedgerIs DEF LedgerAverage
  <2> QED BY <1>2, <1>3, <2>2
<1>7. LedgerLog = <<>>
  <2>1. DOMAIN subs = {}
    BY <1>1
  <2> DEFINE f == [n \in DOMAIN subs |-> subs[n].rating]
  <2>2. f \in Seq(Ratings) /\ Len(f) = 0
    BY <1>1, <1>2, LogFacts DEF TypeOK
  <2>3. f = <<>>
    <3> HIDE DEF f
    <3> QED BY <2>2
  <2> QED BY <2>3 DEF LedgerLog, Submitted
<1>8. LedgerAverage.den - SeedCount = 0
  BY <1>2, <1>6
<1> QED BY <1>5, <1>6, <1>7, <1>8 DEF Ledger!Init

\* A step that leaves the submissions and the server's average as they are.
LEMMA LedgerStays ==
  ASSUME subs' = subs, server'[AverageRating] = server[AverageRating]
  PROVE  UNCHANGED Ledger!ledger
<1>1. LedgerLog' = LedgerLog
  BY DEF LedgerLog, Submitted
<1>2. LedgerAverage' = LedgerAverage
  BY DEF LedgerAverage
<1>3. (LedgerAverage.den - SeedCount)' = LedgerAverage.den - SeedCount
  BY <1>2
<1> QED BY <1>1, <1>2, <1>3 DEF Ledger!ledger

\* A press of Submit enters a rating.
LEMMA PressSubmits ==
  ASSUME TypeOK, NEW d \in Devices, NEW k \in Ratings, SubmitPressed(d, k)
  PROVE  Ledger!Submit
<1>1. PICK f : f \in Subs /\ subs' = Append(subs, [dev |-> d, form |-> f, rating |-> k])
               /\ server' = server
  <2> DEFINE f == IF form[d] = 0 THEN Len(subs) + 1 ELSE form[d]
  <2>1. f \in Subs
    BY DEF SubmitPressed, TypeOK
  <2> QED BY <2>1 DEF SubmitPressed
<1> DEFINE x == [dev |-> d, form |-> f, rating |-> k]
           list == Append(subs, x)
<1>2. subs \in Seq(Submissions)
  BY DEF TypeOK
<1>3. x \in Submissions /\ x.rating = k
  BY <1>1 DEF Submissions
<1> HIDE DEF x
<1>4. [n \in DOMAIN list |-> list[n].rating] = Append([n \in DOMAIN subs |-> subs[n].rating], k)
  BY <1>2, <1>3, LogAppend
<1>5. LedgerLog' = Append(LedgerLog, k)
  <2>1. subs' = list
    BY <1>1 DEF x
  <2> HIDE DEF list
  <2> QED BY <1>4, <2>1 DEF LedgerLog, Submitted
<1>6. LedgerAverage' = LedgerAverage
  BY <1>1 DEF LedgerAverage
<1>7. (LedgerAverage.den - SeedCount)' = LedgerAverage.den - SeedCount
  BY <1>6
<1> QED BY <1>5, <1>6, <1>7 DEF Ledger!Submit

\* A write applied publishes the next average, or none.
LEMMA ApplyPublishes ==
  ASSUME TypeOK, NEW d \in Devices, LedgerInv(d), ServerApply(d)
  PROVE  Ledger!Publish \/ UNCHANGED Ledger!ledger
<1> DEFINE q == pend[d]
           u == Unacked(d)
           w == q[sent[d] + 1]
<1>1. sent[d] < Len(q) /\ server' = [server EXCEPT ![w.path] = w.value] /\ subs' = subs
  BY DEF ServerApply, form_vars
<1>2. q \in Seq(Puts) /\ sent[d] \in 0 .. Len(q) /\ server \in Node /\ subs \in Seq(Submissions)
  BY DEF TypeOK
<1>3. u \in Seq(Puts) /\ u # <<>> /\ Head(u) = w
  BY <1>1, <1>2, RestOfQueue DEF Unacked
<1>4. w.kind = "put"
  <2> HIDE DEF u, w
  <2>1. Head(u) \in Puts
    BY <1>3
  <2> QED BY <1>3, <2>1 DEF Puts
<1>5. AverageRating \in DOMAIN server
  BY <1>2, TotalPathsFact DEF Node
<1>6. CASE w.path # AverageRating
  <2>1. server'[AverageRating] = server[AverageRating]
    <3> HIDE DEF w
    <3> QED BY <1>1, <1>5, <1>6
  <2> QED BY <1>1, <2>1, LedgerStays
<1>7. CASE w.path = AverageRating
  <2>1. PICK c, m \in 0..Len(subs) :
          /\ server[AverageRating] = Totals(subs, AverageRating, c)
          /\ StepsUp(subs, u, c, m)
    BY DEF LedgerInv, Published
  <2> HIDE DEF q, u, w
  <2>2. IsPut(w, AverageRating) /\ server'[AverageRating] = w.value
    BY <1>1, <1>4, <1>5, <1>7 DEF IsPut
  <2>3. c + 1 \in 0 .. Len(subs) /\ w.value = Totals(subs, AverageRating, c + 1)
    BY <2>1, <2>2, <1>3, TailSteps
  <2> DEFINE n == c + 1
  <2>4. c \in Nat /\ n \in 1 .. Len(subs) /\ n \in 0 .. Len(subs) /\ Len(subs) \in Nat /\ n - 1 = c
    BY <1>2, <2>1, <2>3
  <2>5. Sums(subs)[n] = Sums(subs)[n - 1] + subs[n].rating /\ Sums(subs)[c] \in Nat
    BY <1>2, <2>4, SumsFacts
  <2>6. subs[n].rating \in Nat
    <3>1. subs[n] \in Submissions BY <1>2, <2>4
    <3>2. \A x \in Submissions : x.rating \in Nat BY RatingsFact DEF Submissions
    <3> QED BY <3>1, <3>2
  <2>7. server'[AverageRating] = Totals(subs, AverageRating, n)
    BY <2>2, <2>3
  <2> HIDE DEF n
  <2>8. LedgerAverage = [num |-> SeedTotal + Sums(subs)[c], den |-> SeedCount + c]
    BY <2>1, LedgerIs DEF LedgerAverage
  <2>9. LedgerAverage' = [num |-> SeedTotal + Sums(subs)[n], den |-> SeedCount + n]
    <3> DEFINE a == server'[AverageRating]
    <3>1. a = Totals(subs, AverageRating, n) BY <2>7
    <3> HIDE DEF a
    <3>2. (IF a = Absent THEN [num |-> 0, den |-> 0] ELSE a)
             = [num |-> SeedTotal + Sums(subs)[n], den |-> SeedCount + n]
      BY <2>4, <3>1, LedgerIs
    <3> QED BY <3>2 DEF LedgerAverage, a
  <2>10. LedgerLog = [i \in DOMAIN subs |-> subs[i].rating] /\ LedgerLog' = LedgerLog
    BY <1>1 DEF LedgerLog, Submitted
  <2>11. Len(LedgerLog) = Len(subs) /\ LedgerLog[n] = subs[n].rating
    <3>1. n \in DOMAIN subs BY <1>2, <2>4
    <3> QED BY <1>2, <2>10, <3>1, LogFacts
  <2>12. /\ LedgerAverage.num = SeedTotal + Sums(subs)[c] /\ LedgerAverage.den = SeedCount + c
         /\ SeedCount \in Nat /\ SeedTotal \in Nat
    BY <2>8, SeedAssumption
  <2>13. LedgerAverage.den - SeedCount = c
    BY <2>4, <2>12
  <2>14. (LedgerAverage.den - SeedCount)' = n
    BY <2>4, <2>9, <2>12
  <2>15. c < Len(LedgerLog) /\ n = c + 1
    BY <2>4, <2>11 DEF n
  <2>16. /\ SeedTotal + Sums(subs)[n] = (SeedTotal + Sums(subs)[c]) + LedgerLog[c + 1]
         /\ SeedCount + n = (SeedCount + c) + 1
    BY <2>4, <2>5, <2>6, <2>11, <2>12, <2>15
  <2>17. LedgerAverage' = [num |-> LedgerAverage.num + LedgerLog[c + 1],
                           den |-> LedgerAverage.den + 1]
    BY <2>9, <2>12, <2>16
  <2> QED BY <2>10, <2>13, <2>14, <2>15, <2>17 DEF Ledger!Publish
<1> QED BY <1>6, <1>7

\* Every step is one of the ledger, or none.
LEMMA LedgerSteps ==
  ASSUME NEW d, Devices = {d}, CountInv(d), LedgerInv(d), [Next]_vars
  PROVE  [Ledger!Submit \/ Ledger!Publish]_(Ledger!ledger)
<1>1. TypeOK /\ d \in Devices
  BY DEF CountInv
<1>2. CASE UNCHANGED vars
  BY <1>2, LedgerStays DEF vars, form_vars
<1>3. CASE Next
  <2>1. \/ \E k \in Ratings : SubmitPressed(d, k)
        \/ MainQueue(d) \/ Uploads(d) \/ FirebaseQueue(d)
        \/ ServerApply(d) \/ Sync(d) \/ AnswerAsk(d)
        \/ Reconnect(d) \/ Kill(d) \/ Relaunch(d)
    BY <1>3 DEF Next
  <2>2. CASE \E k \in Ratings : SubmitPressed(d, k)
    BY <2>2, <1>1, PressSubmits
  <2>3. CASE ServerApply(d)
    BY <2>3, <1>1, ApplyPublishes
  <2>4. CASE MainQueue(d)
    <3>1. subs' = subs /\ server' = server
      BY <2>4 DEF MainQueue, ItemExists, ItemMissing, FinishSubmit, CastFails, Trap, GoesDown,
                  CountArrived, TotalArrived, AverageArrived, ValueArrived
    <3> QED BY <3>1, LedgerStays
  <2>5. CASE \/ Uploads(d) \/ FirebaseQueue(d) \/ Sync(d) \/ AnswerAsk(d)
             \/ Reconnect(d) \/ Kill(d) \/ Relaunch(d)
    <3>1. subs' = subs /\ server' = server
      BY <2>5 DEF Uploads, UploadFinished, FirebaseQueue, AskServer, ServeRead, IssueWrite, TakeUp,
                  Sync, AnswerAsk, CatchUp, Reconnect, Kill, GoesDown, Relaunch, form_vars
    <3> QED BY <3>1, LedgerStays
  <2> QED BY <2>1, <2>2, <2>3, <2>4, <2>5
<1> QED BY <1>2, <1>3

\* What one device publishes is what the ledger promises: at every moment the average of the
\* ratings submitted first, each counted once, in the order of the presses, and the next one
\* is that of one rating more. (One press per form, no kill, and no connection dropped with
\* writes to be sent again: an average sent again is published after a later one.)
THEOREM AveragesArePublishedInOrder ==
  ASSUME NEW d, Devices = {d}, MaxTaps <= 1, MaxKills = 0, MaxReconnects = 0
  PROVE  Spec => Ledger!Safety
<1>1. Init => CountInv(d) /\ LedgerInv(d) /\ Ledger!Init
  BY CountInit, LedgerInit
<1>2. CountInv(d) /\ LedgerInv(d) /\ [Next]_vars
        => CountInv(d)' /\ LedgerInv(d)' /\ [Ledger!Submit \/ Ledger!Publish]_(Ledger!ledger)
  BY CountStep, LedgerStep, LedgerSteps
<1> QED BY <1>1, <1>2, PTL DEF Spec, Ledger!Safety

------------------------
(* Sixth part: one device's averages stay on the scale, whatever is sent again. *)

Scale == {v \in Value : v.num <= 5 * v.den}

\* Every average that is stored or on its way is one of G.
AveragesIn(G) ==
  /\ server[AverageRating] # Absent => server[AverageRating] \in G
  /\ \A x \in Devices : \A w \in Elements(requests[x]) :
       IsPut(w, AverageRating) => w.value \in G
  /\ \A x \in Devices : \A w \in Elements(pend[x]) :
       IsPut(w, AverageRating) => w.value \in G

\* So many ratings add up to at most five times their number.
LEMMA SumsOnScale ==
  ASSUME NEW q \in Seq(Submissions), NEW n \in 0..Len(q)
  PROVE  Sums(q)[n] \in Nat /\ Sums(q)[n] <= 5 * n
<1> DEFINE P == {i \in Nat : i <= Len(q) => Sums(q)[i] <= 5 * i}
<1>1. Len(q) \in Nat /\ \A i \in 1..Len(q) : q[i] \in Submissions OBVIOUS
<1>2. \A i \in 1 .. Len(q) : q[i].rating \in Nat /\ q[i].rating <= 5
  <2>1. \A x \in Submissions : x.rating \in Ratings
    BY DEF Submissions
  <2>2. \A r \in Ratings : r \in Nat /\ r <= 5
    <3> SUFFICES ASSUME NEW r \in Ratings PROVE r \in Nat /\ r <= 5 OBVIOUS
    <3>1. r \in 0..5 BY RatingsAssumption
    <3> QED BY <3>1
  <2> QED BY <1>1, <2>1, <2>2
<1>3. \A i \in 0..Len(q) : Sums(q)[i] \in Nat
  BY SumsFacts
<1>4. 0 \in P
  BY SumsFacts
<1>5. ASSUME NEW i \in P PROVE i + 1 \in P
  <2>1. CASE i + 1 <= Len(q)
    <3> DEFINE j == i + 1
               a == Sums(q)[i]
               b == q[j].rating
    <3>1. i \in Nat /\ i <= Len(q) /\ a <= 5 * i /\ i \in 0 .. Len(q) /\ j \in 1 .. Len(q) /\ j - 1 = i
      BY <1>1, <2>1
    <3>2. a \in Nat /\ b \in Nat /\ b <= 5
      BY <1>2, <1>3, <3>1
    <3>3. Sums(q)[j] = Sums(q)[j - 1] + q[j].rating BY <3>1, SumsFacts
    <3>4. Sums(q)[j] = a + b BY <3>1, <3>3
    <3> HIDE DEF a, b
    <3>5. a + b <= 5 * (i + 1) BY <3>1, <3>2
    <3> QED BY <3>1, <3>4, <3>5
  <2>2. CASE ~(i + 1 <= Len(q))
    BY <2>2
  <2> QED BY <2>1, <2>2
<1>6. P = Nat
  <2> HIDE DEF P
  <2>1. P \subseteq Nat
    BY DEF P
  <2> QED BY <1>4, <1>5, <2>1, InductionBySet
<1> QED BY <1>1, <1>3, <1>6

\* So the average of the first n submissions is on the scale.
LEMMA TotalsOnScale ==
  ASSUME TypeOK, NEW n \in 0..Len(subs), SeedCount + n > 0
  PROVE  Totals(subs, AverageRating, n) \in Scale
<1> DEFINE k == Sums(subs)[n]
<1>1. k \in Nat /\ k <= 5 * n
  BY SumsOnScale DEF TypeOK
<1>2. /\ Totals(subs, AverageRating, n).num = SeedTotal + k
      /\ Totals(subs, AverageRating, n).den = SeedCount + n
  BY TotalsFacts, TotalPathsFact
<1> HIDE DEF k
<1>3. n \in Nat /\ SeedCount \in Nat /\ SeedTotal \in Nat /\ SeedTotal <= 5 * SeedCount
  <2>1. Len(subs) \in Nat
    <3>1. subs \in Seq(Submissions) BY DEF TypeOK
    <3> QED BY <3>1
  <2> QED BY <2>1, SeedAssumption
<1>4. SeedTotal + k <= 5 * (SeedCount + n)
  BY <1>1, <1>3
<1>5. Totals(subs, AverageRating, n) \in Value
  BY TotalsFacts, TotalPathsFact
<1> QED BY <1>2, <1>4, <1>5 DEF Scale

\* What is issued is in G.
LEMMA IssueAverages ==
  ASSUME TypeOK, NEW G, AveragesIn(G), NEW d \in Devices,
         NEW rs \in Seq(RequestsFor(Submitted)), Issue(d, rs),
         \A w \in Elements(rs) : IsPut(w, AverageRating) => w.value \in G,
         UNCHANGED <<server, pend>>
  PROVE  AveragesIn(G)'
<1>1. ASSUME NEW x \in Devices, NEW w \in Elements(requests'[x]), IsPut(w, AverageRating)
      PROVE  w.value \in G
  <2>1. CASE x # d
    BY <1>1, <2>1 DEF Issue, TypeOK, AveragesIn
  <2>2. CASE x = d
    <3>1. requests'[d] = requests[d] \o rs /\ requests[d] \in Seq(RequestsFor(Submitted))
      BY DEF Issue, TypeOK
    <3>2. w \in Elements(requests[d]) \/ w \in Elements(rs)
      BY <1>1, <2>2, <3>1, ElementsFacts
    <3> QED BY <1>1, <3>2 DEF AveragesIn
  <2> QED BY <2>1, <2>2
<1> QED BY <1>1 DEF AveragesIn

\* No other request writes an average.
LEMMA IssueNoAverage ==
  ASSUME TypeOK, NEW G, AveragesIn(G), NEW d \in Devices,
         NEW rs \in Seq(RequestsFor(Submitted)), Issue(d, rs), Untouched(rs, AverageRating),
         UNCHANGED <<server, pend>>
  PROVE  AveragesIn(G)'
<1>1. \A w \in Elements(rs) : ~IsPut(w, AverageRating)
  BY DEF Untouched, Elements
<1> QED BY <1>1, IssueAverages

\* What is taken up, applied, acknowledged or sent again was there before.
LEMMA NothingNewInAverages ==
  ASSUME TypeOK, NEW G, AveragesIn(G),
         \/ server'[AverageRating] = server[AverageRating]
         \/ \E x \in Devices : \E w \in Elements(pend[x]) :
              IsPut(w, AverageRating) /\ server'[AverageRating] = w.value,
         \A x \in Devices : \A w \in Elements(requests'[x]) :
           w \in Elements(requests[x]) \/ w.kind # "put",
         \A x \in Devices : \A w \in Elements(pend'[x]) :
           w \in Elements(pend[x]) \/ w \in Elements(requests[x])
  PROVE  AveragesIn(G)'
<1>1. server'[AverageRating] # Absent => server'[AverageRating] \in G
  BY DEF AveragesIn
<1>2. \A x \in Devices : \A w \in Elements(requests'[x]) :
        IsPut(w, AverageRating) => w.value \in G
  BY DEF AveragesIn, IsPut
<1>3. \A x \in Devices : \A w \in Elements(pend'[x]) :
        IsPut(w, AverageRating) => w.value \in G
  BY DEF AveragesIn
<1> QED BY <1>1, <1>2, <1>3 DEF AveragesIn

\* The quotient of the shared variables, as the average's callback finds them.
NextAverage(d) ==
  [num |-> newTotal[Head(events[d]).sub], den |-> newCount[Head(events[d]).sub]]

\* The three callbacks: only the last writes an average.
LEMMA CallbackAverages ==
  ASSUME TypeOK, NEW d \in Devices, NEW G, AveragesIn(G),
         AverageArrived(d) => NextAverage(d) \in G,
         CountArrived(d) \/ TotalArrived(d) \/ AverageArrived(d)
  PROVE  AveragesIn(G)'
<1> DEFINE e == Head(events[d])
           R == RequestsFor(Submitted)
<1>1. ASSUME NEW p \in TotalPaths, NEW v \in Value, Issue(d, <<Put(p, v)>>), ValueArrived(d, p),
             p = AverageRating => v \in G
      PROVE  AveragesIn(G)'
  <2> DEFINE x == Put(p, v)
             xs == <<x>>
  <2>1. x \in R /\ x.path = p /\ x.value = v
    BY TotalPathsFact, PutType DEF Put
  <2>2. xs \in Seq(R) /\ DOMAIN xs = {1} /\ xs[1] = x
    BY <2>1
  <2>3. UNCHANGED <<server, pend>>
    BY <1>1 DEF ValueArrived
  <2>4. Issue(d, xs)
    BY <1>1
  <2> HIDE DEF x, xs, R
  <2>5. \A w \in Elements(xs) : w = x
    BY <2>2 DEF Elements
  <2>6. \A w \in Elements(xs) : IsPut(w, AverageRating) => w.value \in G
    BY <1>1, <2>1, <2>5 DEF IsPut
  <2> QED BY <2>2, <2>3, <2>4, <2>6, IssueAverages DEF R
<1>2. CASE CountArrived(d)
  <2> DEFINE v == Whole(e.value.num + 1)
  <2>1. ValueArrived(d, Count) /\ Issue(d, <<Put(Count, v)>>)
    BY <1>2 DEF CountArrived
  <2>2. v \in Value
    BY <2>1, ValueEventFacts, WholeIsValue
  <2> HIDE DEF v
  <2> QED BY <1>1, <2>1, <2>2, PlaceFacts, TotalPathsFact
<1>3. CASE TotalArrived(d)
  <2> DEFINE v == Whole(e.value.num + subs[e.sub].rating)
  <2>1. ValueArrived(d, TotalRatings) /\ Issue(d, <<Put(TotalRatings, v)>>)
    BY <1>3 DEF TotalArrived
  <2>2. e.value.num \in Nat /\ subs[e.sub].rating \in Nat
    BY <2>1, ValueEventFacts
  <2>3. e.value.num + subs[e.sub].rating \in Nat
    <3> HIDE DEF e
    <3> QED BY <2>2
  <2>4. v \in Value
    BY <2>3, WholeIsValue
  <2> HIDE DEF v
  <2> QED BY <1>1, <2>1, <2>4, PlaceFacts, TotalPathsFact
<1>4. CASE AverageArrived(d)
  <2> DEFINE v == NextAverage(d)
  <2>1. ValueArrived(d, AverageRating) /\ Issue(d, <<Put(AverageRating, v)>>)
    BY <1>4 DEF AverageArrived, NextAverage
  <2>2. v \in Value /\ v \in G
    <3>1. e.sub \in Subs BY <2>1, ValueEventFacts, SubmittedFact
    <3> QED BY <1>4, <3>1 DEF NextAverage, Value, TypeOK
  <2> HIDE DEF v
  <2> QED BY <1>1, <2>1, <2>2, TotalPathsFact
<1> QED BY <1>2, <1>3, <1>4

\* The answer to the question: the first average is one rating, and otherwise none is
\* written yet.
LEMMA ItemAverages ==
  ASSUME TypeOK, NEW d \in Devices, NEW G, AveragesIn(G), \A k \in 0..5 : Whole(k) \in G,
         ItemExists(d) \/ ItemMissing(d)
  PROVE  AveragesIn(G)'
<1> DEFINE n == Head(events[d]).sub
           R == RequestsFor(Submitted)
           puts == ReviewWrites(n)
<1>1. n \in Submitted /\ FinishSubmit(d, n)
  BY CallbackType, ItemEventType DEF ItemExists, ItemMissing
<1>2. UNCHANGED <<server, pend>>
  BY <1>1 DEF FinishSubmit
<1>3. puts \in Seq(R) /\ Untouched(puts, AverageRating)
  BY <1>1, ReviewWritesFacts, TotalPathsFact
<1>4. \A w \in Elements(puts) : ~IsPut(w, AverageRating)
  BY <1>3 DEF Untouched, Elements
<1>5. CASE ItemExists(d)
  <2> DEFINE gets == TotalReads(n)
             xs == gets \o puts
  <2>1. Issue(d, xs)
    BY <1>5 DEF ItemExists
  <2>2. gets \in Seq(R) /\ \A w \in Elements(gets) : w.kind # "put"
    BY <1>1, TotalReadsType, TotalReadsElements
  <2> HIDE DEF gets, puts, R, n
  <2>3. xs \in Seq(R) /\ Elements(xs) = Elements(gets) \cup Elements(puts)
    BY <1>3, <2>2, ElementsFacts
  <2> HIDE DEF xs
  <2>4. \A w \in Elements(xs) : IsPut(w, AverageRating) => w.value \in G
    BY <1>4, <2>2, <2>3 DEF IsPut
  <2> QED BY <1>2, <2>1, <2>3, <2>4, IssueAverages DEF R
<1>6. CASE ItemMissing(d)
  <2> DEFINE sums == FirstTotals(n)
             xs == sums \o puts
             k == subs[n].rating
  <2>1. Issue(d, xs)
    BY <1>6 DEF ItemMissing
  <2>2. sums \in Seq(R)
    BY <1>1, FirstTotalsType
  <2>3. \A w \in Elements(sums) : IsPut(w, AverageRating) => w.value = Whole(k)
    <3>1. /\ DOMAIN sums = 1 .. 3 /\ sums[1].path = Count /\ sums[2].path = TotalRatings
          /\ sums[3].value = Whole(k)
      BY DEF FirstTotals, Put
    <3> HIDE DEF sums
    <3>2. \A i \in 1 .. 3 : i = 1 \/ i = 2 \/ i = 3 OBVIOUS
    <3> QED BY <3>1, <3>2, PlaceFacts DEF Elements, IsPut
  <2>4. Whole(k) \in G
    <3>1. subs[n] \in Submissions
      <4>1. subs \in Seq(Submissions) BY DEF TypeOK
      <4> QED BY <1>1, <4>1 DEF Submitted
    <3>2. k \in 0..5 BY <3>1, RatingsAssumption DEF Submissions
    <3> QED BY <3>2
  <2> HIDE DEF sums, puts, R, n, k
  <2>5. xs \in Seq(R) /\ Elements(xs) = Elements(sums) \cup Elements(puts)
    BY <1>3, <2>2, ElementsFacts
  <2> HIDE DEF xs
  <2>6. \A w \in Elements(xs) : IsPut(w, AverageRating) => w.value \in G
    BY <1>4, <2>3, <2>4, <2>5
  <2> QED BY <1>2, <2>1, <2>5, <2>6, IssueAverages DEF R
<1> QED BY <1>5, <1>6

\* The end of an upload.
LEMMA UploadAverages ==
  ASSUME TypeOK, UploadsHaveKey, NEW d \in Devices, NEW G, AveragesIn(G), NEW n \in Subs, NEW ok,
         UploadFinished(d, n, ok)
  PROVE  AveragesIn(G)'
<1> DEFINE key == uniqueReviewID[subs[n].form]
           p == <<"imageURL", key>>
           x == Put(p, Whole(n))
           xs == <<x>>
           R == RequestsFor(Submitted)
<1>1. UNCHANGED <<server, pend>> /\ (requests' = requests \/ Issue(d, xs))
  BY DEF UploadFinished
<1>2. n \in Submitted /\ upload[n] = "running" /\ key # 0
  BY DEF UploadFinished, UploadsHaveKey
<1>3. key \in Subs
  <2>1. subs[n] \in Submissions
    BY <1>2 DEF TypeOK, Submitted
  <2>2. subs[n].form \in Subs
    BY <2>1 DEF Submissions
  <2> QED BY <1>2, <2>2 DEF TypeOK
<1>4. p \in ReviewPaths /\ p \in Paths /\ n \in Nat
  BY <1>3, SubsFacts DEF ReviewPaths, Paths
<1>5. x \in R /\ x.path = p /\ p # AverageRating
  BY <1>4, WholeIsValue, PutType, TotalsAreNoReviews, TotalPathsFact DEF Put
<1> HIDE DEF p, x, R
<1>6. xs \in Seq(R) /\ Untouched(xs, AverageRating)
  BY <1>5 DEF Untouched, IsPut
<1> HIDE DEF xs
<1>7. CASE requests' = requests
  BY <1>1, <1>7 DEF AveragesIn
<1> QED BY <1>1, <1>6, <1>7, IssueNoAverage DEF R

\* A press only asks.
LEMMA PressAverages ==
  ASSUME TypeOK, NEW d \in Devices, NEW G, AveragesIn(G), NEW k \in Ratings, SubmitPressed(d, k)
  PROVE  AveragesIn(G)'
<1> DEFINE x == Ask(Len(subs) + 1)
           R == RequestsFor(Submitted) \cup {x}
<1>1. UNCHANGED <<server, pend>> /\ requests' = [requests EXCEPT ![d] = Append(@, x)]
  BY DEF SubmitPressed
<1>2. x.kind # "put"
  BY DEF Ask
<1>3. requests[d] \in Seq(R)
  <2>1. requests[d] \in Seq(RequestsFor(Submitted))
    BY DEF TypeOK
  <2> QED BY <2>1, SeqDef
<1>4. requests'[d] = Append(requests[d], x) /\ \A y \in Devices : y # d => requests'[y] = requests[y]
  BY <1>1 DEF TypeOK
<1> HIDE DEF x
<1>5. Elements(requests'[d]) = Elements(requests[d]) \cup {x}
  BY <1>3, <1>4, ElementsFacts
<1>6. \A y \in Devices : \A w \in Elements(requests'[y]) : w \in Elements(requests[y]) \/ w.kind # "put"
  BY <1>2, <1>4, <1>5
<1>7. \A y \in Devices : \A w \in Elements(pend'[y]) : w \in Elements(pend[y]) \/ w \in Elements(requests[y])
  BY <1>1
<1> QED BY <1>1, <1>6, <1>7, NothingNewInAverages

\* The client's queue.
LEMMA QueueAverages ==
  ASSUME TypeOK, NEW d \in Devices, NEW G, AveragesIn(G), FirebaseQueue(d)
  PROVE  AveragesIn(G)'
<1> DEFINE r == requests[d]
           w == Head(r)
<1>1. PICK kind \in {"ask", "get", "put"} :
        TakeUp(d, kind) /\ (kind = "put" => IssueWrite(d)) /\ (kind # "put" => UNCHANGED pend)
  BY DEF FirebaseQueue, AskServer, ServeRead, IssueWrite
<1>2. server' = server /\ requests' = [requests EXCEPT ![d] = Tail(@)] /\ r # <<>> /\ w.kind = kind
  BY <1>1 DEF TakeUp
<1>3. r \in Seq(RequestsFor(Submitted))
  BY DEF TypeOK
<1>4. Elements(Tail(r)) \subseteq Elements(r) /\ w \in Elements(r)
  BY <1>2, <1>3, ElementsFacts
<1>5. \A x \in Devices : Elements(requests'[x]) \subseteq Elements(requests[x])
  BY <1>2, <1>4 DEF TypeOK
<1>6. \A x \in Devices : \A y \in Elements(pend'[x]) : y \in Elements(pend[x]) \/ y \in Elements(requests[x])
  <2>1. CASE kind # "put"
    BY <1>1, <2>1
  <2>2. CASE kind = "put"
    <3>1. pend' = [pend EXCEPT ![d] = Append(@, w)] BY <1>1, <2>2 DEF IssueWrite
    <3>2. pend[d] \in Seq(Puts \cup {w})
      <4>1. pend[d] \in Seq(Puts) BY DEF TypeOK
      <4> QED BY <4>1, SeqDef
    <3>3. pend'[d] = Append(pend[d], w) /\ \A x \in Devices : x # d => pend'[x] = pend[x]
      BY <3>1 DEF TypeOK
    <3> HIDE DEF w
    <3>4. Elements(pend'[d]) = Elements(pend[d]) \cup {w}
      BY <3>2, <3>3, ElementsFacts
    <3> QED BY <1>4, <3>3, <3>4
  <2> QED BY <2>1, <2>2
<1> QED BY <1>2, <1>5, <1>6, NothingNewInAverages

\* The server and the network.
LEMMA NetworkAverages ==
  ASSUME TypeOK, NEW d \in Devices, NEW G, AveragesIn(G),
         ServerApply(d) \/ Sync(d) \/ AnswerAsk(d) \/ Reconnect(d)
  PROVE  AveragesIn(G)'
<1>1. requests' = requests
  BY DEF ServerApply, Sync, AnswerAsk, CatchUp, Reconnect
<1>2. \/ server'[AverageRating] = server[AverageRating]
      \/ \E x \in Devices : \E w \in Elements(pend[x]) :
           IsPut(w, AverageRating) /\ server'[AverageRating] = w.value
  <2>1. CASE ServerApply(d)
    <3> DEFINE w == pend[d][sent[d] + 1]
    <3>1. w \in Elements(pend[d]) /\ w \in Puts
      BY <2>1 DEF ServerApply, TypeOK, Elements
    <3>2. server' = [server EXCEPT ![w.path] = w.value] BY <2>1 DEF ServerApply
    <3> HIDE DEF w
    <3>3. w.kind = "put" /\ AverageRating \in DOMAIN server
      BY <3>1, TotalPathsFact DEF Puts, TypeOK, Node
    <3> QED BY <3>1, <3>2, <3>3 DEF IsPut
  <2>2. CASE ~ServerApply(d)
    BY <2>2 DEF Sync, AnswerAsk, CatchUp, Reconnect
  <2> QED BY <2>1, <2>2
<1>3. \A x \in Devices : Elements(pend'[x]) \subseteq Elements(pend[x])
  <2>1. CASE Sync(d) \/ AnswerAsk(d)
    <3>1. pend' = [pend EXCEPT ![d] = Unacked(d)]
      BY <2>1 DEF Sync, AnswerAsk, CatchUp
    <3>2. pend[d] \in Seq(Puts) /\ sent[d] + 1 \in 1..Len(pend[d]) + 1
      BY DEF TypeOK
    <3>3. Elements(Unacked(d)) \subseteq Elements(pend[d])
      BY <3>2, ElementsFacts DEF Unacked
    <3> QED BY <3>1, <3>3 DEF TypeOK
  <2>2. CASE ~(Sync(d) \/ AnswerAsk(d))
    <3>1. pend' = pend BY <2>2 DEF ServerApply, Reconnect
    <3> QED BY <3>1
  <2> QED BY <2>1, <2>2
<1> QED BY <1>1, <1>2, <1>3, NothingNewInAverages

\* A process that goes down takes what it had not sent with it; a relaunched one has nothing.
LEMMA DownAverages ==
  ASSUME TypeOK, NEW d \in Devices, NEW G, AveragesIn(G),
         CastFails(d) \/ Kill(d) \/ Relaunch(d)
  PROVE  AveragesIn(G)'
<1>1. CASE Relaunch(d)
  BY <1>1 DEF Relaunch, AveragesIn
<1>2. CASE CastFails(d) \/ Kill(d)
  <2>1. /\ server' = server
        /\ requests' = [requests EXCEPT ![d] = <<>>] /\ pend' = [pend EXCEPT ![d] = <<>>]
    BY <1>2 DEF CastFails, Trap, Kill, GoesDown
  <2>2. Elements(<<>>) = {}
    BY DEF Elements
  <2> QED BY <2>1, <2>2 DEF AveragesIn, TypeOK
<1> QED BY <1>1, <1>2

\* When the quotients and the star control's ratings are in G, so are all averages.
LEMMA AveragesStep ==
  ASSUME TypeOK, UploadsHaveKey, NEW G, AveragesIn(G), \A k \in 0..5 : Whole(k) \in G,
         \A d \in Devices : AverageArrived(d) => NextAverage(d) \in G, [Next]_vars
  PROVE  AveragesIn(G)'
<1>1. CASE UNCHANGED vars
  BY <1>1 DEF vars, client, AveragesIn
<1>2. CASE Next
  <2> PICK d \in Devices :
        \/ \E k \in Ratings : SubmitPressed(d, k)
        \/ MainQueue(d) \/ Uploads(d) \/ FirebaseQueue(d)
        \/ ServerApply(d) \/ Sync(d) \/ AnswerAsk(d)
        \/ Reconnect(d) \/ Kill(d) \/ Relaunch(d)
    BY <1>2 DEF Next
  <2>1. CASE CountArrived(d) \/ TotalArrived(d) \/ AverageArrived(d)
    BY <2>1, CallbackAverages
  <2>2. CASE ItemExists(d) \/ ItemMissing(d)
    BY <2>2, ItemAverages
  <2>3. CASE \E k \in Ratings : SubmitPressed(d, k)
    BY <2>3, PressAverages
  <2>4. CASE Uploads(d)
    BY <2>4, UploadAverages DEF Uploads
  <2>5. CASE FirebaseQueue(d)
    BY <2>5, QueueAverages
  <2>6. CASE ServerApply(d) \/ Sync(d) \/ AnswerAsk(d) \/ Reconnect(d)
    BY <2>6, NetworkAverages
  <2>7. CASE CastFails(d) \/ Kill(d) \/ Relaunch(d)
    BY <2>7, DownAverages
  <2> QED BY <2>1, <2>2, <2>3, <2>4, <2>5, <2>6, <2>7 DEF MainQueue
<1> QED BY <1>1, <1>2

\* The whole numbers on the star control are on the scale.
LEMMA WholeOnScale == \A k \in 0..5 : Whole(k) \in Scale
<1> SUFFICES ASSUME NEW k \in 0..5 PROVE Whole(k) \in Scale OBVIOUS
<1>1. Whole(k) \in Value /\ Whole(k).num = k /\ Whole(k).den = 1 /\ k <= 5 * 1
  BY WholeIsValue DEF Whole
<1> QED BY <1>1 DEF Scale

\* The quotient of a device that is alone is of all submissions handled.
LEMMA QuotientOnScale ==
  ASSUME TypeOK, NEW d \in Devices, FormInv(d), NEW s \in 0..3, ClientInv(d, s),
         AverageArrived(d)
  PROVE  NextAverage(d) \in Scale
<1> DEFINE e == Head(events[d])
           h == Handled(d)
<1>1. ValueArrived(d, AverageRating)
  BY DEF AverageArrived
<1>2. events[d] # <<>> /\ e.kind = "value" /\ e.path = AverageRating
  BY <1>1 DEF ValueArrived, Callback
<1>3. s + 1 = 3 /\ e.sub = h /\ h > 0 /\ h - 1 \in 0 .. Len(subs) /\ SeedCount + (h - 1) > 0
  BY <1>2, NextAnswer, PlaceFacts
<1>4. h \in 0 .. Len(subs) /\ Len(subs) \in Nat /\ SeedCount \in Nat
  BY HandledFacts
<1>5. SeedCount + h > 0 /\ s = 2 /\ h \in 1..Len(subs)
  BY <1>3, <1>4
<1>6. newCount[h] = SeedCount + h /\ newTotal[h] = SeedTotal + Sums(subs)[h]
  BY <1>5 DEF ClientInv
<1>7. NextAverage(d) = Totals(subs, AverageRating, h)
  BY <1>3, <1>4, <1>5, <1>6, TotalsFacts, TotalPathsFact DEF NextAverage
<1> HIDE DEF h
<1> QED BY <1>4, <1>5, <1>7, TotalsOnScale

\* Every step keeps the averages on the scale.
LEMMA ScaleStep ==
  ASSUME NEW d, Devices = {d}, CountInv(d), AveragesIn(Scale), [Next]_vars
  PROVE  AveragesIn(Scale)'
<1>1. TypeOK /\ UploadsHaveKey /\ FormInv(d) /\ d \in Devices
  BY DEF CountInv
<1>2. PICK s \in 0..3 : ClientInv(d, s)
  BY DEF CountInv
<1>3. \A x \in Devices : AverageArrived(x) => NextAverage(x) \in Scale
  BY <1>1, <1>2, QuotientOnScale
<1> QED BY <1>1, <1>3, WholeOnScale, AveragesStep

\* The average of the seed is the first.
LEMMA AveragesInit ==
  ASSUME NEW G, Init,
         SeedCount # 0 => [num |-> SeedTotal, den |-> SeedCount] \in G
  PROVE  AveragesIn(G)
<1>1. /\ server = SeedNode /\ \A x \in Devices : requests[x] = <<>> /\ pend[x] = <<>>
  BY DEF Init
<1>2. Elements(<<>>) = {}
  BY DEF Elements
<1>3. SeedNode[AverageRating] # Absent => SeedNode[AverageRating] \in G
  BY TotalPathsFact, PlaceFacts DEF SeedNode
<1> QED BY <1>1, <1>2, <1>3 DEF AveragesIn

\* An average that one device publishes is one a reader can believe: it lies between nothing
\* and five, whatever connections are lost and whatever is sent again. (Two devices, or a
\* kill between the three writes, put it above five.)
THEOREM OneDeviceStaysOnScale ==
  ASSUME NEW d, Devices = {d}, MaxTaps <= 1, MaxKills = 0
  PROVE  Spec => []AverageOnScale
<1>1. Init => CountInv(d) /\ AveragesIn(Scale)
  <2>1. SeedCount # 0 => [num |-> SeedTotal, den |-> SeedCount] \in Scale
    BY SeedAssumption DEF Scale, Value
  <2> QED BY <2>1, CountInit, AveragesInit
<1>2. CountInv(d) /\ AveragesIn(Scale) /\ [Next]_vars => CountInv(d)' /\ AveragesIn(Scale)'
  BY CountStep, ScaleStep
<1>3. AveragesIn(Scale) => AverageOnScale
  BY DEF AveragesIn, AverageOnScale, Scale
<1> QED BY <1>1, <1>2, <1>3, PTL DEF Spec
=============================================================================
