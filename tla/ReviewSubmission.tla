---------------------------- MODULE ReviewSubmission ----------------------------
(***************************************************************************)
(* Writing a review of ONE menu item (ReviewItemVC.submitReview), on       *)
(* several devices that share the item's node in the Firebase Realtime     *)
(* Database:                                                               *)
(*                                                                         *)
(*   ItemRatingReviews/<item>/count                                        *)
(*                           /totalRatings                                 *)
(*                           /averageRating                                *)
(*                           /userIDsReviews/<user>/<autoId>/date, review, *)
(*                                               rating, imageURL          *)
(*                                                                         *)
(* The app's code runs on the device's main queue, one callback at a time. *)
(* Firebase is modelled from how the app uses it: a serial queue per       *)
(* device takes the reads and writes in the order they were issued, a      *)
(* write shows at once in the device's local view and goes to the server   *)
(* in order, a read below the observed item is answered from that view, a  *)
(* read of the whole tree takes a round trip, and every answer is a        *)
(* callback on the main queue.                                             *)
(***************************************************************************)
EXTENDS Integers, Sequences, FiniteSets

CONSTANTS
    Devices,         \* the phones; each has a signed-in Firebase user
    Ratings,         \* the ratings the star control can hold when pressed
    MaxSubmissions,  \* bound: presses of Submit, all devices together
    MaxTaps,         \* bound: presses of Submit in one form
    MaxKills,        \* bound: times the app is killed
    MaxReconnects,   \* bound: connections lost with writes unacknowledged
    SeedCount,       \* reviews the item has at the start; 0: no such node
    SeedTotal,       \* the sum of their ratings
    ReviewFields,    \* bound: the fields of a review node that are followed
    UploadOutcomes,  \* bound: TRUE for uploads that end with a URL, FALSE
                     \* for those that fail
    Absent           \* what a snapshot holds where there is no data

Subs == 1 .. MaxSubmissions

\* Every number is a fraction: averageRating keeps the two numbers it was
\* computed from, the others are whole. Texts, dates and image URLs are told
\* apart only by the submission that made them.
Value == [num : Nat, den : Nat]
Whole(k) == [num |-> k, den |-> 1]

Count         == <<"count", 0>>
TotalRatings  == <<"totalRatings", 0>>
AverageRating == <<"averageRating", 0>>
TotalPaths    == {Count, TotalRatings, AverageRating}
ReviewPaths   == {"date", "review", "rating", "imageURL"} \X Subs
Paths         == TotalPaths \cup ReviewPaths

Node == [Paths -> Value \cup {Absent}]

ASSUME BoundsAssumption ==
    /\ MaxSubmissions \in Nat \ {0}
    /\ MaxTaps \in Nat /\ MaxKills \in Nat /\ MaxReconnects \in Nat
ASSUME RatingsAssumption == Ratings \subseteq 0 .. 5
ASSUME SeedAssumption ==
    SeedCount \in Nat /\ SeedTotal \in Nat /\ SeedTotal <= 5 * SeedCount
ASSUME FieldsAssumption == ReviewFields \in Seq({"date", "review", "rating"})
ASSUME OutcomesAssumption == UploadOutcomes \subseteq BOOLEAN
ASSUME AbsentAssumption == Absent \notin Value

VARIABLES
    server,         \* the item's node as the database holds it
    view,           \* per device: the node as its Firebase client shows it
    requests,       \* per device: reads and writes issued, not yet taken up
    asked,          \* per device: whole-tree reads sent and not answered
    pend,           \* per device: writes not yet acknowledged, in order
    sent,           \* per device: how many of them the server has applied
    events,         \* per device: callbacks waiting for the main queue
    subs,           \* the submissions, in the order of the presses
    newCount,       \* per submission: the variable its callbacks share
    newTotal,       \* likewise
    form,           \* per device: the form on screen, named by its first
                    \* submission; 0 while Submit has not been pressed in it
    uniqueReviewID, \* per form: the controller's uniqueReviewID; 0 is nil
    upload,         \* per submission: its image upload
    status,         \* per device: the app's process
    kills, reconnects

client == <<view, requests, asked, pend, sent, events>>
form_vars == <<subs, newCount, newTotal, form, uniqueReviewID, upload>>
faults == <<status, kills, reconnects>>
vars == <<server, client, form_vars, faults>>

Ask(n)     == [kind |-> "ask", sub |-> n]
Get(n, p)  == [kind |-> "get", sub |-> n, path |-> p]
Put(p, v)  == [kind |-> "put", path |-> p, value |-> v]
Puts       == [kind : {"put"}, path : Paths, value : Value]

ItemEvent(n, b)     == [kind |-> "item", sub |-> n, exists |-> b]
ValueEvent(n, p, v) == [kind |-> "value", sub |-> n, path |-> p, value |-> v]

\* What the queues may hold for the submissions in N.
RequestsFor(N) ==
    [kind : {"ask"}, sub : N]
        \cup [kind : {"get"}, sub : N, path : TotalPaths] \cup Puts
AskedFor(N) == [sub : N, behind : Nat]
EventsFor(N, values) ==
    [kind : {"item"}, sub : N, exists : BOOLEAN]
        \cup [kind : {"value"}, sub : N, path : TotalPaths, value : values]

Submissions == [dev : Devices, form : Subs, rating : Ratings]
Submitted == DOMAIN subs

TypeOK ==
    /\ server \in Node
    /\ view \in [Devices -> Node]
    /\ requests \in [Devices -> Seq(RequestsFor(Submitted))]
    /\ asked \in [Devices -> Seq(AskedFor(Submitted))]
    /\ pend \in [Devices -> Seq(Puts)]
    /\ sent \in [Devices -> Nat]
    /\ \A d \in Devices : sent[d] <= Len(pend[d])
    /\ events \in [Devices -> Seq(EventsFor(Submitted, Value \cup {Absent}))]
    /\ subs \in Seq(Submissions)
    /\ Len(subs) <= MaxSubmissions
    /\ newCount \in [Subs -> Nat]
    /\ newTotal \in [Subs -> Nat]
    /\ form \in [Devices -> Subs \cup {0}]
    /\ uniqueReviewID \in [Subs -> Subs \cup {0}]
    /\ upload \in [Subs -> {"none", "running", "done"}]
    /\ status \in [Devices -> {"running", "trapped", "killed"}]
    /\ kills \in Nat
    /\ reconnects \in Nat

\* The item before the run: unreviewed, or with SeedCount reviews written by
\* devices that have long finished (their review nodes are not modelled).
SeedNode ==
    [p \in Paths |->
        IF SeedCount = 0 THEN Absent
        ELSE CASE p = Count         -> Whole(SeedCount)
               [] p = TotalRatings  -> Whole(SeedTotal)
               [] p = AverageRating -> [num |-> SeedTotal, den |-> SeedCount]
               [] OTHER             -> Absent]

Init ==
    /\ server = SeedNode
    /\ view = [d \in Devices |-> SeedNode]
    /\ requests = [d \in Devices |-> <<>>]
    /\ asked = [d \in Devices |-> <<>>]
    /\ pend = [d \in Devices |-> <<>>]
    /\ sent = [d \in Devices |-> 0]
    /\ events = [d \in Devices |-> <<>>]
    /\ subs = <<>>
    /\ newCount = [n \in Subs |-> 0]
    /\ newTotal = [n \in Subs |-> 0]
    /\ form = [d \in Devices |-> 0]
    /\ uniqueReviewID = [n \in Subs |-> 0]
    /\ upload = [n \in Subs |-> "none"]
    /\ status = [d \in Devices |-> "running"]
    /\ kills = 0
    /\ reconnects = 0

------------------------
(* The app's process: trapped by a failed forced cast, killed, relaunched. *)

\* What dies with the process: Firebase keeps nothing on disk in this app, so
\* the writes the server has not applied are lost with it.
GoesDown(d, why) ==
    /\ status' = [status EXCEPT ![d] = why]
    /\ requests' = [requests EXCEPT ![d] = <<>>]
    /\ asked' = [asked EXCEPT ![d] = <<>>]
    /\ pend' = [pend EXCEPT ![d] = <<>>]
    /\ sent' = [sent EXCEPT ![d] = 0]
    /\ events' = [events EXCEPT ![d] = <<>>]
    /\ form' = [form EXCEPT ![d] = 0]
    /\ upload' = [n \in Subs |->
                    IF n \in Submitted /\ subs[n].dev = d /\ upload[n] = "running"
                    THEN "none" ELSE upload[n]]
    /\ UNCHANGED <<server, view, subs, newCount, newTotal, uniqueReviewID,
                   reconnects>>

Trap(d) == GoesDown(d, "trapped") /\ UNCHANGED kills

Kill(d) ==
    /\ status[d] = "running"
    /\ kills < MaxKills
    /\ kills' = kills + 1
    /\ GoesDown(d, "killed")

\* The user starts the app again and comes back to the item's screen, whose
\* listener fetches the node.
Relaunch(d) ==
    /\ status[d] # "running"
    /\ status' = [status EXCEPT ![d] = "running"]
    /\ view' = [view EXCEPT ![d] = server]
    /\ UNCHANGED <<server, requests, asked, pend, sent, events, form_vars,
                   kills, reconnects>>

------------------------
(* ReviewItemVC on the main queue. *)

PressesIn(f) == Cardinality({n \in Submitted : subs[n].form = f})

\* submitReview up to the whole-tree read it waits for. The rating is captured
\* here. Nothing disables the button, so until that read is answered and the
\* form leaves the screen it can be pressed again.
SubmitPressed(d, r) ==
    LET n == Len(subs) + 1
        f == IF form[d] = 0 THEN n ELSE form[d]
    IN  /\ status[d] = "running"
        /\ n \in Subs
        /\ PressesIn(f) < MaxTaps
        /\ subs' = Append(subs, [dev |-> d, form |-> f, rating |-> r])
        /\ form' = [form EXCEPT ![d] = f]
        /\ requests' = [requests EXCEPT ![d] = Append(@, Ask(n))]
        /\ UNCHANGED <<server, view, asked, pend, sent, events, newCount,
                       newTotal, uniqueReviewID, upload, faults>>

\* Mutant: the user's node itself, without childByAutoId.
ReviewWrites_NoAutoId(n) ==
    [i \in DOMAIN ReviewFields |->
        Put(<<ReviewFields[i], 1>>,
            Whole(IF ReviewFields[i] = "rating" THEN subs[n].rating ELSE n))]

\* The user's own node: a fresh autoId, then date, review and rating.
ReviewWrites(n) ==
    [i \in DOMAIN ReviewFields |->
        Put(<<ReviewFields[i], n>>,
            Whole(IF ReviewFields[i] = "rating" THEN subs[n].rating ELSE n))]

\* Mutant: the average is registered first.
TotalReads_AverageFirst(n) ==
    << Get(n, AverageRating), Get(n, Count), Get(n, TotalRatings) >>

\* The three reads registered together for an item that has data.
TotalReads(n) == << Get(n, Count), Get(n, TotalRatings), Get(n, AverageRating) >>

\* Mutant: the total is left for later.
FirstTotals_NoTotal(n) ==
    << Put(Count, Whole(1)), Put(AverageRating, Whole(subs[n].rating)) >>

\* The three totals of an item's first review.
FirstTotals(n) ==
    << Put(Count, Whole(1)),
       Put(TotalRatings, Whole(subs[n].rating)),
       Put(AverageRating, Whole(subs[n].rating)) >>

\* Mutant: uniqueReviewID is not assigned.
FinishSubmit_NoID(d, n) ==
    /\ upload' = [upload EXCEPT ![n] = "running"]
    /\ form' = [form EXCEPT ![d] = IF @ = subs[n].form THEN 0 ELSE @]
    /\ UNCHANGED <<server, view, asked, pend, sent, subs, uniqueReviewID, faults>>

\* The rest of either branch: remember the review's key in the controller,
\* start the upload, unwind to the item's screen.
FinishSubmit(d, n) ==
    /\ uniqueReviewID' = [uniqueReviewID EXCEPT ![subs[n].form] = n]
    /\ upload' = [upload EXCEPT ![n] = "running"]
    /\ form' = [form EXCEPT ![d] = IF @ = subs[n].form THEN 0 ELSE @]
    /\ UNCHANGED <<server, view, asked, pend, sent, subs, faults>>

Callback(d, kind) ==
    /\ status[d] = "running"
    /\ events[d] # <<>>
    /\ Head(events[d]).kind = kind
    /\ events' = [events EXCEPT ![d] = Tail(@)]

Issue(d, rs) == requests' = [requests EXCEPT ![d] = @ \o rs]

\* Mutant: the review itself is not written.
ItemExists_NoReview(d) ==
    /\ Callback(d, "item")
    /\ Head(events[d]).exists
    /\ LET n == Head(events[d]).sub
       IN  /\ newCount' = [newCount EXCEPT ![n] = 0]
           /\ newTotal' = [newTotal EXCEPT ![n] = 0]
           /\ Issue(d, TotalReads(n))
           /\ FinishSubmit(d, n)

ItemExists(d) ==
    /\ Callback(d, "item")
    /\ Head(events[d]).exists
    /\ LET n == Head(events[d]).sub
       IN  /\ newCount' = [newCount EXCEPT ![n] = 0]
           /\ newTotal' = [newTotal EXCEPT ![n] = 0]
           /\ Issue(d, TotalReads(n) \o ReviewWrites(n))
           /\ FinishSubmit(d, n)

ItemMissing(d) ==
    /\ Callback(d, "item")
    /\ ~Head(events[d]).exists
    /\ LET n == Head(events[d]).sub
       IN  /\ Issue(d, FirstTotals(n) \o ReviewWrites(n))
           /\ FinishSubmit(d, n)
    /\ UNCHANGED <<newCount, newTotal>>

\* snapshot.value as! Int, as! Double: no data is a trap.
CastFails(d) ==
    /\ status[d] = "running"
    /\ events[d] # <<>>
    /\ LET e == Head(events[d])
       IN  /\ e.kind = "value"
           /\ e.path \in {Count, TotalRatings}
           /\ e.value = Absent
    /\ Trap(d)

ValueArrived(d, p) ==
    /\ Callback(d, "value")
    /\ Head(events[d]).path = p
    /\ p \in {Count, TotalRatings} => Head(events[d]).value # Absent
    /\ UNCHANGED <<server, view, asked, pend, sent, subs, form, uniqueReviewID,
                   upload, faults>>

\* Mutant: no increment.
CountArrived_NoIncrement(d) ==
    /\ ValueArrived(d, Count)
    /\ LET e == Head(events[d])
       IN  /\ newCount' = [newCount EXCEPT ![e.sub] = e.value.num + 1]
           /\ Issue(d, <<Put(Count, Whole(e.value.num))>>)
    /\ UNCHANGED newTotal

CountArrived(d) ==
    /\ ValueArrived(d, Count)
    /\ LET e == Head(events[d])
       IN  /\ newCount' = [newCount EXCEPT ![e.sub] = e.value.num + 1]
           /\ Issue(d, <<Put(Count, Whole(e.value.num + 1))>>)
    /\ UNCHANGED newTotal

\* Mutant: the shared variable is not assigned.
TotalArrived_NotShared(d) ==
    /\ ValueArrived(d, TotalRatings)
    /\ LET e == Head(events[d])
           t == e.value.num + subs[e.sub].rating
       IN  Issue(d, <<Put(TotalRatings, Whole(t))>>)
    /\ UNCHANGED <<newCount, newTotal>>

TotalArrived(d) ==
    /\ ValueArrived(d, TotalRatings)
    /\ LET e == Head(events[d])
           t == e.value.num + subs[e.sub].rating
       IN  /\ newTotal' = [newTotal EXCEPT ![e.sub] = t]
           /\ Issue(d, <<Put(TotalRatings, Whole(t))>>)
    /\ UNCHANGED newCount

\* Mutant: divides by the count before this review.
AverageArrived_OldCount(d) ==
    /\ ValueArrived(d, AverageRating)
    /\ LET n == Head(events[d]).sub
       IN  Issue(d, <<Put(AverageRating,
                          [num |-> newTotal[n], den |-> newCount[n] - 1])>>)
    /\ UNCHANGED <<newCount, newTotal>>

\* The value read is not used: the quotient is of the shared variables.
AverageArrived(d) ==
    /\ ValueArrived(d, AverageRating)
    /\ LET n == Head(events[d]).sub
       IN  Issue(d, <<Put(AverageRating,
                          [num |-> newTotal[n], den |-> newCount[n]])>>)
    /\ UNCHANGED <<newCount, newTotal>>

\* Mutant: the guard on downloadURL is dropped.
UploadFinished_NoGuard(d, n, ok) ==
    /\ status[d] = "running"
    /\ n \in Submitted /\ subs[n].dev = d
    /\ upload[n] = "running"
    /\ upload' = [upload EXCEPT ![n] = "done"]
    /\ Issue(d, <<Put(<<"imageURL", uniqueReviewID[subs[n].form]>>,
                      IF ok THEN Whole(n) ELSE Absent)>>)
    /\ UNCHANGED <<server, view, asked, pend, sent, events, subs, newCount,
                   newTotal, form, uniqueReviewID, faults>>

\* Mutant: the key of the submission made last, whichever form made it.
UploadFinished_LastKey(d, n, ok) ==
    /\ status[d] = "running"
    /\ n \in Submitted /\ subs[n].dev = d
    /\ upload[n] = "running"
    /\ upload' = [upload EXCEPT ![n] = "done"]
    /\ IF ok THEN Issue(d, <<Put(<<"imageURL", Len(subs)>>, Whole(n))>>)
       ELSE UNCHANGED requests
    /\ UNCHANGED <<server, view, asked, pend, sent, events, subs, newCount,
                   newTotal, form, uniqueReviewID, faults>>

\* The upload's completion: the URL is stored under the key the CONTROLLER
\* holds now; without a URL (ok = FALSE, release build) nothing is stored.
UploadFinished(d, n, ok) ==
    /\ status[d] = "running"
    /\ n \in Submitted /\ subs[n].dev = d
    /\ upload[n] = "running"
    /\ upload' = [upload EXCEPT ![n] = "done"]
    /\ IF ok
       THEN Issue(d, <<Put(<<"imageURL", uniqueReviewID[subs[n].form]>>, Whole(n))>>)
       ELSE UNCHANGED requests
    /\ UNCHANGED <<server, view, asked, pend, sent, events, subs, newCount,
                   newTotal, form, uniqueReviewID, faults>>

------------------------
(* Firebase: the client's serial queue, the connection, the server. *)

TakeUp(d, kind) ==
    /\ requests[d] # <<>>
    /\ Head(requests[d]).kind = kind
    /\ requests' = [requests EXCEPT ![d] = Tail(@)]
    /\ UNCHANGED <<server, sent, form_vars, faults>>

\* The connection keeps the order: the answer comes after the server has
\* applied the writes that went out before (behind of those in pend).
AskServer(d) ==
    /\ TakeUp(d, "ask")
    /\ asked' = [asked EXCEPT ![d] =
                    Append(@, [sub |-> Head(requests[d]).sub,
                               behind |-> Len(pend[d])])]
    /\ UNCHANGED <<view, pend, events>>

ServeRead(d) ==
    /\ TakeUp(d, "get")
    /\ LET r == Head(requests[d])
       IN  events' = [events EXCEPT ![d] =
                        Append(@, ValueEvent(r.sub, r.path, view[d][r.path]))]
    /\ UNCHANGED <<view, asked, pend>>

IssueWrite(d) ==
    /\ TakeUp(d, "put")
    /\ LET r == Head(requests[d])
       IN  /\ view' = [view EXCEPT ![d][r.path] = r.value]
           /\ pend' = [pend EXCEPT ![d] = Append(@, r)]
    /\ UNCHANGED <<asked, events>>

ServerApply(d) ==
    /\ sent[d] < Len(pend[d])
    /\ LET w == pend[d][sent[d] + 1]
       IN  server' = [server EXCEPT ![w.path] = w.value]
    /\ sent' = [sent EXCEPT ![d] = @ + 1]
    /\ UNCHANGED <<view, requests, asked, pend, events, form_vars, faults>>

Unacked(d) == SubSeq(pend[d], sent[d] + 1, Len(pend[d]))

\* The server's state with the device's own unacknowledged writes on top.
Refreshed(d) ==
    [p \in Paths |->
        IF \E i \in DOMAIN Unacked(d) : Unacked(d)[i].path = p
        THEN view[d][p] ELSE server[p]]

CatchUp(d) ==
    /\ view' = [view EXCEPT ![d] = Refreshed(d)]
    /\ pend' = [pend EXCEPT ![d] = Unacked(d)]
    /\ sent' = [sent EXCEPT ![d] = 0]
    /\ UNCHANGED <<server, requests, form_vars, faults>>

StillBehind(d, a) == [a EXCEPT !.behind = IF @ > sent[d] THEN @ - sent[d] ELSE 0]

\* Acknowledgements and the pushes of the listener on the item.
Sync(d) ==
    /\ status[d] = "running"
    /\ sent[d] > 0 \/ view[d] # Refreshed(d)
    /\ CatchUp(d)
    /\ asked' = [asked EXCEPT ![d] =
                    [i \in DOMAIN @ |-> StillBehind(d, @[i])]]
    /\ UNCHANGED events

\* The answer to the whole-tree read: does the item have any data?
AnswerAsk(d) ==
    /\ asked[d] # <<>>
    /\ Head(asked[d]).behind <= sent[d]
    /\ CatchUp(d)
    /\ asked' = [asked EXCEPT ![d] =
                    [i \in 1 .. Len(@) - 1 |-> StillBehind(d, @[i + 1])]]
    /\ events' = [events EXCEPT ![d] =
                    Append(@, ItemEvent(Head(asked[d]).sub,
                                        \E p \in Paths : Refreshed(d)[p] # Absent))]

\* The connection drops before the acknowledgements: all is sent again, the
\* reads ahead of the writes.
Reconnect(d) ==
    /\ sent[d] > 0
    /\ reconnects < MaxReconnects
    /\ reconnects' = reconnects + 1
    /\ sent' = [sent EXCEPT ![d] = 0]
    /\ asked' = [asked EXCEPT ![d] =
                    [i \in DOMAIN @ |-> [@[i] EXCEPT !.behind = 0]]]
    /\ UNCHANGED <<server, view, requests, pend, events, form_vars, status,
                   kills>>

------------------------
MainQueue(d) ==
    \/ ItemExists(d) \/ ItemMissing(d) \/ CastFails(d)
    \/ CountArrived(d) \/ TotalArrived(d) \/ AverageArrived(d)
Uploads(d) == \E n \in Subs, ok \in UploadOutcomes : UploadFinished(d, n, ok)
FirebaseQueue(d) == AskServer(d) \/ ServeRead(d) \/ IssueWrite(d)

Next ==
    \E d \in Devices :
        \/ \E r \in Ratings : SubmitPressed(d, r)
        \/ MainQueue(d) \/ Uploads(d) \/ FirebaseQueue(d)
        \/ ServerApply(d) \/ Sync(d) \/ AnswerAsk(d)
        \/ Reconnect(d) \/ Kill(d) \/ Relaunch(d)

Spec == Init /\ [][Next]_vars

\* Queues are served and the network makes progress; no user has to press, and
\* nothing has to be killed, relaunched or disconnected.
Fairness ==
    \A d \in Devices :
        /\ WF_vars(MainQueue(d)) /\ WF_vars(Uploads(d))
        /\ WF_vars(FirebaseQueue(d))
        /\ WF_vars(ServerApply(d)) /\ WF_vars(Sync(d)) /\ WF_vars(AnswerAsk(d))

FairSpec == Spec /\ Fairness

------------------------
(* Properties. *)

StoredRatings == {n \in Submitted : server[<<"rating", n>>] # Absent}

Settled ==
    \A d \in Devices :
        /\ status[d] = "running"
        /\ requests[d] = <<>> /\ asked[d] = <<>> /\ pend[d] = <<>>
        /\ events[d] = <<>>

\* The app never dies of a forced cast while a review is submitted: whenever
\* an item is taken to exist, its count and total are there to be read.
NoTrap == \A d \in Devices : status[d] # "trapped"

\* An upload that ends finds a key to store its URL under: the completion's
\* self.uniqueReviewID! is never nil.
UploadsHaveKey ==
    \A n \in Subs :
        upload[n] = "running" =>
            n \in Submitted /\ uniqueReviewID[subs[n].form] # 0

\* Nobody publishes a quotient by zero: the average's callback runs after the
\* two callbacks that set the variables it divides.
AverageDefined == server[AverageRating] # Absent => server[AverageRating].den > 0

\* The published average lies on the star control's scale: with one device, whose
\* own unapplied writes are in what it reads. Another device's may come between
\* the two reads, and what is divided then is a later total by an earlier count.
AverageOnScale ==
    LET a == server[AverageRating]
    IN  a # Absent => a.num <= 5 * a.den

\* The published count and the count behind the published average never include
\* a review whose rating the database does not hold: on every device the
\* review's own writes go out before the three totals.
CountedReviewsAreStored ==
    LET stored == SeedCount + Cardinality(StoredRatings)
    IN  /\ server[Count] # Absent => server[Count].num <= stored
        /\ server[AverageRating] # Absent => server[AverageRating].den <= stored

\* The sums of the first 0, 1, 2, ... ratings of a list of submissions.
Sums(list) ==
    LET sum[n \in 0 .. Len(list)] ==
          IF n = 0 THEN 0 ELSE sum[n - 1] + list[n].rating
    IN  sum

\* "Increment previous count", "Set new total", "Set new average": when all is
\* quiet the three totals account for every review submitted.
EveryReviewCounted ==
    LET n == SeedCount + Len(subs)
        t == SeedTotal + Sums(subs)[Len(subs)]
    IN  Settled /\ n > 0 =>
            /\ server[Count] = Whole(n)
            /\ server[TotalRatings] = Whole(t)
            /\ server[AverageRating] = [num |-> t, den |-> n]

\* A kill leaves at most one stored review out of the count, and every connection lost
\* after the first at most one more: its older count, sent again, is not waited for.
KillsLoseFewCounts ==
    LET lost == SeedCount + Cardinality(StoredRatings) - server[Count].num
    IN  Settled /\ server[Count] # Absent =>
            lost <= IF kills = 0 THEN 0
                    ELSE IF reconnects = 0 THEN kills ELSE kills + reconnects - 1

\* An image URL is stored with the review its image was picked for.
ImageOnOwnReview ==
    \A n \in Subs : server[<<"imageURL", n>>] \in {Absent, Whole(n)}

\* A review is write-once: its date, text and rating, once stored, are never
\* overwritten by another submission, nor by a write that is sent again.
WriteOnce ==
    \A p \in ReviewPaths : p[1] # "imageURL" /\ server[p] # Absent
        => server'[p] = server[p]
ReviewsAreWriteOnce == [][WriteOnce]_vars

\* What was submitted is in the database sooner or later, complete: when there are no
\* more submissions no review is left out.
Unstored ==
    \E n \in Submitted : \E i \in DOMAIN ReviewFields :
        server[<<ReviewFields[i], n>>] = Absent
ReviewIsStored == Unstored ~> ~Unstored

\* With one device and one press per form, the node's averageRating implements
\* the ledger: every average published is that of the reviews submitted so
\* far, in order, each counted once, and in the end all of them are counted.
LedgerLog == [n \in Submitted |-> subs[n].rating]
LedgerAverage ==
    IF server[AverageRating] = Absent THEN [num |-> 0, den |-> 0]
    ELSE server[AverageRating]
Ledger == INSTANCE RatingLedger
            WITH log <- LedgerLog,
                 counted <- LedgerAverage.den - SeedCount,
                 average <- LedgerAverage
ImplementsLedger == Ledger!Spec
=============================================================================
