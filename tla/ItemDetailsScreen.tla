---------------------------- MODULE ItemDetailsScreen ----------------------------
(***************************************************************************)
(* The screens of ONE menu item on one device (ItemDetailsVC), with the    *)
(* way back from the review form (ReviewItemVC.prepare), over the item's   *)
(* node in the database. An instance of the screen is never done: the      *)
(* listener it registers on the item is not removed and keeps it alive, so *)
(* the instances opened before still run it.                               *)
(*                                                                         *)
(* How several submissions mix in the totals is ReviewSubmission's         *)
(* subject. Here the node is what this device's Firebase client shows, its *)
(* requests are served in order, and other users' writes arrive one by one.*)
(***************************************************************************)
EXTENDS Integers, Sequences, FiniteSets

CONSTANTS
    Mine,       \* the reviews this device's user writes, numbered, like all
    Theirs,     \* reviews and those of others, in the order of their keys
    Seeded,     \* the reviews of others that are there from the start
    MaxScreens,   \* bound: how often the item's screen is opened
    ReviewFields  \* bound: the fields of a review that are followed, in the
                  \* order they are written

Reviews == Mine \cup Theirs
Screens == 1 .. MaxScreens

\* What the constants have to satisfy; the modules of the runs assume it.
ReviewsAssumption ==
    /\ Reviews \subseteq Nat \ {0} /\ IsFiniteSet(Reviews)
    /\ Mine \cap Theirs = {} /\ Seeded \subseteq Theirs
ScreensAssumption == MaxScreens \in Nat
FieldsAssumption == ReviewFields \in Seq({"date", "review", "rating"})

VARIABLES
    view,         \* the item's node: count (0: absent), whether there is an
                  \* average, each review's fields
    requests,     \* the reads and writes issued, in order
    events,       \* callbacks waiting for the main queue
    remote,       \* writes of others on their way
    listening,    \* screens 1 .. listening have their listener registered
    opened,       \* how many screens have been opened
    top,          \* the one on display, 0 for the menu
    form,         \* the review form over it: none, open or asking
    uploads,      \* the reviews whose image is being uploaded
    tasks,        \* image downloads: screen and review
    firstReview, reviews, ratings, imageArray,  \* per screen, as in the code;
                  \* an entry is the review it is of. dates changes with
                  \* reviews, always
    rows,         \* per screen: the table's rows since its last reload
    numberOfReviews,  \* per screen: the number in the label, 0 for none
    trap          \* why the process died, and the screen or review at fault

node == <<view, remote>>
queues == <<requests, events, listening, uploads, tasks>>
stack == <<opened, top, form>>
table == <<reviews, ratings, rows>>
labels == <<firstReview, imageArray, numberOfReviews>>
vars == <<node, queues, stack, table, labels, trap>>

Fields == {ReviewFields[i] : i \in DOMAIN ReviewFields}
NodeType == [count : Nat, average : BOOLEAN,
             fields : [Reviews -> SUBSET (Fields \cup {"imageURL"})]]

Read(kind, k) == [kind |-> kind, of |-> k]
PutTotal(what, n) == [kind |-> "put", what |-> what, to |-> n]
PutField(r, field) == [kind |-> "put", what |-> field, to |-> r]

Exists(n) == n.count > 0 \/ \E r \in Reviews : n.fields[r] # {}

\* The children of userIDsReviews, in the order of their keys.
Listed(n) ==
    LET found == {r \in Reviews : n.fields[r] # {}}
    IN  CHOOSE s \in [1 .. Cardinality(found) -> found] :
            \A i, j \in DOMAIN s : i < j => s[i] < s[j]

TypeOK ==
    /\ view \in NodeType
    /\ view.count <= Cardinality(Reviews)
    /\ \A i \in DOMAIN events : events[i].of \in Screens
    /\ listening <= opened /\ opened \in 0 .. MaxScreens /\ top \in 0 .. opened
    /\ form \in {"none", "open", "asking"}
    /\ uploads \subseteq Mine
    /\ tasks \subseteq Screens \X Reviews
    /\ firstReview \in [Screens -> BOOLEAN]
    /\ reviews \in [Screens -> Seq(Reviews)]
    /\ ratings \in [Screens -> Seq(Reviews)]
    /\ imageArray \in [Screens -> Seq(Reviews)]
    /\ rows \in [Screens -> Nat]
    /\ numberOfReviews \in [Screens -> Nat]
    /\ trap.why \in {"no", "average", "field", "image", "download", "row"}

Init ==
    /\ view = [count |-> Cardinality(Seeded), average |-> Seeded # {},
               fields |-> [r \in Reviews |->
                    IF r \in Seeded THEN Fields \cup {"imageURL"} ELSE {}]]
    /\ requests = <<>> /\ events = <<>> /\ remote = <<>>
    /\ listening = 0 /\ opened = 0 /\ top = 0
    /\ form = "none"
    /\ uploads = {} /\ tasks = {}
    /\ firstReview = [k \in Screens |-> FALSE]
    /\ reviews = [k \in Screens |-> <<>>]
    /\ ratings = [k \in Screens |-> <<>>]
    /\ imageArray = [k \in Screens |-> <<>>]
    /\ rows = [k \in Screens |-> 0]
    /\ numberOfReviews = [k \in Screens |-> 0]
    /\ trap = [why |-> "no", of |-> 0]

Running == trap.why = "no"
Trap(why, of) == trap' = [why |-> why, of |-> of]

------------------------
(* The user. *)

\* Mutant: the images are fetched by getImagesURLs and once more.
OpenItem_ImagesTwice ==
    /\ Running /\ top = 0 /\ opened < MaxScreens
    /\ opened' = opened + 1
    /\ top' = opened'
    /\ requests' = requests \o << Read("images", top'), Read("images", top'),
                                  Read("value", top'), Read("reviews", top') >>
    /\ UNCHANGED <<node, events, listening, uploads, tasks, form, table, labels, trap>>

\* ItemDetailsVC.viewDidLoad, with getImagesURLs and reloadViewDidLoad.
OpenItem ==
    /\ Running /\ top = 0 /\ opened < MaxScreens
    /\ opened' = opened + 1
    /\ top' = opened'
    /\ requests' = requests \o << Read("images", top'), Read("value", top'),
                                  Read("reviews", top') >>
    /\ UNCHANGED <<node, events, listening, uploads, tasks, form, table, labels, trap>>

Back ==
    /\ Running /\ top # 0 /\ form = "none"
    /\ top' = 0
    /\ UNCHANGED <<node, queues, opened, form, table, labels, trap>>

RateItem ==
    /\ Running /\ top # 0 /\ form = "none"
    /\ form' = "open"
    /\ UNCHANGED <<node, queues, opened, top, table, labels, trap>>

Unwritten == {r \in Mine : view.fields[r] = {}}

\* submitReview up to its first read; one press per form.
SubmitPressed ==
    /\ Running /\ form = "open" /\ Unwritten # {}
    /\ form' = "asking"
    /\ requests' = Append(requests, Read("item", top))
    /\ UNCHANGED <<node, events, listening, uploads, tasks, opened, top, table,
                   labels, trap>>

\* A row that was not on display scrolls into view: dates[indexPath.row].
RowDisplayed ==
    /\ Running /\ top # 0 /\ form = "none"
    /\ rows[top] > Len(reviews[top])
    /\ Trap("row", top)
    /\ UNCHANGED <<node, queues, stack, table, labels>>

------------------------
(* Callbacks on the main queue. *)

Callback(kind) ==
    /\ Running
    /\ events # <<>>
    /\ Head(events).kind = kind
    /\ events' = Tail(events)
    /\ UNCHANGED <<node, listening, opened, top>>

\* Mutant: the last field is left out.
ReviewWrites_NoRating(r) ==
    [i \in 1 .. Len(ReviewFields) - 1 |-> PutField(r, ReviewFields[i])]

ReviewWrites(r) == [i \in DOMAIN ReviewFields |-> PutField(r, ReviewFields[i])]

\* Mutants of Reload: it reads before the review is written; it clears the
\* ratings instead of the reviews.
Reload_First(k, writes) ==
    /\ reviews' = [reviews EXCEPT ![k] = <<>>]
    /\ requests' = requests \o << Read("reviews", k) >> \o writes
    /\ UNCHANGED <<ratings, rows>>
Reload_WrongArray(k, writes) ==
    /\ ratings' = [ratings EXCEPT ![k] = <<>>]
    /\ requests' = requests \o writes \o << Read("reviews", k) >>
    /\ UNCHANGED <<reviews, rows>>

\* reloadViewDidLoad, after the writes of the same callback. It clears reviews
\* and dates at once, ratings never; the table is not told.
Reload(k, writes) ==
    /\ reviews' = [reviews EXCEPT ![k] = <<>>]
    /\ requests' = requests \o writes \o << Read("reviews", k) >>
    /\ UNCHANGED <<ratings, rows>>

\* Mutant: the screen is not told that this was the first review.
Unwind_NoFlag(r, first, writes) ==
    /\ form' = "none"
    /\ firstReview' = [firstReview EXCEPT ![top] = FALSE]
    /\ numberOfReviews' = [numberOfReviews EXCEPT ![top] = IF first THEN 1 ELSE @]
    /\ imageArray' = [imageArray EXCEPT ![top] = Append(@, r)]
    /\ Reload(top, writes)

\* performSegue and ReviewItemVC.prepare, before submitReview's callback ends.
Unwind(r, first, writes) ==
    /\ form' = "none"
    /\ firstReview' = [firstReview EXCEPT ![top] = first]
    /\ numberOfReviews' = [numberOfReviews EXCEPT ![top] = IF first THEN 1 ELSE @]
    /\ imageArray' = [imageArray EXCEPT ![top] = Append(@, r)]
    /\ Reload(top, writes)

\* submitReview's two branches. Of an item that exists, only the count's read
\* matters here.
FormAnswered ==
    /\ Callback("item")
    /\ LET first == ~Exists(Head(events).snap)
       IN  \E r \in Unwritten :
            /\ \A other \in Unwritten : r <= other
            /\ uploads' = uploads \cup {r}
            /\ Unwind(r, first,
                      (IF first THEN << PutTotal("count", 1), PutTotal("average", 1) >>
                       ELSE << Read("count", top) >>) \o ReviewWrites(r))
    /\ UNCHANGED <<tasks, trap>>

\* Mutant: the count is incremented twice.
CountAnswered_Twice ==
    /\ Callback("count")
    /\ requests' = Append(requests, PutTotal("count", Head(events).snap.count + 2))
    /\ UNCHANGED <<uploads, tasks, form, table, labels, trap>>

CountAnswered ==
    /\ Callback("count")
    /\ requests' = Append(requests, PutTotal("count", Head(events).snap.count + 1))
    /\ UNCHANGED <<uploads, tasks, form, table, labels, trap>>

\* Mutant: the label is set the first time only.
ListenerFired_Once ==
    /\ Callback("value")
    /\ LET k == Head(events).of
           n == Head(events).snap
       IN  IF ~firstReview[k] /\ Exists(n) /\ ~n.average
           THEN Trap("average", k) /\ UNCHANGED numberOfReviews
           ELSE /\ numberOfReviews' = [numberOfReviews EXCEPT ![k] =
                        IF @ = 0 /\ ~firstReview[k] THEN n.count ELSE @]
                /\ UNCHANGED trap
    /\ UNCHANGED <<requests, uploads, tasks, form, table, firstReview, imageArray>>

\* The listener, on whichever instance: averageRating is cast by force.
ListenerFired ==
    /\ Callback("value")
    /\ LET k == Head(events).of
           n == Head(events).snap
       IN  IF ~firstReview[k] /\ Exists(n) /\ ~n.average
           THEN Trap("average", k) /\ UNCHANGED numberOfReviews
           ELSE /\ numberOfReviews' = [numberOfReviews EXCEPT ![k] =
                        IF ~firstReview[k] /\ Exists(n) THEN n.count ELSE @]
                /\ UNCHANGED trap
    /\ UNCHANGED <<requests, uploads, tasks, form, table, firstReview, imageArray>>

\* The rows are appended in key order; a review's fields are cast by force.
ReviewsAnswered ==
    /\ Callback("reviews")
    /\ LET k == Head(events).of
           n == Head(events).snap
           torn == {r \in Reviews : n.fields[r] # {} /\ ~(Fields \subseteq n.fields[r])}
       IN  IF torn # {}
           THEN (\E r \in torn : Trap("field", r)) /\ UNCHANGED table
           ELSE /\ reviews' = [reviews EXCEPT ![k] = @ \o Listed(n)]
                /\ ratings' = [ratings EXCEPT ![k] = @ \o Listed(n)]
                /\ rows' = [rows EXCEPT ![k] =
                                IF Listed(n) = <<>> THEN @ ELSE Len(reviews'[k])]
                /\ UNCHANGED trap
    /\ UNCHANGED <<requests, uploads, tasks, form, labels>>

\* getImagesURLs: imageURL is cast by force, a download starts for each.
ImagesAnswered ==
    /\ Callback("images")
    /\ LET n == Head(events).snap
           found == {r \in Reviews : n.fields[r] # {}}
           bare == {r \in found : "imageURL" \notin n.fields[r]}
       IN  IF bare # {}
           THEN (\E r \in bare : Trap("image", r)) /\ UNCHANGED tasks
           ELSE tasks' = tasks \cup ({Head(events).of} \X found) /\ UNCHANGED trap
    /\ UNCHANGED <<requests, uploads, form, table, labels>>

ImageAppended ==
    /\ Callback("append")
    /\ imageArray' = [imageArray EXCEPT ![Head(events).of] = Append(@, Head(events).snap)]
    /\ UNCHANGED <<requests, uploads, tasks, form, table, firstReview, numberOfReviews, trap>>

------------------------
(* Other queues: downloads and uploads, Firebase, the other users. *)

\* data! and image! in the download's completion, then the main queue.
DownloadFinished(t, ok) ==
    /\ Running /\ t \in tasks
    /\ tasks' = tasks \ {t}
    /\ IF ok
       THEN events' = Append(events, [kind |-> "append", of |-> t[1], snap |-> t[2]])
            /\ UNCHANGED trap
       ELSE Trap("download", t[1]) /\ UNCHANGED events
    /\ UNCHANGED <<node, requests, listening, uploads, stack, table, labels>>

UploadFinished(r, ok) ==
    /\ Running /\ r \in uploads
    /\ uploads' = uploads \ {r}
    /\ requests' = IF ok THEN Append(requests, PutField(r, "imageURL")) ELSE requests
    /\ UNCHANGED <<node, events, listening, tasks, stack, table, labels, trap>>

Answer(read) == [kind |-> read.kind, of |-> read.of, snap |-> view]

ServeRead ==
    /\ Running /\ requests # <<>> /\ Head(requests).kind # "put"
    /\ requests' = Tail(requests)
    /\ events' = Append(events, Answer(Head(requests)))
    /\ listening' = IF Head(requests).kind = "value" THEN Head(requests).of ELSE listening
    /\ UNCHANGED <<node, uploads, tasks, stack, table, labels, trap>>

\* A write shows in the item; every listener gets the whole of it.
Show(put) ==
    /\ view' = CASE put.what = "count"   -> [view EXCEPT !.count = put.to]
                 [] put.what = "average" -> [view EXCEPT !.average = TRUE]
                 [] OTHER -> [view EXCEPT !.fields[put.to] = @ \cup {put.what}]
    /\ events' = IF view' = view THEN events
                 ELSE events \o [k \in 1 .. listening |->
                                    [kind |-> "value", of |-> k, snap |-> view']]

IssueWrite ==
    /\ Running /\ requests # <<>> /\ Head(requests).kind = "put"
    /\ requests' = Tail(requests)
    /\ Show(Head(requests))
    /\ UNCHANGED <<remote, listening, uploads, tasks, stack, table, labels, trap>>

\* Someone else submits; their image's URL, if any, follows.
RemoteSubmits(r) ==
    /\ Running /\ remote = <<>> /\ view.fields[r] = {}
    /\ \E url \in {<<>>, << PutField(r, "imageURL") >>} :
         remote' = (IF Exists(view) THEN ReviewWrites(r) \o << PutTotal("count", view.count + 1) >>
                    ELSE << PutTotal("count", 1), PutTotal("average", 1) >> \o ReviewWrites(r))
                   \o url
    /\ UNCHANGED <<view, queues, stack, table, labels, trap>>

RemoteArrives ==
    /\ Running /\ remote # <<>>
    /\ remote' = Tail(remote)
    /\ Show(Head(remote))
    /\ UNCHANGED <<requests, listening, uploads, tasks, stack, table, labels, trap>>

------------------------
Next ==
    \/ OpenItem \/ Back \/ RateItem \/ SubmitPressed \/ RowDisplayed
    \/ FormAnswered \/ CountAnswered \/ ListenerFired \/ ReviewsAnswered
    \/ ImagesAnswered \/ ImageAppended
    \/ \E t \in Screens \X Reviews, ok \in BOOLEAN : DownloadFinished(t, ok)
    \/ \E r \in Mine, ok \in BOOLEAN : UploadFinished(r, ok)
    \/ ServeRead \/ IssueWrite \/ RemoteArrives
    \/ \E r \in Theirs : RemoteSubmits(r)

Spec == Init /\ [][Next]_vars

------------------------
(* Properties. *)

Quiet == Running /\ requests = <<>> /\ events = <<>> /\ remote = <<>>

\* The screen from which an item's first review is written survives it: its
\* firstReview is set before its listener sees the review's half-written
\* totals. What makes it trap is someone else's first review. (Instances of the
\* screen opened before do trap.)
FormsScreenSurvives ==
    trap.why = "average" /\ trap.of = top =>
        remote # <<>> \/ \E r \in Theirs : view.fields[r] # {}

\* No reload reads a review of this user half written: its three fields are
\* issued before the read.
OwnReviewsAreWhole == trap.why = "field" => trap.of \in Theirs

\* However many reloads a screen has been through, ratings ends with the
\* ratings of the rows, so that ratings[indexPath.row] is there for every row.
RatingsEndWithTheRows ==
    \A k \in Screens :
        LET surplus == Len(ratings[k]) - Len(reviews[k])
        IN  surplus >= 0 /\ \A i \in DOMAIN reviews[k] :
                                ratings[k][surplus + i] = reviews[k][i]

\* When all is quiet the screen on display has a row for every review its user
\* wrote, the one just submitted included.
OwnReviewsAreListed ==
    Quiet /\ top # 0 =>
        \A r \in Mine : view.fields[r] # {} =>
            \E i \in DOMAIN reviews[top] : reviews[top][i] = r

\* When all is quiet every instance that is not in its first-review state shows
\* the item's count.
LabelsShowTheCount ==
    Quiet => \A k \in 1 .. listening :
        ~firstReview[k] => numberOfReviews[k] = view.count

\* A screen shows no image twice: its user's come from the form, all others
\* from the one fetch when it was opened.
NoImageTwice ==
    \A k \in Screens : \A i, j \in DOMAIN imageArray[k] :
        imageArray[k][i] = imageArray[k][j] => i = j

\* A row shows the rating of the review whose text and date it shows:
\* dates, reviews and ratings are indexed by the same row.
RowsShowTheirRating ==
    \A k \in Screens : \A i \in DOMAIN reviews[k] : ratings[k][i] = reviews[k][i]
=============================================================================
