----------------------------------- MODULE MCApp -----------------------------------
(* What the app does with reviews of one item, in five situations; the initial state   *)
(* picks one.  The first has the variables of ReviewSubmission, the others have the    *)
(* registers y1, y2, ...; what a situation has no use for stays as it is.              *)
EXTENDS MCReviewSubmission

LOCAL INSTANCE FiniteSetsExt

CONSTANTS d1, d2, d3  \* devices

VARIABLES situation, y1, y2, y3, y4, y5, y6, y7, y8, y9, y10, y11, y12, y13, y14, y15,
  y16, y17

registers == <<y1, y2, y3, y4, y5, y6, y7, y8, y9, y10, y11, y12, y13, y14, y15, y16, y17>>
allVars == <<situation, registers, vars>>

\* The two devices of a situation differ in nothing but their names.
TwoDevices == Permutations({d1, d2})

------------------------
(* One device on an item with a review; it may be killed once, and the connection     *)
(* lost twice: a count that is sent again is lost to the kill as well.                  *)

Killed == INSTANCE ReviewSubmission WITH
  Devices <- {d3}, Ratings <- {5}, MaxSubmissions <- 3, MaxTaps <- 1, MaxKills <- 1,
  MaxReconnects <- 2, SeedCount <- 1, SeedTotal <- 4, ReviewFields <- RatingOnly,
  UploadOutcomes <- {},
  server <- y1, view <- y2, requests <- y3, asked <- y4, pend <- y5, sent <- y6,
  events <- y7, subs <- y8, newCount <- y9, newTotal <- y10, form <- y11,
  uniqueReviewID <- y12, upload <- y13, status <- y14, kills <- y15, reconnects <- y16

\* Two devices on an item with a review, with a kill and a lost connection.
Duo == INSTANCE ReviewSubmission WITH
  Devices <- {d1, d2}, Ratings <- {5}, MaxSubmissions <- 2, MaxTaps <- 1, MaxKills <- 1,
  MaxReconnects <- 1, SeedCount <- 1, SeedTotal <- 5, ReviewFields <- RatingOnly,
  UploadOutcomes <- {},
  server <- y1, view <- y2, requests <- y3, asked <- y4, pend <- y5, sent <- y6,
  events <- y7, subs <- y8, newCount <- y9, newTotal <- y10, form <- y11,
  uniqueReviewID <- y12, upload <- y13, status <- y14, kills <- y15, reconnects <- y16

\* Two devices on an item without one, whose first review may be half written.
Half == INSTANCE ReviewSubmission WITH
  Devices <- {d1, d2}, Ratings <- {5}, MaxSubmissions <- 2, MaxTaps <- 1, MaxKills <- 1,
  MaxReconnects <- 1, SeedCount <- 0, SeedTotal <- 0, ReviewFields <- DateOnly,
  UploadOutcomes <- {},
  server <- y1, view <- y2, requests <- y3, asked <- y4, pend <- y5, sent <- y6,
  events <- y7, subs <- y8, newCount <- y9, newTotal <- y10, form <- y11,
  uniqueReviewID <- y12, upload <- y13, status <- y14, kills <- y15, reconnects <- y16

\* A kill costs one device at most one count of a stored review, and one more for a second
\* lost connection; with two devices no review that is counted is missing, whatever a kill
\* or a reconnection came between; and even a half-written item never makes a device divide
\* by zero.
TotalsSurviveFaults ==
  /\ situation = "killed" => Killed!KillsLoseFewCounts
  /\ situation = "duo" => Duo!CountedReviewsAreStored
  /\ situation = "half" => Half!AverageDefined

\* A quotient of stars really given by a number of reviews really stored: those the item
\* had and some of the reviews in stored, one of which is both in the total and in the count.
IsOfReviews(average, subs_, stored, count, total) ==
  \E S, T \in SUBSET stored :
    /\ S \cap T # {}
    /\ average.num = total + MapThenSumSet(LAMBDA n : subs_[n].rating, S)
    /\ average.den = count + Cardinality(T)

\* One device never publishes an average above the scale, although it sends writes again.
\* With two devices the count and the total that are divided may be of different moments,
\* and after a kill of different submissions; yet neither counts a review twice or one that
\* is not stored, and the review just written is in both.
AveragesAreOfReviews ==
  LET a == y1[AverageRating]
  IN  /\ situation = "solo" => AverageOnScale
      /\ situation = "duo" /\ a # [num |-> 5, den |-> 1] =>
            IsOfReviews(a, y8, Duo!StoredRatings, 1, 5)
      /\ situation = "killed" /\ a # [num |-> 4, den |-> 1] =>
            IsOfReviews(a, y8, Killed!StoredRatings, 1, 4)

\* No submission, first or later, resent or not, overwrites a review that is stored.
HalfReviewsAreWriteOnce == [][situation = "half" => Half!WriteOnce]_allVars

------------------------
(* The item's screen opened twice, one review written from it and another arriving.   *)

TextAndRating == <<"review", "rating">>
Item == INSTANCE ItemDetailsScreen WITH
  Mine <- {2}, Theirs <- {1}, Seeded <- {}, MaxScreens <- 2, ReviewFields <- TextAndRating,
  view <- y1, requests <- y2, events <- y3, remote <- y4, listening <- y5, opened <- y6,
  top <- y7, form <- y8, uploads <- y9, tasks <- y10, firstReview <- y11, reviews <- y12,
  ratings <- y13, imageArray <- y14, rows <- y15, numberOfReviews <- y16, trap <- y17

ASSUME ItemConstants ==
  Item!ReviewsAssumption /\ Item!ScreensAssumption /\ Item!FieldsAssumption

\* What the item's screen reads is whole: the screen a first review is written from
\* outlives it, and a reload reads its own review with all its fields.
ItemReadsAreWhole ==
  situation = "item" => Item!TypeOK /\ Item!FormsScreenSurvives /\ Item!OwnReviewsAreWhole

\* What it shows when all is quiet: the ratings of the rows last read, the reviews written
\* from it, the count that is stored, and no image twice.
ItemShowsItsReviews ==
  situation = "item" =>
    /\ Item!RatingsEndWithTheRows /\ Item!OwnReviewsAreListed
    /\ Item!LabelsShowTheCount /\ Item!NoImageTwice

------------------------

NoRegisters ==
  /\ y1 = Absent /\ y2 = Absent /\ y3 = Absent /\ y4 = Absent /\ y5 = Absent
  /\ y6 = Absent /\ y7 = Absent /\ y8 = Absent /\ y9 = Absent /\ y10 = Absent
  /\ y11 = Absent /\ y12 = Absent /\ y13 = Absent /\ y14 = Absent /\ y15 = Absent
  /\ y16 = Absent /\ y17 = Absent

SuiteInit ==
  /\ Init
  /\ \/ situation = "solo" /\ NoRegisters
     \/ situation = "killed" /\ Killed!Init /\ y17 = Absent
     \/ situation = "duo" /\ Duo!Init /\ y17 = Absent
     \/ situation = "half" /\ Half!Init /\ y17 = Absent
     \/ situation = "item" /\ Item!Init

In(s) == situation = s /\ UNCHANGED <<situation, vars>>

SuiteNext ==
  \/ situation = "solo" /\ UNCHANGED <<situation, registers>> /\ Next
  \/ In("killed") /\ Killed!Next /\ UNCHANGED y17
  \/ In("duo") /\ Duo!Next /\ UNCHANGED y17
  \/ In("half") /\ Half!Next /\ UNCHANGED y17
  \/ In("item") /\ Item!Next

SuiteSpec == SuiteInit /\ [][SuiteNext]_allVars
=============================================================================
