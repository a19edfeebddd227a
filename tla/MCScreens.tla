---------------------------------- MODULE MCScreens ----------------------------------
(* What must happen in the end: the venues' details reach the table, and one device's    *)
(* reviews reach the published average.  The initial state picks one of the two; the     *)
(* venues have the variables of NearbyVenues, the reviews the registers z1, z2, ...      *)
EXTENDS MCNearbyVenues

CONSTANTS d1, Absent

VARIABLES situation, z1, z2, z3, z4, z5, z6, z7, z8, z9, z10, z11, z12, z13, z14, z15, z16

registers == <<z1, z2, z3, z4, z5, z6, z7, z8, z9, z10, z11, z12, z13, z14, z15, z16>>
allVars == <<situation, registers, vars>>

------------------------
(* One device that writes the first three reviews of an item, one press in each form. *)

Reviews == INSTANCE ReviewSubmission WITH
  Devices <- {d1}, Ratings <- {2, 5}, MaxSubmissions <- 3, MaxTaps <- 1, MaxKills <- 0,
  MaxReconnects <- 0, SeedCount <- 0, SeedTotal <- 0, ReviewFields <- <<"rating">>,
  UploadOutcomes <- {},
  server <- z1, view <- z2, requests <- z3, asked <- z4, pend <- z5, sent <- z6,
  events <- z7, subs <- z8, newCount <- z9, newTotal <- z10, form <- z11,
  uniqueReviewID <- z12, upload <- z13, status <- z14, kills <- z15, reconnects <- z16

\* Every average published is that of one more rating, in order, and in the end all of them.
ReviewsImplementLedger == Reviews!ImplementsLedger
\* Every review submitted is stored in the end.
ReviewsAreStored == Reviews!ReviewIsStored

------------------------

SuiteInit == situation \in {"reviews", "nearby"} /\ Init /\ Reviews!Init

Nearby(A) == situation = "nearby" /\ UNCHANGED <<situation, registers>> /\ A
Reviewing(A) == situation = "reviews" /\ UNCHANGED <<situation, vars>> /\ A

SuiteNext == Nearby(Next) \/ Reviewing(Reviews!Next)

\* The fairness of both; for NearbyVenues with ENABLED written out, which TLC evaluates
\* much faster.
SuiteSpec ==
  /\ SuiteInit /\ [][SuiteNext]_allVars
  /\ WF_allVars(Reviewing(Reviews!MainQueue(d1))) /\ WF_allVars(Reviewing(Reviews!Uploads(d1)))
  /\ WF_allVars(Reviewing(Reviews!FirebaseQueue(d1)))
  /\ WF_allVars(Reviewing(Reviews!ServerApply(d1)))
  /\ WF_allVars(Reviewing(Reviews!Sync(d1))) /\ WF_allVars(Reviewing(Reviews!AnswerAsk(d1)))
  /\ []<>~(situation = "nearby" /\ TasksRun) \/ []<><<Nearby(TaskIsOver)>>_allVars
  /\ []<>~(situation = "nearby" /\ BlockWaits) \/ []<><<Nearby(BlockIsRun)>>_allVars
=============================================================================
