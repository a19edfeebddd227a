------------------------------ MODULE RatingLedger ------------------------------
(***************************************************************************)
(* What the rating of a menu item promises: reviewers submit ratings, and  *)
(* the published average is at every moment the average of the ratings     *)
(* submitted first, each counted once, in the order they were submitted.   *)
(* The average is kept as the total and the count it is the quotient of.   *)
(***************************************************************************)
EXTENDS Integers, Sequences

CONSTANTS Ratings, SeedCount, SeedTotal

VARIABLES
    log,      \* the ratings submitted, in order
    counted,  \* how many of them the published average covers
    average   \* the published average

ledger == <<log, counted, average>>

Init ==
    /\ log = <<>>
    /\ counted = 0
    /\ average = [num |-> SeedTotal, den |-> SeedCount]

Submit ==
    /\ \E r \in Ratings : log' = Append(log, r)
    /\ UNCHANGED <<counted, average>>

Publish ==
    /\ counted < Len(log)
    /\ counted' = counted + 1
    /\ average' = [num |-> average.num + log[counted + 1],
                   den |-> average.den + 1]
    /\ UNCHANGED log

Safety == Init /\ [][Submit \/ Publish]_ledger

Spec == Safety /\ WF_ledger(Publish)
=============================================================================
