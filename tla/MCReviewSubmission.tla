--------------------------- MODULE MCReviewSubmission ---------------------------
(* Values for the constants of ReviewSubmission that a .cfg cannot write. *)
EXTENDS ReviewSubmission, TLC

AllFields  == <<"date", "review", "rating">>
RatingOnly == <<"rating">>
DateOnly   == <<"date">>
=============================================================================
