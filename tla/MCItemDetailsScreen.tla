--------------------------- MODULE MCItemDetailsScreen ---------------------------
(* Values for the constants of ItemDetailsScreen that a .cfg cannot write. *)
EXTENDS ItemDetailsScreen

TextAndRating == <<"review", "rating">>
=============================================================================
