----------------------------- MODULE MCNearbyVenues -----------------------------
(* Values for the constants of NearbyVenues that a .cfg cannot write. *)
EXTENDS NearbyVenues, TLC

CONSTANTS v1, v2

NoneOrTwo == {<<>>, <<v1, v2>>}
TwoVenues == {<<v1, v2>>}
OneVenue == {<<v1>>}
=============================================================================
