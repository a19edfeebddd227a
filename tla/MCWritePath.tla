------------------------------- MODULE MCWritePath -------------------------------
(* The queue of writers and the levels of tables on a small instance. *)
EXTENDS WritePath

CONSTANTS t1, t2, t3  \* threads

ASSUME PathConstants == PathAssumption

------------------------
(* Three threads that write once each: a put that is large for a group, a small synced *)
(* put, or the null batch of a manual compaction; one call of the file system fails.   *)

Put(n)  == [sync |-> FALSE, size |-> n]
Sync(n) == [sync |-> TRUE, size |-> n]

ThreeThreads == {t1, t2, t3}
ThreeRequests == {Put(2), Sync(1), Put(0)}

------------------------
(* Three writes to two keys, one snapshot, one CompactRange(NULL, NULL), one charged    *)
(* seek.                                                                                *)

AllKeys == {<<0, 9>>}
=============================================================================
