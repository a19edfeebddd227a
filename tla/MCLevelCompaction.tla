--------------------------- MODULE MCLevelCompaction ---------------------------
(* Values for the constants of LevelCompaction that a .cfg cannot write. *)
EXTENDS LevelCompaction

\* CompactRange(NULL, NULL).
AllKeys == {<<0, 9>>}
=============================================================================
