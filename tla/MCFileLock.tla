------------------------------- MODULE MCFileLock -------------------------------
(* Three openers in two processes. *)
EXTENDS FileLock

AnyHome == [Openers -> Processes]
=============================================================================
