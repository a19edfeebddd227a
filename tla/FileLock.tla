------------------------------- MODULE FileLock -------------------------------
(***************************************************************************)
(* The lock that keeps a database to one opener.  The environment has the  *)
(* kernel's lock against other processes (fcntl, owned by the process and  *)
(* dropped when the process closes any descriptor of the file) and a table *)
(* of its own against other threads of the process.                        *)
(***************************************************************************)
EXTENDS Integers

CONSTANTS
  Openers,    \* threads that open the database and close it again
  Processes,
  Homes,      \* [Openers -> Processes] the openers may live in
  MaxCalls,   \* bound: calls of LockFile
  Nil

\* What the constants have to satisfy; the modules of the runs assume it.
LockAssumption == Homes \subseteq [Openers -> Processes] /\ MaxCalls \in Nat

VARIABLES
  home,          \* the process of each opener
  pc,            \* where it is in LockFile or UnlockFile
  descriptors,   \* the openers that have a descriptor of the file
  locked_files_, \* the processes whose table has the file
  kernel,        \* the process with the kernel's lock, or Nil
  calls

vars == <<home, pc, descriptors, locked_files_, kernel, calls>>

Init ==
  /\ home \in Homes
  /\ pc = [o \in Openers |-> "idle"]
  /\ descriptors = {} /\ locked_files_ = {} /\ kernel = Nil /\ calls = 0

Goto(o, label) == pc' = [pc EXCEPT ![o] = label]

------------------------
(* LockFile. *)

Open(o) ==
  /\ pc[o] = "idle" /\ calls < MaxCalls
  /\ calls' = calls + 1
  /\ \/ descriptors' = descriptors \union {o} /\ Goto(o, "opened")
     \/ UNCHANGED <<descriptors, pc>>            \* open fails
  /\ UNCHANGED <<home, locked_files_, kernel>>

\* Mutant: an entry that is there already is no obstacle.
InsertInTable_Ignored(o) ==
  /\ pc[o] = "opened"
  /\ locked_files_' = locked_files_ \union {home[o]}
  /\ Goto(o, "inserted")
  /\ UNCHANGED <<home, descriptors, kernel, calls>>

InsertInTable(o) ==
  /\ pc[o] = "opened"
  /\ locked_files_' = locked_files_ \union {home[o]}
  /\ Goto(o, IF home[o] \in locked_files_ THEN "heldByProcess" ELSE "inserted")
  /\ UNCHANGED <<home, descriptors, kernel, calls>>

\* Mutant: the kernel's refusal is not looked at.
Lock_Ignored(o) ==
  /\ pc[o] = "inserted"
  /\ kernel' = IF kernel = Nil THEN home[o] ELSE kernel
  /\ Goto(o, "holding")
  /\ UNCHANGED <<home, descriptors, locked_files_, calls>>

\* Mutant: F_SETLKW, which waits for the lock.
Lock_Waits(o) ==
  /\ pc[o] = "inserted" /\ kernel \in {Nil, home[o]}
  /\ kernel' = home[o] /\ Goto(o, "holding")
  /\ UNCHANGED <<home, descriptors, locked_files_, calls>>

Lock(o) ==
  /\ pc[o] = "inserted"
  /\ IF kernel \in {Nil, home[o]}
     THEN kernel' = home[o] /\ Goto(o, "holding")
     ELSE UNCHANGED kernel /\ Goto(o, "refused")
  /\ UNCHANGED <<home, descriptors, locked_files_, calls>>

\* Mutant: after a refusal the table keeps the file.
Close_NoRemove(o) ==
  /\ pc[o] \in {"heldByProcess", "refused", "removed"}
  /\ descriptors' = descriptors \ {o}
  /\ kernel' = IF kernel = home[o] THEN Nil ELSE kernel
  /\ Goto(o, "idle")
  /\ UNCHANGED <<home, locked_files_, calls>>

\* close: the process loses its lock on the file, whoever of its threads took it.
Close(o) ==
  /\ pc[o] \in {"heldByProcess", "refused", "removed"}
  /\ descriptors' = descriptors \ {o}
  /\ kernel' = IF kernel = home[o] THEN Nil ELSE kernel
  /\ Goto(o, IF pc[o] = "refused" THEN "closed" ELSE "idle")
  /\ UNCHANGED <<home, locked_files_, calls>>

Remove(o) ==
  /\ pc[o] \in {"closed", "unlocked"}
  /\ locked_files_' = locked_files_ \ {home[o]}
  /\ Goto(o, IF pc[o] = "closed" THEN "idle" ELSE "removed")
  /\ UNCHANGED <<home, descriptors, kernel, calls>>

\* UnlockFile: the kernel's lock, the table, the descriptor, in this order.
Unlock(o) ==
  /\ pc[o] = "holding"
  /\ kernel' = IF kernel = home[o] THEN Nil ELSE kernel
  /\ Goto(o, "unlocked")
  /\ UNCHANGED <<home, descriptors, locked_files_, calls>>

ProcessDies(p) ==
  /\ \E o \in Openers : home[o] = p /\ pc[o] # "idle"
  /\ pc' = [o \in Openers |-> IF home[o] = p THEN "idle" ELSE pc[o]]
  /\ descriptors' = {o \in descriptors : home[o] # p}
  /\ locked_files_' = locked_files_ \ {p}
  /\ kernel' = IF kernel = p THEN Nil ELSE kernel
  /\ UNCHANGED <<home, calls>>

Step(o) == InsertInTable(o) \/ Lock(o) \/ Close(o) \/ Remove(o)
Next == (\E o \in Openers : Open(o) \/ Unlock(o) \/ Step(o)) \/ \E p \in Processes : ProcessDies(p)

Spec == Init /\ [][Next]_vars
FairSpec == Spec /\ \A o \in Openers : WF_vars(Step(o))

------------------------
(* Properties. *)

Holders == {o \in Openers : pc[o] = "holding"}

TypeOK ==
  /\ home \in Homes /\ kernel \in Processes \union {Nil} /\ calls \in 0 .. MaxCalls
  /\ descriptors \subseteq Openers /\ locked_files_ \subseteq Processes
  /\ pc \in [Openers -> {"idle", "opened", "inserted", "heldByProcess", "holding", "refused",
                         "closed", "unlocked", "removed"}]

\* "fcntl(F_SETLK) does not provide any protection against multiple uses from the same
\* process" (PosixLockTable): the table does, in every order of locking and unlocking.
OneHolderPerProcess == \A o, q \in Holders : home[o] = home[q] => o = q

\* Processes that each use the file from one thread never hold it together.
OneHolderAmongProcesses ==
  (\A o, q \in Openers : home[o] = home[q] => o = q) => \A o, q \in Holders : o = q

\* No failed call and no death leaves the lock taken: when nobody holds it or is about
\* to, the next call gets it.
FreeWhenIdle ==
  (\A o \in Openers : pc[o] = "idle") =>
    locked_files_ = {} /\ kernel = Nil /\ descriptors = {}

\* LockFile and UnlockFile return.
CallsReturn == \A o \in Openers : pc[o] \notin {"idle", "holding"} ~> pc[o] \in {"idle", "holding"}

\* "Only a single process (possibly multi-threaded) can access a particular database at a
\* time" (README.md): the processes of those who hold the lock are one.
OneProcessAtATime == \A o, q \in Holders : home[o] = home[q]
===============================================================================
