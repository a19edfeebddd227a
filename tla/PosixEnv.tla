------------------------------- MODULE PosixEnv -------------------------------
(***************************************************************************)
(* Two services of the environment.  Schedule hands work to one background *)
(* thread through a queue and a condition variable.  NewRandomAccessFile   *)
(* maps a file, or keeps a descriptor of it, or opens it for every read,   *)
(* as two limiters allow; they are read without their mutex first.         *)
(***************************************************************************)
EXTENDS Integers, Sequences, FiniteSets

CONSTANTS
  Users,                  \* threads that open files, read and close them
  MaxMmaps, MaxOpenFiles, \* the limits of mmap_limit_ and fd_limit_
  MaxItems,               \* bound: calls of Schedule
  MaxOpens                \* bound: calls of NewRandomAccessFile

\* What the constants have to satisfy; the modules of the runs assume it.
EnvAssumption ==
  MaxMmaps \in Nat /\ MaxOpenFiles \in Nat /\ MaxItems \in Nat /\ MaxOpens \in Nat

VARIABLES
  queue_, background, scheduled, ran,  \* the thread: "none", "ready", "waiting", "running"
  file,                                \* what each user has, or where it is in opening it
  descriptors,                         \* the users that have a descriptor open
  allowed, opens

work == <<queue_, background, scheduled, ran>>
files == <<file, descriptors, allowed, opens>>
vars == <<work, files>>

Init ==
  /\ queue_ = << >> /\ background = "none" /\ scheduled = 0 /\ ran = << >>
  /\ file = [u \in Users |-> "none"] /\ descriptors = {} /\ opens = 0
  /\ allowed = [map |-> MaxMmaps, fd |-> MaxOpenFiles]

------------------------
(* The background thread. *)

\* Mutant: a waiting thread is not signalled.
Schedule_NoSignal ==
  /\ scheduled < MaxItems
  /\ background' = IF background = "none" THEN "ready" ELSE background
  /\ scheduled' = scheduled + 1
  /\ queue_' = Append(queue_, scheduled + 1)
  /\ UNCHANGED <<ran, files>>

Schedule ==
  /\ scheduled < MaxItems
  /\ background' = CASE background = "none" -> "ready"
                     [] background = "waiting" /\ queue_ = << >> -> "ready"
                     [] OTHER -> background
  /\ scheduled' = scheduled + 1
  /\ queue_' = Append(queue_, scheduled + 1)
  /\ UNCHANGED <<ran, files>>

\* Mutant: the last item is taken.
TakeItem_Last ==
  /\ background = "ready" /\ queue_ # << >>
  /\ background' = "running" /\ ran' = Append(ran, queue_[Len(queue_)])
  /\ queue_' = SubSeq(queue_, 1, Len(queue_) - 1)
  /\ UNCHANGED <<scheduled, files>>

\* BGThread has the mutex: it takes the first item or waits.
TakeItem ==
  /\ background = "ready" /\ queue_ # << >>
  /\ background' = "running" /\ ran' = Append(ran, Head(queue_)) /\ queue_' = Tail(queue_)
  /\ UNCHANGED <<scheduled, files>>

Wait ==
  /\ background = "ready" /\ queue_ = << >>
  /\ background' = "waiting" /\ UNCHANGED <<queue_, scheduled, ran, files>>

\* pthread_cond_wait may also return unsignalled.
WakeUp == background = "waiting" /\ background' = "ready" /\ UNCHANGED <<queue_, scheduled, ran, files>>

ItemReturns == background = "running" /\ background' = "ready" /\ UNCHANGED <<queue_, scheduled, ran, files>>

------------------------
(* Random-access files. *)

Goto(u, place) == file' = [file EXCEPT ![u] = place]

Open(u) ==
  /\ file[u] = "none" /\ opens < MaxOpens
  /\ opens' = opens + 1
  /\ \/ Goto(u, "opened") /\ descriptors' = descriptors \union {u}
     \/ UNCHANGED <<file, descriptors>>          \* no such file
  /\ UNCHANGED <<allowed, work>>

\* Limiter::Acquire, the load before the mutex: nothing left, no lock.
Try(u) ==
  /\ file[u] \in {"opened", "notMapped"}
  /\ Goto(u, CASE file[u] = "opened" /\ allowed.map > 0 -> "mapTried"
               [] file[u] = "opened" /\ allowed.map <= 0 -> "notMapped"
               [] file[u] = "notMapped" /\ allowed.fd > 0 -> "fdTried"
               [] OTHER -> "unlimited")
  /\ UNCHANGED <<descriptors, allowed, opens, work>>

\* Mutant: the load before the mutex is believed.
AcquireMap_Unchecked(u) ==
  /\ file[u] = "mapTried"
  /\ Goto(u, "mapping")
  /\ allowed' = [allowed EXCEPT !.map = @ - 1]
  /\ UNCHANGED <<descriptors, opens, work>>

\* The second load, under it.
AcquireMap(u) ==
  /\ file[u] = "mapTried"
  /\ Goto(u, IF allowed.map > 0 THEN "mapping" ELSE "notMapped")
  /\ allowed' = [allowed EXCEPT !.map = IF @ > 0 THEN @ - 1 ELSE @]
  /\ UNCHANGED <<descriptors, opens, work>>

AcquireDescriptor(u) ==
  /\ file[u] = "fdTried"
  /\ Goto(u, IF allowed.fd > 0 THEN "descriptor" ELSE "unlimited")
  /\ allowed' = [allowed EXCEPT !.fd = IF @ > 0 THEN @ - 1 ELSE @]
  /\ UNCHANGED <<descriptors, opens, work>>

\* The descriptor is closed either way; when there is no size or no map, the
\* limiter gets its unit back.
Map(u) ==
  /\ file[u] = "mapping"
  /\ descriptors' = descriptors \ {u}
  /\ \/ Goto(u, "mapped") /\ UNCHANGED allowed
     \/ Goto(u, "none") /\ allowed' = [allowed EXCEPT !.map = @ + 1]
  /\ UNCHANGED <<opens, work>>

CloseUnlimited(u) ==
  /\ file[u] = "unlimited"
  /\ descriptors' = descriptors \ {u} /\ Goto(u, "temporary")
  /\ UNCHANGED <<allowed, opens, work>>

\* PosixRandomAccessFile::Read without a descriptor of its own.
BeginRead(u) ==
  /\ file[u] = "temporary"
  /\ Goto(u, "reading") /\ descriptors' = descriptors \union {u}
  /\ UNCHANGED <<allowed, opens, work>>

EndRead(u) ==
  /\ file[u] = "reading"
  /\ Goto(u, "temporary") /\ descriptors' = descriptors \ {u}
  /\ UNCHANGED <<allowed, opens, work>>

Destroy(u) ==
  /\ file[u] \in {"mapped", "descriptor", "temporary"}
  /\ Goto(u, "none")
  /\ descriptors' = descriptors \ {u}
  /\ allowed' = CASE file[u] = "mapped" -> [allowed EXCEPT !.map = @ + 1]
                  [] file[u] = "descriptor" -> [allowed EXCEPT !.fd = @ + 1]
                  [] OTHER -> allowed
  /\ UNCHANGED <<opens, work>>

Opening(u) == Try(u) \/ AcquireMap(u) \/ AcquireDescriptor(u) \/ Map(u) \/ CloseUnlimited(u)

Next ==
  \/ Schedule \/ TakeItem \/ Wait \/ WakeUp \/ ItemReturns
  \/ \E u \in Users : Open(u) \/ Opening(u) \/ BeginRead(u) \/ EndRead(u) \/ Destroy(u)

Spec == Init /\ [][Next]_vars
\* A spurious wake-up is nobody's duty.
FairSpec == Spec /\ WF_vars(TakeItem) /\ WF_vars(Wait) /\ WF_vars(ItemReturns)

------------------------
(* Properties. *)

TypeOK ==
  /\ background \in {"none", "ready", "waiting", "running"} /\ scheduled \in 0 .. MaxItems
  /\ descriptors \subseteq Users /\ opens \in 0 .. MaxOpens
  /\ allowed \in [map : Int, fd : Int]

In(places) == Cardinality({u \in Users : file[u] \in places})

\* The limits hold however the unlocked loads of Acquire interleave, every unit comes
\* back, and beyond the limit a descriptor lasts only as long as a call.
LimitsHold ==
  /\ allowed.map >= 0 /\ allowed.map + In({"mapping", "mapped"}) = MaxMmaps
  /\ allowed.fd >= 0 /\ allowed.fd + In({"descriptor"}) = MaxOpenFiles
  /\ \A u \in descriptors : file[u] \notin {"none", "mapped", "temporary"}

\* Work runs in the order it was scheduled, each item once.
WorkInOrder == ran \o queue_ = [i \in 1 .. scheduled |-> i]

\* Whatever is scheduled is run: no signal is lost between the test and the wait.
WorkIsDone == \A n \in 1 .. MaxItems : scheduled >= n ~> Len(ran) >= n
===============================================================================
