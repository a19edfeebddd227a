--------------------------- MODULE WritePathProofs ---------------------------
(***************************************************************************)
(* The queue of writers and the background thread, for any number of       *)
(* threads, writes and failures: who waits is attended, nothing succeeds   *)
(* after a failed sync, and what Write answers is what the log and the     *)
(* memtables hold.                                                         *)
(***************************************************************************)
EXTENDS WritePath, NaturalsBySets, FiniteSetTheorems, SequenceTheorems, TLAPS

\* t is in front: it makes room, writes for the group, or waits for the background thread.
InFront(t) == pc[t] \notin {"idle", "waiting"}

\* t's write is not decided yet.
Pending(t) == InFront(t) \/ (pc[t] = "waiting" /\ result[t] = Nil)

Writing == {"logging", "syncing", "inserting", "inserted", "logFailed", "syncFailed"}

TypeInv ==
  /\ queue \in Seq(Threads) /\ members \in Nat
  /\ pc \in [Threads -> Stages]
  /\ result \in [Threads -> {Nil, "ok", "error"}]

\* Who is pending is in the queue; who is in front is the first of it.
PendingIsQueued ==
  \A t \in Threads : Pending(t) => \E i \in 1..Len(queue) : queue[i] = t
FrontIsFirst == \A t \in Threads : InFront(t) => Head(queue) = t
QueueInv == TypeInv /\ PendingIsQueued /\ FrontIsFirst

\* Work that is there is scheduled, and nothing is at work in a closed store.
ActiveIsOpen == \A t \in Threads : pc[t] # "idle" => closing = "open"
WorkIsScheduled ==
  closing = "open" /\ error = Nil /\ (imm # Nil \/ level0 >= L0Trigger) => scheduled
BackgroundIsScheduled == bg # "idle" => scheduled
ScheduleInv ==
  /\ level0 \in Nat /\ scheduled \in BOOLEAN /\ ActiveIsOpen /\ WorkIsScheduled /\ BackgroundIsScheduled
  /\ StalledIsScheduled /\ ClosedIsQuiet

\* A sync fails in the hands of the only writer.
SyncErrorEndsWriting == error = "sync" => \A t \in Threads : pc[t] \notin Writing

------------------------
LEMMA GroupSizeIsNat == ASSUME TypeInv PROVE GroupSize \in Nat
<1>1. Len(queue) \in Nat
  BY LenProperties DEF TypeInv
<1>2. IsFiniteSet(1..Len(queue))
  BY <1>1, FS_Interval
<1>3. {n \in 1..Len(queue) : \A i \in 2..n : Fits(i)} \in SUBSET (1..Len(queue))
  OBVIOUS
<1> QED BY <1>2, <1>3, FS_Subset, FS_CardinalityType DEF GroupSize

LEMMA SubSeqOfQueue ==
  ASSUME NEW q \in Seq(Threads), NEW n \in Nat
  PROVE  /\ SubSeq(q, n + 1, Len(q)) \in Seq(Threads)
         /\ \A i \in n + 1..Len(q) :
              \E j \in 1..Len(SubSeq(q, n + 1, Len(q))) : SubSeq(q, n + 1, Len(q))[j] = q[i]
<1> DEFINE rest == SubSeq(q, n + 1, Len(q))
<1>1. Len(q) \in Nat /\ \A i \in 1..Len(q) : q[i] \in Threads
  BY LenProperties, ElementOfSeq
<1>2. /\ rest \in Seq(Threads)
      /\ Len(rest) = IF n + 1 <= Len(q) THEN Len(q) - (n + 1) + 1 ELSE 0
      /\ \A i \in 1..Len(q) - (n + 1) + 1 : rest[i] = q[n + 1 + i - 1]
  BY <1>1, SubSeqProperties
<1>3. ASSUME NEW i \in n + 1..Len(q) PROVE \E j \in 1..Len(rest) : rest[j] = q[i]
  <2>1. i - n \in 1 .. Len(rest) /\ rest[i - n] = q[i]
    BY <1>1, <1>2
  <2> QED BY <2>1
<1> QED BY <1>2, <1>3

\* What Finish leaves: the others' writes are decided or still queued.
LEMMA AfterFinish ==
  ASSUME TypeInv, PendingIsQueued, NEW t \in Threads, Head(queue) = t, NEW n \in Nat,
         NEW status \in {"ok", "error"}, Nil \notin {"ok", "error"}, Finish(t, n, status)
  PROVE  /\ queue' \in Seq(Threads) /\ members' = 0
         /\ result' \in [Threads -> {Nil, "ok", "error"}]
         /\ \A u \in Threads \ {t} : Pending(u) =>
              result'[u] # Nil \/ \E i \in 1..Len(queue') : queue'[i] = u
<1>1. queue' = SubSeq(queue, n + 1, Len(queue)) /\ members' = 0
  BY DEF Finish
<1>2. result' = [u \in Threads |-> IF u \in {queue[i] : i \in 2..n} THEN status ELSE result[u]]
  BY DEF Finish
<1>3. ASSUME NEW u \in Threads \ {t}, Pending(u)
      PROVE  result'[u] # Nil \/ \E i \in 1..Len(queue') : queue'[i] = u
  <2>1. PICK i \in 1..Len(queue) : queue[i] = u
    BY <1>3 DEF PendingIsQueued
  <2>2. i # 1 /\ Len(queue) \in Nat
    BY <2>1, <1>3, LenProperties DEF TypeInv
  <2>3. CASE i \in 2..n
    <3>1. u \in {queue[j] : j \in 2..n} BY <2>1, <2>3
    <3>2. result'[u] = status BY <1>2, <3>1
    <3> QED BY <3>2
  <2>4. CASE i \in n + 1..Len(queue)
    <3>1. \E j \in 1..Len(SubSeq(queue, n + 1, Len(queue))) :
            SubSeq(queue, n + 1, Len(queue))[j] = queue[i]
      BY <2>4, SubSeqOfQueue DEF TypeInv
    <3> QED BY <1>1, <2>1, <3>1
  <2> QED BY <2>2, <2>3, <2>4
<1> QED BY <1>1, <1>2, <1>3, SubSeqOfQueue DEF TypeInv

------------------------
(* The queue. *)

\* The front thread leaves.
LEMMA LeavingKeepsQueue ==
  ASSUME QueueInv, Nil \notin {"ok", "error"}, NEW t \in Threads, InFront(t),
         NEW n \in Nat, NEW status \in {"ok", "error"}, Finish(t, n, status),
         pc' = [pc EXCEPT ![t] = "idle"]
  PROVE  QueueInv'
<1> USE DEF QueueInv, InFront
<1>1. Head(queue) = t
  BY DEF FrontIsFirst
<1>2. /\ queue' \in Seq(Threads) /\ members' = 0
      /\ result' \in [Threads -> {Nil, "ok", "error"}]
      /\ \A u \in Threads \ {t} : Pending(u) =>
           result'[u] # Nil \/ \E i \in 1..Len(queue') : queue'[i] = u
  BY <1>1, AfterFinish
<1>3. \A u \in Threads : ~InFront(u)'
  BY <1>1 DEF FrontIsFirst, TypeInv, Stages
<1>4. pc' \in [Threads -> Stages]
  BY DEF TypeInv, Stages
<1>5. ASSUME NEW u \in Threads, Pending(u)' PROVE \E i \in 1..Len(queue') : queue'[i] = u
  <2>1. pc'[u] = "waiting" /\ result'[u] = Nil
    BY <1>3, <1>5 DEF Pending
  <2>2. u # t /\ pc[u] = "waiting"
    BY <2>1 DEF TypeInv
  <2>3. Pending(u)
    <3>1. result[u] = Nil BY <2>1 DEF Finish, TypeInv
    <3> QED BY <2>2, <3>1 DEF Pending
  <2> QED BY <1>2, <2>1, <2>2, <2>3
<1>6. TypeInv'
  BY <1>2, <1>4 DEF TypeInv
<1> QED BY <1>3, <1>5, <1>6 DEF PendingIsQueued, FrontIsFirst

\* The front thread goes on to another stage.
LEMMA MovingKeepsQueue ==
  ASSUME QueueInv, NEW t \in Threads, InFront(t), NEW stage \in Stages \ {"idle", "waiting"},
         pc' = [pc EXCEPT ![t] = stage], UNCHANGED <<queue, result>>, members' \in Nat
  PROVE  QueueInv'
BY DEF QueueInv, TypeInv, PendingIsQueued, FrontIsFirst, Pending, InFront, Stages

\* A stalled front thread looks again.
LEMMA WakingKeepsQueue ==
  ASSUME QueueInv, pc' \in {pc, WakeStalled}, UNCHANGED <<queue, result, members>>
  PROVE  QueueInv'
BY DEF QueueInv, TypeInv, PendingIsQueued, FrontIsFirst, Pending, InFront, Stages, WakeStalled

LEMMA BackgroundKeepsQueue == ASSUME QueueInv, Background PROVE QueueInv'
<1>1. pc' \in {pc, WakeStalled} /\ UNCHANGED <<queue, result, members>>
  BY DEF Background, BackgroundCall, Flush, FlushInMerge, Merge, RecordBackgroundError,
         BackgroundEnds, queueVars, threadVars
<1> QED BY <1>1, WakingKeepsQueue

LEMMA CallKeepsQueue ==
  ASSUME QueueInv, NEW t \in Threads, NEW r \in Requests, Call(t, r) PROVE QueueInv'
<1> USE DEF QueueInv, TypeInv, PendingIsQueued, FrontIsFirst, Pending, InFront, Stages
<1>1. /\ queue' = Append(queue, t) /\ result' = [result EXCEPT ![t] = Nil]
      /\ pc' = [pc EXCEPT ![t] = IF queue = <<>> THEN "room" ELSE "waiting"]
      /\ pc[t] = "idle" /\ members' = members
  BY DEF Call
<1>2. /\ Len(queue) \in Nat /\ Len(queue') = Len(queue) + 1 /\ queue' \in Seq(Threads)
      /\ queue'[Len(queue) + 1] = t
      /\ \A i \in 1..Len(queue) : queue'[i] = queue[i]
  BY <1>1, LenProperties
<1>3. queue = <<>> => Head(queue') = t /\ \A u \in Threads \ {t} : ~Pending(u)
  BY <1>1
<1>4. queue # <<>> => Head(queue') = Head(queue)
  <2>1. queue # <<>> => Len(queue) \in Nat \ {0}
    BY EmptySeq
  <2>2. Head(queue') = queue'[1] /\ Head(queue) = queue[1]
    BY <1>1
  <2> QED BY <1>2, <2>1, <2>2
<1>5. ASSUME NEW u \in Threads, Pending(u)' PROVE \E i \in 1..Len(queue') : queue'[i] = u
  <2>1. CASE u = t
    BY <1>2, <2>1
  <2>2. CASE u # t
    <3>1. Pending(u) BY <1>1, <1>5, <2>2
    <3>2. PICK i \in 1..Len(queue) : queue[i] = u BY <3>1
    <3> QED BY <1>2, <3>2
  <2> QED BY <2>1, <2>2
<1>6. \A u \in Threads : InFront(u)' => Head(queue') = u
  BY <1>1, <1>3, <1>4
<1>7. TypeInv'
  BY <1>1, <1>2
<1> QED BY <1>5, <1>6, <1>7

LEMMA WakeKeepsQueue == ASSUME QueueInv, NEW t \in Threads, Wake(t) PROVE QueueInv'
BY DEF QueueInv, TypeInv, PendingIsQueued, FrontIsFirst, Pending, InFront, Stages, Wake,
       queueVars

LEMMA QueueStep ==
  ASSUME WriteQueueAssumption, QueueInv, [Next]_vars PROVE QueueInv'
<1>0. Nil \notin {"ok", "error"} /\ GroupSize \in Nat /\ members \in Nat
  BY GroupSizeIsNat DEF WriteQueueAssumption, QueueInv, TypeInv
<1>1. ASSUME NEW t \in Threads, Step(t) PROVE QueueInv'
  <2>1. CASE Wake(t)
    BY <2>1, WakeKeepsQueue
  <2>2. CASE RoomError(t)
    BY <1>0, <2>2, LeavingKeepsQueue DEF RoomError, InFront
  <2>3. CASE RoomSleep(t) \/ Slept(t) \/ RoomStall(t)
    BY <1>0, <2>3, MovingKeepsQueue
    DEF RoomSleep, Slept, RoomStall, InFront, Stages, queueVars, threadVars
  <2>4. CASE RoomFound(t)
    BY <1>0, <2>4, MovingKeepsQueue DEF RoomFound, InFront, Stages, threadVars
  <2>5. CASE RoomSwitch(t)
    <3>1. CASE Finish(t, 1, "ok") /\ pc' = [pc EXCEPT ![t] = "idle"]
      BY <1>0, <2>5, <3>1, LeavingKeepsQueue DEF RoomSwitch, InFront
    <3>2. CASE Finish(t, 1, "error") /\ pc' = [pc EXCEPT ![t] = "idle"]
      BY <1>0, <2>5, <3>2, LeavingKeepsQueue DEF RoomSwitch, InFront
    <3>3. CASE /\ pc' = [pc EXCEPT ![t] = "logging"] /\ members' = GroupSize
               /\ UNCHANGED <<queue, threadVars>>
      BY <1>0, <2>5, <3>3, MovingKeepsQueue DEF RoomSwitch, InFront, Stages, threadVars
    <3> QED BY <2>5, <3>1, <3>2, <3>3 DEF RoomSwitch
  <2>6. CASE LogRecord(t) \/ SyncLog(t) \/ Insert(t)
    <3>1. PICK stage \in Stages \ {"idle", "waiting"} : pc' = [pc EXCEPT ![t] = stage]
      BY <2>6 DEF LogRecord, SyncLog, Insert, Stages
    <3>2. InFront(t) /\ UNCHANGED <<queue, result, members>>
      BY <2>6 DEF LogRecord, SyncLog, Insert, InFront, queueVars, threadVars
    <3> QED BY <1>0, <3>1, <3>2, MovingKeepsQueue
  <2>7. CASE Publish(t)
    <3>1. PICK status \in {"ok", "error"} : Finish(t, members, status)
      BY <2>7 DEF Publish
    <3>2. InFront(t) /\ pc' = [pc EXCEPT ![t] = "idle"]
      BY <2>7 DEF Publish, InFront
    <3> QED BY <1>0, <3>1, <3>2, LeavingKeepsQueue
  <2> QED BY <1>1, <2>1, <2>2, <2>3, <2>4, <2>5, <2>6, <2>7 DEF Step
<1>2. CASE Close \/ Closed \/ UNCHANGED vars
  <2>1. pc' = pc /\ UNCHANGED <<queue, result, members>>
    BY <1>2 DEF Close, Closed, vars, queueVars, threadVars
  <2> QED BY <2>1, WakingKeepsQueue
<1> QED BY <1>1, <1>2, CallKeepsQueue, BackgroundKeepsQueue DEF Next

LEMMA QueueInvariant == ASSUME WriteQueueAssumption PROVE Spec => []QueueInv
<1>1. Init => QueueInv
  BY EmptySeq DEF Init, QueueInv, TypeInv, PendingIsQueued, FrontIsFirst, Pending, InFront, Stages
<1>2. QueueInv /\ [Next]_vars => QueueInv'
  BY QueueStep
<1> QED BY <1>1, <1>2, PTL DEF Spec

------------------------
(* The background thread. *)

LEMMA ScheduleStep ==
  ASSUME WriteQueueAssumption, QueueInv, ScheduleInv, [Next]_vars PROVE ScheduleInv'
<1> USE DEF WriteQueueAssumption, QueueInv, TypeInv, ScheduleInv, ActiveIsOpen, WorkIsScheduled,
            BackgroundIsScheduled, StalledIsScheduled, ClosedIsQuiet, MaybeSchedule, WakeStalled
<1>1. ASSUME NEW t \in Threads, NEW r \in Requests, Call(t, r) PROVE ScheduleInv'
  BY <1>1 DEF Call, bgVars
<1>2. ASSUME NEW t \in Threads, Step(t) PROVE ScheduleInv'
  <2>1. CASE Wake(t)
    BY <2>1 DEF Wake, bgVars
  <2>2. CASE RoomError(t)
    BY <2>2 DEF RoomError, bgVars
  <2>3. CASE RoomSleep(t) \/ Slept(t)
    BY <2>3 DEF RoomSleep, Slept, bgVars
  <2>4. CASE RoomFound(t)
    BY <2>4 DEF RoomFound, bgVars
  <2>5. CASE RoomStall(t)
    \* What it waits for is work, and t has kept the store open: it is scheduled.
    BY <2>5 DEF RoomStall, bgVars
  <2>6. CASE RoomSwitch(t)
    <3>1. /\ closing = "open" /\ error = Nil /\ UNCHANGED <<level0, bg, error, closing>>
          /\ pc' \in {[pc EXCEPT ![t] = "idle"], [pc EXCEPT ![t] = "logging"]}
      BY <2>6 DEF RoomSwitch
    <3>2. scheduled' = (scheduled \/ imm' # Nil \/ level0 >= L0Trigger) \/ UNCHANGED <<imm, scheduled>>
      BY <2>6, <3>1, Zenon DEF RoomSwitch
    <3>3. /\ scheduled' \in BOOLEAN /\ (scheduled => scheduled')
          /\ (imm' # Nil \/ level0 >= L0Trigger) => scheduled'
      BY <3>1, <3>2
    <3> QED BY <3>1, <3>3
  <2>7. CASE LogRecord(t) \/ SyncLog(t) \/ Insert(t)
    BY <2>7 DEF LogRecord, SyncLog, Insert, bgVars
  <2>8. CASE Publish(t)
    BY <2>8 DEF Publish, bgVars
  <2> QED BY <1>2, <2>1, <2>2, <2>3, <2>4, <2>5, <2>6, <2>7, <2>8 DEF Step
<1>3. CASE BackgroundCall
  BY <1>3 DEF BackgroundCall
<1>4. CASE Flush
  BY <1>4 DEF Flush, CompactMemTable
<1>5. CASE FlushInMerge
  BY <1>5 DEF FlushInMerge, CompactMemTable
<1>6. CASE Merge
  BY <1>6 DEF Merge, RecordBackgroundError
<1>7. CASE BackgroundEnds
  BY <1>7 DEF BackgroundEnds
<1>8. CASE Close \/ Closed
  BY <1>8 DEF Close, Closed, bgVars
<1>9. CASE UNCHANGED vars
  BY <1>9 DEF vars, bgVars
<1> QED BY <1>1, <1>2, <1>3, <1>4, <1>5, <1>6, <1>7, <1>8, <1>9 DEF Next, Background

LEMMA ScheduleInvariant == ASSUME WriteQueueAssumption PROVE Spec => []ScheduleInv
<1>0. L0Trigger \in Nat /\ L0Trigger > 0
  BY DEF WriteQueueAssumption
<1>1. Init => ScheduleInv
  <2> SUFFICES ASSUME Init PROVE ScheduleInv OBVIOUS
  <2>1. /\ level0 = 0 /\ imm = Nil /\ ~scheduled /\ scheduled \in BOOLEAN /\ bg = "idle" /\ closing = "open"
        /\ \A t \in Threads : pc[t] = "idle"
    BY DEF Init
  <2> QED BY <1>0, <2>1 DEF ScheduleInv, ActiveIsOpen, WorkIsScheduled, BackgroundIsScheduled,
                            StalledIsScheduled, ClosedIsQuiet
<1>2. QueueInv /\ ScheduleInv /\ [Next]_vars => ScheduleInv'
  BY ScheduleStep
<1> QED BY <1>1, <1>2, QueueInvariant, PTL DEF Spec

\* A front thread that waits for the background thread (MakeRoomForWrite, bg_cv_.Wait) has
\* it scheduled, through every error, shutdown and switch of memtables.
THEOREM StalledIsAttended == ASSUME WriteQueueAssumption PROVE Spec => []StalledIsScheduled
<1>1. ScheduleInv => StalledIsScheduled
  BY DEF ScheduleInv
<1> QED BY <1>1, ScheduleInvariant, PTL

\* When the destructor has returned, no background call is running or will be (~DBImpl).
THEOREM DestructorWaits == ASSUME WriteQueueAssumption PROVE Spec => []ClosedIsQuiet
<1>1. ScheduleInv => ClosedIsQuiet
  BY DEF ScheduleInv
<1> QED BY <1>1, ScheduleInvariant, PTL

\* So nobody waits for work that nobody will do.
THEOREM NobodyIsForgotten == ASSUME WriteQueueAssumption PROVE Spec => []QueueIsAttended
<1>1. StalledIsScheduled /\ ClosedIsQuiet => QueueIsAttended
  BY DEF QueueIsAttended
<1> QED BY <1>1, StalledIsAttended, DestructorWaits, PTL

------------------------
(* After a failed sync. *)

LEMMA SyncErrorStep ==
  ASSUME WriteQueueAssumption, QueueInv, SyncErrorEndsWriting, [Next]_vars
  PROVE  SyncErrorEndsWriting'
<1> USE DEF WriteQueueAssumption, QueueInv, TypeInv, SyncErrorEndsWriting, Writing, WakeStalled
<1>1. ASSUME NEW t \in Threads, NEW r \in Requests, Call(t, r) PROVE SyncErrorEndsWriting'
  BY <1>1 DEF Call
<1>2. ASSUME NEW t \in Threads, Step(t) PROVE SyncErrorEndsWriting'
  <2>1. CASE Wake(t)
    BY <2>1 DEF Wake
  <2>2. CASE RoomError(t) \/ RoomSleep(t) \/ Slept(t) \/ RoomStall(t)
    BY <2>2 DEF RoomError, RoomSleep, Slept, RoomStall
  <2>3. CASE RoomFound(t) \/ RoomSwitch(t)
    BY <2>3 DEF RoomFound, RoomSwitch
  <2>4. CASE LogRecord(t) \/ SyncLog(t) \/ Insert(t)
    BY <2>4 DEF LogRecord, SyncLog, Insert
  <2>5. CASE Publish(t)
    \* The thread whose sync failed was the front, and it leaves.
    BY <2>5 DEF Publish, FrontIsFirst, InFront
  <2> QED BY <1>2, <2>1, <2>2, <2>3, <2>4, <2>5 DEF Step
<1>3. CASE Background
  BY <1>3 DEF Background, BackgroundCall, Flush, FlushInMerge, Merge, CompactMemTable,
              RecordBackgroundError, BackgroundEnds
<1>4. CASE Close \/ Closed
  BY <1>4 DEF Close, Closed
<1>5. CASE UNCHANGED vars
  BY <1>5 DEF vars
<1> QED BY <1>1, <1>2, <1>3, <1>4, <1>5 DEF Next

LEMMA AnswersAfterFailedSync ==
  ASSUME WriteQueueAssumption, SyncErrorEndsWriting, Next PROVE NoAnswerAfterFailedSync
<1> SUFFICES ASSUME error = "sync"
             PROVE  acked' \ acked \subseteq {Batch(t) : t \in {u \in Threads : result[u] = "ok"}}
  BY DEF NoAnswerAfterFailedSync
<1> USE DEF WriteQueueAssumption
<1>1. ASSUME NEW t \in Threads, Step(t)
      PROVE  acked' \ acked \subseteq {Batch(u) : u \in {v \in Threads : result[v] = "ok"}}
  <2>1. CASE Wake(t)
    BY <2>1 DEF Wake, Return, answerVars
  <2>2. CASE RoomError(t)
    BY <2>2 DEF RoomError, Finish, Return
  <2>3. CASE RoomSleep(t) \/ Slept(t) \/ RoomStall(t) \/ LogRecord(t) \/ SyncLog(t) \/ Insert(t)
    BY <2>3 DEF RoomSleep, Slept, RoomStall, LogRecord, SyncLog, Insert, answerVars
  <2>4. CASE RoomFound(t) \/ RoomSwitch(t)
    BY <2>4 DEF RoomFound, RoomSwitch
  <2>5. CASE Publish(t)
    BY <2>5 DEF Publish, SyncErrorEndsWriting, Writing
  <2> QED BY <1>1, <2>1, <2>2, <2>3, <2>4, <2>5 DEF Step
<1>2. CASE Background
  BY <1>2 DEF Background, BackgroundCall, Flush, FlushInMerge, Merge, BackgroundEnds, answerVars
<1>3. CASE Close \/ Closed
  BY <1>3 DEF Close, Closed, answerVars
<1>4. ASSUME NEW t \in Threads, NEW r \in Requests, Call(t, r) PROVE acked' = acked
  BY <1>4 DEF Call, answerVars
<1> QED BY <1>1, <1>2, <1>3, <1>4 DEF Next

\* After a failed sync no write is answered with success but those that were decided
\* before it ("we force the DB into a mode where all future writes fail", DBImpl::Write).
THEOREM FailedSyncIsFinal == ASSUME WriteQueueAssumption PROVE Spec => QueueNothingAfterFailedSync
<1>1. Init => SyncErrorEndsWriting
  BY DEF Init, SyncErrorEndsWriting, Writing
<1>2. QueueInv /\ SyncErrorEndsWriting /\ [Next]_vars => SyncErrorEndsWriting'
  BY SyncErrorStep
<1>3. SyncErrorEndsWriting /\ [Next]_vars => [NoAnswerAfterFailedSync]_vars
  BY AnswersAfterFailedSync
<1> QED BY <1>1, <1>2, <1>3, QueueInvariant, PTL DEF Spec, QueueNothingAfterFailedSync

------------------------
(* What Write answers. *)

Batches == Threads \X (1..MaxWrites)
Records == [file : Nat, first : Nat, batches : Seq(Batches), synced : BOOLEAN]
Readable == mem \union tables \union IF imm = Nil THEN {} ELSE imm

DataTypes ==
  /\ request \in [Threads -> [sync : BOOLEAN, size : Nat]]
  /\ count \in [Threads -> 0 .. MaxWrites] /\ \A t \in Threads : pc[t] # "idle" => count[t] > 0
  /\ arrivals \in Seq(Batches) /\ log \in Seq(Records) /\ last \in Nat /\ logFile \in Nat
  /\ bg = "flushing" => imm # Nil

\* The queue holds only writes that are not decided yet, each once.
QueueIsPending ==
  /\ \A i \in 1..Len(queue) : Pending(queue[i])
  /\ \A i, j \in 1..Len(queue) : queue[i] = queue[j] => i = j

\* Who writes does so for the first of the queue, and syncs if one of them asked for it.
GroupIsQueued ==
  \A t \in Threads : pc[t] \in Writing =>
    /\ members \in 1..Len(queue)
    /\ \A i \in 1..members : request[queue[i]].sync => request[t].sync

HasArrived(b) == \E p \in DOMAIN arrivals : arrivals[p] = b

\* A write that is yet to be called has left no trace.
TracesAreOfCalls ==
  /\ acked \union failed \union Readable \subseteq Batches
  /\ \A b \in Batches : b \in acked \union failed \union Readable \/ HasArrived(b)
       => b[2] <= count[b[1]]

\* The group has been appended to the log.
Recorded == {"syncing", "inserting", "inserted", "syncFailed"}

Grouped(u) == \E i \in 1..members : queue[i] = u
GroupIn(stages) == \E t \in Threads : pc[t] \in stages

\* A write that is not decided has no answer and can be read only when its group has been
\* inserted; one that is decided can be read if it was told so.
AnswersInv ==
  /\ \A u \in Threads : Pending(u) /\ ~IsNull(u) =>
       /\ Batch(u) \notin acked \union failed
       /\ Batch(u) \in Readable <=> Grouped(u) /\ GroupIn({"inserted"})
  /\ \A u \in Threads : pc[u] = "waiting" /\ result[u] # Nil /\ ~IsNull(u) =>
       (Batch(u) \in Readable <=> result[u] = "ok")
  /\ AnswersAreTrue

\* The order in the sequence a, in which each batch comes once.
Has(a, b) == \E p \in DOMAIN a : a[p] = b
Before(a, b, c) == \E p, q \in DOMAIN a : p < q /\ a[p] = b /\ a[q] = c
Distinct(a) == \A p, q \in DOMAIN a : a[p] = a[q] => p = q

LoggedBefore(a, records, b) ==
  \A j \in DOMAIN records : \A k \in DOMAIN records[j].batches : Before(a, records[j].batches[k], b)
LogOrder(a, records) ==
  \A i, j \in DOMAIN records : \A k \in DOMAIN records[i].batches, l \in DOMAIN records[j].batches :
    i < j \/ (i = j /\ k < l) => Before(a, records[i].batches[k], records[j].batches[l])

\* What is logged has arrived, and each batch arrives once.
LoggedHasArrived ==
  /\ Distinct(arrivals)
  /\ \A j \in DOMAIN log : \A k \in DOMAIN log[j].batches : Has(arrivals, log[j].batches[k])

\* The batches of the queue arrived in its order, and after all that is logged before them.
QueueInOrder ==
  /\ \A i \in 1..Len(queue) : ~IsNull(queue[i]) => Has(arrivals, Batch(queue[i]))
  /\ \A i, j \in 1 .. Len(queue) : i < j /\ ~IsNull(queue[i]) /\ ~IsNull(queue[j]) =>
       Before(arrivals, Batch(queue[i]), Batch(queue[j]))
  /\ \A i \in 1 .. Len(queue) : ~IsNull(queue[i]) /\ ~(i <= members /\ GroupIn(Recorded)) =>
       LoggedBefore(arrivals, log, Batch(queue[i]))

OrderInv == LoggedHasArrived /\ QueueInOrder /\ LogOrder(arrivals, log)

\* The last record is that of the group once this is logged, and numbers are not used twice.
LogEndsInGroup ==
  /\ GroupIn(Recorded) =>
       /\ Len(log) > 0 /\ log[Len(log)].batches = Group
       /\ log[Len(log)].file = logFile /\ log[Len(log)].first = last + 1
  /\ ~GroupIn(Recorded) /\ Len(log) > 0 =>
       log[Len(log)].first + Len(log[Len(log)].batches) <= last + 1
NumbersAscend ==
  \A i \in 2..Len(log) : log[i - 1].first + Len(log[i - 1].batches) <= log[i].first
EndsInv == LogEndsInGroup /\ NumbersAscend

InLog(b, i) == \E k \in DOMAIN log[i].batches : log[i].batches[k] = b

\* A write that asked for a sync and is told that it went well is on the disk.
SyncsInv ==
  /\ \A t \in Threads : pc[t] \in {"inserting", "inserted"} /\ request[t].sync =>
       Len(log) > 0 /\ log[Len(log)].synced
  /\ \A u \in Threads : pc[u] = "waiting" /\ result[u] = "ok" /\ ~IsNull(u) /\ request[u].sync =>
       \A i \in DOMAIN log : InLog(Batch(u), i) => log[i].synced
  /\ AckedSyncsAreSynced

GroupsInv == QueueInv /\ DataTypes /\ QueueIsPending /\ GroupIsQueued

------------------------
(* The batch of a group. *)

LEMMA SameInterval ==
  ASSUME NEW a \in Nat, NEW b \in Nat, 1..a = 1..b PROVE a = b
<1>1. a > 0 => a \in 1..b OBVIOUS
<1>2. b > 0 => b \in 1..a OBVIOUS
<1> QED BY <1>1, <1>2

\* g holds the batches of the writers at the positions ps, in the order of these.
IsBatchOf(g, ps, writers, B) ==
  /\ g \in Seq(B)
  /\ \A k \in 1..Len(g) : \E i \in ps : g[k] = writers[i].batch
  /\ \A i \in ps : \E k \in 1..Len(g) : g[k] = writers[i].batch
  /\ \A k, l \in 1..Len(g) : k < l =>
       \E i, j \in ps : i < j /\ g[k] = writers[i].batch /\ g[l] = writers[j].batch

\* The first m writers that have a batch.
Real(m, writers) == {i \in 1..m : writers[i].size # 0}

LEMMA AppendToBatch ==
  ASSUME NEW B, NEW writers, NEW ps, NEW g, IsBatchOf(g, ps, writers, B),
         NEW m, writers[m].batch \in B, \A i \in ps : i < m
  PROVE  IsBatchOf(Append(g, writers[m].batch), ps \union {m}, writers, B)
<1> DEFINE h == Append(g, writers[m].batch)
           n == Len(g)
<1>1. g \in Seq(B)
  BY DEF IsBatchOf
<1>2. n \in Nat
  BY <1>1, LenProperties
<1>3. /\ h \in Seq(B) /\ Len(h) = n + 1
      /\ h[n + 1] = writers[m].batch /\ \A k \in 1..n : h[k] = g[k]
  BY <1>1, AppendProperties
<1>4. \A k \in 1 .. Len(h) : k \in 1 .. n \/ k = n + 1
  BY <1>2, <1>3
<1>5. n + 1 \in 1 .. Len(h) /\ \A k \in 1..n : k \in 1..Len(h)
  BY <1>2, <1>3
<1>6. \A k \in 1..n : \E i \in ps : g[k] = writers[i].batch
  BY DEF IsBatchOf
<1>7. \A i \in ps : \E k \in 1..n : g[k] = writers[i].batch
  BY DEF IsBatchOf
<1>8. \A k, l \in 1..n : k < l =>
        \E i, j \in ps : i < j /\ g[k] = writers[i].batch /\ g[l] = writers[j].batch
  BY Zenon DEF IsBatchOf
<1> HIDE DEF h, n
<1>9. \A k \in 1..Len(h) : \E i \in ps \union {m} : h[k] = writers[i].batch
  BY <1>3, <1>4, <1>6
<1>10. \A i \in ps \union {m} : \E k \in 1..Len(h) : h[k] = writers[i].batch
  BY <1>3, <1>5, <1>7
<1>11. ASSUME NEW k \in 1..Len(h), NEW l \in 1..Len(h), k < l
       PROVE  \E i, j \in ps \union {m} :
                i < j /\ h[k] = writers[i].batch /\ h[l] = writers[j].batch
  <2>1. k \in 1..n
    BY <1>2, <1>3, <1>11
  <2>2. CASE l \in 1..n
    <3>1. PICK i \in ps, j \in ps : i < j /\ g[k] = writers[i].batch /\ g[l] = writers[j].batch
      BY <1>8, <1>11, <2>1, <2>2
    <3> QED BY <1>3, <2>1, <2>2, <3>1
  <2>3. CASE l = n + 1
    <3>1. PICK i \in ps : g[k] = writers[i].batch BY <1>6, <2>1
    <3>2. i < m /\ h[k] = writers[i].batch /\ h[l] = writers[m].batch
      BY <1>3, <2>1, <2>3, <3>1
    <3> QED BY <3>2
  <2> QED BY <1>4, <2>2, <2>3
<1>12. \A k, l \in 1..Len(h) : k < l =>
         \E i, j \in ps \union {m} : i < j /\ h[k] = writers[i].batch /\ h[l] = writers[j].batch
  BY <1>11
<1>13. IsBatchOf(h, ps \union {m}, writers, B)
  BY <1>3, <1>9, <1>10, <1>12, Zenon DEF IsBatchOf
<1> QED BY <1>13 DEF h

\* BuildBatchGroup leaves out null batches and nothing else, and keeps the order.
LEMMA AppendedBatches ==
  ASSUME NEW B, NEW writers \in Seq([batch : B, size : Nat])
  PROVE  IsBatchOf(AppendBatches(writers), Real(Len(writers), writers), writers, B)
<1> DEFINE n == Len(writers)
           body(i, s) == IF writers[i].size = 0 THEN s ELSE Append(s, writers[i].batch)
           step == [p \in (1..n) \X Seq(B) |-> body(p[1], p[2])]
           IsAppended(f) == f = [i \in 0..n |-> IF i = 0 THEN << >>
                                     ELSE IF writers[i].size = 0 THEN f[i - 1]
                                     ELSE Append(f[i - 1], writers[i].batch)]
           appended == CHOOSE f : IsAppended(f)
           Right(m) == IsBatchOf(appended[m], Real(m, writers), writers, B)
<1>1. n \in Nat /\ \A i \in 1..n : writers[i].batch \in B
  <2>1. \A i \in 1..n : writers[i] \in [batch : B, size : Nat]
    BY ElementOfSeq
  <2> QED BY <2>1, LenProperties
<1>2. ASSUME NEW i \in 1..n, NEW s \in Seq(B) PROVE body(i, s) \in Seq(B)
  BY <1>1, AppendProperties
<1>3. step \in [(1..n) \X Seq(B) -> Seq(B)]
  <2> HIDE DEF body, n
  <2> QED BY <1>2
<1>4. << >> \in Seq(B) OBVIOUS
<1>5. PICK f \in [0 .. n -> Seq(B)] : f[0] = << >> /\ \A i \in 1..n : f[i] = step[<<i, f[i - 1]>>]
  <2> HIDE DEF step, n
  <2>1. \E f : IsRecursion(f, n, Seq(B), << >>, step)
    BY <1>1, <1>3, <1>4, RecursionOnInterval
  <2> QED BY <2>1 DEF IsRecursion
<1>6. IsAppended(f)
  <2>1. ASSUME NEW i \in 0..n
        PROVE  f[i] = IF i = 0 THEN << >> ELSE body(i, f[i - 1])
    <3>1. CASE i = 0
      BY <3>1, <1>5
    <3>2. CASE i # 0
      <4>1. i \in 1 .. n /\ i - 1 \in 0..n
        BY <3>2, <1>1
      <4>2. f[i] = step[<<i, f[i - 1]>>] /\ f[i - 1] \in Seq(B)
        <5> HIDE DEF step, n
        <5> QED BY <4>1, <1>5
      <4>3. step[<<i, f[i - 1]>>] = body(i, f[i - 1])
        <5> HIDE DEF body, n
        <5> QED BY <4>1, <4>2
      <4> QED BY <3>2, <4>2, <4>3
    <3> QED BY <3>1, <3>2
  <2>2. f = [i \in 0..n |-> f[i]]
    <3> HIDE DEF n
    <3> QED BY <1>5
  <2>3. [i \in 0..n |-> f[i]] = [i \in 0..n |-> IF i = 0 THEN << >> ELSE body(i, f[i - 1])]
    <3> HIDE DEF n, body
    <3> QED BY <2>1
  <2>4. f = [i \in 0..n |-> IF i = 0 THEN << >> ELSE body(i, f[i - 1])]
    <3> HIDE DEF n, body
    <3> QED BY <2>2, <2>3, Zenon
  <2> QED BY <2>4, Zenon
<1>7. IsAppended(appended)
  BY <1>6, Zenon
<1>8. appended[0] = << >> /\ \A i \in 1..n : appended[i] = body(i, appended[i - 1])
  <2> HIDE DEF appended
  <2>1. appended[0] = << >>
    <3>1. 0 \in 0..n BY <1>1
    <3> QED BY <3>1, <1>7
  <2>2. ASSUME NEW i \in 1..n PROVE appended[i] = body(i, appended[i - 1])
    <3>1. i \in 0 .. n /\ i # 0
      BY <1>1
    <3> QED BY <3>1, <1>7
  <2> QED BY <2>1, <2>2
<1> HIDE DEF appended, IsAppended, step
<1>9. Right(0)
  <2>1. Len(<< >>) = 0 /\ 1 .. 0 = {} /\ Real(0, writers) = {}
    BY EmptySeq DEF Real
  <2>2. IsBatchOf(<< >>, {}, writers, B)
    BY <1>4, <2>1 DEF IsBatchOf
  <2> QED BY <1>8, <2>1, <2>2
<1>10. ASSUME NEW m \in Nat, m + 1 <= n, Right(m) PROVE Right(m + 1)
  <2> DEFINE ps == Real(m, writers)
             g == appended[m]
  <2>1. m + 1 \in 1 .. n /\ (m + 1) - 1 = m
    BY <1>1, <1>10
  <2>2. writers[m + 1].batch \in B
    BY <1>1, <2>1
  <2>3. appended[m + 1] = body(m + 1, g)
    BY <1>8, <2>1
  <2>4. \A i \in ps : i < m + 1
    BY DEF Real
  <2>5. \A i \in 1 .. m + 1 : i \in 1 .. m \/ i = m + 1 OBVIOUS
  <2>6. m + 1 \in 1 .. m + 1 /\ \A i \in 1..m : i \in 1..m + 1 OBVIOUS
  <2>7. IsBatchOf(g, ps, writers, B)
    BY <1>10
  <2> HIDE DEF ps, g, n
  <2>8. CASE writers[m + 1].size = 0
    <3>1. Real(m + 1, writers) = ps BY <2>5, <2>6, <2>8 DEF Real, ps
    <3> QED BY <2>3, <2>7, <2>8, <3>1
  <2>9. CASE writers[m + 1].size # 0
    <3>1. Real(m + 1, writers) = ps \union {m + 1} BY <2>5, <2>6, <2>9 DEF Real, ps
    <3>2. appended[m + 1] = Append(g, writers[m + 1].batch) BY <2>3, <2>9
    <3>3. IsBatchOf(Append(g, writers[m + 1].batch), ps \union {m + 1}, writers, B)
      BY <2>2, <2>4, <2>7, AppendToBatch
    <3> QED BY <3>1, <3>2, <3>3
  <2> QED BY <2>8, <2>9
<1>11. Right(n)
  <2> DEFINE P == {m \in Nat : m <= n => Right(m)}
  <2> HIDE DEF Right
  <2>1. 0 \in P
    BY <1>9
  <2>2. \A m \in P : m + 1 \in P
    <3> SUFFICES ASSUME NEW m \in P, m + 1 <= n PROVE Right(m + 1) OBVIOUS
    <3>1. m \in Nat /\ m <= n /\ Right(m)
      BY <1>1
    <3> QED BY <3>1, <1>10
  <2>3. P \subseteq Nat OBVIOUS
  <2>4. P = Nat
    <3> HIDE DEF P
    <3> QED BY <2>1, <2>2, <2>3, InductionBySet
  <2> QED BY <1>1, <2>4
<1>12. AppendBatches(writers) = appended[n]
  BY Zenon DEF AppendBatches, appended, IsAppended
<1> QED BY <1>11, <1>12, Zenon

Writers == [i \in 1..members |-> [batch |-> Batch(queue[i]), size |-> request[queue[i]].size]]

\* Who is in front is the first of the queue, and the only one.
LEMMA FrontFacts ==
  ASSUME QueueInv, NEW t \in Threads, InFront(t)
  PROVE  /\ Len(queue) \in Nat \ {0} /\ queue[1] = t
         /\ \A u \in Threads : InFront(u) => u = t
<1>1. PICK i \in 1..Len(queue) : queue[i] = t
  BY DEF QueueInv, PendingIsQueued, Pending
<1>2. Len(queue) \in Nat \ {0}
  BY <1>1, LenProperties DEF QueueInv, TypeInv
<1>3. Head(queue) = t /\ \A u \in Threads : InFront(u) => u = t
  BY DEF QueueInv, FrontIsFirst
<1>4. Head(queue) = queue[1]
  BY <1>2 DEF QueueInv, TypeInv
<1> QED BY <1>2, <1>3, <1>4

LEMMA QueueIsTyped ==
  ASSUME QueueInv
  PROVE  Len(queue) \in Nat /\ \A i \in 1..Len(queue) : queue[i] \in Threads
BY LenProperties, ElementOfSeq DEF QueueInv, TypeInv

\* A batch belongs to one thread, and to one that has begun a write.
LEMMA BatchFacts ==
  ASSUME DataTypes
  PROVE  /\ \A t, u \in Threads : Batch(t) = Batch(u) => t = u
         /\ \A t \in Threads : Batch(t)[1] = t /\ Batch(t)[2] = count[t]
         /\ \A t \in Threads : pc[t] # "idle" => Batch(t) \in Batches
<1>1. ASSUME NEW t \in Threads, pc[t] # "idle" PROVE count[t] \in 1..MaxWrites
  <2>1. count[t] \in 0 .. MaxWrites /\ count[t] > 0
    BY <1>1 DEF DataTypes
  <2> QED BY <2>1
<1> QED BY <1>1 DEF Batch, Batches

LEMMA PendingIsBusy == \A t \in Threads : Pending(t) => pc[t] # "idle"
BY DEF Pending, InFront

\* The group holds the batches of its members, but for the null ones, in the queue's order.
GroupHolds ==
  /\ Group \in Seq(Batches)
  /\ \A k \in 1..Len(Group) : \E i \in 1..members :
       ~IsNull(queue[i]) /\ Group[k] = Batch(queue[i])
  /\ \A i \in 1..members : ~IsNull(queue[i]) =>
       \E k \in 1..Len(Group) : Group[k] = Batch(queue[i])
  /\ \A k, l \in 1..Len(Group) : k < l => \E i, j \in 1..members :
       /\ i < j /\ ~IsNull(queue[i]) /\ ~IsNull(queue[j])
       /\ Group[k] = Batch(queue[i]) /\ Group[l] = Batch(queue[j])

LEMMA GroupFacts ==
  ASSUME GroupsInv, members \in 1..Len(queue) PROVE GroupHolds
<1>1. \A i \in 1..members : i \in 1..Len(queue)
  BY QueueIsTyped DEF GroupsInv
<1>2. \A i \in 1 .. members : queue[i] \in Threads /\ Batch(queue[i]) \in Batches
  BY <1>1, QueueIsTyped, BatchFacts, PendingIsBusy DEF GroupsInv, QueueIsPending
<1>3. \A i \in 1..members : request[queue[i]].size \in Nat
  BY <1>2 DEF GroupsInv, DataTypes
<1>4. \A i \in 1..members : Writers[i] \in [batch : Batches, size : Nat]
  BY <1>2, <1>3 DEF Writers
<1>5. members \in Nat
  BY QueueIsTyped DEF GroupsInv
<1>6. Writers \in Seq([batch : Batches, size : Nat]) /\ Len(Writers) = members
  <2> DEFINE R == [batch : Batches, size : Nat]
  <2>1. Writers = [i \in 1..members |-> Writers[i]]
    BY DEF Writers
  <2>2. \A i \in 1..members : Writers[i] \in R
    BY <1>4
  <2> HIDE DEF Writers, R
  <2>3. Writers \in [1..members -> R]
    BY <2>1, <2>2
  <2>4. Writers \in Seq(R)
    BY <1>5, <2>3, SeqDef
  <2>5. DOMAIN Writers = 1 .. members /\ DOMAIN Writers = 1 .. Len(Writers) /\ Len(Writers) \in Nat
    BY <2>3, <2>4, LenProperties
  <2>6. Len(Writers) = members
    BY <1>5, <2>5, SameInterval
  <2> QED BY <2>4, <2>6 DEF R
<1>7. IsBatchOf(Group, Real(members, Writers), Writers, Batches)
  <2>1. Group = AppendBatches(Writers)
    BY Zenon DEF Group, Writers
  <2>2. IsBatchOf(AppendBatches(Writers), Real(Len(Writers), Writers), Writers, Batches)
    BY <1>6, AppendedBatches, Zenon
  <2> QED BY <2>1, <2>2, <1>6, Zenon
<1>8. \A i \in 1 .. members : /\ Writers[i].size # 0 <=> ~IsNull(queue[i])
                              /\ Writers[i].batch = Batch(queue[i])
  BY DEF Writers, IsNull
<1>9. /\ Real(members, Writers) = {i \in 1..members : ~IsNull(queue[i])}
      /\ \A i \in Real(members, Writers) : Writers[i].batch = Batch(queue[i])
  <2> HIDE DEF Writers
  <2> QED BY <1>8 DEF Real
<1> DEFINE ps == Real(members, Writers)
<1> HIDE DEF Writers, ps
<1>10. Group \in Seq(Batches)
  BY <1>7, Zenon DEF IsBatchOf
<1>11. ASSUME NEW k \in 1..Len(Group)
       PROVE  \E i \in 1 .. members : ~IsNull(queue[i]) /\ Group[k] = Batch(queue[i])
  <2>1. PICK i \in ps : Group[k] = Writers[i].batch
    BY <1>7, Zenon DEF IsBatchOf, ps
  <2> QED BY <1>9, <2>1 DEF ps
<1>12. ASSUME NEW i \in 1..members, ~IsNull(queue[i])
       PROVE  \E k \in 1..Len(Group) : Group[k] = Batch(queue[i])
  <2>1. i \in ps
    BY <1>9, <1>12 DEF ps
  <2>2. PICK k \in 1..Len(Group) : Group[k] = Writers[i].batch
    BY <1>7, <2>1, Zenon DEF IsBatchOf, ps
  <2> QED BY <1>9, <2>1, <2>2 DEF ps
<1>13. ASSUME NEW k \in 1..Len(Group), NEW l \in 1..Len(Group), k < l
       PROVE  \E i, j \in 1..members :
                /\ i < j /\ ~IsNull(queue[i]) /\ ~IsNull(queue[j])
                /\ Group[k] = Batch(queue[i]) /\ Group[l] = Batch(queue[j])
  <2>1. \E i, j \in ps : i < j /\ Group[k] = Writers[i].batch /\ Group[l] = Writers[j].batch
    BY <1>7, <1>13, Zenon DEF IsBatchOf, ps
  <2>2. PICK i \in ps, j \in ps : i < j /\ Group[k] = Writers[i].batch /\ Group[l] = Writers[j].batch
    BY <2>1
  <2>3. /\ i \in 1 .. members /\ ~IsNull(queue[i]) /\ Writers[i].batch = Batch(queue[i])
        /\ j \in 1 .. members /\ ~IsNull(queue[j]) /\ Writers[j].batch = Batch(queue[j])
    BY <1>9 DEF ps
  <2> QED BY <2>2, <2>3
<1> QED BY <1>10, <1>11, <1>12, <1>13, Zenon DEF GroupHolds

------------------------
(* How many writers a group has. *)

\* A set of positive numbers that has all below each of them is an interval.
LEMMA PrefixIsInterval ==
  ASSUME NEW m \in Nat, NEW D, D \subseteq 1..m, \A n \in D : \A k \in 1..n : k \in D
  PROVE  Cardinality(D) \in Nat /\ D = 1..Cardinality(D)
<1> DEFINE T == {k \in Nat : k + 1 \notin D}
<1>1. m \in T /\ T \subseteq Nat OBVIOUS
<1>2. PICK x \in T : \A y \in T : x <= y
  <2> HIDE DEF T
  <2> QED BY <1>1, LeastNatural
<1>3. x \in Nat /\ x + 1 \notin D OBVIOUS
<1>4. ASSUME NEW y \in D PROVE y \in 1..x
  <2>1. y \in Nat /\ y >= 1 OBVIOUS
  <2>2. CASE y > x
    <3>1. x + 1 \in 1..y BY <2>1, <2>2, <1>3
    <3> QED BY <3>1, <1>3
  <2> QED BY <2>1, <2>2, <1>3
<1>5. ASSUME NEW y \in 1..x PROVE y \in D
  <2>1. y - 1 \in Nat /\ ~(x <= y - 1) /\ (y - 1) + 1 = y
    BY <1>3
  <2>2. y - 1 \notin T
    BY <2>1, <1>2
  <2> QED BY <2>1, <2>2
<1>6. D = 1..x
  BY <1>4, <1>5
<1>7. Cardinality(1..x) = x
  <2>1. Cardinality(1..x) = IF 1 > x THEN 0 ELSE x - 1 + 1
    BY <1>3, FS_Interval
  <2> QED BY <2>1, <1>3
<1> QED BY <1>3, <1>6, <1>7

LEMMA GroupSizeFacts ==
  ASSUME QueueInv, Len(queue) >= 1
  PROVE  /\ GroupSize \in 1..Len(queue)
         /\ \A i \in 1..GroupSize : request[queue[i]].sync => request[queue[1]].sync
<1> DEFINE D == {n \in 1..Len(queue) : \A i \in 2..n : Fits(i)}
<1>1. Len(queue) \in Nat
  BY QueueIsTyped
<1>2. \A n \in D : \A k \in 1..n : k \in D
  BY <1>1
<1>3. D \subseteq 1 .. Len(queue) /\ 1 \in D
  BY <1>1
<1>4. GroupSize = Cardinality(D)
  BY DEF GroupSize
<1>5. GroupSize \in Nat /\ D = 1..GroupSize
  <2> HIDE DEF D
  <2> QED BY <1>1, <1>2, <1>3, <1>4, PrefixIsInterval
<1>6. GroupSize \in D
  <2> HIDE DEF D
  <2> QED BY <1>3, <1>5
<1>7. \A i \in 2..GroupSize : Fits(i)
  BY <1>6
<1>8. \A i \in 2..GroupSize : request[queue[i]].sync => request[queue[1]].sync
  BY <1>7, Zenon DEF Fits
<1>9. \A i \in 1 .. GroupSize : i = 1 \/ i \in 2..GroupSize
  BY <1>5
<1> QED BY <1>6, <1>8, <1>9

------------------------
(* What a step does to the queue, the log and the answers. *)

Making == {"room", "sleeping", "stalled"}

\* Nothing, but that a thread may be woken to make room.
Rests ==
  /\ UNCHANGED <<queue, members, arrivals, request, count, result, acked, failed,
                 log, logFile, last>>
  /\ Readable' = Readable
  /\ \A u \in Threads : \/ pc'[u] = pc[u]
                        \/ pc[u] = "waiting" /\ result[u] = Nil /\ pc'[u] = "room"
                        \/ pc[u] \in Making /\ pc'[u] \in Making

\* The front thread has room and gathers its group.
Starts(t) ==
  /\ pc[t] = "room" /\ pc' = [pc EXCEPT ![t] = "logging"]
  /\ members' = GroupSize /\ logFile' \in Nat /\ Readable' = Readable
  /\ UNCHANGED <<queue, arrivals, request, count, result, acked, failed, log, last>>

\* It writes the group: the record, its sync, the memtable; or a call fails.
Writes(t, from, to) ==
  /\ pc[t] = from /\ pc' = [pc EXCEPT ![t] = to]
  /\ UNCHANGED <<queue, members, arrivals, request, count, result, acked, failed, logFile, last>>
Misses(t) ==
  /\ Writes(t, "logging", "logFailed") \/ Writes(t, "syncing", "syncFailed")
  /\ log' = log /\ Readable' = Readable
Logs(t) ==
  /\ Writes(t, "logging", IF request[t].sync THEN "syncing" ELSE "inserting")
  /\ log' = Append(log, [file |-> logFile, first |-> last + 1, batches |-> Group, synced |-> FALSE])
  /\ Readable' = Readable
Syncs(t) ==
  /\ Writes(t, "syncing", "inserting")
  /\ log' = [i \in DOMAIN log |-> IF log[i].file = logFile
                                  THEN [log[i] EXCEPT !.synced = TRUE] ELSE log[i]]
  /\ Readable' = Readable
Inserts(t) ==
  /\ Writes(t, "inserting", "inserted")
  /\ log' = log /\ Readable' = Readable \union ToSet(Group)

\* It leaves with the first n writers: with its group, or alone before it had one.
Leaves(t, n, status) ==
  /\ Finish(t, n, status) /\ pc' = [pc EXCEPT ![t] = "idle"]
  /\ log' = log /\ Readable' = Readable
  /\ \/ /\ pc[t] \in {"inserted", "logFailed", "syncFailed"}
        /\ n = members /\ status = (IF pc[t] = "inserted" THEN "ok" ELSE "error")
        /\ last' = last + Len(Group) /\ logFile' = logFile
     \/ /\ pc[t] = "room"
        /\ n = 1 /\ last' = last /\ logFile' \in Nat
        /\ status \in {"ok", "error"} /\ (status = "error" \/ IsNull(t))

\* A thread whose write has been decided takes the answer.
Returns(t) ==
  /\ pc[t] = "waiting" /\ result[t] # Nil /\ pc' = [pc EXCEPT ![t] = "idle"]
  /\ Return({t}, result[t])
  /\ UNCHANGED <<queue, members, arrivals, request, count, result, log, logFile, last>>
  /\ Readable' = Readable

Calls(t, r) ==
  /\ pc[t] = "idle" /\ count[t] < MaxWrites
  /\ request' = [request EXCEPT ![t] = r]
  /\ count' = [count EXCEPT ![t] = @ + 1]
  /\ queue' = Append(queue, t)
  /\ arrivals' = IF r.size = 0 THEN arrivals ELSE Append(arrivals, <<t, count[t] + 1>>)
  /\ pc' = [pc EXCEPT ![t] = IF queue = <<>> THEN "room" ELSE "waiting"]
  /\ result' = [result EXCEPT ![t] = Nil]
  /\ UNCHANGED <<members, acked, failed, log, logFile, last>> /\ Readable' = Readable

StepForm ==
  \/ Rests
  \/ \E t \in Threads :
       Starts(t) \/ Misses(t) \/ Logs(t) \/ Syncs(t) \/ Inserts(t) \/ Returns(t)
  \/ \E t \in Threads, n \in Nat, status \in {"ok", "error"} : Leaves(t, n, status)
  \/ \E t \in Threads, r \in Requests : Calls(t, r)

LEMMA FlushKeepsReadable ==
  ASSUME imm # Nil, mem' = mem, CompactMemTable PROVE Readable' = Readable
BY DEF CompactMemTable, Readable

LEMMA SwitchKeepsReadable ==
  ASSUME WriteQueueAssumption, TracesAreOfCalls, imm = Nil, imm' = mem, mem' = {},
         tables' = tables
  PROVE  Readable' = Readable
<1>1. mem \subseteq Batches
  BY DEF TracesAreOfCalls, Readable
<1>2. mem # Nil
  BY <1>1 DEF WriteQueueAssumption, Batches
<1> QED BY <1>2 DEF Readable

LEMMA StepForms ==
  ASSUME WriteQueueAssumption, GroupsInv, TracesAreOfCalls, [Next]_vars PROVE StepForm
<1> USE DEF queueVars, threadVars, answerVars, logVars
<1>0. pc \in [Threads -> Stages] /\ logFile \in Nat /\ members \in Nat
  BY DEF GroupsInv, QueueInv, TypeInv, DataTypes
<1>1. CASE UNCHANGED vars
  BY <1>1 DEF vars, Rests, Readable, StepForm
<1>2. CASE Close \/ Closed
  BY <1>2 DEF Close, Closed, Rests, Readable, StepForm
<1>3. \A u \in Threads : WakeStalled[u] = pc[u] \/ (pc[u] \in Making /\ WakeStalled[u] \in Making)
  BY DEF WakeStalled, Making
<1>4. ASSUME NEW t \in Threads, NEW r \in Requests, Call(t, r) PROVE Calls(t, r)
  BY <1>4 DEF Call, Calls, Readable
<1>5. CASE BackgroundCall
  BY <1>5 DEF BackgroundCall, Rests, Readable, StepForm
<1>6. CASE Flush
  <2>1. Readable' = Readable
    BY <1>6, FlushKeepsReadable DEF Flush, GroupsInv, DataTypes
  <2>2. pc' = pc \/ pc' = WakeStalled
    BY <1>6 DEF Flush
  <2> QED BY <1>6, <1>3, <2>1, <2>2 DEF Flush, Rests, StepForm
<1>7. CASE FlushInMerge
  <2>1. Readable' = Readable
    BY <1>7, FlushKeepsReadable DEF FlushInMerge
  <2> QED BY <1>7, <1>3, <2>1 DEF FlushInMerge, Rests, StepForm
<1>8. CASE Merge
  <2>1. pc' = pc \/ pc' = WakeStalled
    BY <1>8 DEF Merge, RecordBackgroundError
  <2> QED BY <1>8, <1>3, <2>1 DEF Merge, Rests, Readable, StepForm
<1>9. CASE BackgroundEnds
  BY <1>9, <1>3 DEF BackgroundEnds, Rests, Readable, StepForm
<1>10. ASSUME NEW t \in Threads, Step(t) PROVE StepForm
  <2>1. CASE Wake(t)
    <3>1. CASE result[t] # Nil
      <4>1. Returns(t) BY <2>1, <3>1 DEF Wake, Returns, Readable
      <4> QED BY <4>1 DEF StepForm
    <3>2. CASE result[t] = Nil
      <4>1. Rests BY <1>0, <2>1, <3>2 DEF Wake, Rests, Readable
      <4> QED BY <4>1 DEF StepForm
    <3> QED BY <3>1, <3>2
  <2>2. CASE RoomError(t)
    <3>1. Leaves(t, 1, "error") BY <1>0, <2>2 DEF RoomError, Leaves, Readable
    <3> QED BY <3>1 DEF StepForm
  <2>3. CASE RoomSleep(t) \/ Slept(t) \/ RoomStall(t)
    <3>1. Rests
      BY <1>0, <2>3 DEF RoomSleep, Slept, RoomStall, Rests, Making, Readable
    <3> QED BY <3>1 DEF StepForm
  <2>4. CASE RoomFound(t)
    <3>1. Starts(t) BY <1>0, <2>4 DEF RoomFound, Starts, Readable
    <3> QED BY <3>1 DEF StepForm
  <2>5. CASE RoomSwitch(t)
    <3> DEFINE Switched == logFile' = logFile + 1 /\ imm' = mem /\ mem' = {}
    <3>1. pc[t] = "room" /\ imm = Nil /\ UNCHANGED <<log, last, tables>>
      BY <2>5 DEF RoomSwitch
    <3>2. Switched => logFile' \in Nat /\ Readable' = Readable
      BY <1>0, <3>1, SwitchKeepsReadable
    <3>3. CASE Switched /\ IsNull(t) /\ Finish(t, 1, "ok") /\ pc' = [pc EXCEPT ![t] = "idle"]
      <4>1. Leaves(t, 1, "ok") BY <3>1, <3>2, <3>3 DEF Leaves
      <4> QED BY <4>1 DEF StepForm
    <3>4. CASE /\ Switched /\ pc' = [pc EXCEPT ![t] = "logging"] /\ members' = GroupSize
               /\ UNCHANGED <<queue, arrivals, threadVars, answerVars>>
      <4>1. Starts(t) BY <3>1, <3>2, <3>4 DEF Starts
      <4> QED BY <4>1 DEF StepForm
    <3>5. CASE /\ Finish(t, 1, "error") /\ pc' = [pc EXCEPT ![t] = "idle"]
               /\ UNCHANGED <<logFile, imm, mem>>
      <4>1. Leaves(t, 1, "error") BY <1>0, <3>1, <3>5 DEF Leaves, Readable
      <4> QED BY <4>1 DEF StepForm
    <3> QED BY <2>5, <3>3, <3>4, <3>5 DEF RoomSwitch
  <2>6. CASE LogRecord(t)
    <3>1. Logs(t) \/ Misses(t)
      BY <2>6 DEF LogRecord, Logs, Misses, Writes, Readable
    <3> QED BY <3>1 DEF StepForm
  <2>7. CASE SyncLog(t)
    <3>1. Syncs(t) \/ Misses(t)
      BY <2>7 DEF SyncLog, Syncs, Misses, Writes, Readable
    <3> QED BY <3>1 DEF StepForm
  <2>8. CASE Insert(t)
    <3>1. Inserts(t) BY <2>8 DEF Insert, Inserts, Writes, Readable
    <3> QED BY <3>1 DEF StepForm
  <2>9. CASE Publish(t)
    <3>1. Leaves(t, members, IF pc[t] = "inserted" THEN "ok" ELSE "error")
      BY <2>9 DEF Publish, Leaves, Readable
    <3> QED BY <1>0, <3>1 DEF StepForm
  <2> QED BY <1>10, <2>1, <2>2, <2>3, <2>4, <2>5, <2>6, <2>7, <2>8, <2>9 DEF Step
<1> QED BY <1>1, <1>2, <1>4, <1>5, <1>6, <1>7, <1>8, <1>9, <1>10 DEF Next, Background, StepForm

LEMMA WritingGroup ==
  ASSUME GroupsInv, NEW t \in Threads, pc[t] \in Writing
  PROVE  GroupHolds /\ members \in 1 .. Len(queue) /\ Len(Group) \in Nat
<1>1. members \in 1..Len(queue)
  BY DEF GroupsInv, GroupIsQueued
<1>2. GroupHolds
  BY <1>1, GroupFacts
<1> QED BY <1>1, <1>2, LenProperties DEF GroupHolds

------------------------
(* The data and the queue. *)

LEMMA DataStep ==
  ASSUME WriteQueueAssumption, GroupsInv, TracesAreOfCalls, [Next]_vars PROVE DataTypes'
<1> DEFINE Typed ==
      /\ request \in [Threads -> [sync : BOOLEAN, size : Nat]]
      /\ count \in [Threads -> 0 .. MaxWrites] /\ \A t \in Threads : pc[t] # "idle" => count[t] > 0
      /\ arrivals \in Seq(Batches) /\ log \in Seq(Records) /\ last \in Nat /\ logFile \in Nat
<1>1. Typed /\ pc \in [Threads -> Stages] /\ MaxWrites \in Nat
  BY DEF GroupsInv, QueueInv, TypeInv, DataTypes, WriteQueueAssumption
<1>2. StepForm
  BY StepForms
<1>3. ASSUME Rests PROVE Typed'
  BY <1>1, <1>3 DEF Rests, Making
<1>4. ASSUME NEW t \in Threads, Starts(t) \/ Misses(t) \/ Inserts(t) PROVE Typed'
  BY <1>1, <1>4 DEF Starts, Misses, Inserts, Writes
<1>5. ASSUME NEW t \in Threads, Logs(t) PROVE Typed'
  <2>1. Group \in Seq(Batches)
    BY <1>5, WritingGroup DEF Logs, Writes, Writing, GroupHolds
  <2>2. [file |-> logFile, first |-> last + 1, batches |-> Group, synced |-> FALSE] \in Records
    BY <1>1, <2>1 DEF Records
  <2>3. log' \in Seq(Records)
    BY <1>1, <1>5, <2>2, AppendProperties DEF Logs
  <2> QED BY <1>1, <1>5, <2>3 DEF Logs, Writes
<1>6. ASSUME NEW t \in Threads, Syncs(t) PROVE Typed'
  <2>1. Len(log) \in Nat /\ DOMAIN log = 1 .. Len(log) /\ \A i \in DOMAIN log : log[i] \in Records
    BY <1>1, LenProperties, ElementOfSeq
  <2>2. \A i \in DOMAIN log : log'[i] \in Records
    BY <1>6, <2>1 DEF Syncs, Records
  <2>3. log' = [i \in 1..Len(log) |-> log'[i]]
    BY <1>6, <2>1 DEF Syncs
  <2>4. log' \in [1..Len(log) -> Records]
    BY <2>1, <2>2, <2>3
  <2>5. log' \in Seq(Records)
    BY <2>1, <2>4, SeqDef
  <2> QED BY <1>1, <1>6, <2>5 DEF Syncs, Writes
<1>7. ASSUME NEW t \in Threads, Returns(t) PROVE Typed'
  BY <1>1, <1>7 DEF Returns
<1>8. ASSUME NEW t \in Threads, NEW n \in Nat, NEW status, Leaves(t, n, status) PROVE Typed'
  <2>1. UNCHANGED <<request, count, arrivals, log>> /\ pc' = [pc EXCEPT ![t] = "idle"]
    BY <1>8 DEF Leaves, Finish
  <2>2. last' \in Nat /\ logFile' \in Nat
    <3>1. CASE pc[t] \in Writing
      BY <1>1, <1>8, <3>1, WritingGroup DEF Leaves, Writing
    <3>2. CASE pc[t] \notin Writing
      BY <1>1, <1>8, <3>2 DEF Leaves, Writing
    <3> QED BY <3>1, <3>2
  <2> QED BY <1>1, <2>1, <2>2
<1>9. ASSUME NEW t \in Threads, NEW r \in Requests, Calls(t, r) PROVE Typed'
  <2>1. r \in [sync : BOOLEAN, size : Nat]
    BY DEF WriteQueueAssumption
  <2>2. count[t] + 1 \in 1..MaxWrites
    BY <1>1, <1>9 DEF Calls
  <2>3. arrivals' \in Seq(Batches)
    <3>1. <<t, count[t] + 1>> \in Batches BY <2>2 DEF Batches
    <3> QED BY <1>1, <1>9, <3>1, AppendProperties DEF Calls
  <2>4. request' \in [Threads -> [sync : BOOLEAN, size : Nat]]
    BY <1>1, <1>9, <2>1 DEF Calls
  <2>5. count' \in [Threads -> 0 .. MaxWrites] /\ \A u \in Threads : pc'[u] # "idle" => count'[u] > 0
    <3>1. \A u \in Threads \ {t} : pc'[u] = pc[u] /\ count'[u] = count[u]
      BY <1>1, <1>9 DEF Calls
    <3>2. count' = [count EXCEPT ![t] = count[t] + 1] BY <1>9 DEF Calls
    <3> QED BY <1>1, <2>2, <3>1, <3>2
  <2> QED BY <1>1, <1>9, <2>3, <2>4, <2>5 DEF Calls
<1>10. Typed'
  <2> HIDE DEF Typed
  <2> QED BY <1>2, <1>3, <1>4, <1>5, <1>6, <1>7, <1>8, <1>9 DEF StepForm
<1>11. bg' = "flushing" => imm' # Nil
  <2>1. bg = "flushing" => imm # Nil
    BY DEF GroupsInv, DataTypes
  <2>2. CASE bg' = bg /\ imm' = imm
    BY <2>1, <2>2
  <2>3. ASSUME NEW t \in Threads, RoomSwitch(t) PROVE bg' # "flushing" \/ imm' # Nil
    <3>1. bg' = bg /\ imm = Nil
      BY <2>3 DEF RoomSwitch
    <3> QED BY <3>1, <2>1
  <2>4. CASE Background
    BY <2>1, <2>4 DEF Background, BackgroundCall, Flush, FlushInMerge, Merge, BackgroundEnds
  <2>5. CASE Close \/ Closed \/ UNCHANGED vars
    BY <2>2, <2>5 DEF Close, Closed, vars, bgVars
  <2>6. ASSUME NEW t \in Threads, NEW r \in Requests, Call(t, r) PROVE bg' = bg /\ imm' = imm
    BY <2>6 DEF Call, bgVars
  <2>7. ASSUME NEW t \in Threads, Step(t) PROVE (bg' = bg /\ imm' = imm) \/ RoomSwitch(t)
    BY <2>7 DEF Step, Wake, RoomError, RoomSleep, Slept, RoomFound, RoomStall, LogRecord,
                SyncLog, Insert, Publish, bgVars
  <2> QED BY <2>2, <2>3, <2>4, <2>5, <2>6, <2>7 DEF Next
<1> QED BY <1>10, <1>11 DEF DataTypes

LeaveEffect(t, n, status) ==
  /\ n \in 1 .. Len(queue) /\ queue[1] = t /\ InFront(t)
  /\ \A i \in 1 .. Len(queue') : i + n \in n + 1 .. Len(queue) /\ queue'[i] = queue[i + n]
  /\ \A u \in Threads : /\ ~InFront(u)'
                        /\ pc'[u] = "waiting" <=> pc[u] = "waiting"
                        /\ u # t => ~InFront(u)
  /\ \A u \in Threads :
       result'[u] = IF \E i \in 2..n : queue[i] = u THEN status ELSE result[u]
  /\ UNCHANGED <<request, count, arrivals>> /\ members' = 0

LEMMA LeaveFacts ==
  ASSUME WriteQueueAssumption, GroupsInv, NEW t \in Threads, NEW n \in Nat,
         NEW status \in {"ok", "error"}, Leaves(t, n, status)
  PROVE  LeaveEffect(t, n, status)
<1>1. InFront(t)
  BY DEF Leaves, InFront
<1>2. Len(queue) \in Nat \ {0} /\ queue[1] = t /\ \A u \in Threads : InFront(u) => u = t
  BY <1>1, FrontFacts DEF GroupsInv
<1>3. n \in 1..Len(queue)
  <2>1. CASE pc[t] \in Writing
    BY <2>1, WritingGroup DEF Leaves, Writing
  <2>2. CASE pc[t] \notin Writing
    BY <2>2, <1>2 DEF Leaves, Writing
  <2> QED BY <2>1, <2>2
<1>4. queue \in Seq(Threads) /\ pc \in [Threads -> Stages]
  BY DEF GroupsInv, QueueInv, TypeInv
<1>5. queue' = SubSeq(queue, n + 1, Len(queue))
  BY DEF Leaves, Finish
<1>6. /\ Len(queue') = IF n + 1 <= Len(queue) THEN Len(queue) - (n + 1) + 1 ELSE 0
      /\ \A i \in 1..Len(queue) - (n + 1) + 1 : queue'[i] = queue[n + 1 + i - 1]
  BY <1>2, <1>3, <1>4, <1>5, SubSeqProperties
<1>7. ASSUME NEW i \in 1..Len(queue')
      PROVE  i + n \in n + 1 .. Len(queue) /\ queue'[i] = queue[i + n]
  <2>1. i \in 1 .. Len(queue) - (n + 1) + 1 /\ n + 1 + i - 1 = i + n /\ i + n \in n + 1..Len(queue)
    BY <1>2, <1>3, <1>6
  <2> QED BY <2>1, <1>6
<1>8. pc' = [pc EXCEPT ![t] = "idle"]
  BY DEF Leaves
<1>9. ASSUME NEW u \in Threads
      PROVE  /\ ~InFront(u)' /\ (pc'[u] = "waiting" <=> pc[u] = "waiting")
             /\ u # t => ~InFront(u)
  BY <1>1, <1>2, <1>4, <1>8 DEF InFront
<1>10. ASSUME NEW u \in Threads
       PROVE  result'[u] = IF \E i \in 2..n : queue[i] = u THEN status ELSE result[u]
  BY DEF Leaves, Finish
<1>11. UNCHANGED <<request, count, arrivals>> /\ members' = 0
  BY DEF Leaves, Finish
<1> QED BY <1>1, <1>2, <1>3, <1>7, <1>9, <1>10, <1>11 DEF LeaveEffect

LEMMA CallFacts ==
  ASSUME GroupsInv, NEW t \in Threads, NEW r \in Requests, Calls(t, r)
  PROVE  /\ Len(queue) \in Nat /\ Len(queue') = Len(queue) + 1 /\ queue'[Len(queue) + 1] = t
         /\ \A i \in 1 .. Len(queue) : queue'[i] = queue[i] /\ queue[i] \in Threads /\ queue[i] # t
         /\ \A u \in Threads \ {t} : /\ request'[u] = request[u] /\ count'[u] = count[u]
                                     /\ pc'[u] = pc[u] /\ result'[u] = result[u]
         /\ request'[t] = r /\ count'[t] = count[t] + 1 /\ result'[t] = Nil
         /\ pc'[t] \in {"room", "waiting"} /\ ~Pending(t) /\ Pending(t)'
<1>1. /\ queue \in Seq(Threads) /\ pc \in [Threads -> Stages]
      /\ result \in [Threads -> {Nil, "ok", "error"}]
      /\ request \in [Threads -> [sync : BOOLEAN, size : Nat]]
      /\ count \in [Threads -> 0..MaxWrites]
  BY DEF GroupsInv, QueueInv, TypeInv, DataTypes
<1>2. /\ Len(queue) \in Nat /\ Len(queue') = Len(queue) + 1 /\ queue'[Len(queue) + 1] = t
      /\ \A i \in 1 .. Len(queue) : queue'[i] = queue[i] /\ queue[i] \in Threads
  BY <1>1, QueueIsTyped, AppendProperties DEF Calls, GroupsInv
<1>3. ~Pending(t)
  BY DEF Calls, Pending, InFront
<1>4. \A i \in 1..Len(queue) : queue[i] # t
  BY <1>3 DEF GroupsInv, QueueIsPending
<1>5. \A u \in Threads \ {t} : /\ request'[u] = request[u] /\ count'[u] = count[u]
                               /\ pc'[u] = pc[u] /\ result'[u] = result[u]
  BY <1>1 DEF Calls
<1>6. request'[t] = r /\ result'[t] = Nil /\ pc'[t] \in {"room", "waiting"}
  BY <1>1 DEF Calls
<1>7. count'[t] = count[t] + 1
  BY <1>1 DEF Calls
<1> QED BY <1>2, <1>3, <1>4, <1>5, <1>6, <1>7 DEF Pending, InFront

LEMMA PendingStep ==
  ASSUME WriteQueueAssumption, GroupsInv, StepForm PROVE QueueIsPending'
<1>1. /\ \A i \in 1 .. Len(queue) : queue[i] \in Threads /\ Pending(queue[i])
      /\ \A i, j \in 1..Len(queue) : queue[i] = queue[j] => i = j
  BY QueueIsTyped DEF GroupsInv, QueueIsPending
<1>2. pc \in [Threads -> Stages] /\ Nil \notin {"ok", "error"}
  BY DEF GroupsInv, QueueInv, TypeInv, WriteQueueAssumption
<1>3. ASSUME queue' = queue, \A u \in Threads : Pending(u) => Pending(u)' PROVE QueueIsPending'
  BY <1>1, <1>3 DEF QueueIsPending
<1>4. CASE Rests
  BY <1>3, <1>4 DEF Rests, Pending, InFront, Making
<1>5. ASSUME NEW t \in Threads, Starts(t) \/ Misses(t) \/ Logs(t) \/ Syncs(t) \/ Inserts(t)
      PROVE  QueueIsPending'
  <2>1. PICK stage : pc' = [pc EXCEPT ![t] = stage] /\ stage \notin {"idle", "waiting"}
    BY <1>5 DEF Starts, Misses, Logs, Syncs, Inserts, Writes
  <2>2. UNCHANGED <<queue, result>>
    BY <1>5 DEF Starts, Misses, Logs, Syncs, Inserts, Writes
  <2> QED BY <1>2, <1>3, <2>1, <2>2 DEF Pending, InFront
<1>6. ASSUME NEW t \in Threads, Returns(t) PROVE QueueIsPending'
  BY <1>2, <1>3, <1>6 DEF Returns, Pending, InFront
<1>7. ASSUME NEW t \in Threads, NEW n \in Nat, NEW status \in {"ok", "error"},
             Leaves(t, n, status)
      PROVE  QueueIsPending'
  <2>1. /\ n \in 1 .. Len(queue) /\ queue[1] = t
        /\ \A i \in 1 .. Len(queue') : i + n \in n + 1 .. Len(queue) /\ queue'[i] = queue[i + n]
        /\ \A u \in Threads : /\ pc'[u] = "waiting" <=> pc[u] = "waiting"
                              /\ u # t => ~InFront(u)
        /\ \A u \in Threads :
             result'[u] = IF \E i \in 2..n : queue[i] = u THEN status ELSE result[u]
    <3>1. LeaveEffect(t, n, status) BY <1>7, LeaveFacts
    <3> QED BY <3>1 DEF LeaveEffect
  <2>2. Len(queue) \in Nat
    BY QueueIsTyped DEF GroupsInv
  <2>3. ASSUME NEW i \in 1..Len(queue') PROVE Pending(queue[i])'
    <3>1. i + n \in 1 .. Len(queue) /\ i + n # 1 /\ 1 \in 1..Len(queue)
      BY <2>1, <2>2
    <3>2. queue[i + n] # t /\ queue[i + n] \in Threads /\ Pending(queue[i + n])
      BY <1>1, <2>1, <3>1
    <3>3. pc[queue[i + n]] = "waiting" /\ result[queue[i + n]] = Nil
      BY <2>1, <3>2 DEF Pending
    <3>4. \A j \in 2 .. n : j \in 1 .. Len(queue) /\ j # i + n
      BY <2>1, <2>2, <3>1
    <3>5. result'[queue[i + n]] = Nil BY <1>1, <2>1, <3>1, <3>2, <3>3, <3>4
    <3> QED BY <2>1, <3>2, <3>3, <3>5 DEF Pending
  <2>4. ASSUME NEW i \in 1..Len(queue'), NEW j \in 1..Len(queue'), queue'[i] = queue'[j]
        PROVE  i = j
    <3>1. i + n \in 1 .. Len(queue) /\ j + n \in 1..Len(queue)
      BY <2>1, <2>2
    <3>2. queue[i + n] = queue[j + n] BY <2>1, <2>4
    <3>3. i + n = j + n BY <1>1, <3>1, <3>2
    <3>4. i \in Int /\ j \in Int OBVIOUS
    <3> QED BY <3>3, <3>4
  <2> QED BY <2>3, <2>4 DEF QueueIsPending
<1>8. ASSUME NEW t \in Threads, NEW r \in Requests, Calls(t, r) PROVE QueueIsPending'
  <2>1. /\ Len(queue) \in Nat /\ Len(queue') = Len(queue) + 1 /\ queue'[Len(queue) + 1] = t
        /\ \A i \in 1 .. Len(queue) : queue'[i] = queue[i] /\ queue[i] # t
        /\ \A u \in Threads \ {t} : pc'[u] = pc[u] /\ result'[u] = result[u]
        /\ Pending(t)'
    BY <1>8, CallFacts
  <2>2. \A i \in 1 .. Len(queue') : i \in 1 .. Len(queue) \/ i = Len(queue) + 1
    BY <2>1
  <2>3. ASSUME NEW i \in 1..Len(queue') PROVE Pending(queue[i])'
    <3>1. CASE i \in 1..Len(queue)
      BY <1>1, <2>1, <3>1 DEF Pending, InFront
    <3> QED BY <2>1, <2>2, <3>1
  <2>4. ASSUME NEW i \in 1..Len(queue'), NEW j \in 1..Len(queue'), queue'[i] = queue'[j]
        PROVE  i = j
    BY <1>1, <2>1, <2>2, <2>4
  <2> QED BY <2>3, <2>4 DEF QueueIsPending
<1> QED BY <1>4, <1>5, <1>6, <1>7, <1>8 DEF StepForm

LEMMA GroupQueuedStep ==
  ASSUME WriteQueueAssumption, GroupsInv, StepForm PROVE GroupIsQueued'
<1>1. pc \in [Threads -> Stages]
  BY DEF GroupsInv, QueueInv, TypeInv
<1>2. ASSUME UNCHANGED <<queue, members, request>>,
             \A u \in Threads : pc'[u] \in Writing => pc[u] \in Writing
      PROVE  GroupIsQueued'
  BY <1>2 DEF GroupsInv, GroupIsQueued
<1>3. CASE Rests
  BY <1>2, <1>3 DEF Rests, Making, Writing
<1>4. ASSUME NEW t \in Threads, Starts(t) PROVE GroupIsQueued'
  <2>1. /\ Len(queue) \in Nat \ {0} /\ queue[1] = t
        /\ \A u \in Threads : InFront(u) => u = t
    BY <1>4, FrontFacts DEF GroupsInv, Starts, InFront
  <2>2. Len(queue) >= 1
    BY <2>1
  <2>3. /\ GroupSize \in 1..Len(queue)
        /\ \A i \in 1..GroupSize : request[queue[i]].sync => request[queue[1]].sync
    BY <2>2, GroupSizeFacts DEF GroupsInv
  <2>4. \A u \in Threads : pc'[u] \in Writing => u = t
    BY <1>1, <1>4, <2>1 DEF Starts, Writing, InFront
  <2> QED BY <1>4, <2>1, <2>3, <2>4 DEF Starts, GroupIsQueued
<1>5. ASSUME NEW t \in Threads, Misses(t) \/ Logs(t) \/ Syncs(t) \/ Inserts(t)
      PROVE  GroupIsQueued'
  BY <1>1, <1>2, <1>5 DEF Misses, Logs, Syncs, Inserts, Writes, Writing
<1>6. ASSUME NEW t \in Threads, Returns(t) PROVE GroupIsQueued'
  BY <1>1, <1>2, <1>6 DEF Returns, Writing
<1>7. ASSUME NEW t \in Threads, NEW n \in Nat, NEW status \in {"ok", "error"},
             Leaves(t, n, status)
      PROVE  GroupIsQueued'
  <2>1. \A u \in Threads : ~InFront(u)'
    <3>1. LeaveEffect(t, n, status) BY <1>7, LeaveFacts
    <3> QED BY <3>1 DEF LeaveEffect
  <2> QED BY <2>1 DEF InFront, Writing, GroupIsQueued
<1>8. ASSUME NEW t \in Threads, NEW r \in Requests, Calls(t, r) PROVE GroupIsQueued'
  <2>1. /\ Len(queue) \in Nat /\ Len(queue') = Len(queue) + 1
        /\ \A i \in 1 .. Len(queue) : queue'[i] = queue[i] /\ queue[i] \in Threads /\ queue[i] # t
        /\ \A u \in Threads \ {t} : request'[u] = request[u] /\ pc'[u] = pc[u]
        /\ pc'[t] \in {"room", "waiting"} /\ members' = members
    BY <1>8, CallFacts DEF Calls
  <2> SUFFICES ASSUME NEW u \in Threads, pc'[u] \in Writing
               PROVE  /\ members' \in 1..Len(queue')
                      /\ \A i \in 1..members' : request'[queue'[i]].sync => request'[u].sync
    BY DEF GroupIsQueued
  <2>2. u # t /\ pc[u] \in Writing
    BY <2>1 DEF Writing
  <2>3. /\ members \in 1..Len(queue)
        /\ \A i \in 1..members : request[queue[i]].sync => request[u].sync
    BY <2>2 DEF GroupsInv, GroupIsQueued
  <2>4. \A i \in 1..members : i \in 1..Len(queue)
    BY <2>1, <2>3
  <2>5. members' \in 1..Len(queue')
    BY <2>1, <2>3
  <2> QED BY <2>1, <2>2, <2>3, <2>4, <2>5
<1> QED BY <1>3, <1>4, <1>5, <1>6, <1>7, <1>8 DEF StepForm

------------------------
(* Traces. *)

LEMMA TracesGrow ==
  ASSUME DataTypes, DataTypes', TracesAreOfCalls,
         \A u \in Threads : count[u] <= count'[u],
         \A b \in (acked \union failed \union Readable)' :
           b \in acked \union failed \union Readable
           \/ \E u \in Threads : pc[u] # "idle" /\ b = Batch(u),
         \A b \in Batches : HasArrived(b)' =>
           HasArrived(b) \/ \E u \in Threads : b = <<u, count'[u]>>
  PROVE  TracesAreOfCalls'
<1>1. \A b \in Batches : b[1] \in Threads /\ b[2] \in Nat
  BY DEF Batches
<1>2. \A u \in Threads : count[u] \in Int /\ count'[u] \in Int
  BY DEF DataTypes
<1>3. \A u \in Threads : /\ Batch(u)[1] = u /\ Batch(u)[2] = count[u]
                         /\ pc[u] # "idle" => Batch(u) \in Batches
  BY BatchFacts
<1>4. (acked \union failed \union Readable)' \subseteq Batches
  BY <1>3 DEF TracesAreOfCalls
<1>5. ASSUME NEW b \in Batches, b \in (acked \union failed \union Readable)' \/ HasArrived(b)'
      PROVE  b[2] <= count'[b[1]]
  <2>1. CASE b \in acked \union failed \union Readable \/ HasArrived(b)
    <3>1. b[2] <= count[b[1]] BY <2>1 DEF TracesAreOfCalls
    <3>2. b[1] \in Threads /\ b[2] \in Int
      BY <1>1
    <3>3. count[b[1]] \in Int /\ count'[b[1]] \in Int /\ count[b[1]] <= count'[b[1]]
      BY <1>2, <3>2
    <3> QED BY <3>1, <3>2, <3>3
  <2>2. ASSUME NEW u \in Threads, b = Batch(u) PROVE b[2] <= count'[b[1]]
    <3>1. b[1] = u /\ b[2] = count[u]
      BY <1>3, <2>2
    <3> QED BY <3>1
  <2>3. ASSUME NEW u \in Threads, b = <<u, count'[u]>> PROVE b[2] <= count'[b[1]]
    <3>1. b[1] = u /\ b[2] = count'[u]
      BY <2>3
    <3> QED BY <3>1, <1>2
  <2> QED BY <1>5, <2>1, <2>2, <2>3
<1> QED BY <1>4, <1>5 DEF TracesAreOfCalls

LEMMA TracesStep ==
  ASSUME WriteQueueAssumption, GroupsInv, DataTypes', TracesAreOfCalls, StepForm
  PROVE  TracesAreOfCalls'
<1> DEFINE Traces == acked \union failed \union Readable
           Grows == \A b \in Traces' : b \in Traces \/ \E u \in Threads : pc[u] # "idle" /\ b = Batch(u)
<1>0. DataTypes /\ \A u \in Threads : count[u] \in Int
  BY DEF GroupsInv, DataTypes
<1>1. ASSUME UNCHANGED <<count, arrivals>>, Grows PROVE TracesAreOfCalls'
  <2>1. \A u \in Threads : count[u] <= count'[u]
    BY <1>0, <1>1
  <2>2. \A b \in Batches : HasArrived(b)' => HasArrived(b)
    BY <1>1 DEF HasArrived
  <2> QED BY <1>0, <1>1, <2>1, <2>2, TracesGrow
<1>2. CASE Rests
  BY <1>1, <1>2 DEF Rests
<1>3. ASSUME NEW t \in Threads, Starts(t) \/ Misses(t) \/ Logs(t) \/ Syncs(t) PROVE TracesAreOfCalls'
  BY <1>1, <1>3 DEF Starts, Misses, Logs, Syncs, Writes
<1>4. ASSUME NEW t \in Threads, Inserts(t) PROVE TracesAreOfCalls'
  <2>1. GroupHolds /\ members \in 1..Len(queue)
    BY <1>4, WritingGroup DEF Inserts, Writes, Writing
  <2>2. \A i \in 1 .. members : queue[i] \in Threads /\ pc[queue[i]] # "idle"
    BY <2>1, QueueIsTyped, PendingIsBusy DEF GroupsInv, QueueIsPending
  <2>3. \A k \in 1 .. Len(Group) : \E u \in Threads : pc[u] # "idle" /\ Group[k] = Batch(u)
    BY <2>1, <2>2 DEF GroupHolds
  <2>4. \A b \in ToSet(Group) : \E k \in 1..Len(Group) : b = Group[k]
    <3>1. DOMAIN Group = 1..Len(Group) BY <2>1, LenProperties DEF GroupHolds
    <3> QED BY <3>1 DEF ToSet
  <2> QED BY <1>1, <1>4, <2>3, <2>4 DEF Inserts, Writes
<1>5. ASSUME NEW t \in Threads, Returns(t) PROVE TracesAreOfCalls'
  BY <1>1, <1>5 DEF Returns, Return
<1>6. ASSUME NEW t \in Threads, NEW n \in Nat, NEW status, Leaves(t, n, status)
      PROVE  TracesAreOfCalls'
  BY <1>1, <1>6 DEF Leaves, Finish, Return
<1>7. ASSUME NEW t \in Threads, NEW r \in Requests, Calls(t, r) PROVE TracesAreOfCalls'
  <2>1. /\ \A u \in Threads \ {t} : count'[u] = count[u]
        /\ count'[t] = count[t] + 1
    BY <1>7, CallFacts
  <2>2. \A u \in Threads : count[u] <= count'[u]
    BY <1>0, <2>1
  <2>3. ASSUME NEW b \in Batches, HasArrived(b)'
        PROVE  HasArrived(b) \/ \E u \in Threads : b = <<u, count'[u]>>
    <3>1. CASE arrivals' = arrivals
      BY <2>3, <3>1 DEF HasArrived
    <3>2. CASE arrivals' = Append(arrivals, <<t, count[t] + 1>>)
      <4>1. arrivals \in Seq(Batches) /\ DOMAIN arrivals = 1 .. Len(arrivals) /\ Len(arrivals) \in Nat
        BY <1>0, LenProperties DEF DataTypes
      <4>2. arrivals' \in Seq(Batches) /\ DOMAIN arrivals' = 1..Len(arrivals')
        BY LenProperties DEF DataTypes
      <4>3. PICK p \in DOMAIN arrivals' : arrivals'[p] = b BY <2>3 DEF HasArrived
      <4>4. /\ Len(arrivals') = Len(arrivals) + 1
            /\ arrivals'[Len(arrivals) + 1] = <<t, count[t] + 1>>
            /\ \A i \in 1..Len(arrivals) : arrivals'[i] = arrivals[i]
        BY <3>2, <4>1
      <4>5. p \in 1 .. Len(arrivals) \/ p = Len(arrivals) + 1
        BY <4>1, <4>2, <4>4
      <4> QED BY <2>1, <4>1, <4>3, <4>4, <4>5 DEF HasArrived
    <3> QED BY <1>7, <3>1, <3>2 DEF Calls
  <2>4. Traces' = Traces
    BY <1>7 DEF Calls
  <2> QED BY <1>0, <2>2, <2>3, <2>4, TracesGrow
<1> QED BY <1>2, <1>3, <1>4, <1>5, <1>6, <1>7 DEF StepForm

------------------------
(* The answers. *)

\* Nothing of what is written in the answers changes but who is decided.
LEMMA AnswersRest ==
  ASSUME AnswersInv, UNCHANGED <<request, count, result, acked, failed>>, Readable' = Readable,
         \A u \in Threads : Pending(u)' => Pending(u),
         \A u \in Threads : pc'[u] = "waiting" => pc[u] = "waiting",
         \A u \in Threads : (Grouped(u) /\ GroupIn({"inserted"}))' <=> Grouped(u) /\ GroupIn({"inserted"})
  PROVE  AnswersInv'
<1>1. AnswersAreTrue <=> acked \subseteq Readable /\ failed \intersect Readable = {}
  BY DEF AnswersAreTrue, Readable
<1>2. AnswersAreTrue' <=> acked' \subseteq Readable' /\ failed' \intersect Readable' = {}
  BY DEF AnswersAreTrue, Readable
<1>3. \A u \in Threads : IsNull(u)' <=> IsNull(u)
  BY DEF IsNull
<1>4. \A u \in Threads : Batch(u)' = Batch(u)
  BY DEF Batch
<1>5. AnswersAreTrue'
  BY <1>1, <1>2 DEF AnswersInv
<1>6. ASSUME NEW u \in Threads, Pending(u)', ~IsNull(u)'
      PROVE  /\ Batch(u)' \notin acked' \union failed'
             /\ Batch(u)' \in Readable' <=> (Grouped(u) /\ GroupIn({"inserted"}))'
  BY <1>3, <1>4, <1>6 DEF AnswersInv
<1>7. ASSUME NEW u \in Threads, pc'[u] = "waiting", result'[u] # Nil, ~IsNull(u)'
      PROVE  Batch(u)' \in Readable' <=> result'[u] = "ok"
  BY <1>3, <1>4, <1>7 DEF AnswersInv
<1> QED BY <1>5, <1>6, <1>7 DEF AnswersInv

LEMMA AnswersLeave ==
  ASSUME WriteQueueAssumption, GroupsInv, AnswersInv, NEW t \in Threads, NEW n \in Nat,
         NEW status \in {"ok", "error"}, Leaves(t, n, status)
  PROVE  AnswersInv'
<1>1. /\ n \in 1 .. Len(queue) /\ queue[1] = t /\ InFront(t)
      /\ \A u \in Threads : /\ ~InFront(u)' /\ (pc'[u] = "waiting" <=> pc[u] = "waiting")
                            /\ u # t => ~InFront(u)
      /\ \A u \in Threads :
           result'[u] = IF \E i \in 2..n : queue[i] = u THEN status ELSE result[u]
      /\ UNCHANGED <<request, count>> /\ Readable' = Readable
  <2>1. Readable' = Readable
    BY DEF Leaves
  <2>2. LeaveEffect(t, n, status)
    BY LeaveFacts
  <2> QED BY <2>1, <2>2 DEF LeaveEffect
<1>2. /\ Len(queue) \in Nat
      /\ \A i \in 1 .. Len(queue) : queue[i] \in Threads /\ Pending(queue[i])
      /\ \A i, j \in 1..Len(queue) : queue[i] = queue[j] => i = j
      /\ \A u \in Threads : Pending(u) => \E i \in 1..Len(queue) : queue[i] = u
  BY QueueIsTyped DEF GroupsInv, QueueIsPending, QueueInv, PendingIsQueued
<1>3. Nil \notin {"ok", "error"}
  BY DEF WriteQueueAssumption
<1>4. \A u \in Threads : (IsNull(u)' <=> IsNull(u)) /\ Batch(u)' = Batch(u)
  BY <1>1 DEF IsNull, Batch
<1>5. \A u \in Threads : Batch(u) = Batch(t) => u = t
  BY BatchFacts DEF GroupsInv
\* The first n can be read just when this is what they are told, the others cannot.
<1>6. ASSUME NEW i \in 1..Len(queue), ~IsNull(queue[i])
      PROVE  Batch(queue[i]) \in Readable <=> i <= n /\ status = "ok"
  <2> DEFINE u == queue[i]
  <2>1. u \in Threads /\ Pending(u)
    BY <1>2
  <2>2. Batch(u) \in Readable <=> Grouped(u) /\ GroupIn({"inserted"})
    BY <2>1, <1>6 DEF AnswersInv
  <2>3. GroupIn({"inserted"}) <=> pc[t] = "inserted"
    <3>1. \A v \in Threads : pc[v] = "inserted" => v = t BY <1>1 DEF InFront
    <3> QED BY <3>1 DEF GroupIn
  <2>4. CASE pc[t] = "inserted"
    <3>1. n = members /\ status = "ok"
      BY <2>4 DEF Leaves
    <3>2. Grouped(u) <=> i <= n
      <4>1. \A j \in 1..n : j \in 1..Len(queue) BY <1>1, <1>2
      <4>2. ASSUME Grouped(u) PROVE i <= n
        <5>1. PICK j \in 1..n : queue[j] = u BY <4>2, <3>1 DEF Grouped
        <5>2. j = i BY <5>1, <4>1, <1>2
        <5> QED BY <5>2
      <4>3. ASSUME i <= n PROVE Grouped(u)
        <5>1. i \in 1..n BY <4>3, <1>1
        <5> QED BY <5>1, <3>1 DEF Grouped
      <4> QED BY <4>2, <4>3
    <3> QED BY <2>2, <2>3, <2>4, <3>1, <3>2
  <2>5. CASE pc[t] # "inserted" /\ status = "error"
    BY <2>2, <2>3, <2>5
  <2>6. CASE pc[t] # "inserted" /\ status = "ok"
    <3>1. n = 1 /\ IsNull(t)
      BY <2>6 DEF Leaves
    <3>2. i # 1 BY <3>1, <1>1, <1>6
    <3> QED BY <2>2, <2>3, <2>6, <3>1, <3>2
  <2> QED BY <2>4, <2>5, <2>6
<1>7. /\ acked' = IF status = "ok" /\ ~IsNull(t) THEN acked \union {Batch(t)} ELSE acked
      /\ failed' = IF status = "ok" \/ IsNull(t) THEN failed ELSE failed \union {Batch(t)}
  BY DEF Leaves, Finish, Return
<1>8. 1 \in 1 .. Len(queue) /\ 1 <= n /\ Pending(t)
  BY <1>1, <1>2 DEF Pending
<1>9. AnswersAreTrue'
  <2>1. acked \subseteq Readable /\ failed \intersect Readable = {}
    BY DEF AnswersInv, AnswersAreTrue, Readable
  <2>2. ~IsNull(t) => (Batch(t) \in Readable <=> status = "ok")
    BY <1>1, <1>6, <1>8
  <2>3. acked' \subseteq Readable' /\ failed' \intersect Readable' = {}
    BY <1>1, <1>7, <2>1, <2>2
  <2> QED BY <2>3 DEF AnswersAreTrue, Readable
<1>10. ASSUME NEW u \in Threads, Pending(u)', ~IsNull(u)'
       PROVE  /\ Batch(u)' \notin acked' \union failed'
              /\ Batch(u)' \in Readable' <=> (Grouped(u) /\ GroupIn({"inserted"}))'
  <2>1. pc[u] = "waiting" /\ result'[u] = Nil
    BY <1>1, <1>10 DEF Pending
  <2>2. result[u] = Nil /\ ~\E i \in 2..n : queue[i] = u
    BY <1>1, <1>3, <2>1
  <2>3. Pending(u) /\ u # t
    BY <1>1, <2>1, <2>2 DEF Pending, InFront
  <2>4. PICK i \in 1..Len(queue) : queue[i] = u
    BY <1>2, <2>3
  <2>5. ~(i <= n)
    BY <1>1, <1>2, <2>2, <2>3, <2>4
  <2>6. Batch(u) \notin Readable
    BY <1>4, <1>6, <1>10, <2>4, <2>5
  <2>7. Batch(u) \notin acked \union failed /\ Batch(u) # Batch(t)
    BY <1>4, <1>5, <1>10, <2>3 DEF AnswersInv
  <2>8. ~GroupIn({"inserted"})'
    BY <1>1 DEF GroupIn, InFront
  <2> QED BY <1>1, <1>4, <1>7, <2>6, <2>7, <2>8
<1>11. ASSUME NEW u \in Threads, pc'[u] = "waiting", result'[u] # Nil, ~IsNull(u)'
       PROVE  Batch(u)' \in Readable' <=> result'[u] = "ok"
  <2>1. pc[u] = "waiting" /\ ~IsNull(u) /\ Batch(u)' = Batch(u)
    BY <1>1, <1>4, <1>11
  <2>2. ASSUME NEW i \in 2..n, queue[i] = u PROVE Batch(u)' \in Readable' <=> result'[u] = "ok"
    <3>1. i \in 1 .. Len(queue) /\ i <= n
      BY <1>1, <1>2
    <3>2. result'[u] = status BY <1>1, <2>2
    <3> QED BY <1>1, <1>6, <2>1, <2>2, <3>1, <3>2
  <2>3. CASE ~\E i \in 2..n : queue[i] = u
    <3>1. result'[u] = result[u] BY <1>1, <2>3
    <3> QED BY <1>1, <1>11, <2>1, <3>1 DEF AnswersInv
  <2> QED BY <2>2, <2>3
<1> QED BY <1>9, <1>10, <1>11 DEF AnswersInv

LEMMA AnswersCall ==
  ASSUME WriteQueueAssumption, GroupsInv, DataTypes', TracesAreOfCalls, AnswersInv,
         NEW t \in Threads, NEW r \in Requests, Calls(t, r)
  PROVE  AnswersInv'
<1>1. /\ Len(queue) \in Nat /\ Len(queue') = Len(queue) + 1
      /\ \A i \in 1 .. Len(queue) : queue'[i] = queue[i] /\ queue[i] \in Threads /\ queue[i] # t
      /\ \A u \in Threads \ {t} : /\ request'[u] = request[u] /\ count'[u] = count[u]
                                  /\ pc'[u] = pc[u] /\ result'[u] = result[u]
      /\ count'[t] = count[t] + 1 /\ result'[t] = Nil
      /\ pc'[t] \in {"room", "waiting"} /\ ~Pending(t)
      /\ UNCHANGED <<members, acked, failed>> /\ Readable' = Readable
  BY CallFacts DEF Calls
<1>2. \A u \in Threads \ {t} : /\ IsNull(u)' <=> IsNull(u)
                               /\ Batch(u)' = Batch(u)
                               /\ Pending(u)' <=> Pending(u)
  BY <1>1 DEF IsNull, Batch, Pending, InFront
<1>3. AnswersAreTrue'
  <2>1. acked \subseteq Readable /\ failed \intersect Readable = {}
    BY DEF AnswersInv, AnswersAreTrue, Readable
  <2>2. acked' \subseteq Readable' /\ failed' \intersect Readable' = {}
    BY <1>1, <2>1
  <2> QED BY <2>2 DEF AnswersAreTrue, Readable
<1>4. Batch(t)' \notin acked \union failed \union Readable
  <2>1. Batch(t)'[1] = t /\ Batch(t)'[2] = count[t] + 1
    BY <1>1 DEF Batch
  <2>2. count[t] \in Int
    BY DEF GroupsInv, DataTypes
  <2>3. Batch(t)' \in acked \union failed \union Readable => Batch(t)'[2] <= count[t]
    BY <2>1 DEF TracesAreOfCalls
  <2> QED BY <2>1, <2>2, <2>3
<1>5. GroupIn({"inserted"})' <=> GroupIn({"inserted"})
  <2>1. pc[t] = "idle"
    BY DEF Calls
  <2>2. \A u \in Threads : pc'[u] = "inserted" <=> pc[u] = "inserted"
    BY <1>1, <2>1
  <2> QED BY <2>2 DEF GroupIn
<1>6. ASSUME GroupIn({"inserted"})
      PROVE  \A i \in 1 .. members : queue'[i] = queue[i] /\ queue[i] # t
  <2>1. members \in 1..Len(queue)
    BY <1>6, WritingGroup DEF GroupIn, Writing
  <2>2. \A i \in 1..members : i \in 1..Len(queue)
    BY <1>1, <2>1
  <2> QED BY <1>1, <2>2
<1>7. \A u \in Threads \ {t} :
        (Grouped(u) /\ GroupIn({"inserted"}))' <=> Grouped(u) /\ GroupIn({"inserted"})
  BY <1>1, <1>5, <1>6 DEF Grouped
<1>8. ~(Grouped(t) /\ GroupIn({"inserted"}))'
  BY <1>1, <1>5, <1>6 DEF Grouped
<1>9. ASSUME NEW u \in Threads, Pending(u)', ~IsNull(u)'
      PROVE  /\ Batch(u)' \notin acked' \union failed'
             /\ Batch(u)' \in Readable' <=> (Grouped(u) /\ GroupIn({"inserted"}))'
  <2>1. CASE u = t
    BY <1>1, <1>4, <1>8, <2>1
  <2>2. CASE u # t
    BY <1>1, <1>2, <1>7, <1>9, <2>2 DEF AnswersInv
  <2> QED BY <2>1, <2>2
<1>10. ASSUME NEW u \in Threads, pc'[u] = "waiting", result'[u] # Nil, ~IsNull(u)'
       PROVE  Batch(u)' \in Readable' <=> result'[u] = "ok"
  <2>1. u # t
    BY <1>1, <1>10
  <2> QED BY <1>1, <1>2, <1>10, <2>1 DEF AnswersInv
<1> QED BY <1>3, <1>9, <1>10 DEF AnswersInv

LEMMA AnswersReturn ==
  ASSUME WriteQueueAssumption, GroupsInv, AnswersInv, NEW t \in Threads, Returns(t)
  PROVE  AnswersInv'
<1>1. /\ pc \in [Threads -> Stages] /\ result \in [Threads -> {Nil, "ok", "error"}]
      /\ Nil \notin {"ok", "error"}
  BY DEF GroupsInv, QueueInv, TypeInv, WriteQueueAssumption
<1>2. /\ UNCHANGED <<queue, members, request, count, result>> /\ Readable' = Readable
      /\ pc[t] = "waiting" /\ result[t] \in {"ok", "error"}
      /\ pc' = [pc EXCEPT ![t] = "idle"]
  BY <1>1 DEF Returns
<1>3. /\ acked' = IF result[t] = "ok" /\ ~IsNull(t) THEN acked \union {Batch(t)} ELSE acked
      /\ failed' = IF result[t] = "ok" \/ IsNull(t) THEN failed ELSE failed \union {Batch(t)}
  BY DEF Returns, Return
<1>4. \A u \in Threads : (IsNull(u)' <=> IsNull(u)) /\ Batch(u)' = Batch(u)
  BY <1>2 DEF IsNull, Batch
<1>5. \A u \in Threads : Batch(u) = Batch(t) => u = t
  BY BatchFacts DEF GroupsInv
<1>6. ~IsNull(t) => (Batch(t) \in Readable <=> result[t] = "ok")
  BY <1>1, <1>2 DEF AnswersInv
<1>7. AnswersAreTrue'
  <2>1. acked \subseteq Readable /\ failed \intersect Readable = {}
    BY DEF AnswersInv, AnswersAreTrue, Readable
  <2>2. acked' \subseteq Readable' /\ failed' \intersect Readable' = {}
    BY <1>2, <1>3, <1>6, <2>1
  <2> QED BY <2>2 DEF AnswersAreTrue, Readable
<1>8. \A u \in Threads : Pending(u)' => Pending(u) /\ u # t
  BY <1>1, <1>2 DEF Pending, InFront
<1>9. \A u \in Threads : (Grouped(u) /\ GroupIn({"inserted"}))' <=> Grouped(u) /\ GroupIn({"inserted"})
  <2>1. \A u \in Threads : pc'[u] = "inserted" <=> pc[u] = "inserted"
    BY <1>1, <1>2
  <2>2. GroupIn({"inserted"})' <=> GroupIn({"inserted"})
    BY <2>1 DEF GroupIn
  <2>3. \A u \in Threads : Grouped(u)' <=> Grouped(u)
    BY <1>2 DEF Grouped
  <2> QED BY <2>2, <2>3
<1>10. ASSUME NEW u \in Threads, Pending(u)', ~IsNull(u)'
       PROVE  /\ Batch(u)' \notin acked' \union failed'
              /\ Batch(u)' \in Readable' <=> (Grouped(u) /\ GroupIn({"inserted"}))'
  <2>1. Pending(u) /\ ~IsNull(u) /\ u # t /\ Batch(u)' = Batch(u)
    BY <1>4, <1>8, <1>10
  <2>2. Batch(u) \notin acked' \union failed'
    BY <1>3, <1>5, <2>1 DEF AnswersInv
  <2> QED BY <1>2, <1>9, <2>1, <2>2 DEF AnswersInv
<1>11. ASSUME NEW u \in Threads, pc'[u] = "waiting", result'[u] # Nil, ~IsNull(u)'
       PROVE  Batch(u)' \in Readable' <=> result'[u] = "ok"
  <2>1. pc[u] = "waiting" /\ ~IsNull(u) /\ Batch(u)' = Batch(u)
    BY <1>1, <1>2, <1>4, <1>11
  <2> QED BY <1>2, <1>11, <2>1 DEF AnswersInv
<1> QED BY <1>7, <1>10, <1>11 DEF AnswersInv

LEMMA AnswersInsert ==
  ASSUME WriteQueueAssumption, GroupsInv, AnswersInv, NEW t \in Threads, Inserts(t)
  PROVE  AnswersInv'
<1>1. GroupHolds /\ members \in 1..Len(queue)
  BY WritingGroup DEF Inserts, Writes, Writing
<1>2. /\ pc[t] = "inserting" /\ pc' = [pc EXCEPT ![t] = "inserted"]
      /\ UNCHANGED <<queue, members, request, count, result, acked, failed>>
      /\ Readable' = Readable \union ToSet(Group)
  BY DEF Inserts, Writes
<1>3. pc \in [Threads -> Stages] /\ Nil \notin {"ok", "error"}
  BY DEF GroupsInv, QueueInv, TypeInv, WriteQueueAssumption
<1>4. \A u \in Threads : (IsNull(u)' <=> IsNull(u)) /\ Batch(u)' = Batch(u)
  BY <1>2 DEF IsNull, Batch
<1>5. ~GroupIn({"inserted"}) /\ GroupIn({"inserted"})'
  <2>1. \A u \in Threads : InFront(u) => u = t
    BY <1>2, FrontFacts DEF GroupsInv, InFront
  <2>2. \A u \in Threads : pc[u] # "inserted"
    BY <1>2, <2>1 DEF InFront
  <2>3. pc'[t] = "inserted"
    BY <1>2, <1>3
  <2> QED BY <2>2, <2>3 DEF GroupIn
<1>6. \A i \in 1 .. members : queue[i] \in Threads /\ Pending(queue[i])
  BY <1>1, QueueIsTyped DEF GroupsInv, QueueIsPending
\* What becomes readable are the batches of those in the group.
<1>7. ASSUME NEW u \in Threads, ~IsNull(u)
      PROVE  Batch(u) \in ToSet(Group) <=> Grouped(u)
  <2>1. DOMAIN Group = 1..Len(Group)
    BY <1>1, LenProperties DEF GroupHolds
  <2>2. ASSUME Batch(u) \in ToSet(Group) PROVE Grouped(u)
    <3>1. PICK k \in 1..Len(Group) : Group[k] = Batch(u) BY <2>1, <2>2 DEF ToSet
    <3>2. PICK i \in 1..members : Group[k] = Batch(queue[i]) BY <1>1 DEF GroupHolds
    <3>3. queue[i] = u BY <1>6, <3>1, <3>2, BatchFacts DEF GroupsInv
    <3> QED BY <3>3 DEF Grouped
  <2>3. ASSUME Grouped(u) PROVE Batch(u) \in ToSet(Group)
    <3>1. PICK i \in 1..members : queue[i] = u BY <2>3 DEF Grouped
    <3>2. PICK k \in 1..Len(Group) : Group[k] = Batch(queue[i])
      BY <1>1, <1>7, <3>1 DEF GroupHolds
    <3> QED BY <2>1, <3>1, <3>2 DEF ToSet
  <2> QED BY <2>2, <2>3
<1>8. \A b \in ToSet(Group) : b \notin acked \union failed
  <2>1. DOMAIN Group = 1..Len(Group)
    BY <1>1, LenProperties DEF GroupHolds
  <2>2. ASSUME NEW b \in ToSet(Group) PROVE b \notin acked \union failed
    <3>1. PICK k \in 1..Len(Group) : Group[k] = b BY <2>1 DEF ToSet
    <3>2. PICK i \in 1 .. members : ~IsNull(queue[i]) /\ Group[k] = Batch(queue[i])
      BY <1>1 DEF GroupHolds
    <3> QED BY <1>6, <3>1, <3>2 DEF AnswersInv
  <2> QED BY <2>2
<1>9. AnswersAreTrue'
  <2>1. acked \subseteq Readable /\ failed \intersect Readable = {}
    BY DEF AnswersInv, AnswersAreTrue, Readable
  <2>2. acked' \subseteq Readable' /\ failed' \intersect Readable' = {}
    BY <1>2, <1>8, <2>1
  <2> QED BY <2>2 DEF AnswersAreTrue, Readable
<1>10. \A u \in Threads : /\ Pending(u)' <=> Pending(u)
                          /\ pc'[u] = "waiting" <=> pc[u] = "waiting"
  BY <1>2, <1>3 DEF Pending, InFront
<1>11. \A u \in Threads : Grouped(u)' <=> Grouped(u)
  BY <1>2 DEF Grouped
<1>12. ASSUME NEW u \in Threads, Pending(u)', ~IsNull(u)'
       PROVE  /\ Batch(u)' \notin acked' \union failed'
              /\ Batch(u)' \in Readable' <=> (Grouped(u) /\ GroupIn({"inserted"}))'
  <2>1. Pending(u) /\ ~IsNull(u)
    BY <1>4, <1>10, <1>12
  <2>2. Batch(u) \notin Readable /\ Batch(u) \notin acked \union failed
    BY <1>5, <2>1 DEF AnswersInv
  <2> QED BY <1>2, <1>4, <1>5, <1>7, <1>11, <2>1, <2>2
<1>13. ASSUME NEW u \in Threads, pc'[u] = "waiting", result'[u] # Nil, ~IsNull(u)'
       PROVE  Batch(u)' \in Readable' <=> result'[u] = "ok"
  <2>1. pc[u] = "waiting" /\ ~IsNull(u) /\ result[u] # Nil
    BY <1>2, <1>4, <1>10, <1>13
  <2>2. ~Grouped(u)
    <3>1. ~Pending(u) BY <2>1 DEF Pending, InFront
    <3> QED BY <1>6, <3>1 DEF Grouped
  <2>3. Batch(u) \notin ToSet(Group)
    BY <1>7, <2>1, <2>2
  <2>4. Batch(u) \in Readable <=> result[u] = "ok"
    BY <2>1 DEF AnswersInv
  <2> QED BY <1>2, <1>4, <2>3, <2>4
<1> QED BY <1>9, <1>12, <1>13 DEF AnswersInv

LEMMA AnswersStep ==
  ASSUME WriteQueueAssumption, GroupsInv, DataTypes', TracesAreOfCalls, AnswersInv, StepForm
  PROVE  AnswersInv'
<1>1. pc \in [Threads -> Stages]
  BY DEF GroupsInv, QueueInv, TypeInv
<1>2. ASSUME UNCHANGED <<queue, members, request, count, result, acked, failed>>, Readable' = Readable,
             \A u \in Threads : Pending(u)' => Pending(u),
             \A u \in Threads : pc'[u] = "waiting" => pc[u] = "waiting",
             \A u \in Threads : pc'[u] = "inserted" <=> pc[u] = "inserted"
      PROVE  AnswersInv'
  <2>1. GroupIn({"inserted"})' <=> GroupIn({"inserted"})
    BY <1>2 DEF GroupIn
  <2>2. \A u \in Threads : Grouped(u)' <=> Grouped(u)
    BY <1>2 DEF Grouped
  <2> QED BY <1>2, <2>1, <2>2, AnswersRest
<1>3. CASE Rests
  BY <1>2, <1>3 DEF Rests, Making, Pending, InFront
<1>4. ASSUME NEW t \in Threads, Starts(t) PROVE AnswersInv'
  <2>1. \A u \in Threads : InFront(u) => u = t
    BY <1>4, FrontFacts DEF GroupsInv, Starts, InFront
  <2>2. \A u \in Threads : pc[u] # "inserted" /\ pc'[u] # "inserted"
    BY <1>1, <1>4, <2>1 DEF Starts, InFront
  <2>3. ~GroupIn({"inserted"}) /\ ~GroupIn({"inserted"})'
    BY <2>2 DEF GroupIn
  <2>4. \A u \in Threads : /\ Pending(u)' => Pending(u)
                           /\ pc'[u] = "waiting" => pc[u] = "waiting"
    BY <1>1, <1>4 DEF Starts, Pending, InFront
  <2>5. UNCHANGED <<request, count, result, acked, failed>> /\ Readable' = Readable
    BY <1>4 DEF Starts
  <2> QED BY <2>3, <2>4, <2>5, AnswersRest
<1>5. ASSUME NEW t \in Threads, Misses(t) \/ Logs(t) \/ Syncs(t) PROVE AnswersInv'
  <2>1. PICK from \in Writing \ {"inserted"}, to \in Writing \ {"inserted"} : Writes(t, from, to)
    BY <1>5 DEF Misses, Logs, Syncs, Writes, Writing
  <2>2. Readable' = Readable
    BY <1>5 DEF Misses, Logs, Syncs
  <2>3. \A u \in Threads : /\ Pending(u)' => Pending(u)
                           /\ pc'[u] = "waiting" => pc[u] = "waiting"
                           /\ pc'[u] = "inserted" <=> pc[u] = "inserted"
    BY <1>1, <2>1 DEF Writes, Writing, Pending, InFront
  <2> QED BY <1>2, <2>1, <2>2, <2>3 DEF Writes
<1> QED BY <1>3, <1>4, <1>5, AnswersInsert, AnswersReturn, AnswersLeave, AnswersCall DEF StepForm

------------------------
(* The order of the queue and of the log. *)

LEMMA AppendedArrives ==
  ASSUME NEW a \in Seq(Batches), NEW b \in Batches, ~Has(a, b), Distinct(a)
  PROVE  /\ \A c : Has(a, c) => Has(Append(a, b), c) /\ Before(Append(a, b), c, b)
         /\ \A c, d : Before(a, c, d) => Before(Append(a, b), c, d)
         /\ Has(Append(a, b), b) /\ Distinct(Append(a, b))
<1> DEFINE n == Len(a)
           e == Append(a, b)
<1>1. n \in Nat /\ DOMAIN a = 1..n
  BY LenProperties
<1>2. /\ e \in Seq(Batches) /\ Len(e) = n + 1 /\ e[n + 1] = b
      /\ \A i \in 1..n : e[i] = a[i]
  BY AppendProperties
<1>3. DOMAIN e = 1..n + 1
  BY <1>2, LenProperties
<1> HIDE DEF n, e
<1>4. /\ n + 1 \in DOMAIN e
      /\ \A i \in DOMAIN a : i \in DOMAIN e /\ i < n + 1 /\ e[i] = a[i]
      /\ \A i \in DOMAIN e : i \in DOMAIN a \/ i = n + 1
  BY <1>1, <1>2, <1>3
<1>5. e[n + 1] = b /\ \A i \in DOMAIN a : a[i] # b
  BY <1>2 DEF Has
<1>6. ASSUME NEW c, Has(a, c) PROVE Has(e, c) /\ Before(e, c, b)
  BY <1>4, <1>5, <1>6 DEF Has, Before
<1>7. ASSUME NEW c, NEW d, Before(a, c, d) PROVE Before(e, c, d)
  BY <1>4, <1>7 DEF Before
<1>8. Has(e, b) /\ Distinct(e)
  BY <1>4, <1>5 DEF Has, Distinct
<1> QED BY <1>6, <1>7, <1>8 DEF e

\* The batches of the log stay as they are, and the queue with them.
LEMMA OrderRest ==
  ASSUME OrderInv, UNCHANGED <<queue, arrivals, request, count>>, DOMAIN log' = DOMAIN log,
         \A j \in DOMAIN log : log'[j].batches = log[j].batches,
         \A i \in 1..Len(queue) :
           i <= members /\ GroupIn(Recorded) => i <= members' /\ GroupIn(Recorded)'
  PROVE  OrderInv'
<1>1. \A i \in 1 .. Len(queue) : Batch(queue[i])' = Batch(queue[i]) /\ IsNull(queue[i])' = IsNull(queue[i])
  BY DEF Batch, IsNull
<1>2. \A b : LoggedBefore(arrivals, log, b) => LoggedBefore(arrivals', log', b)
  BY DEF LoggedBefore
<1>3. LogOrder(arrivals', log')
  BY DEF OrderInv, LogOrder
<1>4. LoggedHasArrived'
  BY DEF OrderInv, LoggedHasArrived
<1>5. QueueInOrder'
  BY <1>1, <1>2 DEF OrderInv, QueueInOrder
<1> QED BY <1>3, <1>4, <1>5 DEF OrderInv

LEMMA LoggedIsTyped ==
  ASSUME DataTypes
  PROVE  /\ Len(log) \in Nat /\ DOMAIN log = 1..Len(log)
         /\ \A j \in DOMAIN log : log[j] \in Records
         /\ \A j \in DOMAIN log : DOMAIN log[j].batches = 1..Len(log[j].batches)
<1>1. Len(log) \in Nat /\ DOMAIN log = 1 .. Len(log) /\ \A j \in DOMAIN log : log[j] \in Records
  BY LenProperties, ElementOfSeq DEF DataTypes
<1>2. \A j \in DOMAIN log : log[j].batches \in Seq(Batches)
  BY <1>1 DEF Records
<1>3. \A j \in DOMAIN log : DOMAIN log[j].batches = 1..Len(log[j].batches)
  BY <1>2, LenProperties
<1> QED BY <1>1, <1>3

\* What a record appended to the log looks like.
LEMMA LogFacts ==
  ASSUME GroupsInv, DataTypes', NEW t \in Threads, Logs(t)
  PROVE  /\ GroupHolds /\ members \in 1 .. Len(queue) /\ DOMAIN Group = 1..Len(Group)
         /\ Len(log) \in Nat /\ DOMAIN log = 1 .. Len(log) /\ Len(log') = Len(log) + 1
         /\ DOMAIN log' = 1 .. Len(log) + 1 /\ \A j \in DOMAIN log : log'[j] = log[j]
         /\ log'[Len(log) + 1] = [file |-> logFile, first |-> last + 1, batches |-> Group, synced |-> FALSE]
         /\ UNCHANGED <<queue, members, arrivals, request, count, result, acked, failed, logFile, last>>
         /\ ~GroupIn(Recorded) /\ GroupIn(Recorded)'
<1>1. GroupHolds /\ members \in 1..Len(queue)
  BY WritingGroup DEF Logs, Writes, Writing
<1>2. DOMAIN Group = 1..Len(Group)
  BY <1>1, LenProperties DEF GroupHolds
<1>3. log \in Seq(Records) /\ log' \in Seq(Records)
  BY DEF GroupsInv, DataTypes
<1>4. /\ Len(log) \in Nat /\ DOMAIN log = 1 .. Len(log) /\ DOMAIN log' = 1..Len(log')
  BY <1>3, LenProperties
<1>5. /\ Len(log') = Len(log) + 1 /\ \A j \in 1..Len(log) : log'[j] = log[j]
      /\ log'[Len(log) + 1] = [file |-> logFile, first |-> last + 1, batches |-> Group, synced |-> FALSE]
  BY <1>3, <1>4 DEF Logs
<1>6. /\ UNCHANGED <<queue, members, arrivals, request, count, result, acked, failed, logFile, last>>
      /\ pc[t] = "logging" /\ pc' = [pc EXCEPT ![t] = IF request[t].sync THEN "syncing" ELSE "inserting"]
  BY DEF Logs, Writes
<1>7. \A u \in Threads : InFront(u) => u = t
  BY <1>6, FrontFacts DEF GroupsInv, InFront
<1>8. ~GroupIn(Recorded) /\ GroupIn(Recorded)'
  <2>1. \A u \in Threads : pc[u] \notin Recorded
    BY <1>6, <1>7 DEF Recorded, InFront
  <2>2. pc'[t] \in Recorded
    BY <1>6 DEF Recorded, GroupsInv, QueueInv, TypeInv
  <2> QED BY <2>1, <2>2 DEF GroupIn
<1> QED BY <1>1, <1>2, <1>4, <1>5, <1>6, <1>8

LEMMA OrderLog ==
  ASSUME GroupsInv, DataTypes', OrderInv, NEW t \in Threads, Logs(t) PROVE OrderInv'
<1> DEFINE new == Len(log) + 1
           L == log'
<1>1. /\ GroupHolds /\ members \in 1 .. Len(queue) /\ DOMAIN Group = 1..Len(Group)
      /\ Len(log) \in Nat /\ DOMAIN log = 1..Len(log)
      /\ DOMAIN L = 1 .. new /\ \A j \in DOMAIN log : L[j] = log[j]
      /\ L[new] = [file |-> logFile, first |-> last + 1, batches |-> Group, synced |-> FALSE]
      /\ UNCHANGED <<queue, members, arrivals, request, count>>
      /\ ~GroupIn(Recorded) /\ GroupIn(Recorded)'
  BY LogFacts
<1>2. L[new].batches = Group /\ new \in DOMAIN L /\ \A j \in DOMAIN L : j \in DOMAIN log \/ j = new
  BY <1>1
<1>3. \A j \in DOMAIN log : j # new /\ j < new /\ ~(new < j) /\ j \in DOMAIN L
  BY <1>1
<1> HIDE DEF new, L
<1>4. \A i \in 1..members : i \in 1..Len(queue)
  BY <1>1, QueueIsTyped DEF GroupsInv
<1>5. ASSUME NEW i \in 1..Len(queue), ~IsNull(queue[i])
      PROVE  LoggedBefore(arrivals, log, Batch(queue[i]))
  BY <1>1, <1>5 DEF OrderInv, QueueInOrder
<1>6. ASSUME NEW k \in DOMAIN Group
      PROVE  Has(arrivals, Group[k]) /\ LoggedBefore(arrivals, log, Group[k])
  <2>1. PICK i \in 1 .. members : ~IsNull(queue[i]) /\ Group[k] = Batch(queue[i])
    BY <1>1, <1>6 DEF GroupHolds
  <2> QED BY <1>4, <1>5, <2>1 DEF OrderInv, QueueInOrder
<1>7. ASSUME NEW k \in DOMAIN Group, NEW l \in DOMAIN Group, k < l
      PROVE  Before(arrivals, Group[k], Group[l])
  <2>1. PICK i \in 1..members, j \in 1..members :
          /\ i < j /\ ~IsNull(queue[i]) /\ ~IsNull(queue[j])
          /\ Group[k] = Batch(queue[i]) /\ Group[l] = Batch(queue[j])
    <3>1. k \in 1 .. Len(Group) /\ l \in 1..Len(Group)
      BY <1>1
    <3>2. GroupHolds BY <1>1
    <3> QED BY <1>7, <3>1, <3>2, Zenon DEF GroupHolds
  <2> QED BY <1>4, <2>1 DEF OrderInv, QueueInOrder
<1>8. LogOrder(arrivals, L)
  <2> SUFFICES ASSUME NEW i \in DOMAIN L, NEW j \in DOMAIN L,
                      NEW k \in DOMAIN L[i].batches, NEW l \in DOMAIN L[j].batches,
                      i < j \/ (i = j /\ k < l)
               PROVE  Before(arrivals, L[i].batches[k], L[j].batches[l])
    BY DEF LogOrder
  <2>1. CASE j \in DOMAIN log
    <3>1. i \in DOMAIN log BY <1>2, <1>3, <2>1
    <3> QED BY <1>1, <2>1, <3>1 DEF OrderInv, LogOrder
  <2>2. CASE j = new /\ i \in DOMAIN log
    <3>1. L[i] = log[i] /\ L[j].batches = Group
      BY <1>1, <1>2, <2>2
    <3> QED BY <1>6, <2>2, <3>1 DEF LoggedBefore
  <2>3. CASE j = new /\ i = new
    <3>1. L[i].batches = Group /\ L[j].batches = Group /\ k < l
      BY <1>1, <1>2, <2>3, <1>3 DEF new
    <3> QED BY <1>7, <3>1
  <2> QED BY <1>2, <2>1, <2>2, <2>3
<1>9. LoggedHasArrived'
  <2>1. ASSUME NEW j \in DOMAIN L, NEW k \in DOMAIN L[j].batches
        PROVE  Has(arrivals, L[j].batches[k])
    <3>1. CASE j \in DOMAIN log
      BY <1>1, <3>1 DEF OrderInv, LoggedHasArrived
    <3>2. CASE j = new
      BY <1>2, <1>6, <3>2
    <3> QED BY <1>2, <3>1, <3>2
  <2> QED BY <1>1, <2>1 DEF OrderInv, LoggedHasArrived, L
<1>10. QueueInOrder'
  <2>1. \A i \in 1 .. Len(queue) : Batch(queue[i])' = Batch(queue[i]) /\ IsNull(queue[i])' = IsNull(queue[i])
    BY <1>1 DEF Batch, IsNull
  <2>2. ASSUME NEW i \in 1..Len(queue), ~IsNull(queue[i]), ~(i <= members)
        PROVE  LoggedBefore(arrivals, L, Batch(queue[i]))
    <3> SUFFICES ASSUME NEW j \in DOMAIN L, NEW k \in DOMAIN L[j].batches
                 PROVE  Before(arrivals, L[j].batches[k], Batch(queue[i]))
      BY DEF LoggedBefore
    <3>1. CASE j \in DOMAIN log
      BY <1>1, <1>5, <2>2, <3>1 DEF LoggedBefore
    <3>2. CASE j = new
      <4>1. PICK m \in 1 .. members : ~IsNull(queue[m]) /\ Group[k] = Batch(queue[m])
        BY <1>1, <1>2, <3>2 DEF GroupHolds
      <4>2. m < i BY <1>1, <2>2, QueueIsTyped DEF GroupsInv
      <4> QED BY <1>2, <1>4, <2>2, <3>2, <4>1, <4>2 DEF OrderInv, QueueInOrder
    <3> QED BY <1>2, <3>1, <3>2
  <2>3. QueueInOrder /\ L = log' /\ UNCHANGED <<queue, members, arrivals>> /\ GroupIn(Recorded)'
    BY <1>1 DEF OrderInv, L
  <2>4. \A i \in 1 .. Len(queue) : ~IsNull(queue[i]) /\ ~(i <= members) =>
          LoggedBefore(arrivals, L, Batch(queue[i]))
    BY <2>2
  <2> HIDE DEF L
  <2>5. \A i \in 1 .. Len(queue) : ~IsNull(queue[i])' /\ ~(i <= members /\ GroupIn(Recorded))' =>
          LoggedBefore(arrivals, L, Batch(queue[i]))
    BY <2>1, <2>3, <2>4
  <2>6. QueueInOrder' =
          (/\ \A i \in 1..Len(queue) : ~IsNull(queue[i])' => Has(arrivals, Batch(queue[i])')
           /\ \A i, j \in 1 .. Len(queue) : i < j /\ ~IsNull(queue[i])' /\ ~IsNull(queue[j])' =>
                Before(arrivals, Batch(queue[i])', Batch(queue[j])')
           /\ \A i \in 1 .. Len(queue) :
                ~IsNull(queue[i])' /\ ~(i <= members /\ GroupIn(Recorded))' =>
                  LoggedBefore(arrivals, L, Batch(queue[i])'))
    BY <2>3 DEF QueueInOrder
  <2> QED BY <2>1, <2>3, <2>5, <2>6 DEF QueueInOrder
<1> QED BY <1>1, <1>8, <1>9, <1>10 DEF OrderInv, L

LEMMA OrderLeave ==
  ASSUME WriteQueueAssumption, GroupsInv, OrderInv, NEW t \in Threads, NEW n \in Nat,
         NEW status \in {"ok", "error"}, Leaves(t, n, status)
  PROVE  OrderInv'
<1>1. /\ n \in 1..Len(queue)
      /\ \A i \in 1 .. Len(queue') : i + n \in n + 1 .. Len(queue) /\ queue'[i] = queue[i + n]
      /\ \A u \in Threads : u # t => ~InFront(u)
      /\ UNCHANGED <<request, count, arrivals>> /\ members' = 0
  <2>1. LeaveEffect(t, n, status)
    BY LeaveFacts
  <2> QED BY <2>1 DEF LeaveEffect
<1>2. log' = log
  BY DEF Leaves
<1>3. Len(queue) \in Nat
  BY QueueIsTyped DEF GroupsInv
<1>4. \A i \in 1..Len(queue') :
        /\ Batch(queue[i])' = Batch(queue[i + n]) /\ IsNull(queue[i])' = IsNull(queue[i + n])
        /\ i + n \in 1 .. Len(queue) /\ ~(i + n <= n)
  BY <1>1, <1>3 DEF Batch, IsNull
<1>5. \A i \in 1 .. Len(queue) : ~(i <= n) => ~(i <= members /\ GroupIn(Recorded))
  <2>1. CASE pc[t] \in Writing
    <3>1. n = members BY <2>1 DEF Leaves, Writing
    <3> QED BY <3>1
  <2>2. CASE pc[t] \notin Writing
    <3>1. \A u \in Threads : pc[u] \notin Recorded
      BY <1>1, <2>2 DEF Writing, Recorded, InFront
    <3> QED BY <3>1 DEF GroupIn
  <2> QED BY <2>1, <2>2
<1>6. ASSUME NEW i \in 1..Len(queue'), ~IsNull(queue[i])'
      PROVE  /\ Has(arrivals', Batch(queue[i])') /\ LoggedBefore(arrivals', log', Batch(queue[i])')
  <2>1. i + n \in 1 .. Len(queue) /\ ~IsNull(queue[i + n]) /\ Batch(queue[i])' = Batch(queue[i + n])
        /\ ~(i + n <= members /\ GroupIn(Recorded))
    BY <1>4, <1>5, <1>6
  <2>2. Has(arrivals, Batch(queue[i + n])) /\ LoggedBefore(arrivals, log, Batch(queue[i + n]))
    BY <2>1 DEF OrderInv, QueueInOrder
  <2> QED BY <1>1, <1>2, <2>1, <2>2
<1>7. ASSUME NEW i \in 1..Len(queue'), NEW j \in 1..Len(queue'), i < j,
             ~IsNull(queue[i])', ~IsNull(queue[j])'
      PROVE  Before(arrivals', Batch(queue[i])', Batch(queue[j])')
  <2>1. /\ i + n \in 1 .. Len(queue) /\ ~IsNull(queue[i + n]) /\ Batch(queue[i])' = Batch(queue[i + n])
        /\ j + n \in 1 .. Len(queue) /\ ~IsNull(queue[j + n]) /\ Batch(queue[j])' = Batch(queue[j + n])
    BY <1>4, <1>7
  <2>2. i + n < j + n
    BY <1>7
  <2>3. Before(arrivals, Batch(queue[i + n]), Batch(queue[j + n]))
    BY <2>1, <2>2 DEF OrderInv, QueueInOrder
  <2> QED BY <1>1, <2>1, <2>3
<1>8. QueueInOrder'
  BY <1>6, <1>7 DEF QueueInOrder
<1>9. LoggedHasArrived' /\ LogOrder(arrivals', log')
  BY <1>1, <1>2 DEF OrderInv, LoggedHasArrived
<1> QED BY <1>8, <1>9 DEF OrderInv

LEMMA OrderCall ==
  ASSUME WriteQueueAssumption, GroupsInv, DataTypes', TracesAreOfCalls, OrderInv,
         NEW t \in Threads, NEW r \in Requests, Calls(t, r)
  PROVE  OrderInv'
<1> DEFINE b == <<t, count[t] + 1>>
           last1 == Len(queue) + 1
<1>1. /\ Len(queue) \in Nat /\ Len(queue') = last1 /\ queue'[last1] = t
      /\ \A i \in 1 .. Len(queue) : queue'[i] = queue[i] /\ queue[i] \in Threads /\ queue[i] # t
      /\ \A u \in Threads \ {t} : request'[u] = request[u] /\ count'[u] = count[u] /\ pc'[u] = pc[u]
      /\ request'[t] = r /\ count'[t] = count[t] + 1 /\ pc'[t] \in {"room", "waiting"}
  BY CallFacts
<1>2. /\ UNCHANGED <<members, log>> /\ pc[t] = "idle"
      /\ arrivals' = IF r.size = 0 THEN arrivals ELSE Append(arrivals, b)
  BY DEF Calls
<1>3. \A u \in Threads \ {t} : (IsNull(u)' <=> IsNull(u)) /\ Batch(u)' = Batch(u)
  BY <1>1 DEF IsNull, Batch
<1>4. (IsNull(t)' <=> r.size = 0) /\ Batch(t)' = b
  BY <1>1 DEF IsNull, Batch
<1>5. b \in Batches /\ ~Has(arrivals, b) /\ arrivals \in Seq(Batches)
  <2>1. count[t] + 1 \in 1 .. MaxWrites /\ count[t] \in Int
    <3>1. count[t] \in 0 .. MaxWrites /\ count[t] < MaxWrites /\ MaxWrites \in Nat
      BY DEF GroupsInv, DataTypes, Calls, WriteQueueAssumption
    <3> QED BY <3>1
  <2>2. b \in Batches /\ b[1] = t /\ b[2] = count[t] + 1
    BY <2>1 DEF Batches
  <2> HIDE DEF b
  <2>3. HasArrived(b) => b[2] <= count[b[1]]
    BY <2>2 DEF TracesAreOfCalls
  <2>4. ~HasArrived(b)
    BY <2>1, <2>2, <2>3
  <2> QED BY <2>2, <2>4 DEF Has, HasArrived, GroupsInv, DataTypes
<1> HIDE DEF b
<1>6. Distinct(arrivals)
  BY DEF OrderInv, LoggedHasArrived
<1>7. /\ \A c : Has(arrivals, c) => Has(arrivals', c)
      /\ \A c, d : Before(arrivals, c, d) => Before(arrivals', c, d)
      /\ Distinct(arrivals')
  BY <1>2, <1>5, <1>6, AppendedArrives
<1>8. r.size # 0 => /\ Has(arrivals', b)
                    /\ \A c : Has(arrivals, c) => Before(arrivals', c, b)
  BY <1>2, <1>5, <1>6, AppendedArrives
<1>9. \A c : LoggedBefore(arrivals, log, c) => LoggedBefore(arrivals', log', c)
  BY <1>2, <1>7 DEF LoggedBefore
<1>10. r.size # 0 => LoggedBefore(arrivals', log', b)
  BY <1>2, <1>8 DEF LoggedBefore, OrderInv, LoggedHasArrived
<1>11. LogOrder(arrivals', log')
  BY <1>2, <1>7 DEF OrderInv, LogOrder
<1>12. LoggedHasArrived'
  BY <1>2, <1>7 DEF OrderInv, LoggedHasArrived
<1>13. GroupIn(Recorded)' <=> GroupIn(Recorded)
  <2>1. \A u \in Threads : pc'[u] \in Recorded <=> pc[u] \in Recorded
    BY <1>1, <1>2 DEF Recorded
  <2> QED BY <2>1 DEF GroupIn
<1>14. ASSUME NEW i \in 1..Len(queue'), i # last1
       PROVE  /\ i \in 1 .. Len(queue) /\ i < last1
              /\ IsNull(queue[i])' <=> IsNull(queue[i])
              /\ Batch(queue[i])' = Batch(queue[i])
  <2>1. i \in 1 .. Len(queue) /\ i < last1
    BY <1>1, <1>14
  <2>2. queue'[i] = queue[i] /\ queue[i] \in Threads \ {t}
    BY <1>1, <2>1
  <2> QED BY <1>1, <2>1, <2>2 DEF IsNull, Batch
<1>15. ASSUME NEW i \in 1..Len(queue'), i = last1
       PROVE  /\ IsNull(queue[i])' <=> r.size = 0
              /\ Batch(queue[i])' = b
  <2>1. queue'[i] = t
    BY <1>1, <1>15
  <2> QED BY <1>1, <2>1 DEF IsNull, Batch, b
<1>16. ASSUME NEW i \in 1..Len(queue'), ~IsNull(queue[i])'
       PROVE  Has(arrivals', Batch(queue[i])')
  <2>1. CASE i = last1
    BY <1>8, <1>15, <1>16, <2>1
  <2>2. CASE i # last1
    BY <1>7, <1>14, <1>16, <2>2 DEF OrderInv, QueueInOrder
  <2> QED BY <2>1, <2>2
<1>17. ASSUME NEW i \in 1..Len(queue'), NEW j \in 1..Len(queue'), i < j,
              ~IsNull(queue[i])', ~IsNull(queue[j])'
       PROVE  Before(arrivals', Batch(queue[i])', Batch(queue[j])')
  <2>1. i # last1
    BY <1>1, <1>17
  <2>2. i \in 1 .. Len(queue) /\ ~IsNull(queue[i]) /\ Batch(queue[i])' = Batch(queue[i])
    BY <1>14, <1>17, <2>1
  <2>3. CASE j = last1
    <3>1. Has(arrivals, Batch(queue[i])) BY <2>2 DEF OrderInv, QueueInOrder
    <3>2. r.size # 0 /\ Batch(queue[j])' = b
      BY <1>15, <1>17, <2>3
    <3> QED BY <1>8, <2>2, <3>1, <3>2
  <2>4. CASE j # last1
    <3>1. j \in 1 .. Len(queue) /\ ~IsNull(queue[j]) /\ Batch(queue[j])' = Batch(queue[j])
      BY <1>14, <1>17, <2>4
    <3>2. Before(arrivals, Batch(queue[i]), Batch(queue[j]))
      BY <1>17, <2>2, <3>1 DEF OrderInv, QueueInOrder
    <3> QED BY <1>7, <2>2, <3>1, <3>2
  <2> QED BY <2>3, <2>4
<1>18. ASSUME NEW i \in 1 .. Len(queue'), ~IsNull(queue[i])', ~(i <= members' /\ GroupIn(Recorded)')
       PROVE  LoggedBefore(arrivals', log', Batch(queue[i])')
  <2>1. CASE i = last1
    BY <1>10, <1>15, <1>18, <2>1
  <2>2. CASE i # last1
    <3>1. i \in 1 .. Len(queue) /\ ~IsNull(queue[i]) /\ Batch(queue[i])' = Batch(queue[i])
      BY <1>14, <1>18, <2>2
    <3>2. LoggedBefore(arrivals, log, Batch(queue[i]))
      BY <1>2, <1>13, <1>18, <3>1 DEF OrderInv, QueueInOrder
    <3> QED BY <1>9, <3>1, <3>2
  <2> QED BY <2>1, <2>2
<1>19. QueueInOrder'
  BY <1>16, <1>17, <1>18 DEF QueueInOrder
<1> QED BY <1>11, <1>12, <1>19 DEF OrderInv

LEMMA OrderStep ==
  ASSUME WriteQueueAssumption, GroupsInv, DataTypes', TracesAreOfCalls, OrderInv, StepForm
  PROVE  OrderInv'
<1>1. pc \in [Threads -> Stages]
  BY DEF GroupsInv, QueueInv, TypeInv
<1>2. ASSUME UNCHANGED <<queue, members, arrivals, request, count, log>>,
             \A u \in Threads : pc'[u] \in Recorded <=> pc[u] \in Recorded
      PROVE  OrderInv'
  <2>1. GroupIn(Recorded)' <=> GroupIn(Recorded)
    BY <1>2 DEF GroupIn
  <2> QED BY <1>2, <2>1, OrderRest
<1>3. CASE Rests
  BY <1>2, <1>3 DEF Rests, Making, Recorded
<1>4. ASSUME NEW t \in Threads, Starts(t) PROVE OrderInv'
  <2>1. \A u \in Threads : InFront(u) => u = t
    BY <1>4, FrontFacts DEF GroupsInv, Starts, InFront
  <2>2. \A u \in Threads : pc[u] \notin Recorded
    BY <1>4, <2>1 DEF Starts, InFront, Recorded
  <2>3. ~GroupIn(Recorded)
    BY <2>2 DEF GroupIn
  <2>4. UNCHANGED <<queue, arrivals, request, count, log>>
    BY <1>4 DEF Starts
  <2> QED BY <2>3, <2>4, OrderRest
<1>5. ASSUME NEW t \in Threads, Misses(t) \/ Inserts(t) PROVE OrderInv'
  BY <1>1, <1>2, <1>5 DEF Misses, Inserts, Writes, Recorded
<1>6. ASSUME NEW t \in Threads, Syncs(t) PROVE OrderInv'
  <2>1. DOMAIN log' = DOMAIN log /\ \A j \in DOMAIN log : log'[j].batches = log[j].batches
    BY <1>6, LoggedIsTyped DEF Syncs, Records, GroupsInv
  <2>2. \A u \in Threads : pc'[u] \in Recorded <=> pc[u] \in Recorded
    BY <1>1, <1>6 DEF Syncs, Writes, Recorded
  <2>3. GroupIn(Recorded)' <=> GroupIn(Recorded)
    BY <2>2 DEF GroupIn
  <2>4. UNCHANGED <<queue, members, arrivals, request, count>>
    BY <1>6 DEF Syncs, Writes
  <2> QED BY <2>1, <2>3, <2>4, OrderRest
<1>7. ASSUME NEW t \in Threads, Returns(t) PROVE OrderInv'
  BY <1>1, <1>2, <1>7 DEF Returns, Recorded
<1> QED BY <1>3, <1>4, <1>5, <1>6, <1>7, OrderLog, OrderLeave, OrderCall DEF StepForm

------------------------
(* The end of the log, and the sequence numbers. *)

LEMMA SameGroup ==
  ASSUME UNCHANGED <<queue, members, request, count>> PROVE Group' = Group
BY DEF Group, Batch

LEMMA EndsRest ==
  ASSUME DataTypes, EndsInv, Len(log') = Len(log), last' = last,
         \A j \in DOMAIN log : /\ log'[j].batches = log[j].batches
                               /\ log'[j].first = log[j].first /\ log'[j].file = log[j].file,
         GroupIn(Recorded)' <=> GroupIn(Recorded),
         GroupIn(Recorded) => Group' = Group /\ logFile' = logFile
  PROVE  EndsInv'
<1>1. Len(log) \in Nat /\ DOMAIN log = 1..Len(log)
  BY LoggedIsTyped
<1>2. Len(log) > 0 => Len(log) \in DOMAIN log
  BY <1>1
<1>3. \A i \in 2 .. Len(log) : i \in DOMAIN log /\ i - 1 \in DOMAIN log
  BY <1>1
<1>4. NumbersAscend'
  BY <1>3 DEF EndsInv, NumbersAscend
<1>5. LogEndsInGroup'
  BY <1>2 DEF EndsInv, LogEndsInGroup
<1> QED BY <1>4, <1>5 DEF EndsInv

LEMMA EndsLog ==
  ASSUME GroupsInv, DataTypes', EndsInv, NEW t \in Threads, Logs(t) PROVE EndsInv'
<1>1. /\ Len(log) \in Nat /\ DOMAIN log = 1 .. Len(log) /\ Len(log') = Len(log) + 1
      /\ \A j \in DOMAIN log : log'[j] = log[j]
      /\ log'[Len(log) + 1] = [file |-> logFile, first |-> last + 1, batches |-> Group, synced |-> FALSE]
      /\ UNCHANGED <<queue, members, request, count, logFile, last>>
      /\ ~GroupIn(Recorded) /\ GroupIn(Recorded)'
  BY LogFacts
<1>2. Group' = Group
  BY <1>1, SameGroup
<1>3. /\ log'[Len(log) + 1].batches = Group /\ log'[Len(log) + 1].first = last + 1
      /\ log'[Len(log) + 1].file = logFile
  BY <1>1
<1>4. LogEndsInGroup'
  <2>1. Len(log') > 0 /\ log'[Len(log')] = log'[Len(log) + 1]
    BY <1>1
  <2> QED BY <1>1, <1>2, <1>3, <2>1 DEF LogEndsInGroup
<1>5. ASSUME NEW i \in 2..Len(log')
      PROVE  log'[i - 1].first + Len(log'[i - 1].batches) <= log'[i].first
  <2>1. i - 1 \in DOMAIN log /\ log'[i - 1] = log[i - 1]
    BY <1>1
  <2>2. CASE i = Len(log) + 1
    <3>1. i - 1 = Len(log) /\ Len(log) > 0
      BY <1>1, <2>2
    <3>2. log[Len(log)].first + Len(log[Len(log)].batches) <= last + 1
      BY <1>1, <3>1 DEF EndsInv, LogEndsInGroup
    <3> QED BY <1>3, <2>1, <2>2, <3>1, <3>2
  <2>3. CASE i # Len(log) + 1
    <3>1. i \in 2 .. Len(log) /\ i \in DOMAIN log
      BY <1>1, <2>3
    <3> QED BY <1>1, <2>1, <3>1 DEF EndsInv, NumbersAscend
  <2> QED BY <2>2, <2>3
<1>6. NumbersAscend'
  BY <1>5 DEF NumbersAscend
<1> QED BY <1>4, <1>6 DEF EndsInv

LEMMA EndsLeave ==
  ASSUME WriteQueueAssumption, GroupsInv, DataTypes', EndsInv, NEW t \in Threads, NEW n \in Nat,
         NEW status \in {"ok", "error"}, Leaves(t, n, status)
  PROVE  EndsInv'
<1>1. \A u \in Threads : ~InFront(u)' /\ (u # t => ~InFront(u))
  <2>1. LeaveEffect(t, n, status)
    BY LeaveFacts
  <2> QED BY <2>1 DEF LeaveEffect
<1>2. log' = log
  BY DEF Leaves
<1>3. ~GroupIn(Recorded)'
  BY <1>1 DEF GroupIn, Recorded, InFront
<1>4. GroupIn(Recorded) <=> pc[t] \in Recorded
  <2>1. \A u \in Threads : pc[u] \in Recorded => u = t
    BY <1>1 DEF Recorded, InFront
  <2> QED BY <2>1 DEF GroupIn
<1>5. last \in Nat
  BY DEF GroupsInv, DataTypes
<1>6. Len(log) > 0 => log[Len(log)].first + Len(log[Len(log)].batches) <= last' + 1
  <2> SUFFICES ASSUME Len(log) > 0
               PROVE  log[Len(log)].first + Len(log[Len(log)].batches) <= last' + 1
    OBVIOUS
  <2>1. CASE pc[t] \in Recorded
    <3>1. last' = last + Len(Group) BY <2>1 DEF Leaves, Recorded
    <3>2. log[Len(log)].first = last + 1 /\ log[Len(log)].batches = Group
      BY <1>4, <2>1 DEF EndsInv, LogEndsInGroup
    <3>3. Len(Group) \in Nat BY <2>1, WritingGroup DEF Writing, Recorded
    <3> QED BY <1>5, <3>1, <3>2, <3>3
  <2>2. CASE pc[t] \notin Recorded
    <3>1. log[Len(log)].first + Len(log[Len(log)].batches) <= last + 1
      BY <1>4, <2>2 DEF EndsInv, LogEndsInGroup
    <3>2. log[Len(log)].first \in Int /\ Len(log[Len(log)].batches) \in Int
      <4>1. Len(log) \in DOMAIN log BY LoggedIsTyped DEF GroupsInv
      <4>2. log[Len(log)] \in Records BY <4>1, LoggedIsTyped DEF GroupsInv
      <4> QED BY <4>2, LenProperties DEF Records
    <3>3. last' = last \/ (last' = last + Len(Group) /\ Len(Group) \in Nat)
      BY WritingGroup DEF Leaves, Writing
    <3> QED BY <1>5, <3>1, <3>2, <3>3
  <2> QED BY <2>1, <2>2
<1>7. LogEndsInGroup'
  BY <1>2, <1>3, <1>6 DEF LogEndsInGroup
<1>8. NumbersAscend'
  BY <1>2 DEF EndsInv, NumbersAscend
<1> QED BY <1>7, <1>8 DEF EndsInv

LEMMA EndsStep ==
  ASSUME WriteQueueAssumption, GroupsInv, DataTypes', EndsInv, StepForm PROVE EndsInv'
<1>1. pc \in [Threads -> Stages] /\ DataTypes
  BY DEF GroupsInv, QueueInv, TypeInv
<1>2. ASSUME UNCHANGED <<queue, members, request, count, log, logFile, last>>,
             \A u \in Threads : pc'[u] \in Recorded <=> pc[u] \in Recorded
      PROVE  EndsInv'
  <2>1. GroupIn(Recorded)' <=> GroupIn(Recorded)
    BY <1>2 DEF GroupIn
  <2>2. Group' = Group
    BY <1>2, SameGroup
  <2> QED BY <1>1, <1>2, <2>1, <2>2, EndsRest
<1>3. CASE Rests
  BY <1>2, <1>3 DEF Rests, Making, Recorded
<1>4. ASSUME NEW t \in Threads, Starts(t) PROVE EndsInv'
  <2>1. \A u \in Threads : InFront(u) => u = t
    BY <1>4, FrontFacts DEF GroupsInv, Starts, InFront
  <2>2. \A u \in Threads : pc[u] \notin Recorded /\ pc'[u] \notin Recorded
    BY <1>1, <1>4, <2>1 DEF Starts, InFront, Recorded
  <2>3. ~GroupIn(Recorded) /\ ~GroupIn(Recorded)'
    BY <2>2 DEF GroupIn
  <2>4. UNCHANGED <<log, last>>
    BY <1>4 DEF Starts
  <2> QED BY <1>1, <2>3, <2>4, EndsRest
<1>5. ASSUME NEW t \in Threads, Misses(t) \/ Inserts(t) PROVE EndsInv'
  BY <1>1, <1>2, <1>5 DEF Misses, Inserts, Writes, Recorded
<1>6. ASSUME NEW t \in Threads, Syncs(t) PROVE EndsInv'
  <2>1. DOMAIN log' = DOMAIN log
        /\ \A j \in DOMAIN log : /\ log'[j].batches = log[j].batches
                                 /\ log'[j].first = log[j].first /\ log'[j].file = log[j].file
    BY <1>6, LoggedIsTyped DEF Syncs, Records, GroupsInv
  <2>2. \A u \in Threads : pc'[u] \in Recorded <=> pc[u] \in Recorded
    BY <1>1, <1>6 DEF Syncs, Writes, Recorded
  <2>3. GroupIn(Recorded)' <=> GroupIn(Recorded)
    BY <2>2 DEF GroupIn
  <2>4. UNCHANGED <<queue, members, request, count, last, logFile>>
    BY <1>6 DEF Syncs, Writes
  <2>5. Len(log') = Len(log)
    <3>1. DOMAIN log' = 1 .. Len(log') /\ Len(log') \in Nat
      BY LenProperties DEF DataTypes
    <3>2. DOMAIN log = 1 .. Len(log) /\ Len(log) \in Nat
      BY LoggedIsTyped, <1>1
    <3> QED BY <2>1, <3>1, <3>2, SameInterval
  <2>6. Group' = Group
    BY <2>4, SameGroup
  <2> QED BY <1>1, <2>1, <2>3, <2>4, <2>5, <2>6, EndsRest
<1>7. ASSUME NEW t \in Threads, Returns(t) PROVE EndsInv'
  BY <1>1, <1>2, <1>7 DEF Returns, Recorded
<1>8. ASSUME NEW t \in Threads, NEW r \in Requests, Calls(t, r) PROVE EndsInv'
  <2>1. /\ Len(queue) \in Nat
        /\ \A i \in 1 .. Len(queue) : queue'[i] = queue[i] /\ queue[i] \in Threads /\ queue[i] # t
        /\ \A u \in Threads \ {t} : request'[u] = request[u] /\ count'[u] = count[u] /\ pc'[u] = pc[u]
        /\ pc'[t] \in {"room", "waiting"}
    BY <1>8, CallFacts
  <2>2. pc[t] = "idle" /\ UNCHANGED <<members, log, logFile, last>>
    BY <1>8 DEF Calls
  <2>3. \A u \in Threads : pc'[u] \in Recorded <=> pc[u] \in Recorded
    BY <2>1, <2>2 DEF Recorded
  <2>4. GroupIn(Recorded)' <=> GroupIn(Recorded)
    BY <2>3 DEF GroupIn
  <2>5. ASSUME GroupIn(Recorded) PROVE Group' = Group
    <3>1. members \in 1..Len(queue)
      BY <2>5, WritingGroup DEF GroupIn, Recorded, Writing
    <3>2. ASSUME NEW i \in 1..members
          PROVE  /\ Batch(queue[i])' = Batch(queue[i])
                 /\ request'[queue'[i]].size = request[queue[i]].size
      <4>1. i \in 1..Len(queue) BY <2>1, <3>1
      <4> QED BY <2>1, <4>1 DEF Batch
    <3>3. Writers' = Writers BY <2>2, <3>2 DEF Writers
    <3>4. Group = AppendBatches(Writers) BY Zenon DEF Group, Writers
    <3>5. Group' = AppendBatches(Writers') BY Zenon DEF Group, Writers
    <3> QED BY <3>3, <3>4, <3>5
  <2> QED BY <1>1, <2>2, <2>4, <2>5, EndsRest
<1> QED BY <1>3, <1>4, <1>5, <1>6, <1>7, <1>8, EndsLog, EndsLeave DEF StepForm

LEMMA LogOrderMeans ==
  ASSUME OrderInv, EndsInv PROVE LogInQueueOrder
BY DEF OrderInv, EndsInv, LogOrder, NumbersAscend, Before, LogInQueueOrder, ArrivesBefore

------------------------
(* Syncs. *)

\* Of the records that hold a batch of the group there is only the last.
LEMMA GroupIsInLast ==
  ASSUME GroupsInv, OrderInv, EndsInv, GroupIn(Recorded), GroupHolds,
         NEW i \in 1..members, ~IsNull(queue[i]),
         NEW j \in DOMAIN log, InLog(Batch(queue[i]), j)
  PROVE  j = Len(log)
<1> DEFINE b == Batch(queue[i])
           m == Len(log)
<1>1. m \in DOMAIN log /\ log[m].batches = Group /\ DOMAIN log = 1 .. m /\ m \in Nat
  BY LoggedIsTyped DEF EndsInv, LogEndsInGroup, GroupsInv
<1>2. PICK k \in DOMAIN log[j].batches : log[j].batches[k] = b
  BY DEF InLog
<1>3. PICK l \in DOMAIN log[m].batches : log[m].batches[l] = b
  <2>1. PICK l \in 1..Len(Group) : Group[l] = b
    BY DEF GroupHolds
  <2>2. DOMAIN Group = 1..Len(Group)
    BY LenProperties DEF GroupHolds
  <2> QED BY <1>1, <2>1, <2>2
<1> HIDE DEF b, m
<1>4. CASE j < m
  <2>1. Before(arrivals, b, b)
    BY <1>1, <1>2, <1>3, <1>4 DEF OrderInv, LogOrder
  <2>2. PICK p \in DOMAIN arrivals, q \in DOMAIN arrivals : p < q /\ arrivals[p] = b /\ arrivals[q] = b
    BY <2>1 DEF Before
  <2>3. p = q
    BY <2>2 DEF OrderInv, LoggedHasArrived, Distinct
  <2>4. DOMAIN arrivals \subseteq Nat
    BY LenProperties DEF GroupsInv, DataTypes
  <2> QED BY <2>2, <2>3, <2>4
<1>5. ~(j < m) => j = m
  BY <1>1
<1> QED BY <1>4, <1>5 DEF m

\* Records stay, and may become synced.
LEMMA SyncsRest ==
  ASSUME DataTypes, SyncsInv, UNCHANGED <<request, count, acked>>, Len(log') = Len(log),
         DOMAIN log' = DOMAIN log,
         \A j \in DOMAIN log : log'[j].batches = log[j].batches /\ (log[j].synced => log'[j].synced),
         \A u \in Threads : pc'[u] = "waiting" /\ result'[u] = "ok"
           => pc[u] = "waiting" /\ result[u] = "ok",
         \A u \in Threads : pc'[u] \in {"inserting", "inserted"} /\ request[u].sync
           => Len(log) > 0 /\ log'[Len(log)].synced
  PROVE  SyncsInv'
<1>1. \A u \in Threads : (IsNull(u)' <=> IsNull(u)) /\ Batch(u)' = Batch(u)
  BY DEF IsNull, Batch
<1>2. \A u \in Threads : pc'[u] \in {"inserting", "inserted"} /\ request'[u].sync
        => Len(log') > 0 /\ log'[Len(log')].synced
  OBVIOUS
<1>3. ASSUME NEW u \in Threads, pc'[u] = "waiting", result'[u] = "ok", ~IsNull(u)', request'[u].sync,
             NEW j \in DOMAIN log', InLog(Batch(u), j)'
      PROVE  log'[j].synced
  <2>1. InLog(Batch(u), j)
    BY <1>1, <1>3 DEF InLog
  <2> QED BY <1>1, <1>3, <2>1 DEF SyncsInv
<1>4. AckedSyncsAreSynced'
  BY DEF SyncsInv, AckedSyncsAreSynced
<1> QED BY <1>2, <1>3, <1>4 DEF SyncsInv

LEMMA SyncsLog ==
  ASSUME WriteQueueAssumption, GroupsInv, DataTypes', AnswersInv, SyncsInv,
         NEW t \in Threads, Logs(t)
  PROVE  SyncsInv'
<1> DEFINE new == Len(log) + 1
<1>1. /\ GroupHolds /\ members \in 1 .. Len(queue) /\ DOMAIN Group = 1..Len(Group)
      /\ Len(log) \in Nat /\ DOMAIN log = 1..Len(log)
      /\ DOMAIN log' = 1 .. new /\ \A j \in DOMAIN log : log'[j] = log[j]
      /\ log'[new] = [file |-> logFile, first |-> last + 1, batches |-> Group, synced |-> FALSE]
      /\ UNCHANGED <<request, count, result, acked>>
  BY LogFacts
<1>2. log'[new].batches = Group /\ \A j \in DOMAIN log' : j \in DOMAIN log \/ j = new
  BY <1>1
<1> HIDE DEF new
<1>3. /\ pc \in [Threads -> Stages] /\ pc[t] = "logging"
      /\ pc' = [pc EXCEPT ![t] = IF request[t].sync THEN "syncing" ELSE "inserting"]
  BY DEF GroupsInv, QueueInv, TypeInv, Logs, Writes
<1>4. \A u \in Threads : InFront(u) => u = t
  BY <1>3, FrontFacts DEF GroupsInv, InFront
<1>5. \A u \in Threads : (IsNull(u)' <=> IsNull(u)) /\ Batch(u)' = Batch(u)
  BY <1>1 DEF IsNull, Batch
<1>6. \A u \in Threads : ~(pc'[u] \in {"inserting", "inserted"} /\ request'[u].sync)
  BY <1>1, <1>3, <1>4 DEF InFront
\* The batches of the group are not decided.
<1>7. ASSUME NEW k \in DOMAIN Group
      PROVE  \E u \in Threads : Pending(u) /\ ~IsNull(u) /\ Group[k] = Batch(u)
  <2>1. PICK i \in 1 .. members : ~IsNull(queue[i]) /\ Group[k] = Batch(queue[i])
    BY <1>1 DEF GroupHolds
  <2>2. i \in 1..Len(queue)
    BY <1>1, QueueIsTyped DEF GroupsInv
  <2>3. queue[i] \in Threads /\ Pending(queue[i])
    BY <2>2, QueueIsTyped DEF GroupsInv, QueueIsPending
  <2> QED BY <2>1, <2>3
<1>8. ASSUME NEW u \in Threads, pc'[u] = "waiting", result'[u] = "ok", ~IsNull(u)', request'[u].sync,
             NEW j \in DOMAIN log', InLog(Batch(u), j)'
      PROVE  log'[j].synced
  <2>1. pc[u] = "waiting" /\ result[u] = "ok" /\ ~IsNull(u) /\ request[u].sync
    BY <1>1, <1>3, <1>5, <1>8
  <2>2. PICK k \in DOMAIN log'[j].batches : log'[j].batches[k] = Batch(u)
    BY <1>5, <1>8 DEF InLog
  <2>3. CASE j \in DOMAIN log
    BY <1>1, <2>1, <2>2, <2>3 DEF SyncsInv, InLog
  <2>4. CASE j = new
    <3>1. PICK v \in Threads : Pending(v) /\ Batch(u) = Batch(v)
      BY <1>2, <1>7, <2>2, <2>4
    <3>2. Pending(u) BY <3>1, BatchFacts DEF GroupsInv
    <3>3. Nil # "ok" BY DEF WriteQueueAssumption
    <3> QED BY <2>1, <3>2, <3>3 DEF Pending, InFront
  <2> QED BY <1>2, <2>3, <2>4
<1>9. ASSUME NEW i \in DOMAIN log', NEW j \in DOMAIN log'[i].batches,
             log'[i].batches[j] \in acked,
             count[log'[i].batches[j][1]] = log'[i].batches[j][2],
             request[log'[i].batches[j][1]].sync
      PROVE  log'[i].synced
  <2>1. CASE i \in DOMAIN log
    BY <1>1, <1>9, <2>1 DEF SyncsInv, AckedSyncsAreSynced
  <2>2. CASE i = new
    <3>1. PICK v \in Threads : Pending(v) /\ ~IsNull(v) /\ log'[i].batches[j] = Batch(v)
      BY <1>2, <1>7, <2>2
    <3> QED BY <1>9, <3>1 DEF AnswersInv
  <2> QED BY <1>2, <2>1, <2>2
<1>10. AckedSyncsAreSynced'
  BY <1>1, <1>9 DEF AckedSyncsAreSynced
<1> QED BY <1>6, <1>8, <1>10 DEF SyncsInv

LEMMA SyncsLeave ==
  ASSUME WriteQueueAssumption, GroupsInv, OrderInv, EndsInv, SyncsInv, NEW t \in Threads,
         NEW n \in Nat, NEW status \in {"ok", "error"}, Leaves(t, n, status)
  PROVE  SyncsInv'
<1>1. /\ n \in 1 .. Len(queue) /\ queue[1] = t
      /\ \A u \in Threads : ~InFront(u)' /\ (pc'[u] = "waiting" <=> pc[u] = "waiting")
      /\ \A u \in Threads :
           result'[u] = IF \E i \in 2..n : queue[i] = u THEN status ELSE result[u]
      /\ UNCHANGED <<request, count>>
  <2>1. LeaveEffect(t, n, status)
    BY LeaveFacts
  <2> QED BY <2>1 DEF LeaveEffect
<1>2. log' = log /\ acked' \subseteq acked \union (IF status = "ok" /\ ~IsNull(t) THEN {Batch(t)} ELSE {})
  BY DEF Leaves, Finish, Return
<1>3. \A u \in Threads : (IsNull(u)' <=> IsNull(u)) /\ Batch(u)' = Batch(u)
  BY <1>1 DEF IsNull, Batch
\* Who is told that it went well is in a group that was recorded, and synced if asked for.
<1>4. ASSUME status = "ok", NEW i \in 1 .. n, i # 1 \/ ~IsNull(t), ~IsNull(queue[i]),
             request[queue[i]].sync, NEW j \in DOMAIN log, InLog(Batch(queue[i]), j)
      PROVE  log[j].synced
  <2>1. pc[t] = "inserted" /\ n = members
    <3>1. CASE pc[t] = "room"
      BY <1>1, <1>4, <3>1 DEF Leaves
    <3>2. CASE pc[t] # "room"
      BY <1>4, <3>2 DEF Leaves
    <3> QED BY <3>1, <3>2
  <2>2. GroupHolds
    BY <2>1, WritingGroup DEF Writing
  <2>3. GroupIn(Recorded)
    BY <2>1 DEF GroupIn, Recorded
  <2>4. j = Len(log)
    BY <1>4, <2>1, <2>2, <2>3, GroupIsInLast
  <2>5. request[t].sync
    BY <1>4, <2>1 DEF GroupsInv, GroupIsQueued, Writing
  <2> QED BY <2>1, <2>4, <2>5 DEF SyncsInv
<1>5. \A u \in Threads : ~(pc'[u] \in {"inserting", "inserted"})
  BY <1>1 DEF InFront
<1>6. ASSUME NEW u \in Threads, pc'[u] = "waiting", result'[u] = "ok", ~IsNull(u)', request'[u].sync,
             NEW j \in DOMAIN log', InLog(Batch(u), j)'
      PROVE  log'[j].synced
  <2>1. pc[u] = "waiting" /\ ~IsNull(u) /\ request[u].sync /\ j \in DOMAIN log
    BY <1>1, <1>2, <1>3, <1>6
  <2>2. InLog(Batch(u), j)
    BY <1>2, <1>3, <1>6 DEF InLog
  <2>3. ASSUME NEW i \in 2..n, queue[i] = u PROVE log[j].synced
    <3>1. i \in 1 .. n /\ i # 1 OBVIOUS
    <3>2. status = "ok" BY <1>1, <1>6, <2>3
    <3> QED BY <1>4, <2>1, <2>2, <2>3, <3>1, <3>2
  <2>4. ASSUME ~\E i \in 2..n : queue[i] = u PROVE log[j].synced
    <3>1. result[u] = "ok" BY <1>1, <1>6, <2>4
    <3> QED BY <2>1, <2>2, <3>1 DEF SyncsInv
  <2>5. log[j].synced
    BY <2>3, <2>4
  <2> QED BY <1>2, <2>5
<1>7. ASSUME NEW i \in DOMAIN log, NEW j \in DOMAIN log[i].batches, log[i].batches[j] \in acked',
             count[log[i].batches[j][1]] = log[i].batches[j][2],
             request[log[i].batches[j][1]].sync
      PROVE  log[i].synced
  <2>1. CASE log[i].batches[j] \in acked
    BY <1>7, <2>1 DEF SyncsInv, AckedSyncsAreSynced
  <2>2. CASE log[i].batches[j] \notin acked
    <3>1. status = "ok" /\ ~IsNull(t) /\ log[i].batches[j] = Batch(t)
      BY <1>2, <1>7, <2>2
    <3>2. request[t].sync BY <1>7, <3>1, BatchFacts DEF GroupsInv
    <3>3. InLog(Batch(t), i) BY <3>1 DEF InLog
    <3>4. 1 \in 1..n BY <1>1
    <3> QED BY <1>1, <1>4, <3>1, <3>2, <3>3, <3>4
  <2> QED BY <2>1, <2>2
<1>8. AckedSyncsAreSynced'
  BY <1>1, <1>2, <1>7 DEF AckedSyncsAreSynced
<1> QED BY <1>5, <1>6, <1>8 DEF SyncsInv

LEMMA SyncsReturn ==
  ASSUME WriteQueueAssumption, GroupsInv, SyncsInv, NEW t \in Threads, Returns(t) PROVE SyncsInv'
<1>1. /\ pc \in [Threads -> Stages] /\ pc[t] = "waiting" /\ pc' = [pc EXCEPT ![t] = "idle"]
      /\ UNCHANGED <<request, count, result, log>>
  BY DEF GroupsInv, QueueInv, TypeInv, Returns
<1>2. acked' \subseteq acked \union (IF result[t] = "ok" /\ ~IsNull(t) THEN {Batch(t)} ELSE {})
  BY DEF Returns, Return
<1>3. \A u \in Threads : /\ pc'[u] = "waiting" => pc[u] = "waiting"
                         /\ pc'[u] \in {"inserting", "inserted"} => pc[u] \in {"inserting", "inserted"}
  BY <1>1
<1>4. \A u \in Threads : (IsNull(u)' <=> IsNull(u)) /\ Batch(u)' = Batch(u)
  BY <1>1 DEF IsNull, Batch
<1>5. \A u \in Threads : \A j : InLog(Batch(u), j)' <=> InLog(Batch(u), j)
  BY <1>1, <1>4 DEF InLog
<1>6. ASSUME NEW i \in DOMAIN log, NEW j \in DOMAIN log[i].batches, log[i].batches[j] \in acked',
             count[log[i].batches[j][1]] = log[i].batches[j][2],
             request[log[i].batches[j][1]].sync
      PROVE  log[i].synced
  <2>1. CASE log[i].batches[j] \in acked
    BY <1>6, <2>1 DEF SyncsInv, AckedSyncsAreSynced
  <2>2. CASE log[i].batches[j] \notin acked
    <3>1. result[t] = "ok" /\ ~IsNull(t) /\ log[i].batches[j] = Batch(t)
      BY <1>2, <1>6, <2>2
    <3>2. request[t].sync BY <1>6, <3>1, BatchFacts DEF GroupsInv
    <3>3. InLog(Batch(t), i) BY <3>1 DEF InLog
    <3> QED BY <1>1, <3>1, <3>2, <3>3 DEF SyncsInv
  <2> QED BY <2>1, <2>2
<1>7. AckedSyncsAreSynced'
  BY <1>1, <1>6 DEF AckedSyncsAreSynced
<1>8. \A u \in Threads : pc'[u] \in {"inserting", "inserted"} /\ request'[u].sync =>
        Len(log') > 0 /\ log'[Len(log')].synced
  BY <1>1, <1>3 DEF SyncsInv
<1>9. \A u \in Threads : pc'[u] = "waiting" /\ result'[u] = "ok" /\ ~IsNull(u)' /\ request'[u].sync =>
        \A j \in DOMAIN log' : InLog(Batch(u), j)' => log'[j].synced
  BY <1>1, <1>3, <1>4, <1>5 DEF SyncsInv
<1> QED BY <1>7, <1>8, <1>9 DEF SyncsInv

LEMMA SyncsCall ==
  ASSUME WriteQueueAssumption, GroupsInv, TracesAreOfCalls, SyncsInv,
         NEW t \in Threads, NEW r \in Requests, Calls(t, r)
  PROVE  SyncsInv'
<1>1. /\ \A u \in Threads \ {t} : /\ request'[u] = request[u] /\ count'[u] = count[u]
                                  /\ pc'[u] = pc[u] /\ result'[u] = result[u]
      /\ count'[t] = count[t] + 1 /\ result'[t] = Nil /\ pc'[t] \in {"room", "waiting"}
  BY CallFacts
<1>2. UNCHANGED <<acked, log>> /\ Nil # "ok"
  BY DEF Calls, WriteQueueAssumption
<1>3. \A u \in Threads \ {t} : (IsNull(u)' <=> IsNull(u)) /\ Batch(u)' = Batch(u)
  BY <1>1 DEF IsNull, Batch
<1>4. ASSUME NEW u \in Threads, pc'[u] \in {"inserting", "inserted"}, request'[u].sync
      PROVE  Len(log') > 0 /\ log'[Len(log')].synced
  <2>1. u # t
    BY <1>1, <1>4
  <2> QED BY <1>1, <1>2, <1>4, <2>1 DEF SyncsInv
<1>5. ASSUME NEW u \in Threads, pc'[u] = "waiting", result'[u] = "ok", ~IsNull(u)', request'[u].sync,
             NEW j \in DOMAIN log', InLog(Batch(u), j)'
      PROVE  log'[j].synced
  <2>1. u # t
    BY <1>1, <1>2, <1>5
  <2>2. InLog(Batch(u), j)
    BY <1>2, <1>3, <1>5, <2>1 DEF InLog
  <2> QED BY <1>1, <1>2, <1>3, <1>5, <2>1, <2>2 DEF SyncsInv
<1>6. ASSUME NEW i \in DOMAIN log, NEW j \in DOMAIN log[i].batches, log[i].batches[j] \in acked,
             count'[log[i].batches[j][1]] = log[i].batches[j][2],
             request'[log[i].batches[j][1]].sync
      PROVE  log[i].synced
  <2> DEFINE b == log[i].batches[j]
  <2>1. b \in Batches /\ b[2] <= count[b[1]]
    BY <1>6 DEF TracesAreOfCalls
  <2>2. b[1] \in Threads /\ count[b[1]] \in Int
    <3> HIDE DEF b
    <3>1. b[1] \in Threads BY <2>1 DEF Batches
    <3> QED BY <3>1 DEF GroupsInv, DataTypes
  <2>3. b[1] # t
    <3> HIDE DEF b
    <3>1. count'[b[1]] = b[2] BY <1>6 DEF b
    <3> QED BY <1>1, <2>1, <2>2, <3>1
  <2>4. count[b[1]] = b[2] /\ request[b[1]].sync
    BY <1>1, <1>6, <2>2, <2>3
  <2> QED BY <1>6, <2>4 DEF SyncsInv, AckedSyncsAreSynced
<1>7. AckedSyncsAreSynced'
  BY <1>2, <1>6 DEF AckedSyncsAreSynced
<1> QED BY <1>4, <1>5, <1>7 DEF SyncsInv

LEMMA SyncsStep ==
  ASSUME WriteQueueAssumption, GroupsInv, DataTypes', TracesAreOfCalls, AnswersInv, OrderInv,
         EndsInv, SyncsInv, StepForm
  PROVE  SyncsInv'
<1>1. pc \in [Threads -> Stages] /\ DataTypes
  BY DEF GroupsInv, QueueInv, TypeInv
<1>2. ASSUME UNCHANGED <<request, count, result, acked, log>>,
             \A u \in Threads : pc'[u] = "waiting" => pc[u] = "waiting",
             \A u \in Threads :
               pc'[u] \in {"inserting", "inserted"} => pc[u] \in {"inserting", "inserted"}
      PROVE  SyncsInv'
  <2>1. \A u \in Threads : pc'[u] \in {"inserting", "inserted"} /\ request[u].sync
          => Len(log) > 0 /\ log'[Len(log)].synced
    BY <1>2 DEF SyncsInv
  <2> QED BY <1>1, <1>2, <2>1, SyncsRest
<1>3. CASE Rests
  BY <1>2, <1>3 DEF Rests, Making
<1>4. ASSUME NEW t \in Threads, Starts(t) \/ Misses(t) \/ Inserts(t) PROVE SyncsInv'
  BY <1>1, <1>2, <1>4 DEF Starts, Misses, Inserts, Writes
<1>5. ASSUME NEW t \in Threads, Syncs(t) PROVE SyncsInv'
  <2>1. pc[t] = "syncing" /\ UNCHANGED <<request, count, result, acked>>
        /\ pc' = [pc EXCEPT ![t] = "inserting"]
    BY <1>5 DEF Syncs, Writes
  <2>2. /\ DOMAIN log' = DOMAIN log
        /\ \A j \in DOMAIN log : /\ log'[j].batches = log[j].batches
                                 /\ log[j].synced => log'[j].synced
                                 /\ log[j].file = logFile => log'[j].synced
    BY <1>1, <1>5, LoggedIsTyped DEF Syncs, Records
  <2>3. Len(log') = Len(log)
    <3>1. DOMAIN log' = 1 .. Len(log') /\ Len(log') \in Nat
      BY LenProperties DEF DataTypes
    <3>2. DOMAIN log = 1 .. Len(log) /\ Len(log) \in Nat
      BY <1>1, LoggedIsTyped
    <3> QED BY <2>2, <3>1, <3>2, SameInterval
  <2>4. Len(log) > 0 /\ log'[Len(log)].synced
    <3>1. GroupIn(Recorded) BY <2>1 DEF GroupIn, Recorded
    <3>2. Len(log) > 0 /\ log[Len(log)].file = logFile
      BY <3>1 DEF EndsInv, LogEndsInGroup
    <3>3. Len(log) \in DOMAIN log BY <1>1, <3>2, LoggedIsTyped
    <3> QED BY <2>2, <3>2, <3>3
  <2>5. \A u \in Threads : pc'[u] = "waiting" /\ result'[u] = "ok" => pc[u] = "waiting" /\ result[u] = "ok"
    BY <1>1, <2>1
  <2> QED BY <1>1, <2>1, <2>2, <2>3, <2>4, <2>5, SyncsRest
<1> QED BY <1>3, <1>4, <1>5, SyncsLog, SyncsLeave, SyncsReturn, SyncsCall DEF StepForm

------------------------
(* The invariant. *)

WriteInv ==
  /\ GroupsInv /\ TracesAreOfCalls /\ AnswersInv
  /\ OrderInv /\ EndsInv /\ SyncsInv

LEMMA WriteInit == ASSUME WriteQueueAssumption, Init PROVE WriteInv
<1> USE DEF Init
<1>1. /\ \A t \in Threads : pc[t] = "idle" /\ result[t] = Nil
      /\ queue = << >> /\ log = << >> /\ arrivals = << >>
      /\ Len(queue) = 0 /\ Len(log) = 0 /\ DOMAIN log = {} /\ DOMAIN arrivals = {}
  BY EmptySeq
<1>2. QueueInv
  BY EmptySeq DEF QueueInv, TypeInv, PendingIsQueued, FrontIsFirst, Pending, InFront, Stages
<1>3. DataTypes
  BY DEF DataTypes, WriteQueueAssumption
<1>4. QueueIsPending /\ GroupIsQueued /\ TracesAreOfCalls
  BY <1>1 DEF QueueIsPending, GroupIsQueued, TracesAreOfCalls, HasArrived, Readable, Writing
<1>5. AnswersInv
  BY <1>1 DEF AnswersInv, AnswersAreTrue, Pending, InFront
<1>6. OrderInv
  BY <1>1 DEF OrderInv, LoggedHasArrived, Distinct, QueueInOrder, LogOrder
<1>7. ~GroupIn(Recorded)
  BY <1>1 DEF GroupIn, Recorded
<1>8. EndsInv
  BY <1>1, <1>7 DEF EndsInv, LogEndsInGroup, NumbersAscend
<1>9. SyncsInv
  BY <1>1 DEF SyncsInv, AckedSyncsAreSynced
<1> QED BY <1>2, <1>3, <1>4, <1>5, <1>6, <1>8, <1>9 DEF WriteInv, GroupsInv

LEMMA WriteStep == ASSUME WriteQueueAssumption, WriteInv, [Next]_vars PROVE WriteInv'
<1> USE DEF WriteInv
<1>1. StepForm
  BY StepForms
<1>2. DataTypes'
  BY DataStep
<1>3. GroupsInv'
  BY <1>1, <1>2, QueueStep, PendingStep, GroupQueuedStep DEF GroupsInv
<1>4. TracesAreOfCalls' /\ AnswersInv'
  BY <1>1, <1>2, TracesStep, AnswersStep
<1>5. OrderInv' /\ EndsInv' /\ SyncsInv'
  BY <1>1, <1>2, OrderStep, EndsStep, SyncsStep
<1> QED BY <1>3, <1>4, <1>5

LEMMA WriteInvariant == ASSUME WriteQueueAssumption PROVE Spec => []WriteInv
<1>1. Init => WriteInv
  BY WriteInit
<1>2. WriteInv /\ [Next]_vars => WriteInv'
  BY WriteStep
<1> QED BY <1>1, <1>2, PTL DEF Spec

\* What DBImpl::Write answers is true: an acknowledged write can be read and is on the disk
\* if that was asked for, a failed one cannot be read, and the log holds the batches in the
\* order the writers queued up, under ascending sequence numbers, whatever fails in between.
THEOREM WritesAreAnsweredTruly == ASSUME WriteQueueAssumption PROVE Spec => []QueueAnswersAreTrue
<1>1. ASSUME WriteInv PROVE QueueAnswersAreTrue
  BY <1>1, LogOrderMeans DEF WriteInv, AnswersInv, SyncsInv, QueueAnswersAreTrue
<1> QED BY <1>1, WriteInvariant, PTL

------------------------
(* The rest of the queue's types. *)

\* Level 0 has room for the table of the memtable that is being flushed.
RoomOfLevelZero ==
  level0 \in 0 .. L0Stop /\ (imm # Nil => level0 < L0Stop) /\ (bg = "flushing" => imm # Nil)

LEMMA RoomStep ==
  ASSUME WriteQueueAssumption, RoomOfLevelZero, [Next]_vars PROVE RoomOfLevelZero'
<1> USE DEF WriteQueueAssumption, RoomOfLevelZero
<1>1. ASSUME NEW t \in Threads, NEW r \in Requests, Call(t, r) PROVE RoomOfLevelZero'
  BY <1>1 DEF Call, bgVars
<1>2. ASSUME NEW t \in Threads, Step(t) PROVE RoomOfLevelZero'
  <2>1. CASE RoomSwitch(t)
    <3>1. level0 < L0Stop /\ UNCHANGED <<level0, bg>> /\ imm = Nil
      BY <2>1 DEF RoomSwitch
    <3>2. bg' # "flushing" BY <3>1
    <3> QED BY <3>1, <3>2
  <2>2. CASE Wake(t) \/ RoomError(t) \/ RoomSleep(t) \/ Slept(t) \/ RoomFound(t) \/ RoomStall(t)
    <3>1. UNCHANGED <<imm, level0, bg>>
      BY <2>2 DEF Wake, RoomError, RoomSleep, Slept, RoomFound, RoomStall, bgVars
    <3> QED BY <3>1
  <2>3. CASE LogRecord(t) \/ SyncLog(t) \/ Insert(t) \/ Publish(t)
    <3>1. UNCHANGED <<imm, level0, bg>>
      BY <2>3 DEF LogRecord, SyncLog, Insert, Publish, bgVars
    <3> QED BY <3>1
  <2> QED BY <1>2, <2>1, <2>2, <2>3 DEF Step
<1>3. CASE BackgroundCall
  BY <1>3 DEF BackgroundCall
<1>4. CASE Flush \/ FlushInMerge
  <2>1. bg' # "flushing" /\ CompactMemTable /\ imm # Nil
    BY <1>4 DEF Flush, FlushInMerge
  <2> QED BY <2>1 DEF CompactMemTable
<1>5. CASE Merge
  BY <1>5 DEF Merge
<1>6. CASE BackgroundEnds
  BY <1>6 DEF BackgroundEnds
<1>7. CASE Close \/ Closed \/ UNCHANGED vars
  BY <1>7 DEF Close, Closed, vars, bgVars
<1> QED BY <1>1, <1>2, <1>3, <1>4, <1>5, <1>6, <1>7 DEF Next, Background

RestIsTyped ==
  /\ members <= Len(queue)
  /\ request \in [Threads -> Requests \union {[sync |-> FALSE, size |-> 0]}]
  /\ signalled \subseteq Threads
  /\ bg \in {"idle", "flushing", "merging", "ending"} /\ error \in {Nil, "sync", "background"}

LEMMA GroupFitsQueue == ASSUME TypeInv PROVE GroupSize <= Len(queue)
<1>1. Len(queue) \in Nat
  BY LenProperties DEF TypeInv
<1>2. IsFiniteSet(1 .. Len(queue)) /\ Cardinality(1..Len(queue)) = Len(queue)
  <2> DEFINE l == Len(queue)
  <2>1. 1 \in Int /\ l \in Int /\ l \in Nat
    BY <1>1
  <2> HIDE DEF l
  <2>2. IsFiniteSet(1..l) /\ Cardinality(1..l) = IF 1 > l THEN 0 ELSE l - 1 + 1
    BY <2>1, FS_Interval
  <2>3. Cardinality(1..l) = l
    BY <2>1, <2>2
  <2> QED BY <2>2, <2>3 DEF l
<1>3. {n \in 1..Len(queue) : \A i \in 2..n : Fits(i)} \in SUBSET (1..Len(queue))
  OBVIOUS
<1> QED BY <1>2, <1>3, FS_Subset DEF GroupSize

\* Finish wakes threads of the queue.
LEMMA FinishWakesThreads ==
  ASSUME TypeInv, signalled \subseteq Threads, NEW t \in Threads, NEW n \in 0..Len(queue),
         NEW status, Finish(t, n, status)
  PROVE  signalled' \subseteq Threads /\ members' <= Len(queue') /\ request' = request
<1>1. Len(queue) \in Nat /\ \A i \in 1..Len(queue) : queue[i] \in Threads
  BY LenProperties, ElementOfSeq DEF TypeInv
<1>2. {queue[i] : i \in 2..n} \subseteq Threads
  BY <1>1
<1>3. PICK rest : rest = SubSeq(queue, n + 1, Len(queue)) OBVIOUS
<1>4. rest \in Seq(Threads)
  BY <1>1, <1>3, SubSeqOfQueue DEF TypeInv
<1>5. rest # <<>> => Head(rest) \in Threads
  BY <1>4, EmptySeq
<1>6. Len(rest) \in Nat
  BY <1>4, LenProperties
<1>7. /\ queue' = rest /\ members' = 0 /\ request' = request
      /\ signalled' = signalled \union {queue[i] : i \in 2..n} \union
                      IF rest = <<>> THEN {} ELSE {Head(rest)}
  BY <1>3 DEF Finish
<1> QED BY <1>2, <1>5, <1>6, <1>7

LEMMA RestStep ==
  ASSUME WriteQueueAssumption, TypeInv, RestIsTyped, \A t \in Threads : InFront(t) => Len(queue) > 0,
         [Next]_vars
  PROVE  RestIsTyped'
<1>0. Len(queue) \in Nat /\ members \in Nat /\ GroupSize \in 0..Len(queue)
  BY LenProperties, GroupSizeIsNat, GroupFitsQueue DEF TypeInv
<1>1. ASSUME NEW t \in Threads, NEW r \in Requests, Call(t, r) PROVE RestIsTyped'
  <2>1. Len(queue') = Len(queue) + 1
    BY <1>1, LenProperties DEF Call, TypeInv
  <2> QED BY <1>0, <1>1, <2>1 DEF Call, RestIsTyped, bgVars
<1>2. ASSUME NEW t \in Threads, Step(t) PROVE RestIsTyped'
  <2>1. CASE Wake(t)
    BY <2>1 DEF Wake, RestIsTyped, bgVars, queueVars
  <2>2. CASE RoomError(t)
    <3>1. Finish(t, 1, "error") /\ InFront(t) /\ UNCHANGED <<bg, error>>
      BY <2>2 DEF RoomError, InFront, bgVars
    <3> QED BY <1>0, <3>1, FinishWakesThreads DEF RestIsTyped
  <2>3. CASE RoomSleep(t) \/ Slept(t) \/ RoomStall(t)
    BY <2>3 DEF RoomSleep, Slept, RoomStall, RestIsTyped, bgVars, queueVars, threadVars
  <2>4. CASE RoomFound(t)
    BY <1>0, <2>4 DEF RoomFound, RestIsTyped, bgVars, threadVars
  <2>5. CASE RoomSwitch(t)
    <3>1. InFront(t) /\ UNCHANGED <<bg, error>>
      BY <2>5 DEF RoomSwitch, InFront
    <3>2. CASE Finish(t, 1, "ok") \/ Finish(t, 1, "error")
      BY <1>0, <3>1, <3>2, FinishWakesThreads DEF RestIsTyped
    <3>3. CASE members' = GroupSize /\ UNCHANGED <<queue, threadVars>>
      BY <1>0, <3>1, <3>3 DEF RestIsTyped, threadVars
    <3> QED BY <2>5, <3>2, <3>3 DEF RoomSwitch
  <2>6. CASE LogRecord(t) \/ SyncLog(t) \/ Insert(t)
    BY <2>6 DEF LogRecord, SyncLog, Insert, RestIsTyped, bgVars, queueVars, threadVars
  <2>7. CASE Publish(t)
    <3>1. PICK status : Finish(t, members, status) BY <2>7 DEF Publish
    <3>2. bg' = bg /\ error' \in {Nil, "sync", "background"}
      BY <2>7 DEF Publish, RestIsTyped, bgVars
    <3> QED BY <1>0, <3>1, <3>2, FinishWakesThreads DEF RestIsTyped
  <2> QED BY <1>2, <2>1, <2>2, <2>3, <2>4, <2>5, <2>6, <2>7 DEF Step
<1>3. CASE Background
  <2>1. UNCHANGED <<queueVars, threadVars>>
    BY <1>3 DEF Background, BackgroundCall, Flush, FlushInMerge, Merge, BackgroundEnds
  <2>2. bg' \in {"idle", "flushing", "merging", "ending"} /\ error' \in {Nil, "sync", "background"}
    BY <1>3 DEF Background, BackgroundCall, Flush, FlushInMerge, Merge, BackgroundEnds,
       CompactMemTable, RecordBackgroundError, RestIsTyped
  <2> QED BY <2>1, <2>2 DEF RestIsTyped, queueVars, threadVars
<1>4. CASE Close \/ Closed \/ UNCHANGED vars
  BY <1>4 DEF Close, Closed, vars, RestIsTyped, bgVars, queueVars, threadVars
<1> QED BY <1>1, <1>2, <1>3, <1>4 DEF Next

\* The types of the queue.  Level 0 never has more than L0_StopWritesTrigger files: memtables
\* are switched below it only, and a memtable is one file (MakeRoomForWrite, CompactMemTable);
\* files of level 0 that a recovery found are not in this model.
THEOREM QueueIsWellTyped == ASSUME WriteQueueAssumption PROVE Spec => []TypeOK
<1> DEFINE I == RoomOfLevelZero /\ RestIsTyped
<1>1. Init => I
  <2> SUFFICES ASSUME Init PROVE I OBVIOUS
  <2>1. /\ queue = <<>> /\ Len(queue) = 0 /\ members = 0 /\ signalled = {} /\ level0 = 0 /\ imm = Nil
        /\ request = [t \in Threads |-> [sync |-> FALSE, size |-> 0]] /\ bg = "idle" /\ error = Nil
    BY EmptySeq DEF Init
  <2> QED BY <2>1 DEF RoomOfLevelZero, RestIsTyped, WriteQueueAssumption
<1>2. WriteInv /\ I /\ [Next]_vars => I'
  <2> SUFFICES ASSUME WriteInv, I, [Next]_vars PROVE I' OBVIOUS
  <2>1. TypeInv /\ PendingIsQueued
    BY DEF WriteInv, GroupsInv, QueueInv
  <2>2. \A t \in Threads : InFront(t) => Len(queue) > 0
    <3>1. Len(queue) \in Nat BY <2>1, LenProperties DEF TypeInv
    <3>2. \A t \in Threads : InFront(t) => Pending(t) BY DEF Pending
    <3> QED BY <2>1, <3>1, <3>2 DEF PendingIsQueued
  <2> QED BY <2>1, <2>2, RoomStep, RestStep
<1>3. WriteInv /\ ScheduleInv /\ I => TypeOK
  <2> SUFFICES ASSUME WriteInv, ScheduleInv, I PROVE TypeOK OBVIOUS
  <2>1. /\ TypeInv /\ count \in [Threads -> 0 .. MaxWrites] /\ last \in Nat
        /\ (bg # "idle" => scheduled)
    BY DEF WriteInv, GroupsInv, QueueInv, DataTypes, ScheduleInv, BackgroundIsScheduled
  <2>2. members \in 0..Len(queue)
    BY <2>1, LenProperties DEF TypeInv, RestIsTyped
  <2> QED BY <2>1, <2>2 DEF TypeOK, TypeInv, RoomOfLevelZero, RestIsTyped
<1> HIDE DEF I
<1> QED BY <1>1, <1>2, <1>3, WriteInvariant, ScheduleInvariant, PTL DEF Spec
------------------------
(* The levels: an instance with constants and variables of its own. *)

\* The instance counts as this module does.
LEMMA CountsAreTheSame == ASSUME NEW S PROVE DB!Cardinality(S) = Cardinality(S)
BY DEF DB!Cardinality, Cardinality, DB!IsFiniteSet, IsFiniteSet

------------------------
(* Finite sets in order. *)

\* An order of S, as the set of its pairs.
Orders(R, S) ==
  /\ \A x, y \in S : x # y => <<x, y>> \in R \/ <<y, x>> \in R
  /\ \A x \in S : <<x, x>> \notin R
  /\ \A x, y, z \in S : <<x, y>> \in R /\ <<y, z>> \in R => <<x, z>> \in R

\* A finite set that is not empty has a least element.
LEMMA LeastElement ==
  ASSUME NEW S, IsFiniteSet(S), S # {}, NEW R, Orders(R, S)
  PROVE  \E x \in S : \A y \in S \ {x} : <<x, y>> \in R
<1> DEFINE P == {n \in Nat : \A T \in SUBSET S : T # {} /\ Cardinality(T) = n =>
                               \E x \in T : \A y \in T \ {x} : <<x, y>> \in R}
<1>1. 0 \in P
  <2>1. ASSUME NEW T \in SUBSET S, T # {} PROVE Cardinality(T) # 0
    BY <2>1, FS_Subset, FS_EmptySet
  <2> QED BY <2>1
<1>2. ASSUME NEW n \in P PROVE n + 1 \in P
  <2>1. n \in Nat OBVIOUS
  <2> SUFFICES ASSUME NEW T \in SUBSET S, T # {}, Cardinality(T) = n + 1
               PROVE  \E x \in T : \A y \in T \ {x} : <<x, y>> \in R
    BY <2>1
  <2>2. PICK t \in T : TRUE OBVIOUS
  <2>3. IsFiniteSet(T)
    BY FS_Subset
  <2>4. Cardinality(T \ {t}) = n
    <3>1. Cardinality(T) \in Nat /\ Cardinality(T \ {t}) = Cardinality(T) - 1
      BY <2>2, <2>3, FS_RemoveElement, FS_CardinalityType
    <3> QED BY <3>1, <2>1
  <2>5. CASE T \ {t} = {}
    BY <2>5, <2>2
  <2>6. CASE T \ {t} # {}
    <3>1. PICK x \in T \ {t} : \A y \in (T \ {t}) \ {x} : <<x, y>> \in R
      <4>1. T \ {t} \in SUBSET S OBVIOUS
      <4> QED BY <4>1, <2>6, <2>4, <1>2
    <3>2. x \in S /\ t \in S /\ x # t
      BY <2>2, <3>1
    <3>3. CASE <<x, t>> \in R
      BY <3>1, <3>3
    <3>4. CASE <<t, x>> \in R
      <4>1. \A y \in T \ {t} : <<t, y>> \in R BY <3>1, <3>4, <3>2, Zenon DEF Orders
      <4> QED BY <4>1, <2>2
    <3> QED BY <3>2, <3>3, <3>4 DEF Orders
  <2> QED BY <2>5, <2>6
<1>3. P = Nat
  <2>1. P \subseteq Nat OBVIOUS
  <2> HIDE DEF P
  <2> QED BY <1>1, <1>2, <2>1, InductionBySet
<1> QED BY <1>3, FS_CardinalityType

\* The opposite order is an order, and so is the order of a subset.
LEMMA OppositeOrders ==
  ASSUME NEW S, NEW R, Orders(R, S)
  PROVE  Orders({<<p[2], p[1]>> : p \in {q \in S \X S : q \in R}}, S)
<1> DEFINE O == {<<p[2], p[1]>> : p \in {q \in S \X S : q \in R}}
<1>1. ASSUME NEW x \in S, NEW y \in S PROVE <<x, y>> \in O <=> <<y, x>> \in R
  <2>1. ASSUME <<y, x>> \in R PROVE <<x, y>> \in O
    <3>1. <<y, x>> \in {q \in S \X S : q \in R} BY <2>1
    <3>2. <<<<y, x>>[2], <<y, x>>[1]>> = <<x, y>> OBVIOUS
    <3> QED BY <3>1, <3>2
  <2>2. ASSUME <<x, y>> \in O PROVE <<y, x>> \in R
    <3>1. PICK p \in S \X S : p \in R /\ <<x, y>> = <<p[2], p[1]>>
      BY <2>2
    <3>2. p = <<y, x>> BY <3>1
    <3> QED BY <3>1, <3>2
  <2> QED BY <2>1, <2>2
<1> HIDE DEF O
<1>2. \A x, y \in S : <<x, y>> \in O <=> <<y, x>> \in R
  BY <1>1
<1>3. \A x, y \in S : x # y => <<x, y>> \in O \/ <<y, x>> \in O
  BY <1>2, Zenon DEF Orders
<1>4. \A x \in S : <<x, x>> \notin O
  BY <1>2, Zenon DEF Orders
<1>5. \A x, y, z \in S : <<x, y>> \in O /\ <<y, z>> \in O => <<x, z>> \in O
  BY <1>2, Zenon DEF Orders
<1> QED BY <1>3, <1>4, <1>5, Zenon DEF Orders, O

LEMMA SuborderOrders ==
  ASSUME NEW S, NEW R, Orders(R, S), NEW T, T \subseteq S
  PROVE  Orders(R, T)
BY Zenon DEF Orders
------------------------
(* Entries in the order of internal keys. *)

Sortable(es) ==
  /\ \A e \in es : e.key \in Nat /\ e.seq \in Nat
  /\ \A e, d \in es : e.seq = d.seq => e = d

LEMMA PrecedesOrders ==
  ASSUME NEW es, Sortable(es)
  PROVE  Orders({p \in es \X es : DB!Precedes(p[1], p[2])}, es)
<1> DEFINE R == {p \in es \X es : DB!Precedes(p[1], p[2])}
<1>1. \A x, y \in es : <<x, y>> \in R <=> DB!Precedes(x, y) OBVIOUS
<1> HIDE DEF R
<1>2. ASSUME NEW x \in es, NEW y \in es, x # y PROVE <<x, y>> \in R \/ <<y, x>> \in R
  BY <1>1, <1>2 DEF DB!Precedes, Sortable
<1>3. ASSUME NEW x \in es PROVE <<x, x>> \notin R
  BY <1>1 DEF DB!Precedes, Sortable
<1>4. ASSUME NEW x \in es, NEW y \in es, NEW z \in es, <<x, y>> \in R, <<y, z>> \in R
      PROVE  <<x, z>> \in R
  <2>1. DB!Precedes(x, y) /\ DB!Precedes(y, z)
    BY <1>1, <1>4
  <2>2. DB!Precedes(x, z)
    BY <2>1 DEF DB!Precedes, Sortable
  <2> QED BY <2>2, <1>1
<1> QED BY <1>2, <1>3, <1>4, Zenon DEF Orders, R

\* FirstOf is the first: a choice that is always possible, and has one outcome.
LEMMA FirstOfIsFirst ==
  ASSUME NEW es, Sortable(es), IsFiniteSet(es), es # {}
  PROVE  /\ DB!FirstOf(es) \in es
         /\ \A d \in es \ {DB!FirstOf(es)} : DB!Precedes(DB!FirstOf(es), d)
<1> DEFINE R == {p \in es \X es : DB!Precedes(p[1], p[2])}
<1>1. PICK x \in es : \A y \in es \ {x} : <<x, y>> \in R
  BY PrecedesOrders, LeastElement
<1>2. \E e \in es : \A d \in es \ {e} : DB!Precedes(e, d)
  BY <1>1
<1> QED BY <1>2 DEF DB!FirstOf

LEMMA LastOfIsLast ==
  ASSUME NEW es, Sortable(es), IsFiniteSet(es), es # {}
  PROVE  /\ DB!LastOf(es) \in es
         /\ \A d \in es \ {DB!LastOf(es)} : DB!Precedes(d, DB!LastOf(es))
<1> DEFINE R == {p \in es \X es : DB!Precedes(p[1], p[2])}
<1> DEFINE O == {<<p[2], p[1]>> : p \in {q \in es \X es : q \in R}}
<1>1. Orders(O, es)
  BY PrecedesOrders, OppositeOrders
<1>2. PICK x \in es : \A y \in es \ {x} : <<x, y>> \in O
  <2> HIDE DEF O
  <2> QED BY <1>1, LeastElement
<1>3. \A d \in es \ {x} : DB!Precedes(d, x)
  <2> SUFFICES ASSUME NEW d \in es \ {x} PROVE DB!Precedes(d, x) OBVIOUS
  <2>1. PICK p \in {q \in es \X es : q \in R} : <<x, d>> = <<p[2], p[1]>>
    BY <1>2
  <2> QED BY <2>1
<1> QED BY <1>3 DEF DB!LastOf

LEMMA FirstIsUnique ==
  ASSUME NEW es, Sortable(es), IsFiniteSet(es), NEW e \in es, \A d \in es \ {e} : DB!Precedes(e, d)
  PROVE  DB!FirstOf(es) = e
<1>1. DB!FirstOf(es) \in es /\ \A d \in es \ {DB!FirstOf(es)} : DB!Precedes(DB!FirstOf(es), d)
  BY FirstOfIsFirst
<1>2. ~(DB!Precedes(e, DB!FirstOf(es)) /\ DB!Precedes(DB!FirstOf(es), e))
  BY <1>1 DEF DB!Precedes, Sortable
<1> QED BY <1>1, <1>2

LEMMA SortableSubset ==
  ASSUME NEW es, Sortable(es), NEW ds, ds \subseteq es
  PROVE  Sortable(ds)
BY DEF Sortable

\* The first of the entries of a key is the newest.
LEMMA FoundIsNewest ==
  ASSUME NEW es, Sortable(es), IsFiniteSet(es), NEW key, NEW seq \in Nat
  PROVE  \A e : e \in DB!Found(es, key, seq) <=>
           /\ e \in es /\ e.key = key /\ e.seq <= seq
           /\ \A d \in es : d.key = key /\ d.seq <= seq => d.seq <= e.seq
<1> DEFINE hits == {e \in es : e.key = key /\ e.seq <= seq}
<1>1. Sortable(hits) /\ IsFiniteSet(hits)
  BY SortableSubset, FS_Subset
<1>2. hits # {} => DB!FirstOf(hits) \in hits /\ \A d \in hits \ {DB!FirstOf(hits)} : DB!Precedes(DB!FirstOf(hits), d)
  <2> HIDE DEF hits
  <2> QED BY <1>1, FirstOfIsFirst
<1>3. ASSUME NEW e, e \in DB!Found(es, key, seq)
      PROVE  /\ e \in es /\ e.key = key /\ e.seq <= seq
             /\ \A d \in es : d.key = key /\ d.seq <= seq => d.seq <= e.seq
  <2>1. hits # {} /\ e = DB!FirstOf(hits)
    BY <1>3 DEF DB!Found
  <2>2. ASSUME NEW d \in es, d.key = key, d.seq <= seq PROVE d.seq <= e.seq
    BY <2>2, <2>1, <1>2 DEF DB!Precedes, Sortable
  <2> QED BY <2>1, <2>2, <1>2
<1>4. ASSUME NEW e, e \in es, e.key = key, e.seq <= seq,
             \A d \in es : d.key = key /\ d.seq <= seq => d.seq <= e.seq
      PROVE  e \in DB!Found(es, key, seq)
  <2>1. e \in hits
    BY <1>4
  <2>2. ASSUME NEW d \in hits \ {e} PROVE DB!Precedes(e, d)
    BY <2>2, <1>4 DEF DB!Precedes, Sortable
  <2>3. DB!FirstOf(hits) = e
    <3> HIDE DEF hits
    <3> QED BY <2>1, <2>2, <1>1, FirstIsUnique
  <2> QED BY <2>1, <2>3 DEF DB!Found
<1> QED BY <1>3, <1>4
------------------------
(* The files of a level. *)

EntriesOf(files) == UNION {f.entries : f \in files}

WellFormed(files) ==
  /\ IsFiniteSet(files)
  /\ \A f \in files : f.number \in Nat /\ f.entries # {} /\ IsFiniteSet(f.entries)
  /\ Sortable(EntriesOf(files))
  /\ \A f, g \in files : f.number = g.number => f = g

LEMMA WellFormedSubset ==
  ASSUME NEW files, WellFormed(files), NEW some, some \subseteq files
  PROVE  WellFormed(some)
<1>1. IsFiniteSet(some)
  BY FS_Subset DEF WellFormed
<1>2. EntriesOf(some) \subseteq EntriesOf(files)
  BY DEF EntriesOf
<1>3. Sortable(EntriesOf(some))
  BY <1>2, SortableSubset DEF WellFormed
<1> QED BY <1>1, <1>3 DEF WellFormed

LEMMA EntriesAreFinite ==
  ASSUME NEW files, WellFormed(files)
  PROVE  IsFiniteSet(EntriesOf(files))
<1> DEFINE T == {f.entries : f \in files}
<1> DEFINE m == [f \in files |-> f.entries]
<1>1. m \in Surjection(files, T)
  BY DEF Surjection
<1>2. IsFiniteSet(T)
  <2> HIDE DEF T, m
  <2> QED BY <1>1, FS_Surjection DEF WellFormed
<1>3. \A x \in T : IsFiniteSet(x)
  BY DEF WellFormed
<1>4. IsFiniteSet(UNION T)
  <2> HIDE DEF T
  <2> QED BY <1>2, <1>3, FS_UNION
<1> QED BY <1>4 DEF EntriesOf

\* What the ends of a file say of its entries.
Between(f) ==
  /\ DB!Smallest(f) \in f.entries /\ DB!Largest(f) \in f.entries
  /\ \A e \in f.entries :
       /\ e.key \in Nat /\ e.seq \in Nat
       /\ DB!Smallest(f).key <= e.key /\ e.key <= DB!Largest(f).key
       /\ e.key = DB!Smallest(f).key => e.seq <= DB!Smallest(f).seq
       /\ e.key = DB!Largest(f).key => DB!Largest(f).seq <= e.seq

LEMMA EndsOfFile ==
  ASSUME NEW files, WellFormed(files), NEW f \in files
  PROVE  Between(f)
<1>1. f.entries \subseteq EntriesOf(files)
  BY DEF EntriesOf
<1>2. Sortable(f.entries) /\ IsFiniteSet(f.entries) /\ f.entries # {}
  BY <1>1, SortableSubset DEF WellFormed
<1>3. /\ DB!Smallest(f) \in f.entries
      /\ \A d \in f.entries \ {DB!Smallest(f)} : DB!Precedes(DB!Smallest(f), d)
  BY <1>2, FirstOfIsFirst DEF DB!Smallest
<1>4. /\ DB!Largest(f) \in f.entries
      /\ \A d \in f.entries \ {DB!Largest(f)} : DB!Precedes(d, DB!Largest(f))
  BY <1>2, LastOfIsLast DEF DB!Largest
<1>5. ASSUME NEW e \in f.entries
      PROVE  /\ e.key \in Nat /\ e.seq \in Nat
             /\ DB!Smallest(f).key <= e.key /\ e.key <= DB!Largest(f).key
             /\ e.key = DB!Smallest(f).key => e.seq <= DB!Smallest(f).seq
             /\ e.key = DB!Largest(f).key => DB!Largest(f).seq <= e.seq
  <2>1. e.key \in Nat /\ e.seq \in Nat
    BY <1>2 DEF Sortable
  <2>2. /\ DB!Smallest(f).key \in Nat /\ DB!Smallest(f).seq \in Nat
        /\ DB!Largest(f).key \in Nat /\ DB!Largest(f).seq \in Nat
    BY <1>2, <1>3, <1>4 DEF Sortable
  <2>3. e = DB!Smallest(f) \/ DB!Precedes(DB!Smallest(f), e)
    BY <1>3
  <2>4. e = DB!Largest(f) \/ DB!Precedes(e, DB!Largest(f))
    BY <1>4
  <2> QED BY <2>1, <2>2, <2>3, <2>4 DEF DB!Precedes
<1> QED BY <1>3, <1>4, <1>5 DEF Between

FilePairs(files) == {p \in files \X files : DB!FileOrder(p[1], p[2])}

LEMMA FileOrderOrders ==
  ASSUME NEW files, WellFormed(files)
  PROVE  Orders(FilePairs(files), files)
<1>1. \A f, g \in files : <<f, g>> \in FilePairs(files) <=> DB!FileOrder(f, g)
  BY DEF FilePairs
<1>2. ASSUME NEW f \in files
      PROVE  /\ f.number \in Nat /\ DB!Smallest(f) \in EntriesOf(files)
             /\ DB!Smallest(f).key \in Nat /\ DB!Smallest(f).seq \in Nat
  <2>1. Between(f)
    BY EndsOfFile
  <2> QED BY <2>1 DEF Between, EntriesOf, WellFormed
<1>3. \A e, d \in EntriesOf(files) : e.seq = d.seq => e = d
  BY DEF WellFormed, Sortable
<1>4. ASSUME NEW f \in files, NEW g \in files, f # g PROVE DB!FileOrder(f, g) \/ DB!FileOrder(g, f)
  <2>1. f.number # g.number
    BY <1>4 DEF WellFormed
  <2>2. DB!Smallest(f).seq = DB!Smallest(g).seq => DB!Smallest(f) = DB!Smallest(g)
    BY <1>2, <1>3
  <2> QED BY <2>1, <2>2, <1>2 DEF DB!FileOrder, DB!Precedes
<1>5. ASSUME NEW f \in files PROVE ~DB!FileOrder(f, f)
  BY <1>2 DEF DB!FileOrder, DB!Precedes
<1>6. ASSUME NEW f \in files, NEW g \in files, NEW h \in files, DB!FileOrder(f, g), DB!FileOrder(g, h)
      PROVE  DB!FileOrder(f, h)
  BY <1>2, <1>6 DEF DB!FileOrder, DB!Precedes
<1> QED BY <1>1, <1>4, <1>5, <1>6 DEF Orders

LEMMA FirstFileIsFirst ==
  ASSUME NEW files, WellFormed(files), files # {}
  PROVE  /\ DB!FirstFile(files) \in files
         /\ \A g \in files \ {DB!FirstFile(files)} : DB!FileOrder(DB!FirstFile(files), g)
<1>1. PICK f \in files : \A g \in files \ {f} : <<f, g>> \in FilePairs(files)
  <2>1. Orders(FilePairs(files), files) /\ IsFiniteSet(files)
    BY FileOrderOrders DEF WellFormed
  <2> QED BY <2>1, LeastElement
<1>2. \E h \in files : \A g \in files \ {h} : DB!FileOrder(h, g)
  BY <1>1 DEF FilePairs
<1> QED BY <1>2 DEF DB!FirstFile

LEMMA LastFileIsLast ==
  ASSUME NEW files, WellFormed(files), files # {}
  PROVE  /\ DB!LastFile(files) \in files
         /\ \A g \in files \ {DB!LastFile(files)} : DB!FileOrder(g, DB!LastFile(files))
<1> DEFINE O == {<<p[2], p[1]>> : p \in {q \in files \X files : q \in FilePairs(files)}}
<1>1. Orders(O, files)
  BY FileOrderOrders, OppositeOrders
<1>2. PICK f \in files : \A g \in files \ {f} : <<f, g>> \in O
  <2> HIDE DEF O
  <2> QED BY <1>1, LeastElement DEF WellFormed
<1>3. \A g \in files \ {f} : DB!FileOrder(g, f)
  <2> SUFFICES ASSUME NEW g \in files \ {f} PROVE DB!FileOrder(g, f) OBVIOUS
  <2>1. PICK p \in {q \in files \X files : q \in FilePairs(files)} : <<f, g>> = <<p[2], p[1]>>
    BY <1>2
  <2> QED BY <2>1 DEF FilePairs
<1> QED BY <1>3 DEF DB!LastFile

LEMMA KeyIsTouched ==
  ASSUME NEW files, WellFormed(files), NEW f \in files, NEW e \in f.entries
  PROVE  DB!Overlaps(f, DB!Only(e.key))
<1>1. Between(f)
  BY EndsOfFile
<1> QED BY <1>1 DEF Between, DB!Overlaps, DB!Only
------------------------
(* The place of a file in its level's vector, and the binary search. *)

\* Counting who comes before numbers a finite ordered set from 0.
LEMMA RanksCount ==
  ASSUME NEW S, IsFiniteSet(S), NEW R, Orders(R, S),
         NEW rank, rank = [x \in S |-> Cardinality({y \in S : <<y, x>> \in R})]
  PROVE  /\ rank \in [S -> 0..Cardinality(S) - 1]
         /\ \A x, y \in S : <<x, y>> \in R => rank[x] < rank[y]
         /\ \A i \in 0..Cardinality(S) - 1 : \E x \in S : rank[x] = i
<1> DEFINE before(x) == {y \in S : <<y, x>> \in R}
<1> DEFINE n == Cardinality(S)
<1>1. n \in Nat
  BY FS_CardinalityType
<1>2. ASSUME NEW x \in S PROVE rank[x] \in 0..n - 1
  <2>1. before(x) \subseteq S \ {x}
    BY DEF Orders
  <2>2. IsFiniteSet(S \ {x}) /\ Cardinality(S \ {x}) = n - 1
    BY FS_RemoveElement
  <2>3. IsFiniteSet(before(x)) /\ Cardinality(before(x)) <= n - 1
    <3> HIDE DEF before, n
    <3> QED BY <2>1, <2>2, FS_Subset
  <2>4. Cardinality(before(x)) \in Nat
    BY <2>3, FS_CardinalityType
  <2>5. rank[x] = Cardinality(before(x)) OBVIOUS
  <2> HIDE DEF before, n
  <2> QED BY <2>3, <2>4, <2>5, <1>1
<1>3. ASSUME NEW x \in S, NEW y \in S, <<x, y>> \in R PROVE rank[x] < rank[y]
  <2>1. before(x) \subseteq before(y) /\ x \in before(y) /\ x \notin before(x)
    BY <1>3, Zenon DEF Orders
  <2>2. IsFiniteSet(before(y)) /\ IsFiniteSet(before(x))
    BY FS_Subset
  <2>3. /\ rank[x] = Cardinality(before(x)) /\ rank[y] = Cardinality(before(y))
        /\ rank[x] \in Nat /\ rank[y] \in Nat
    BY <2>2, FS_CardinalityType
  <2> HIDE DEF before
  <2>4. Cardinality(before(x)) <= Cardinality(before(y))
    BY <2>1, <2>2, FS_Subset
  <2>5. Cardinality(before(x)) # Cardinality(before(y))
    <3>1. before(y) # before(x) BY <2>1
    <3> QED BY <3>1, <2>1, <2>2, FS_Subset
  <2> QED BY <2>3, <2>4, <2>5
<1>4. rank \in [S -> 0..n - 1]
  BY <1>2
<1>5. rank \in Injection(S, 0..n - 1)
  <2>1. ASSUME NEW x \in S, NEW y \in S, rank[x] = rank[y] PROVE x = y
    <3>1. rank[x] \in Nat /\ rank[y] \in Nat
      BY <1>2
    <3>2. ~(rank[x] < rank[y]) /\ ~(rank[y] < rank[x])
      BY <2>1, <3>1
    <3> QED BY <3>2, <1>3 DEF Orders
  <2> QED BY <2>1, <1>4 DEF Injection, IsInjective
<1>6. IsFiniteSet(0 .. n - 1) /\ Cardinality(0..n - 1) = n
  <2> HIDE DEF n
  <2> QED BY <1>1, FS_Interval
<1>7. rank \in Surjection(S, 0..n - 1)
  <2>1. /\ Cardinality(S) <= Cardinality(0..n - 1)
        /\ Cardinality(S) = Cardinality(0..n - 1) <=> rank \in Surjection(S, 0..n - 1)
    <3> HIDE DEF n
    <3> QED BY <1>5, <1>6, FS_Injection
  <2> QED BY <2>1, <1>6
<1> QED BY <1>4, <1>3, <1>7 DEF Surjection

LEMMA PositionsCount ==
  ASSUME NEW files, WellFormed(files)
  PROVE  /\ Cardinality(files) \in Nat
         /\ \A f \in files : DB!Position(f, files) \in 0..Cardinality(files) - 1
         /\ \A f, g \in files : DB!FileOrder(f, g) <=> DB!Position(f, files) < DB!Position(g, files)
         /\ \A f, g \in files : DB!Position(f, files) = DB!Position(g, files) => f = g
         /\ \A i \in 0..Cardinality(files) - 1 :
              DB!At(i, files) \in files /\ DB!Position(DB!At(i, files), files) = i
<1> DEFINE R == FilePairs(files)
<1>1. Orders(R, files) /\ IsFiniteSet(files)
  BY FileOrderOrders DEF WellFormed
<1>2. PICK rank : rank = [x \in files |-> Cardinality({y \in files : <<y, x>> \in R})]
  OBVIOUS
<1>3. ASSUME NEW f \in files PROVE DB!Position(f, files) = rank[f]
  <2>1. {g \in files : DB!FileOrder(g, f)} = {g \in files : <<g, f>> \in R}
    BY DEF FilePairs
  <2> QED BY <2>1, <1>2, CountsAreTheSame DEF DB!Position
<1>4. \A f, g \in files : <<f, g>> \in R <=> DB!FileOrder(f, g)
  BY DEF FilePairs
<1> HIDE DEF R
<1>5. /\ rank \in [files -> 0..Cardinality(files) - 1]
      /\ \A x, y \in files : <<x, y>> \in R => rank[x] < rank[y]
      /\ \A i \in 0..Cardinality(files) - 1 : \E x \in files : rank[x] = i
  BY <1>1, <1>2, RanksCount
<1>6. Cardinality(files) \in Nat
  BY <1>1, FS_CardinalityType
<1>7. ASSUME NEW f \in files, NEW g \in files
      PROVE  /\ DB!FileOrder(f, g) <=> DB!Position(f, files) < DB!Position(g, files)
             /\ DB!Position(f, files) = DB!Position(g, files) => f = g
  <2>1. rank[f] \in Nat /\ rank[g] \in Nat
    BY <1>5, <1>6
  <2>2. f = g \/ <<f, g>> \in R \/ <<g, f>> \in R
    BY <1>1 DEF Orders
  <2>3. f = g => <<f, g>> \notin R
    BY <1>1 DEF Orders
  <2> QED BY <2>1, <2>2, <2>3, <1>3, <1>4, <1>5
<1>8. ASSUME NEW i \in 0..Cardinality(files) - 1
      PROVE  DB!At(i, files) \in files /\ DB!Position(DB!At(i, files), files) = i
  <2>1. \E f \in files : DB!Position(f, files) = i
    BY <1>5, <1>3
  <2> QED BY <2>1 DEF DB!At
<1> QED BY <1>3, <1>5, <1>6, <1>7, <1>8
\* No two files of a level overlap: its vector is sorted by the largest keys too.
Sorted(files) ==
  \A f, g \in files :
    f = g \/ DB!Precedes(DB!Largest(f), DB!Smallest(g)) \/ DB!Precedes(DB!Largest(g), DB!Smallest(f))

LEMMA SortedInOrder ==
  ASSUME NEW files, WellFormed(files), Sorted(files),
         NEW f \in files, NEW g \in files, DB!FileOrder(f, g)
  PROVE  DB!Precedes(DB!Largest(f), DB!Smallest(g))
<1>1. Between(f) /\ Between(g)
  BY EndsOfFile
<1>2. f # g
  <2>1. \A h \in files : <<h, h>> \notin FilePairs(files)
    BY FileOrderOrders DEF Orders
  <2>2. <<f, g>> \in FilePairs(files)
    BY DEF FilePairs
  <2> QED BY <2>1, <2>2
<1>3. ~DB!Precedes(DB!Largest(g), DB!Smallest(f))
  BY <1>1 DEF Between, DB!FileOrder, DB!Precedes
<1> QED BY <1>2, <1>3 DEF Sorted

\* Whether the i-th file ends before the target.
Ends(i, files, target) == DB!Precedes(DB!Largest(DB!At(i, files)), target)

LEMMA EndsInOrder ==
  ASSUME NEW files, WellFormed(files), Sorted(files), NEW target,
         target.key \in Nat, target.seq \in Nat,
         NEW i \in 0..Cardinality(files) - 1, NEW j \in 0..Cardinality(files) - 1, i <= j,
         Ends(j, files, target)
  PROVE  Ends(i, files, target)
<1>1. PICK f \in files : f = DB!At(i, files) /\ DB!Position(f, files) = i
  BY PositionsCount
<1>2. PICK g \in files : g = DB!At(j, files) /\ DB!Position(g, files) = j
  BY PositionsCount
<1>3. CASE i = j
  BY <1>3
<1>4. CASE i # j
  <2>1. DB!Precedes(DB!Largest(f), DB!Smallest(g))
    BY <1>1, <1>2, <1>4, PositionsCount, SortedInOrder
  <2>2. Between(f) /\ Between(g)
    BY EndsOfFile
  <2>3. DB!Precedes(DB!Largest(g), target)
    BY <1>2 DEF Ends
  <2>4. DB!Precedes(DB!Largest(f), target)
    BY <2>1, <2>2, <2>3 DEF Between, DB!Precedes
  <2> QED BY <2>4, <1>1 DEF Ends
<1> QED BY <1>3, <1>4

\* Where the binary search is: what is before left ends too soon, what is from right on
\* does not.
Searching(s, files, target) ==
  /\ s.left \in 0 .. Cardinality(files) /\ s.right \in 0..Cardinality(files)
  /\ s.left <= s.right
  /\ \A i \in 0..s.left - 1 : Ends(i, files, target)
  /\ \A i \in s.right..Cardinality(files) - 1 : ~Ends(i, files, target)

LEMMA HalveSearches ==
  ASSUME NEW files, WellFormed(files), Sorted(files), NEW target,
         target.key \in Nat, target.seq \in Nat,
         NEW s \in [left : 0..Cardinality(files), right : 0..Cardinality(files)],
         Searching(s, files, target)
  PROVE  /\ DB!Halve(s, files, target) \in
              [left : 0..Cardinality(files), right : 0..Cardinality(files)]
         /\ Searching(DB!Halve(s, files, target), files, target)
         /\ s.left < s.right =>
              DB!Halve(s, files, target).right - DB!Halve(s, files, target).left < s.right - s.left
         /\ s.left = s.right => DB!Halve(s, files, target) = s
<1> DEFINE n == Cardinality(files)
           t == DB!Halve(s, files, target)
<1>1. n \in Nat
  BY PositionsCount
<1>2. s.left \in 0 .. n /\ s.right \in 0..n OBVIOUS
<1>3. CASE s.left = s.right
  <2>1. t = s
    BY <1>1, <1>2, <1>3 DEF DB!Halve
  <2> QED BY <2>1, <1>3, <1>1, <1>2
<1>4. CASE s.left < s.right
  <2>1. PICK mid \in Nat : mid = (s.left + s.right) \div 2 /\ s.left <= mid /\ mid < s.right
    BY <1>1, <1>2, <1>4
  <2>2. mid \in 0..n - 1
    BY <2>1, <1>1, <1>2
  <2>3. CASE Ends(mid, files, target)
    <3>1. t = [s EXCEPT !.left = mid + 1]
      BY <2>1, <2>3, <1>1, <1>2, <1>4 DEF DB!Halve, Ends
    <3>2. t.left = mid + 1 /\ t.right = s.right
      BY <3>1
    <3>3. t \in [left : 0..n, right : 0..n] BY <3>1, <2>2, <1>1, <1>2
    <3>4. \A i \in 0..t.left - 1 : Ends(i, files, target)
      <4> SUFFICES ASSUME NEW i \in 0..mid PROVE Ends(i, files, target)
        BY <3>2, <2>1
      <4>1. i \in 0 .. Cardinality(files) - 1 /\ mid \in 0 .. Cardinality(files) - 1 /\ i <= mid
        BY <2>2, <1>1
      <4> QED BY <4>1, <2>3, EndsInOrder
    <3>5. Searching(t, files, target) BY <3>2, <3>3, <3>4, <2>1, <1>1 DEF Searching
    <3>6. t.right - t.left < s.right - s.left BY <3>2, <2>1, <1>1, <1>2
    <3> QED BY <3>3, <3>5, <3>6, <1>4, <1>1, <1>2
  <2>4. CASE ~Ends(mid, files, target)
    <3>1. t = [s EXCEPT !.right = mid]
      BY <2>1, <2>4, <1>1, <1>2, <1>4 DEF DB!Halve, Ends
    <3>2. t.left = s.left /\ t.right = mid
      BY <3>1
    <3>3. t \in [left : 0..n, right : 0..n] BY <3>1, <2>2, <1>1, <1>2
    <3>4. \A i \in t.right..Cardinality(files) - 1 : ~Ends(i, files, target)
      <4> SUFFICES ASSUME NEW i \in mid..n - 1, Ends(i, files, target) PROVE FALSE
        BY <3>2
      <4>1. i \in 0 .. Cardinality(files) - 1 /\ mid \in 0 .. Cardinality(files) - 1 /\ mid <= i
        BY <2>2, <1>1, <2>1
      <4> QED BY <4>1, <2>4, EndsInOrder
    <3>5. Searching(t, files, target) BY <3>2, <3>3, <3>4, <2>1, <1>1 DEF Searching
    <3>6. t.right - t.left < s.right - s.left BY <3>2, <2>1, <1>1, <1>2
    <3> QED BY <3>3, <3>5, <3>6, <1>4, <1>1, <1>2
  <2> QED BY <2>3, <2>4
<1> QED BY <1>3, <1>4, <1>1, <1>2 DEF Searching

\* FindFile returns the first file that does not end before the target, if there is one.
LEMMA FindFileFinds ==
  ASSUME NEW files, WellFormed(files), Sorted(files), NEW target,
         target.key \in Nat, target.seq \in Nat
  PROVE  \A f : f \in DB!FindFile(files, target) <=>
           /\ f \in files /\ ~DB!Precedes(DB!Largest(f), target)
           /\ \A g \in files : ~DB!Precedes(DB!Largest(g), target) => ~DB!FileOrder(g, f)
<1> DEFINE n == DB!Cardinality(files)
           S == {s \in [left : 0..n, right : 0..n] : Searching(s, files, target)}
           base == [left |-> 0, right |-> n]
           body(s) == DB!Halve(s, files, target)
           step == [p \in (1..n) \X S |-> body(p[2])]
           IsSearch(f) == f = [m \in 0..n |-> IF m = 0 THEN base ELSE body(f[m - 1])]
           search == CHOOSE f : IsSearch(f)
<1>1. n \in Nat
  BY PositionsCount, CountsAreTheSame
<1>2. base \in S
  BY <1>1, CountsAreTheSame DEF Searching
<1>3. \A s \in S : body(s) \in S
  <2> HIDE DEF n
  <2> QED BY HalveSearches, CountsAreTheSame DEF n
<1>4. step \in [(1..n) \X S -> S]
  <2> HIDE DEF S, n, body
  <2> QED BY <1>3
<1>5. PICK r \in [0 .. n -> S] : r[0] = base /\ \A m \in 1..n : r[m] = step[<<m, r[m - 1]>>]
  <2> HIDE DEF step, S, n, base
  <2>1. \E f : IsRecursion(f, n, S, base, step)
    BY <1>1, <1>2, <1>4, RecursionOnInterval
  <2> QED BY <2>1 DEF IsRecursion
<1>6. \A m \in 1 .. n : m - 1 \in 0 .. n /\ r[m] = body(r[m - 1])
  <2> HIDE DEF S, body, n
  <2>1. ASSUME NEW m \in 1 .. n PROVE m - 1 \in 0 .. n /\ r[m] = body(r[m - 1])
    <3>1. m - 1 \in 0 .. n /\ r[m - 1] \in S
      BY <1>1, <1>5
    <3> QED BY <3>1, <1>5
  <2> QED BY <2>1
<1>7. IsSearch(r)
  <2> HIDE DEF n, body, S, base
  <2>1. ASSUME NEW m \in 0..n PROVE r[m] = IF m = 0 THEN base ELSE body(r[m - 1])
    <3>1. m # 0 => m \in 1..n BY <1>1
    <3> QED BY <3>1, <1>5, <1>6
  <2>2. r = [m \in 0..n |-> r[m]]
    BY <1>5
  <2> QED BY <2>1, <2>2
<1>8. IsSearch(search)
  <2> HIDE DEF IsSearch
  <2> QED BY <1>7
<1>9. search[0] = base /\ \A m \in 1..n : search[m] = body(search[m - 1])
  <2>1. search = [m \in 0..n |-> IF m = 0 THEN base ELSE body(search[m - 1])]
    BY <1>8, Zenon
  <2> HIDE DEF body, base, n, search
  <2>2. \A m \in 0..n : search[m] = IF m = 0 THEN base ELSE body(search[m - 1])
    BY <2>1
  <2>3. 0 \in 0..n
    BY <1>1
  <2>4. search[0] = base
    BY <2>2, <2>3
  <2>5. ASSUME NEW m \in 1..n PROVE search[m] = body(search[m - 1])
    <3>1. m \in 0 .. n /\ m # 0
      BY <1>1
    <3> QED BY <2>2, <3>1, Zenon
  <2> QED BY <2>4, <2>5
<1> DEFINE Done(s, m) == s \in S /\ (s.left = s.right \/ s.right - s.left <= n - m)
<1>10. \A m \in 0..n : Done(search[m], m)
  <2> DEFINE P == {m \in Nat : m <= n => Done(search[m], m)}
  <2> HIDE DEF search
  <2>1. 0 \in P
    BY <1>1, <1>2, <1>9
  <2>2. ASSUME NEW m \in P PROVE m + 1 \in P
    <3>1. m \in Nat OBVIOUS
    <3> SUFFICES ASSUME m + 1 <= n PROVE Done(search[m + 1], m + 1)
      BY <3>1
    <3>2. Done(search[m], m) BY <3>1, <1>1
    <3>3. PICK s : s = search[m] OBVIOUS
    <3>4. search[m + 1] = body(s)
      <4>1. m + 1 \in 1 .. n /\ (m + 1) - 1 = m
        BY <3>1, <1>1
      <4> QED BY <4>1, <3>3, <1>9
    <3>5. /\ s \in [left : 0 .. n, right : 0 .. n] /\ Searching(s, files, target)
          /\ s.left \in 0 .. n /\ s.right \in 0 .. n /\ s.left <= s.right
      BY <3>2, <3>3 DEF Searching
    <3>6. /\ body(s).left \in 0 .. n /\ body(s).right \in 0..n
          /\ body(s).left <= body(s).right /\ body(s) \in S
      BY <3>5, <1>3 DEF Searching
    <3>7. /\ s.left < s.right => body(s).right - body(s).left < s.right - s.left
          /\ s.left = s.right => body(s) = s
      BY <3>5, HalveSearches, CountsAreTheSame
    <3> HIDE DEF body, S, n
    <3>8. CASE s.left = s.right
      BY <3>4, <3>6, <3>7, <3>8
    <3>9. CASE s.left # s.right
      <4>1. s.right - s.left <= n - m BY <3>2, <3>3, <3>9
      <4>2. body(s).right - body(s).left <= n - (m + 1)
        BY <4>1, <3>5, <3>6, <3>7, <3>9, <3>1, <1>1
      <4> QED BY <4>2, <3>4, <3>6
    <3> QED BY <3>8, <3>9
  <2>3. P = Nat
    <3>1. P \subseteq Nat OBVIOUS
    <3> HIDE DEF P
    <3> QED BY <2>1, <2>2, <3>1, InductionBySet
  <2>4. ASSUME NEW m \in 0..n PROVE Done(search[m], m)
    <3>1. m \in P /\ m <= n
      BY <2>3, <1>1
    <3> QED BY <3>1
  <2> QED BY <2>4
<1>11. PICK k \in 0 .. n : /\ k = search[n].right
                           /\ \A i \in 0..k - 1 : Ends(i, files, target)
                           /\ \A i \in k..n - 1 : ~Ends(i, files, target)
  <2> HIDE DEF search
  <2>1. Done(search[n], n)
    BY <1>10, <1>1
  <2>2. /\ search[n].left \in 0 .. n /\ search[n].right \in 0..n
        /\ search[n].left <= search[n].right
        /\ \A i \in 0..search[n].left - 1 : Ends(i, files, target)
        /\ \A i \in search[n].right..n - 1 : ~Ends(i, files, target)
    BY <2>1, CountsAreTheSame DEF Searching
  <2>3. search[n].left = search[n].right
    BY <2>1, <2>2, <1>1
  <2> QED BY <2>2, <2>3
<1>12. DB!FindFile(files, target) = {f \in files : DB!Position(f, files) = k}
  BY <1>11 DEF DB!FindFile
<1>13. \A f \in files : /\ DB!Position(f, files) \in 0..n - 1
                        /\ DB!Precedes(DB!Largest(f), target) <=> DB!Position(f, files) < k
  <2> SUFFICES ASSUME NEW f \in files
               PROVE  /\ DB!Position(f, files) \in 0..n - 1
                      /\ DB!Precedes(DB!Largest(f), target) <=> DB!Position(f, files) < k
    OBVIOUS
  <2>1. PICK i \in 0..n - 1 : i = DB!Position(f, files)
    BY PositionsCount, CountsAreTheSame
  <2>2. DB!At(i, files) = f
    BY <2>1, PositionsCount
  <2>3. DB!Precedes(DB!Largest(f), target) <=> Ends(i, files, target)
    BY <2>2 DEF Ends
  <2>4. i \in 0 .. k - 1 \/ i \in k..n - 1
    BY <1>1
  <2> QED BY <2>1, <2>3, <2>4, <1>11
<1> HIDE DEF n
<1>14. ASSUME NEW f, f \in DB!FindFile(files, target)
       PROVE  /\ f \in files /\ ~DB!Precedes(DB!Largest(f), target)
              /\ \A g \in files : ~DB!Precedes(DB!Largest(g), target) => ~DB!FileOrder(g, f)
  <2>1. f \in files /\ DB!Position(f, files) = k
    BY <1>14, <1>12
  <2>2. ASSUME NEW g \in files, ~DB!Precedes(DB!Largest(g), target) PROVE ~DB!FileOrder(g, f)
    <3>1. ~(DB!Position(g, files) < k) BY <2>2, <1>13
    <3> QED BY <3>1, <2>1, PositionsCount
  <2> QED BY <2>1, <2>2, <1>13, <1>1
<1>15. ASSUME NEW f \in files, ~DB!Precedes(DB!Largest(f), target),
              \A g \in files : ~DB!Precedes(DB!Largest(g), target) => ~DB!FileOrder(g, f)
       PROVE  f \in DB!FindFile(files, target)
  <2>1. DB!Position(f, files) \in 0 .. n - 1 /\ DB!Position(f, files) >= k
    BY <1>15, <1>13, <1>1
  <2>2. k \in 0..n - 1
    BY <2>1, <1>1
  <2>3. PICK g \in files : DB!Position(g, files) = k
    BY <2>2, PositionsCount, CountsAreTheSame DEF n
  <2>4. ~DB!Precedes(DB!Largest(g), target)
    BY <2>3, <1>13, <1>1
  <2>5. ~(DB!Position(g, files) < DB!Position(f, files))
    BY <2>4, <1>15, PositionsCount
  <2>6. DB!Position(f, files) = k
    BY <2>5, <2>3, <2>1, <1>1
  <2> QED BY <2>6, <1>12
<1> QED BY <1>14, <1>15
LEMMA FindFileFirst ==
  ASSUME NEW files, WellFormed(files), Sorted(files), NEW target,
         target.key \in Nat, target.seq \in Nat,
         NEW f \in files, ~DB!Precedes(DB!Largest(f), target)
  PROVE  \E h \in DB!FindFile(files, target) : h = f \/ DB!FileOrder(h, f)
<1> DEFINE C == {g \in files : ~DB!Precedes(DB!Largest(g), target)}
<1>1. WellFormed(C) /\ f \in C
  <2>1. C \subseteq files /\ f \in C OBVIOUS
  <2> HIDE DEF C
  <2> QED BY <2>1, WellFormedSubset
<1>2. PICK h \in C : \A g \in C \ {h} : DB!FileOrder(h, g)
  <2> HIDE DEF C
  <2> QED BY <1>1, FirstFileIsFirst
<1>3. \A g \in C : ~DB!FileOrder(g, h)
  <2>1. Orders(FilePairs(files), files)
    BY FileOrderOrders
  <2>2. ASSUME NEW g \in C, DB!FileOrder(g, h) PROVE FALSE
    <3>1. g \in files /\ h \in files /\ <<g, h>> \in FilePairs(files)
      BY <2>2 DEF FilePairs
    <3>2. <<g, h>> \in FilePairs(files) => g # h BY <2>1, <3>1 DEF Orders
    <3>3. <<h, g>> \in FilePairs(files) BY <3>1, <3>2, <2>2, <1>2 DEF FilePairs
    <3>4. <<h, h>> \in FilePairs(files) BY <3>1, <3>3, <2>1, Zenon DEF Orders
    <3> QED BY <3>4, <3>1, <2>1 DEF Orders
  <2> QED BY <2>2
<1>4. h \in DB!FindFile(files, target)
  BY <1>3, FindFileFinds
<1> QED BY <1>2, <1>1, <1>4

------------------------
(* Ranges of user keys. *)

LEMMA MinIsLeast ==
  ASSUME NEW S, S \subseteq Nat, S # {}
  PROVE  DB!Min(S) \in S /\ \A x \in S : DB!Min(S) <= x
<1>1. \E x \in S : \A y \in S : x <= y
  BY LeastNatural
<1> QED BY <1>1 DEF DB!Min

LEMMA MaxIsGreatest ==
  ASSUME NEW S, S \subseteq Nat, S # {}, IsFiniteSet(S)
  PROVE  DB!Max(S) \in S /\ \A x \in S : x <= DB!Max(S)
<1> DEFINE R == {p \in S \X S : p[1] > p[2]}
<1>1. \A x, y \in S : <<x, y>> \in R <=> x > y OBVIOUS
<1>2. Orders(R, S)
  <2> HIDE DEF R
  <2> QED BY <1>1 DEF Orders
<1>3. PICK x \in S : \A y \in S \ {x} : <<x, y>> \in R
  <2> HIDE DEF R
  <2> QED BY <1>2, LeastElement
<1>4. \E m \in S : \A y \in S : m >= y
  <2>1. ASSUME NEW y \in S PROVE x >= y
    <3>1. x = y \/ x > y
      BY <1>1, <1>3
    <3> QED BY <3>1
  <2> QED BY <2>1
<1>5. DB!Max(S) \in S /\ \A y \in S : DB!Max(S) >= y
  BY <1>4 DEF DB!Max
<1> QED BY <1>5

\* The keys at one end of some files.
LEMMA EndKeys ==
  ASSUME NEW files, WellFormed(files)
  PROVE  /\ {DB!Smallest(f).key : f \in files} \subseteq Nat
         /\ {DB!Largest(f).key : f \in files} \subseteq Nat
         /\ IsFiniteSet({DB!Largest(f).key : f \in files})
         /\ \A f \in files : DB!Smallest(f).key <= DB!Largest(f).key
<1>1. \A f \in files : Between(f)
  BY EndsOfFile
<1>2. \A f \in files : DB!Smallest(f).key \in Nat /\ DB!Largest(f).key \in Nat
  BY <1>1 DEF Between
<1>3. \A f \in files : DB!Smallest(f).key <= DB!Largest(f).key
  BY <1>1 DEF Between
<1> DEFINE T == {DB!Largest(f).key : f \in files}
           m == [f \in files |-> DB!Largest(f).key]
<1>4. m \in Surjection(files, T)
  BY DEF Surjection
<1>5. IsFiniteSet(T)
  <2> HIDE DEF T, m
  <2> QED BY <1>4, FS_Surjection DEF WellFormed
<1> QED BY <1>2, <1>3, <1>5

\* A range with natural ends, and a range that has all the files.
IsRange(r) == r.lo \in Nat /\ r.hi \in Nat
Covers(r, files) == \A f \in files : r.lo <= DB!Smallest(f).key /\ DB!Largest(f).key <= r.hi

LEMMA HullCovers ==
  ASSUME NEW files, WellFormed(files), files # {}
  PROVE  /\ IsRange(DB!Hull(files)) /\ Covers(DB!Hull(files), files)
         /\ \E f \in files : DB!Hull(files).lo = DB!Smallest(f).key
         /\ \E f \in files : DB!Hull(files).hi = DB!Largest(f).key
<1> DEFINE A == {DB!Smallest(f).key : f \in files}
           B == {DB!Largest(f).key : f \in files}
<1>1. A \subseteq Nat /\ B \subseteq Nat /\ IsFiniteSet(B) /\ A # {} /\ B # {}
  BY EndKeys
<1>2. DB!Min(A) \in A /\ \A x \in A : DB!Min(A) <= x
  <2> HIDE DEF A
  <2> QED BY <1>1, MinIsLeast
<1>3. DB!Max(B) \in B /\ \A x \in B : x <= DB!Max(B)
  <2> HIDE DEF B
  <2> QED BY <1>1, MaxIsGreatest
<1>4. DB!Hull(files).lo = DB!Min(A) /\ DB!Hull(files).hi = DB!Max(B)
  BY DEF DB!Hull
<1>5. Covers(DB!Hull(files), files)
  BY <1>2, <1>3, <1>4 DEF Covers
<1>6. IsRange(DB!Hull(files))
  <2> HIDE DEF A, B
  <2> QED BY <1>1, <1>2, <1>3, <1>4 DEF IsRange
<1> QED BY <1>2, <1>3, <1>4, <1>5, <1>6

LEMMA WidenedCovers ==
  ASSUME NEW files, WellFormed(files), NEW r, IsRange(r)
  PROVE  /\ DB!Widened(r, files) \in [lo : Nat, hi : Nat]
         /\ Covers(DB!Widened(r, files), files)
         /\ DB!Widened(r, files).lo <= r.lo /\ r.hi <= DB!Widened(r, files).hi
         /\ Covers(r, files) => DB!Widened(r, files).lo = r.lo /\ DB!Widened(r, files).hi = r.hi
<1> DEFINE A == {r.lo} \union {DB!Smallest(f).key : f \in files}
           B == {r.hi} \union {DB!Largest(f).key : f \in files}
<1>1. A \subseteq Nat /\ B \subseteq Nat /\ IsFiniteSet(B) /\ r.lo \in A /\ r.hi \in B
  BY EndKeys, FS_Singleton, FS_Union DEF IsRange
<1>2. DB!Min(A) \in A /\ \A x \in A : DB!Min(A) <= x
  <2> HIDE DEF A
  <2> QED BY <1>1, MinIsLeast
<1>3. DB!Max(B) \in B /\ \A x \in B : x <= DB!Max(B)
  <2> HIDE DEF B
  <2> QED BY <1>1, MaxIsGreatest
<1>4. DB!Widened(r, files) = [lo |-> DB!Min(A), hi |-> DB!Max(B)]
  BY DEF DB!Widened
<1>5. Covers([lo |-> DB!Min(A), hi |-> DB!Max(B)], files)
  BY <1>2, <1>3 DEF Covers
<1>6. ASSUME Covers(r, files) PROVE DB!Min(A) = r.lo /\ DB!Max(B) = r.hi
  <2>1. \A x \in A : r.lo <= x
    BY <1>6, <1>1 DEF Covers, IsRange
  <2>2. \A x \in B : x <= r.hi
    BY <1>6, <1>1 DEF Covers, IsRange
  <2> HIDE DEF A, B
  <2>3. DB!Min(A) <= r.lo /\ r.lo <= DB!Min(A) /\ DB!Max(B) <= r.hi /\ r.hi <= DB!Max(B)
    BY <2>1, <2>2, <1>1, <1>2, <1>3
  <2>4. DB!Min(A) \in Nat /\ DB!Max(B) \in Nat
    BY <1>1, <1>2, <1>3
  <2> QED BY <2>3, <2>4 DEF IsRange
<1> HIDE DEF A, B
<1>7. DB!Min(A) \in Nat /\ DB!Max(B) \in Nat /\ DB!Min(A) <= r.lo /\ r.hi <= DB!Max(B)
  BY <1>1, <1>2, <1>3
<1> QED BY <1>4, <1>5, <1>6, <1>7
LEMMA OverlapsAreSeen ==
  ASSUME NEW ls, NEW l \in Nat, WellFormed(ls[l]), l # 0 => Sorted(ls[l]),
         NEW r, IsRange(r), MaxSequenceNumber \in Nat,
         \A e \in EntriesOf(ls[l]) : e.seq <= MaxSequenceNumber,
         ~DB!OverlapInLevel(ls, l, r), NEW f \in ls[l]
  PROVE  ~DB!Overlaps(f, r)
<1>1. CASE l = 0
  BY <1>1 DEF DB!OverlapInLevel
<1>2. CASE l # 0
  <2> SUFFICES ASSUME DB!Overlaps(f, r) PROVE FALSE OBVIOUS
  <2>1. PICK target : target = [key |-> r.lo, seq |-> MaxSequenceNumber] OBVIOUS
  <2>2. target.key = r.lo /\ target.seq = MaxSequenceNumber
    BY <2>1
  <2>3. ASSUME NEW g \in ls[l] PROVE DB!Precedes(DB!Largest(g), target) <=> DB!Largest(g).key < r.lo
    <3>1. Between(g) BY EndsOfFile
    <3>2. DB!Largest(g) \in EntriesOf(ls[l]) BY <3>1 DEF Between, EntriesOf
    <3> QED BY <3>1, <3>2, <2>2 DEF Between, DB!Precedes, IsRange
  <2>4. Between(f)
    BY EndsOfFile
  <2>5. ~DB!Precedes(DB!Largest(f), target)
    BY <2>3, <2>4 DEF DB!Overlaps, Between, IsRange
  <2>6. PICK h \in DB!FindFile(ls[l], target) : h = f \/ DB!FileOrder(h, f)
    <3>1. target.key \in Nat /\ target.seq \in Nat
      BY <2>2 DEF IsRange
    <3> QED BY <3>1, <2>5, <1>2, FindFileFirst
  <2>7. h \in ls[l] /\ ~DB!Precedes(DB!Largest(h), target)
    <3>1. target.key \in Nat /\ target.seq \in Nat
      BY <2>2 DEF IsRange
    <3> QED BY <3>1, <1>2, <2>6, FindFileFinds
  <2>8. Between(h)
    BY <2>7, EndsOfFile
  <2>9. h # f => DB!Precedes(DB!Largest(h), DB!Smallest(f))
    BY <2>6, <2>7, <1>2, SortedInOrder
  <2>10. DB!Overlaps(h, r)
    BY <2>3, <2>4, <2>7, <2>8, <2>9 DEF DB!Overlaps, Between, IsRange, DB!Precedes
  <2> QED BY <2>10, <2>6, <2>1, <1>2 DEF DB!OverlapInLevel
<1> QED BY <1>1, <1>2

\* A range grows at most as often as there are files to make it grow.
LEMMA GrowthEnds ==
  ASSUME NEW files, WellFormed(files), NEW r, IsRange(r), NEW n, n = Cardinality(files),
         NEW grown, grown = [m \in 0..n |->
           IF m = 0 THEN r ELSE DB!Widened(grown[m - 1], DB!Touched(files, grown[m - 1]))]
  PROVE  /\ \A m \in 0 .. n : IsRange(grown[m]) /\ grown[m].lo <= r.lo /\ r.hi <= grown[m].hi
         /\ Covers(grown[n], DB!Touched(files, grown[n]))
<1> DEFINE T(m) == DB!Touched(files, grown[m])
           Whole(m) == Covers(grown[m], T(m))
           P == {m \in Nat : m <= n =>
                   /\ IsRange(grown[m]) /\ grown[m].lo <= r.lo /\ r.hi <= grown[m].hi
                   /\ Whole(m) \/ Cardinality(T(m)) > m}
<1>1. n \in Nat /\ IsFiniteSet(files)
  BY FS_CardinalityType DEF WellFormed
<1>2. ASSUME NEW m \in 0..n
      PROVE  /\ T(m) \subseteq files /\ WellFormed(T(m)) /\ IsFiniteSet(T(m))
             /\ Cardinality(T(m)) \in Nat /\ Cardinality(T(m)) <= n
  <2>1. T(m) \subseteq files
    BY DEF DB!Touched
  <2>2. WellFormed(T(m)) /\ IsFiniteSet(T(m)) /\ Cardinality(T(m)) <= n
    <3> HIDE DEF T
    <3> QED BY <2>1, <1>1, WellFormedSubset, FS_Subset
  <2>3. Cardinality(T(m)) \in Nat
    <3> HIDE DEF T
    <3> QED BY <2>2, FS_CardinalityType
  <2> QED BY <2>1, <2>2, <2>3
<1>3. grown[0] = r /\ \A m \in 1..n : grown[m] = DB!Widened(grown[m - 1], T(m - 1))
  <2>1. \A m \in 0..n :
          grown[m] = IF m = 0 THEN r ELSE DB!Widened(grown[m - 1], T(m - 1))
    OBVIOUS
  <2>2. 0 \in 0..n
    BY <1>1
  <2>3. ASSUME NEW m \in 1..n PROVE grown[m] = DB!Widened(grown[m - 1], T(m - 1))
    <3>1. m \in 0 .. n /\ m # 0
      BY <1>1
    <3> HIDE DEF T
    <3> QED BY <2>1, <3>1, Zenon
  <2> QED BY <2>1, <2>2, <2>3
<1>4. 0 \in P
  <2>1. 0 \in 0..n
    BY <1>1
  <2>2. CASE T(0) = {}
    BY <2>2, <1>3 DEF Covers, IsRange
  <2>3. CASE T(0) # {}
    <3>1. Cardinality(T(0)) > 0
      <4> HIDE DEF T
      <4> QED BY <2>1, <2>3, <1>2, FS_EmptySet
    <3> QED BY <3>1, <1>3 DEF IsRange
  <2> QED BY <2>2, <2>3
<1>5. ASSUME NEW m \in P PROVE m + 1 \in P
  <2>1. m \in Nat OBVIOUS
  <2> SUFFICES ASSUME m + 1 <= n
               PROVE  /\ IsRange(grown[m + 1])
                      /\ grown[m + 1].lo <= r.lo /\ r.hi <= grown[m + 1].hi
                      /\ Whole(m + 1) \/ Cardinality(T(m + 1)) > m + 1
    BY <2>1
  <2>2. m \in 0 .. n /\ m + 1 \in 0..n
    BY <2>1, <1>1
  <2>3. /\ IsRange(grown[m]) /\ grown[m].lo <= r.lo /\ r.hi <= grown[m].hi
        /\ Whole(m) \/ Cardinality(T(m)) > m
    BY <2>1, <1>1
  <2>4. PICK g : g = grown[m] OBVIOUS
  <2>5. PICK h : h = grown[m + 1] OBVIOUS
  <2>6. h = DB!Widened(g, T(m))
    <3>1. m + 1 \in 1 .. n /\ (m + 1) - 1 = m
      BY <2>1, <1>1
    <3> HIDE DEF T
    <3> QED BY <3>1, <1>3, <2>4, <2>5
  <2>7. /\ h \in [lo : Nat, hi : Nat] /\ Covers(h, T(m))
        /\ h.lo <= g.lo /\ g.hi <= h.hi
        /\ Covers(g, T(m)) => h.lo = g.lo /\ h.hi = g.hi
    <3>1. WellFormed(T(m)) /\ IsRange(g)
      BY <1>2, <2>2, <2>3, <2>4
    <3> HIDE DEF T
    <3> QED BY <3>1, <2>6, WidenedCovers
  <2>8. IsRange(h) /\ h.lo <= r.lo /\ r.hi <= h.hi
    <3>1. IsRange(g) /\ g.lo <= r.lo /\ r.hi <= g.hi
      BY <2>3, <2>4
    <3>2. h.lo \in Nat /\ h.hi \in Nat /\ h.lo <= g.lo /\ g.hi <= h.hi
      BY <2>7
    <3> HIDE DEF T
    <3> QED BY <3>1, <3>2 DEF IsRange
  <2>9. T(m) \subseteq T(m + 1)
    <3> SUFFICES ASSUME NEW f \in files, DB!Overlaps(f, g) PROVE DB!Overlaps(f, h)
      BY <2>4, <2>5 DEF DB!Touched
    <3>1. Between(f) BY EndsOfFile
    <3>2. DB!Smallest(f).key \in Nat /\ DB!Largest(f).key \in Nat
      BY <3>1 DEF Between
    <3>3. IsRange(g) BY <2>3, <2>4
    <3> QED BY <3>2, <3>3, <2>7, <2>8 DEF DB!Overlaps, IsRange
  <2>10. T(m + 1) # T(m) => Cardinality(T(m + 1)) > Cardinality(T(m))
    <3>1. Cardinality(T(m)) <= Cardinality(T(m + 1))
      <4> HIDE DEF T
      <4> QED BY <2>9, <2>2, <1>2, FS_Subset
    <3>2. Cardinality(T(m + 1)) = Cardinality(T(m)) => T(m + 1) = T(m)
      <4> HIDE DEF T
      <4> QED BY <2>9, <2>2, <1>2, FS_Subset
    <3>3. Cardinality(T(m)) \in Nat /\ Cardinality(T(m + 1)) \in Nat
      BY <1>2, <2>2
    <3> QED BY <3>1, <3>2, <3>3
  <2>11. Whole(m + 1) \/ Cardinality(T(m + 1)) > m + 1
    <3>1. CASE T(m + 1) = T(m)
      BY <3>1, <2>5, <2>7
    <3>2. CASE T(m + 1) # T(m) /\ Whole(m)
      <4>1. h.lo = g.lo /\ h.hi = g.hi
        BY <3>2, <2>4, <2>7
      <4>2. T(m + 1) = T(m) BY <4>1, <2>4, <2>5 DEF DB!Touched, DB!Overlaps
      <4> QED BY <4>2, <3>2
    <3>3. CASE T(m + 1) # T(m) /\ Cardinality(T(m)) > m
      <4>1. Cardinality(T(m)) \in Nat /\ Cardinality(T(m + 1)) \in Nat
        BY <1>2, <2>2
      <4> QED BY <4>1, <3>3, <2>10, <2>1
    <3> QED BY <3>1, <3>2, <3>3, <2>3
  <2> QED BY <2>5, <2>8, <2>11
<1>6. P = Nat
  <2>1. P \subseteq Nat OBVIOUS
  <2> HIDE DEF P
  <2> QED BY <1>4, <1>5, <2>1, InductionBySet
<1>7. ASSUME NEW m \in 0..n
      PROVE  /\ IsRange(grown[m]) /\ grown[m].lo <= r.lo /\ r.hi <= grown[m].hi
             /\ Whole(m) \/ Cardinality(T(m)) > m
  <2>1. m \in Nat /\ m <= n
    BY <1>1
  <2>2. m \in P
    <3> HIDE DEF P
    <3> QED BY <2>1, <1>6
  <2> QED BY <2>1, <2>2
<1>8. Whole(n)
  <2>1. n \in 0..n
    BY <1>1
  <2>2. Whole(n) \/ Cardinality(T(n)) > n
    BY <2>1, <1>7
  <2>3. Cardinality(T(n)) <= n /\ Cardinality(T(n)) \in Nat
    BY <2>1, <1>2
  <2> HIDE DEF T
  <2> QED BY <2>2, <2>3, <1>1
<1> QED BY <1>7, <1>8

\* What GetOverlappingInputs returns: the files of the level that touch some range around
\* the one asked for; above level 0 the one asked for, at level 0 one that has them all.
LEMMA OverlappingInputs ==
  ASSUME NEW ls, WellFormed(ls[0]), NEW l \in Nat, NEW r, IsRange(r)
  PROVE  /\ DB!GetOverlappingInputs(ls, l, r) \subseteq ls[l]
         /\ l # 0 => DB!GetOverlappingInputs(ls, l, r) = DB!Touched(ls[l], r)
         /\ l = 0 => \E w : /\ IsRange(w) /\ w.lo <= r.lo /\ r.hi <= w.hi
                            /\ DB!GetOverlappingInputs(ls, 0, r) = DB!Touched(ls[0], w)
                            /\ Covers(w, DB!Touched(ls[0], w))
<1> DEFINE n == DB!Cardinality(ls[0])
           S == [lo : Nat, hi : Nat] \union {r}
           body(s) == DB!Widened(s, DB!Touched(ls[0], s))
           step == [p \in (1..n) \X S |-> body(p[2])]
           IsGrowth(f) == f = [m \in 0..n |-> IF m = 0 THEN r ELSE body(f[m - 1])]
           grown == CHOOSE f : IsGrowth(f)
<1>1. n \in Nat
  BY FS_CardinalityType, CountsAreTheSame DEF WellFormed
<1>2. \A s \in S : body(s) \in S
  <2> SUFFICES ASSUME NEW s \in S PROVE body(s) \in S OBVIOUS
  <2>1. IsRange(s) /\ DB!Touched(ls[0], s) \subseteq ls[0]
    BY DEF IsRange, DB!Touched
  <2>2. WellFormed(DB!Touched(ls[0], s))
    BY <2>1, WellFormedSubset
  <2> QED BY <2>1, <2>2, WidenedCovers
<1>3. step \in [(1..n) \X S -> S]
  <2> HIDE DEF S, n, body
  <2> QED BY <1>2
<1>4. PICK g \in [0 .. n -> S] : g[0] = r /\ \A m \in 1..n : g[m] = step[<<m, g[m - 1]>>]
  <2>1. r \in S OBVIOUS
  <2> HIDE DEF step, S, n
  <2>2. \E f : IsRecursion(f, n, S, r, step)
    BY <1>1, <1>3, <2>1, RecursionOnInterval
  <2> QED BY <2>2 DEF IsRecursion
<1>5. IsGrowth(g)
  <2> HIDE DEF n, body, S
  <2>1. ASSUME NEW m \in 0..n PROVE g[m] = IF m = 0 THEN r ELSE body(g[m - 1])
    <3>1. CASE m # 0
      <4>1. m \in 1 .. n /\ m - 1 \in 0..n
        BY <3>1, <1>1
      <4> QED BY <3>1, <4>1, <1>4
    <3> QED BY <3>1, <1>4
  <2>2. g = [m \in 0..n |-> g[m]]
    BY <1>4
  <2> QED BY <2>1, <2>2
<1>6. IsGrowth(grown)
  <2> HIDE DEF IsGrowth
  <2> QED BY <1>5
<1>7. PICK w : w = grown[n] OBVIOUS
<1>8. IsRange(w) /\ w.lo <= r.lo /\ r.hi <= w.hi /\ Covers(w, DB!Touched(ls[0], w))
  <2>1. grown = [m \in 0..n |->
          IF m = 0 THEN r ELSE DB!Widened(grown[m - 1], DB!Touched(ls[0], grown[m - 1]))]
    BY <1>6, Zenon
  <2> HIDE DEF grown, n
  <2>2. /\ \A m \in 0 .. n : IsRange(grown[m]) /\ grown[m].lo <= r.lo /\ r.hi <= grown[m].hi
        /\ Covers(grown[n], DB!Touched(ls[0], grown[n]))
    BY <2>1, GrowthEnds, CountsAreTheSame DEF n
  <2>3. n \in 0..n
    BY <1>1
  <2> QED BY <2>2, <2>3, <1>7
<1>9. grown[0] = r
  <2>1. grown = [m \in 0..n |-> IF m = 0 THEN r ELSE body(grown[m - 1])]
    BY <1>6, Zenon
  <2>2. 0 \in 0..n
    BY <1>1
  <2> HIDE DEF grown, n, body
  <2> QED BY <2>1, <2>2
<1>10. DB!GetOverlappingInputs(ls, l, r) = DB!Touched(ls[l], IF l = 0 THEN w ELSE r)
  <2>1. DB!GetOverlappingInputs(ls, l, r) = DB!Touched(ls[l], grown[IF l = 0 THEN n ELSE 0])
    BY DEF DB!GetOverlappingInputs
  <2> HIDE DEF grown, n
  <2> QED BY <2>1, <1>7, <1>9
<1> HIDE DEF grown, n
<1> QED BY <1>8, <1>10 DEF DB!Touched
------------------------
(* Where a memtable's table goes, and what a compaction takes. *)

Good(ls) ==
  \A l \in DB!LevelNumbers :
    WellFormed(ls[l]) /\ \A e \in EntriesOf(ls[l]) : e.seq <= MaxSequenceNumber

AllSorted(ls) == \A l \in 1..NumLevels - 1 : Sorted(ls[l])

\* A memtable's table goes below level 0 only where it passes by nothing of its keys, and
\* never to the last level.
LEMMA PickedLevel ==
  ASSUME DB!LevelAssumption, MaxSequenceNumber \in Nat, NEW ls, Good(ls), NEW r, IsRange(r)
  PROVE  /\ DB!PickLevelForMemTableOutput(ls, r) \in 0..NumLevels - 2
         /\ DB!PickLevelForMemTableOutput(ls, r) # 0 /\ AllSorted(ls) =>
              \A l \in 0..DB!PickLevelForMemTableOutput(ls, r) : \A f \in ls[l] : ~DB!Overlaps(f, r)
<1> DEFINE X == {level \in 0..MaxMemCompactLevel : \A l \in 0..level - 1 : DB!MayPass(ls, l, r)}
<1>1. /\ MaxMemCompactLevel \in Nat /\ MaxMemCompactLevel <= NumLevels - 2 /\ NumLevels \in Nat
      /\ NumLevels >= 2
  BY DEF DB!LevelAssumption
<1>2. X \subseteq Nat /\ X # {} /\ IsFiniteSet(X)
  <2>1. X \subseteq 0 .. MaxMemCompactLevel /\ 0 \in X
    BY <1>1
  <2>2. IsFiniteSet(0..MaxMemCompactLevel)
    BY <1>1, FS_Interval
  <2>3. X \subseteq Nat
    BY <1>1
  <2> HIDE DEF X
  <2>4. IsFiniteSet(X)
    BY <2>1, <2>2, FS_Subset
  <2> QED BY <2>1, <2>3, <2>4
<1>3. DB!Max(X) \in X
  <2> HIDE DEF X
  <2> QED BY <1>2, MaxIsGreatest
<1>4. PICK k : k = DB!PickLevelForMemTableOutput(ls, r) OBVIOUS
<1>5. k = IF DB!OverlapInLevel(ls, 0, r) THEN 0 ELSE DB!Max(X)
  BY <1>4 DEF DB!PickLevelForMemTableOutput
<1>6. k \in 0..NumLevels - 2
  BY <1>1, <1>3, <1>5
<1>7. ASSUME k # 0, AllSorted(ls), NEW l \in 0..k, NEW f \in ls[l] PROVE ~DB!Overlaps(f, r)
  <2>1. ~DB!OverlapInLevel(ls, 0, r) /\ k \in X
    BY <1>7, <1>3, <1>5
  <2>2. ~DB!OverlapInLevel(ls, l, r)
    <3>1. CASE l = 0
      BY <3>1, <2>1
    <3>2. CASE l # 0
      <4>1. l - 1 \in 0 .. k - 1 /\ (l - 1) + 1 = l
        BY <3>2, <1>6, <1>7
      <4>2. DB!MayPass(ls, l - 1, r) BY <4>1, <2>1
      <4> QED BY <4>1, <4>2 DEF DB!MayPass
    <3> QED BY <3>1, <3>2
  <2>3. l \in DB!LevelNumbers /\ l \in Nat /\ (l # 0 => l \in 1..NumLevels - 1)
    BY <1>1, <1>6, <1>7 DEF DB!LevelNumbers
  <2>4. WellFormed(ls[l]) /\ \A e \in EntriesOf(ls[l]) : e.seq <= MaxSequenceNumber
    BY <2>3 DEF Good
  <2>5. l # 0 => Sorted(ls[l])
    BY <2>3, <1>7 DEF AllSorted
  <2> QED BY <2>2, <2>3, <2>4, <2>5, <1>7, OverlapsAreSeen
<1> QED BY <1>4, <1>6, <1>7

\* No file left behind overlaps one of those taken.
NoneIsLeft(files, some) == \A f \in files \ some, g \in some : ~DB!Overlaps(f, DB!RangeOf(g))

LEMMA OverlappingInputsAreClosed ==
  ASSUME NEW ls, WellFormed(ls[0]), NEW r, IsRange(r)
  PROVE  NoneIsLeft(ls[0], DB!GetOverlappingInputs(ls, 0, r))
<1>1. PICK w : /\ IsRange(w) /\ DB!GetOverlappingInputs(ls, 0, r) = DB!Touched(ls[0], w)
               /\ Covers(w, DB!Touched(ls[0], w))
  BY OverlappingInputs
<1> SUFFICES ASSUME NEW f \in ls[0], f \notin DB!Touched(ls[0], w), NEW g \in DB!Touched(ls[0], w),
                    DB!Overlaps(f, DB!RangeOf(g))
             PROVE  FALSE
  BY <1>1 DEF NoneIsLeft
<1>2. g \in ls[0]
  BY DEF DB!Touched
<1>3. Between(f) /\ Between(g)
  BY <1>2, EndsOfFile
<1>4. w.lo <= DB!Smallest(g).key /\ DB!Largest(g).key <= w.hi
  BY <1>1 DEF Covers
<1>5. /\ DB!Smallest(f).key \in Nat /\ DB!Largest(f).key \in Nat
      /\ DB!Smallest(g).key \in Nat /\ DB!Largest(g).key \in Nat
  BY <1>3 DEF Between
<1>6. DB!Overlaps(f, w)
  BY <1>1, <1>4, <1>5 DEF DB!Overlaps, DB!RangeOf, IsRange
<1> QED BY <1>6 DEF DB!Touched

\* The files a compaction of a level takes: those given, or more that a range takes in.
Takes(c, ls, level, picked) ==
  /\ c.level = level /\ c.inputs[1] \subseteq ls[level] /\ c.inputs[1] # {}
  /\ c.inputs[2] = DB!Touched(ls[level + 1], DB!Hull(c.inputs[1]))
  /\ IsFiniteSet(UNION {g.entries : g \in c.grandparents})
  /\ level = 0 /\ NoneIsLeft(ls[0], picked) => NoneIsLeft(ls[0], c.inputs[1])

LEMMA CompactionTakes ==
  ASSUME DB!LevelAssumption, NEW ls, Good(ls), NEW level \in 0..NumLevels - 2,
         NEW picked, picked \subseteq ls[level], picked # {},
         NEW c, c = DB!SetupOtherInputs(ls, level, picked)
  PROVE  Takes(c, ls, level, picked)
<1> SUFFICES /\ c.level = level /\ c.inputs[1] \subseteq ls[level] /\ c.inputs[1] # {}
             /\ c.inputs[2] = DB!Touched(ls[level + 1], DB!Hull(c.inputs[1]))
             /\ IsFiniteSet(UNION {g.entries : g \in c.grandparents})
             /\ level = 0 /\ NoneIsLeft(ls[0], picked) => NoneIsLeft(ls[0], c.inputs[1])
  BY DEF Takes
<1>1. /\ NumLevels \in Nat /\ level \in Nat /\ level + 1 \in Nat /\ level + 1 # 0
      /\ 0 \in DB!LevelNumbers /\ level \in DB!LevelNumbers /\ level + 1 \in DB!LevelNumbers
  BY DEF DB!LevelAssumption, DB!LevelNumbers
<1>2. WellFormed(ls[0]) /\ WellFormed(ls[level]) /\ WellFormed(ls[level + 1])
  BY <1>1 DEF Good
<1>3. ASSUME NEW files, files \subseteq ls[level], files # {}
      PROVE  /\ WellFormed(files) /\ IsRange(DB!Hull(files))
             /\ DB!Below(ls, level, files) = DB!Touched(ls[level + 1], DB!Hull(files))
  <2>1. WellFormed(files)
    BY <1>2, <1>3, WellFormedSubset
  <2>2. IsRange(DB!Hull(files))
    BY <2>1, <1>3, HullCovers
  <2> QED BY <2>1, <2>2, <1>1, <1>2, OverlappingInputs DEF DB!Below
<1>4. PICK below : below = DB!Below(ls, level, picked) OBVIOUS
<1>5. PICK wider : wider = DB!GetOverlappingInputs(ls, level, DB!Hull(picked \union below))
  OBVIOUS
<1>6. PICK belowWider : belowWider = DB!Below(ls, level, wider) OBVIOUS
<1>7. PICK in : in = DB!Expanded(picked, below, wider, belowWider) OBVIOUS
<1>8. /\ c.level = level /\ c.inputs = in
      /\ c.grandparents = IF level + 2 < NumLevels
                          THEN DB!GetOverlappingInputs(ls, level + 2, DB!Hull(in[1] \union in[2]))
                          ELSE {}
  BY <1>4, <1>5, <1>6, <1>7 DEF DB!SetupOtherInputs, DB!Compaction, DB!ExpandInputs
<1>9. IsRange(DB!Hull(picked \union below))
  <2>1. below \subseteq ls[level + 1]
    BY <1>3, <1>4 DEF DB!Touched
  <2>2. WellFormed(picked) /\ WellFormed(below)
    BY <2>1, <1>2, <1>3, WellFormedSubset
  <2>3. picked \union below # {} OBVIOUS
  <2> DEFINE A == {DB!Smallest(f).key : f \in picked \union below}
             B == {DB!Largest(f).key : f \in picked \union below}
  <2>4. A = {DB!Smallest(f).key : f \in picked} \union {DB!Smallest(f).key : f \in below}
    OBVIOUS
  <2>5. B = {DB!Largest(f).key : f \in picked} \union {DB!Largest(f).key : f \in below}
    OBVIOUS
  <2>6. A \subseteq Nat /\ B \subseteq Nat /\ IsFiniteSet(B) /\ A # {} /\ B # {}
    <3>1. A # {} /\ B # {}
      BY <2>3
    <3> HIDE DEF A, B
    <3> QED BY <3>1, <2>2, <2>4, <2>5, EndKeys, FS_Union
  <2>7. DB!Hull(picked \union below).lo = DB!Min(A) /\ DB!Hull(picked \union below).hi = DB!Max(B)
    BY DEF DB!Hull
  <2> HIDE DEF A, B
  <2> QED BY <2>6, <2>7, MinIsLeast, MaxIsGreatest DEF IsRange
<1>10. wider \subseteq ls[level] /\ (level = 0 => NoneIsLeft(ls[0], wider))
  BY <1>1, <1>2, <1>5, <1>9, OverlappingInputs, OverlappingInputsAreClosed
<1>13. IsFiniteSet(UNION {g.entries : g \in c.grandparents})
  <2>1. CASE level + 2 < NumLevels
    <3>1. c.grandparents \subseteq ls[level + 2]
      BY <2>1, <1>8 DEF DB!GetOverlappingInputs, DB!Touched
    <3>2. level + 2 \in DB!LevelNumbers BY <2>1, <1>1 DEF DB!LevelNumbers
    <3>3. WellFormed(c.grandparents) BY <3>1, <3>2, WellFormedSubset DEF Good
    <3> QED BY <3>3, EntriesAreFinite DEF EntriesOf
  <2>2. CASE ~(level + 2 < NumLevels)
    <3>1. c.grandparents = {} BY <2>2, <1>8
    <3> QED BY <3>1, FS_EmptySet
  <2> QED BY <2>1, <2>2
<1>11. CASE in = <<wider, belowWider>> /\ Cardinality(wider) > Cardinality(picked)
  <2>1. wider # {}
    <3>1. Cardinality(picked) \in Nat BY <1>3, FS_CardinalityType DEF WellFormed
    <3> QED BY <3>1, <1>11, FS_EmptySet
  <2>2. belowWider = DB!Touched(ls[level + 1], DB!Hull(wider))
    BY <2>1, <1>3, <1>6, <1>10
  <2> QED BY <2>1, <2>2, <1>8, <1>10, <1>11, <1>13
<1>12. CASE in = <<picked, below>>
  BY <1>3, <1>4, <1>8, <1>12, <1>13
<1> QED BY <1>11, <1>12, <1>7, CountsAreTheSame DEF DB!Expanded
------------------------
(* What a merge keeps. *)

Accs(all, gs) ==
  [key : Nat, seq : Nat, started : BOOLEAN, passed : SUBSET gs, overlap : Nat,
   outs : Seq(SUBSET all), out : SUBSET all, rest : SUBSET all]

InOrder(as, bs) == \A a \in as, b \in bs : DB!Precedes(a, b)

\* The files written so far and the one begun have the entries kept, in order.
Filled(acc, kept) ==
  /\ (UNION {acc.outs[i] : i \in DOMAIN acc.outs}) \union acc.out = kept
  /\ \A i \in DOMAIN acc.outs : acc.outs[i] # {} /\ InOrder(acc.outs[i], acc.out)
  /\ \A i, j \in DOMAIN acc.outs : i < j => InOrder(acc.outs[i], acc.outs[j])

\* Nothing but the files has changed.
SameRound(a, b) == a.key = b.key /\ a.seq = b.seq /\ a.rest = b.rest

LEMMA CloseFills ==
  ASSUME NEW all, NEW gs, NEW acc \in Accs(all, gs), NEW kept, Filled(acc, kept)
  PROVE  /\ DB!Close(acc) \in Accs(all, gs) /\ Filled(DB!Close(acc), kept)
         /\ DB!Close(acc).out = {} /\ SameRound(DB!Close(acc), acc)
<1>1. CASE acc.out = {}
  BY <1>1 DEF DB!Close, SameRound
<1>2. CASE acc.out # {}
  <2>1. PICK b : b = DB!Close(acc) OBVIOUS
  <2>2. b = [acc EXCEPT !.outs = Append(@, acc.out), !.out = {}]
    BY <1>2, <2>1 DEF DB!Close
  <2>3. acc.outs \in Seq(SUBSET all) /\ acc.out \in SUBSET all
    BY DEF Accs
  <2>4. /\ b.outs = Append(acc.outs, acc.out) /\ b.out = {}
        /\ b.key = acc.key /\ b.seq = acc.seq /\ b.rest = acc.rest
    BY <2>2 DEF Accs
  <2>5. b \in Accs(all, gs)
    <3>1. Append(acc.outs, acc.out) \in Seq(SUBSET all) /\ {} \in SUBSET all
      BY <2>3
    <3> QED BY <3>1, <2>2 DEF Accs
  <2>6. PICK n \in Nat : n = Len(acc.outs) /\ DOMAIN acc.outs = 1..n
    BY <2>3
  <2>7. /\ DOMAIN b.outs = 1 .. n + 1 /\ b.outs[n + 1] = acc.out
        /\ \A i \in 1..n : b.outs[i] = acc.outs[i]
    BY <2>3, <2>4, <2>6
  <2>8. (UNION {b.outs[i] : i \in DOMAIN b.outs}) \union b.out = kept
    <3>1. 1..n + 1 = (1..n) \union {n + 1} BY <2>6
    <3>2. {b.outs[i] : i \in 1..n + 1} = {acc.outs[i] : i \in 1..n} \union {acc.out}
      BY <3>1, <2>7
    <3>3. PICK A : A = {acc.outs[i] : i \in 1..n} OBVIOUS
    <3>4. (UNION A) \union acc.out = kept BY <3>3, <2>6 DEF Filled
    <3>5. {b.outs[i] : i \in DOMAIN b.outs} = A \union {acc.out} BY <3>2, <3>3, <2>7
    <3>6. UNION (A \union {acc.out}) = (UNION A) \union acc.out OBVIOUS
    <3> QED BY <3>4, <3>5, <3>6, <2>4
  <2>9. ASSUME NEW i \in DOMAIN b.outs PROVE b.outs[i] # {} /\ InOrder(b.outs[i], b.out)
    BY <1>2, <2>4, <2>6, <2>7, <2>9 DEF Filled, InOrder
  <2>10. ASSUME NEW i \in DOMAIN b.outs, NEW j \in DOMAIN b.outs, i < j
         PROVE  InOrder(b.outs[i], b.outs[j])
    <3>1. i \in 1 .. n /\ (j \in 1 .. n \/ j = n + 1)
      BY <2>6, <2>7, <2>10
    <3> QED BY <3>1, <2>6, <2>7, <2>10 DEF Filled
  <2> QED BY <2>1, <2>4, <2>5, <2>8, <2>9, <2>10 DEF Filled, SameRound
<1> QED BY <1>1, <1>2

LEMMA StopBeforeFills ==
  ASSUME NEW all, NEW gs, IsFiniteSet(UNION {g.entries : g \in gs}),
         NEW acc \in Accs(all, gs), NEW kept, Filled(acc, kept), NEW passed \in SUBSET gs
  PROVE  /\ DB!StopBefore(acc, passed) \in Accs(all, gs) /\ Filled(DB!StopBefore(acc, passed), kept)
         /\ SameRound(DB!StopBefore(acc, passed), acc)
<1>1. DB!TotalSize(passed) \in Nat
  <2>1. UNION {g.entries : g \in passed} \subseteq UNION {g.entries : g \in gs}
    OBVIOUS
  <2>2. IsFiniteSet(UNION {g.entries : g \in passed})
    BY <2>1, FS_Subset
  <2> QED BY <2>2, FS_CardinalityType, CountsAreTheSame DEF DB!TotalSize
<1>2. PICK o \in Nat : o = acc.overlap + IF acc.started THEN DB!TotalSize(passed) ELSE 0
  BY <1>1 DEF Accs
<1>3. PICK here : here = [acc EXCEPT !.started = TRUE, !.passed = @ \union passed, !.overlap = o]
  OBVIOUS
<1>4. DB!StopBefore(acc, passed) =
        IF o > MaxGrandParentOverlap THEN DB!Close([here EXCEPT !.overlap = 0]) ELSE here
  BY <1>2, <1>3 DEF DB!StopBefore
<1>5. here \in Accs(all, gs)
  BY <1>3 DEF Accs
<1>6. /\ here.outs = acc.outs /\ here.out = acc.out /\ SameRound(here, acc)
  BY <1>3 DEF Accs, SameRound
<1>7. Filled(here, kept)
  BY <1>6 DEF Filled
<1>8. CASE o > MaxGrandParentOverlap
  <2>1. PICK b : b = [here EXCEPT !.overlap = 0] OBVIOUS
  <2>2. b \in Accs(all, gs) /\ b.outs = here.outs /\ b.out = here.out /\ SameRound(b, here)
    BY <2>1, <1>5 DEF Accs, SameRound
  <2>3. Filled(b, kept)
    BY <2>2, <1>7 DEF Filled
  <2>4. DB!Close(b) \in Accs(all, gs) /\ Filled(DB!Close(b), kept) /\ SameRound(DB!Close(b), b)
    BY <2>2, <2>3, CloseFills
  <2>5. DB!StopBefore(acc, passed) = DB!Close(b)
    BY <2>1, <1>4, <1>8
  <2> QED BY <2>2, <2>4, <2>5, <1>6 DEF SameRound
<1>9. CASE ~(o > MaxGrandParentOverlap)
  BY <1>9, <1>4, <1>5, <1>6, <1>7
<1> QED BY <1>8, <1>9

LEMMA AddToOutputFills ==
  ASSUME NEW all, NEW gs, NEW acc \in Accs(all, gs), NEW kept, Filled(acc, kept),
         NEW e \in all, InOrder(kept, {e})
  PROVE  /\ DB!AddToOutput(acc, e) \in Accs(all, gs) /\ Filled(DB!AddToOutput(acc, e), kept \union {e})
         /\ SameRound(DB!AddToOutput(acc, e), acc)
<1>1. PICK b : b = [acc EXCEPT !.out = @ \union {e}] OBVIOUS
<1>2. /\ b \in Accs(all, gs) /\ b.outs = acc.outs /\ b.out = acc.out \union {e}
      /\ SameRound(b, acc)
  BY <1>1 DEF Accs, SameRound
<1>3. Filled(b, kept \union {e})
  <2>1. (UNION {b.outs[i] : i \in DOMAIN b.outs}) \union b.out = kept \union {e}
    <3>1. PICK A : A = UNION {acc.outs[i] : i \in DOMAIN acc.outs} OBVIOUS
    <3>2. A \union acc.out = kept BY <3>1 DEF Filled
    <3>3. UNION {b.outs[i] : i \in DOMAIN b.outs} = A BY <3>1, <1>2
    <3> QED BY <3>2, <3>3, <1>2
  <2>2. ASSUME NEW i \in DOMAIN b.outs PROVE b.outs[i] # {} /\ InOrder(b.outs[i], b.out)
    <3>1. acc.outs[i] \subseteq kept /\ acc.outs[i] # {} /\ InOrder(acc.outs[i], acc.out)
      BY <1>2 DEF Filled
    <3> QED BY <3>1, <1>2 DEF InOrder
  <2> QED BY <2>1, <2>2, <1>2 DEF Filled
<1>4. DB!AddToOutput(acc, e) =
        IF Cardinality(acc.out) + 1 >= MaxOutputFileSize THEN DB!Close(b) ELSE b
  BY <1>1, CountsAreTheSame DEF DB!AddToOutput
<1>5. CASE Cardinality(acc.out) + 1 >= MaxOutputFileSize
  BY <1>5, <1>2, <1>3, <1>4, CloseFills DEF SameRound
<1>6. CASE ~(Cardinality(acc.out) + 1 >= MaxOutputFileSize)
  BY <1>6, <1>2, <1>3, <1>4
<1> QED BY <1>5, <1>6

\* An entry is dropped when a newer one of its key is old enough for every snapshot, and a
\* deletion too that is old enough itself and has nothing under it.
Shadowed(w, all, e) ==
  \E d \in all : d.key = e.key /\ d.seq > e.seq /\ d.seq <= w.smallestSnapshot
Done(w, e) ==
  e.type = "Deletion" /\ e.seq <= w.smallestSnapshot /\ DB!IsBaseLevelForKey(w, e.key)
Kept(w, all) == {e \in all : ~Shadowed(w, all, e) /\ ~Done(w, e)}

\* A round of the merge: what has been is before what comes, acc.key and acc.seq are of the
\* last entry that has been, and the files hold what is kept of those.
Merging(w, all, acc) ==
  /\ InOrder(all \ acc.rest, acc.rest)
  /\ acc.key = 0 => acc.rest = all
  /\ acc.key # 0 => \E d \in all \ acc.rest :
       /\ acc.key = d.key /\ acc.seq = d.seq
       /\ \A b \in all \ acc.rest : b = d \/ DB!Precedes(b, d)
  /\ Filled(acc, Kept(w, all) \ acc.rest)

\* What a merge starts from.
Mergeable(w, all) ==
  /\ Sortable(all) /\ IsFiniteSet(all) /\ \A e \in all : e.key # 0
  /\ IsFiniteSet(UNION {g.entries : g \in w.compaction.grandparents})
  /\ w.smallestSnapshot \in Nat /\ MaxSequenceNumber \in Nat
  /\ w.smallestSnapshot < MaxSequenceNumber

Round(w, acc) == DB!MergeEntry(w, [acc EXCEPT !.rest = @ \ {DB!FirstOf(@)}], DB!FirstOf(acc.rest))

LEMMA DroppedIsRight ==
  ASSUME NEW w, NEW all, Mergeable(w, all), NEW acc \in Accs(all, w.compaction.grandparents),
         Merging(w, all, acc), acc.rest # {}, NEW e, e = DB!FirstOf(acc.rest)
  PROVE  /\ e \in acc.rest /\ \A d \in acc.rest \ {e} : DB!Precedes(e, d)
         /\ DB!Dropped(w, e, IF acc.key = e.key THEN acc.seq ELSE MaxSequenceNumber) <=>
              e \notin Kept(w, all)
<1>1. acc.rest \subseteq all /\ Sortable(acc.rest) /\ IsFiniteSet(acc.rest)
  <2>1. acc.rest \subseteq all
    BY DEF Accs
  <2> QED BY <2>1, SortableSubset, FS_Subset DEF Mergeable
<1>2. e \in acc.rest /\ \A d \in acc.rest \ {e} : DB!Precedes(e, d)
  BY <1>1, FirstOfIsFirst
<1>3. e \in all /\ e.key \in Nat /\ e.seq \in Nat /\ e.key # 0
  BY <1>1, <1>2 DEF Mergeable, Sortable
<1> DEFINE newer == IF acc.key = e.key THEN acc.seq ELSE MaxSequenceNumber
<1>4. ASSUME newer <= w.smallestSnapshot PROVE Shadowed(w, all, e)
  <2>1. acc.key = e.key /\ acc.seq <= w.smallestSnapshot
    BY <1>4 DEF Mergeable
  <2>2. PICK d \in all \ acc.rest : acc.key = d.key /\ acc.seq = d.seq
    BY <2>1, <1>3 DEF Merging
  <2>3. DB!Precedes(d, e)
    BY <1>2 DEF Merging, InOrder
  <2>4. d.seq > e.seq
    BY <2>1, <2>2, <2>3, <1>3 DEF DB!Precedes
  <2> QED BY <2>1, <2>2, <2>4 DEF Shadowed
<1>5. ASSUME Shadowed(w, all, e) PROVE newer <= w.smallestSnapshot
  <2>1. PICK b \in all : b.key = e.key /\ b.seq > e.seq /\ b.seq <= w.smallestSnapshot
    BY <1>5 DEF Shadowed
  <2>2. b.seq \in Nat
    BY DEF Mergeable, Sortable
  <2>3. b \notin acc.rest
    BY <2>1, <2>2, <1>2, <1>3 DEF DB!Precedes
  <2>4. acc.key # 0
    BY <2>3 DEF Merging
  <2>5. PICK d \in all \ acc.rest :
          acc.key = d.key /\ acc.seq = d.seq /\ (b = d \/ DB!Precedes(b, d))
    BY <2>3, <2>4 DEF Merging
  <2>6. DB!Precedes(d, e) /\ d.key \in Nat /\ d.seq \in Nat
    BY <1>2 DEF Merging, InOrder, Mergeable, Sortable
  <2>7. d.key = e.key /\ d.seq <= b.seq
    BY <2>1, <2>2, <2>5, <2>6, <1>3 DEF DB!Precedes
  <2> QED BY <2>1, <2>2, <2>5, <2>6, <2>7 DEF Mergeable
<1>6. DB!Dropped(w, e, newer) <=> e \notin Kept(w, all)
  <2> HIDE DEF newer
  <2> QED BY <1>3, <1>4, <1>5 DEF DB!Dropped, Kept, Done
<1> QED BY <1>2, <1>6

LEMMA RoundMerges ==
  ASSUME NEW w, NEW all, Mergeable(w, all), NEW acc \in Accs(all, w.compaction.grandparents),
         Merging(w, all, acc), acc.rest # {}
  PROVE  /\ Round(w, acc) \in Accs(all, w.compaction.grandparents)
         /\ Merging(w, all, Round(w, acc))
         /\ Cardinality(Round(w, acc).rest) = Cardinality(acc.rest) - 1
<1> DEFINE gs == w.compaction.grandparents
           kept == Kept(w, all) \ acc.rest
<1>1. PICK e : e = DB!FirstOf(acc.rest) OBVIOUS
<1>2. /\ e \in acc.rest /\ \A d \in acc.rest \ {e} : DB!Precedes(e, d)
      /\ DB!Dropped(w, e, IF acc.key = e.key THEN acc.seq ELSE MaxSequenceNumber) <=>
           e \notin Kept(w, all)
  BY <1>1, DroppedIsRight
<1>3. PICK a : a = [acc EXCEPT !.rest = @ \ {e}] OBVIOUS
<1>4. /\ a \in Accs(all, gs) /\ a.rest = acc.rest \ {e} /\ a.key = acc.key /\ a.seq = acc.seq
      /\ a.outs = acc.outs /\ a.out = acc.out
  BY <1>3 DEF Accs
<1>5. Filled(a, kept)
  BY <1>4 DEF Filled, Merging
<1>6. PICK stopped : stopped = DB!StopBefore(a, DB!Passed(w, a.passed, e)) OBVIOUS
<1>7. stopped \in Accs(all, gs) /\ Filled(stopped, kept) /\ SameRound(stopped, a)
  <2>1. DB!Passed(w, a.passed, e) \in SUBSET gs
    BY DEF DB!Passed
  <2>2. IsFiniteSet(UNION {g.entries : g \in gs})
    BY DEF Mergeable
  <2> HIDE DEF gs, kept
  <2> QED BY <2>1, <2>2, <1>4, <1>5, <1>6, StopBeforeFills
<1>8. PICK d : d = IF DB!Dropped(w, e, IF a.key = e.key THEN a.seq ELSE MaxSequenceNumber)
                   THEN stopped ELSE DB!AddToOutput(stopped, e)
  OBVIOUS
<1>9. Round(w, acc) = [d EXCEPT !.key = e.key, !.seq = e.seq]
  BY <1>1, <1>3, <1>6, <1>8 DEF Round, DB!MergeEntry
<1>10. e \in all /\ e.key \in Nat /\ e.seq \in Nat /\ e.key # 0 /\ acc.rest \subseteq all
  BY <1>2 DEF Accs, Mergeable, Sortable
<1>11. d \in Accs(all, gs) /\ Filled(d, Kept(w, all) \ a.rest) /\ SameRound(d, a)
  <2>1. CASE e \notin Kept(w, all)
    <3>1. d = stopped BY <2>1, <1>2, <1>4, <1>8
    <3>2. kept = Kept(w, all) \ a.rest BY <2>1, <1>4
    <3> QED BY <3>1, <3>2, <1>7
  <2>2. CASE e \in Kept(w, all)
    <3>1. d = DB!AddToOutput(stopped, e) BY <2>2, <1>2, <1>4, <1>8
    <3>2. InOrder(kept, {e}) BY <1>2 DEF Merging, InOrder, Kept
    <3>3. kept \union {e} = Kept(w, all) \ a.rest BY <2>2, <1>2, <1>4
    <3>4. d \in Accs(all, gs) /\ Filled(d, kept \union {e}) /\ SameRound(d, stopped)
      <4> HIDE DEF gs, kept
      <4> QED BY <3>1, <3>2, <1>7, <1>10, AddToOutputFills
    <3> QED BY <3>3, <3>4, <1>7 DEF SameRound
  <2> QED BY <2>1, <2>2
<1>12. PICK f : f = Round(w, acc) OBVIOUS
<1>13. /\ f \in Accs(all, gs) /\ f.key = e.key /\ f.seq = e.seq /\ f.rest = acc.rest \ {e}
       /\ f.outs = d.outs /\ f.out = d.out
  <2>1. d.rest = acc.rest \ {e}
    BY <1>4, <1>11 DEF SameRound
  <2> QED BY <2>1, <1>9, <1>10, <1>11, <1>12 DEF Accs
<1>14. Filled(f, Kept(w, all) \ f.rest)
  BY <1>4, <1>11, <1>13 DEF Filled
<1>15. all \ f.rest = (all \ acc.rest) \union {e}
  BY <1>10, <1>13, <1>2
<1>16. InOrder(all \ f.rest, f.rest)
  BY <1>2, <1>13, <1>15 DEF Merging, InOrder
<1>17. \E x \in all \ f.rest : /\ f.key = x.key /\ f.seq = x.seq
                               /\ \A b \in all \ f.rest : b = x \/ DB!Precedes(b, x)
  BY <1>2, <1>13, <1>15 DEF Merging, InOrder
<1>18. Merging(w, all, f)
  BY <1>10, <1>13, <1>14, <1>16, <1>17 DEF Merging
<1>19. Cardinality(f.rest) = Cardinality(acc.rest) - 1
  <2>1. IsFiniteSet(acc.rest)
    BY <1>10, FS_Subset DEF Mergeable
  <2> QED BY <2>1, <1>2, <1>13, FS_RemoveElement
<1> QED BY <1>12, <1>13, <1>18, <1>19
\* Whoever goes round by round from the start has merged everything when all is through.
Merged(w, all) == {acc \in Accs(all, w.compaction.grandparents) : Merging(w, all, acc)}

GoesRound(w, all, f) ==
  /\ f[0] \in Merged(w, all) /\ f[0].rest = all
  /\ \A m \in 1..Cardinality(all) :
       f[m - 1] \in Merged(w, all) /\ f[m - 1].rest # {} => f[m] = Round(w, f[m - 1])

\* Every round takes one entry.
Shrinks(w, all, f) ==
  \A m \in 0..Cardinality(all) :
    f[m] \in Merged(w, all) /\ Cardinality(f[m].rest) = Cardinality(all) - m

LEMMA RoundsMerge ==
  ASSUME NEW w, NEW all, Mergeable(w, all), NEW f, GoesRound(w, all, f)
  PROVE  Shrinks(w, all, f)
<1> DEFINE n == Cardinality(all)
           S == Merged(w, all)
<1> DEFINE P == {m \in Nat : m <= n => f[m] \in S /\ Cardinality(f[m].rest) = n - m}
<1>1. n \in Nat
  BY FS_CardinalityType DEF Mergeable
<1>2. 0 \in P
  BY <1>1 DEF GoesRound
<1>3. ASSUME NEW m \in P PROVE m + 1 \in P
  <2>1. m \in Nat OBVIOUS
  <2> SUFFICES ASSUME m + 1 <= n
               PROVE  f[m + 1] \in S /\ Cardinality(f[m + 1].rest) = n - (m + 1)
    BY <2>1
  <2>2. f[m] \in S /\ Cardinality(f[m].rest) = n - m
    BY <2>1, <1>1
  <2>3. PICK acc : acc = f[m] OBVIOUS
  <2>4. acc \in Accs(all, w.compaction.grandparents) /\ Merging(w, all, acc)
    BY <2>2, <2>3 DEF Merged
  <2>5. acc.rest # {}
    <3>1. Cardinality(acc.rest) > 0 BY <2>1, <2>2, <2>3, <1>1
    <3> QED BY <3>1, FS_EmptySet
  <2>6. f[m + 1] = Round(w, acc)
    <3>1. m + 1 \in 1 .. n /\ (m + 1) - 1 = m
      BY <2>1, <1>1
    <3> QED BY <3>1, <2>2, <2>3, <2>5 DEF GoesRound
  <2>7. Round(w, acc) \in S /\ Cardinality(Round(w, acc).rest) = Cardinality(acc.rest) - 1
    BY <2>4, <2>5, RoundMerges DEF Merged
  <2> QED BY <2>1, <2>2, <2>3, <2>6, <2>7, <1>1
<1>4. P = Nat
  <2>1. P \subseteq Nat OBVIOUS
  <2> HIDE DEF P
  <2> QED BY <1>2, <1>3, <2>1, InductionBySet
<1>5. ASSUME NEW m \in 0 .. n PROVE f[m] \in S /\ Cardinality(f[m].rest) = n - m
  <2>1. m \in Nat /\ m <= n
    BY <1>1
  <2>2. m \in P
    <3> HIDE DEF P
    <3> QED BY <2>1, <1>4
  <2> QED BY <2>1, <2>2
<1> QED BY <1>5 DEF Shrinks

\* Files that share out what is kept, in order.
OutputList(outs, all, kept) ==
  /\ outs \in Seq(SUBSET all)
  /\ UNION {outs[i] : i \in DOMAIN outs} = kept
  /\ \A i \in DOMAIN outs : outs[i] # {}
  /\ \A i, j \in DOMAIN outs : i < j => InOrder(outs[i], outs[j])

\* The outputs of a merge are what is kept of its inputs, in order.
LEMMA OutputsAreRight ==
  ASSUME NEW w, NEW all,
         all = UNION {f.entries : f \in w.compaction.inputs[1] \union w.compaction.inputs[2]},
         Mergeable(w, all)
  PROVE  OutputList(DB!Outputs(w), all, Kept(w, all))
<1> DEFINE n == DB!Cardinality(all)
           gs == w.compaction.grandparents
           S == Merged(w, all)
           base == [key |-> 0, seq |-> 0, started |-> FALSE, passed |-> {}, overlap |-> 0,
                    outs |-> <<>>, out |-> {}, rest |-> all]
           step == [p \in (1..n) \X S |-> IF p[2].rest = {} THEN p[2] ELSE Round(w, p[2])]
           IsMerge(f) == f = [m \in 0..n |-> IF m = 0 THEN base ELSE Round(w, f[m - 1])]
           merged == CHOOSE f : IsMerge(f)
<1>1. n \in Nat /\ IsFiniteSet(all)
  BY FS_CardinalityType, CountsAreTheSame DEF Mergeable
<1>2. base \in S /\ base.rest = all
  <2>1. base \in Accs(all, gs)
    <3>1. <<>> \in Seq(SUBSET all) OBVIOUS
    <3> QED BY <3>1 DEF Accs
  <2>2. Filled(base, Kept(w, all) \ all)
    BY DEF Filled, Kept
  <2>3. Merging(w, all, base)
    BY <2>2 DEF Merging, InOrder
  <2> QED BY <2>1, <2>3 DEF Merged
<1>3. \A acc \in S : acc.rest # {} => Round(w, acc) \in S
  BY RoundMerges DEF Merged
<1>4. step \in [(1..n) \X S -> S]
  <2> HIDE DEF S, n
  <2> QED BY <1>3
<1>5. PICK g \in [0 .. n -> S] : g[0] = base /\ \A m \in 1..n : g[m] = step[<<m, g[m - 1]>>]
  <2> HIDE DEF step, S, n, base
  <2>1. \E f : IsRecursion(f, n, S, base, step)
    BY <1>1, <1>2, <1>4, RecursionOnInterval
  <2> QED BY <2>1 DEF IsRecursion
<1>6. \A m \in 1 .. n : g[m - 1] \in S /\ g[m - 1].rest # {} => g[m] = Round(w, g[m - 1])
  <2> HIDE DEF S, n, base
  <2> QED BY <1>5
<1>7. \A m \in 0 .. n : g[m] \in S /\ Cardinality(g[m].rest) = n - m
  <2>1. g[0] \in S /\ g[0].rest = all
    BY <1>2, <1>5
  <2>2. GoesRound(w, all, g)
    BY <2>1, <1>6, CountsAreTheSame, Zenon DEF GoesRound
  <2>3. Shrinks(w, all, g)
    BY <2>2, RoundsMerge
  <2> QED BY <2>3, CountsAreTheSame DEF Shrinks
<1>8. \A m \in 1..n : g[m] = Round(w, g[m - 1])
  <2> SUFFICES ASSUME NEW m \in 1..n PROVE g[m] = Round(w, g[m - 1]) OBVIOUS
  <2>1. m - 1 \in 0 .. n /\ m - 1 < n
    BY <1>1
  <2>2. g[m - 1] \in S /\ Cardinality(g[m - 1].rest) = n - (m - 1)
    BY <2>1, <1>7
  <2>3. g[m - 1].rest # {}
    <3> HIDE DEF n
    <3>1. Cardinality(g[m - 1].rest) # 0 BY <2>1, <2>2, <1>1
    <3> QED BY <3>1, FS_EmptySet
  <2> QED BY <2>2, <2>3, <1>6
<1>9. IsMerge(g)
  <2> HIDE DEF n, S, base
  <2>1. ASSUME NEW m \in 0..n PROVE g[m] = IF m = 0 THEN base ELSE Round(w, g[m - 1])
    <3>1. m # 0 => m \in 1..n BY <1>1
    <3> QED BY <3>1, <1>5, <1>8
  <2>2. g = [m \in 0..n |-> g[m]]
    BY <1>5
  <2> QED BY <2>1, <2>2
<1>10. merged = [m \in 0..n |-> IF m = 0 THEN base ELSE Round(w, merged[m - 1])]
  <2>1. IsMerge(merged)
    <3> HIDE DEF IsMerge
    <3> QED BY <1>9
  <2> QED BY <2>1, Zenon
<1>11. merged[0] = base /\ \A m \in 1..n : merged[m] = Round(w, merged[m - 1])
  <2> HIDE DEF merged, n, base
  <2>1. \A m \in 0..n : merged[m] = IF m = 0 THEN base ELSE Round(w, merged[m - 1])
    BY <1>10
  <2>2. 0 \in 0..n
    BY <1>1
  <2>3. ASSUME NEW m \in 1..n PROVE merged[m] = Round(w, merged[m - 1])
    <3>1. m \in 0 .. n /\ m # 0
      BY <1>1
    <3> QED BY <2>1, <3>1, Zenon
  <2>4. merged[0] = base
    BY <2>1, <2>2
  <2> QED BY <2>3, <2>4
<1>12. PICK last_ : last_ = merged[n] OBVIOUS
<1>13. last_ \in S /\ last_.rest = {}
  <2>1. merged[0] \in S /\ merged[0].rest = all
    BY <1>2, <1>11
  <2>2. \A m \in 0 .. n : merged[m] \in S /\ Cardinality(merged[m].rest) = n - m
    <3> HIDE DEF merged, base
    <3>1. GoesRound(w, all, merged)
      BY <2>1, <1>11, CountsAreTheSame, Zenon DEF GoesRound
    <3> QED BY <3>1, RoundsMerge, CountsAreTheSame DEF Shrinks
  <2> HIDE DEF merged, base
  <2>3. merged[n] \in S /\ Cardinality(merged[n].rest) = n - n
    BY <2>2, <1>1
  <2>4. merged[n].rest \subseteq all
    BY <2>3 DEF Accs, Merged
  <2>5. IsFiniteSet(merged[n].rest)
    BY <2>4, <1>1, FS_Subset
  <2>6. Cardinality(merged[n].rest) = 0
    BY <2>3, <1>1
  <2>7. merged[n].rest = {}
    BY <2>5, <2>6, FS_EmptySet
  <2> QED BY <2>3, <2>7, <1>12
<1>14. DB!Outputs(w) = DB!Close(last_).outs
  <2>1. DB!Outputs(w) = DB!Close(merged[n]).outs
    BY DEF DB!Outputs, Round
  <2> QED BY <2>1, <1>12
<1>15. Filled(last_, Kept(w, all)) /\ last_ \in Accs(all, gs)
  <2>1. last_ \in Accs(all, gs) /\ Merging(w, all, last_)
    BY <1>13 DEF Merged
  <2>2. Filled(last_, Kept(w, all) \ last_.rest)
    BY <2>1, Zenon DEF Merging
  <2>3. Kept(w, all) \ last_.rest = Kept(w, all)
    BY <1>13
  <2> QED BY <2>1, <2>2, <2>3
<1>16. DB!Close(last_) \in Accs(all, gs) /\ Filled(DB!Close(last_), Kept(w, all)) /\ DB!Close(last_).out = {}
  <2> HIDE DEF gs
  <2> QED BY <1>15, CloseFills
<1>17. PICK b : b = DB!Close(last_) OBVIOUS
<1>18. b.outs \in Seq(SUBSET all)
  BY <1>16, <1>17 DEF Accs
<1>19. UNION {b.outs[i] : i \in DOMAIN b.outs} = Kept(w, all)
  BY <1>16, <1>17 DEF Filled
<1> QED BY <1>14, <1>16, <1>17, <1>18, <1>19 DEF Filled, OutputList
------------------------
(* The inductive invariant. *)

EntriesOK ==
  /\ written \in SUBSET DB!Entries /\ IsFiniteSet(written)
  /\ storeLast \in 0..StoreMaxWrites
  /\ \A e \in written : e.seq <= storeLast
  /\ \A e, d \in written : e.seq = d.seq => e = d

MemTablesOK ==
  /\ storeMem \subseteq written
  /\ storeImm \in Seq(SUBSET written) /\ Len(storeImm) <= 1
  /\ storeImm # <<>> => storeImm[1] # {}

FilesOK ==
  /\ nextFile \in Nat \ {0}
  /\ levels \in [DB!LevelNumbers -> SUBSET [number : 1..nextFile - 1, entries : (SUBSET written) \ {{}}]]
  /\ \A l \in DB!LevelNumbers : IsFiniteSet(levels[l])
  /\ \A l, m \in DB!LevelNumbers : \A f \in levels[l], g \in levels[m] :
       f.number = g.number => f = g /\ l = m

SnapshotsOK ==
  /\ snapshots \in Seq(0..storeLast)
  /\ \A i, j \in DOMAIN snapshots : i < j => snapshots[i] <= snapshots[j]

SeekOK ==
  toCompact # Nil =>
    toCompact.level \in 0 .. NumLevels - 2 /\ toCompact.file \in levels[toCompact.level]

ManualRequests == [level : 0..NumLevels - 2, lo : Nat, hi : Nat, registered : BOOLEAN]

ManualOK == manual # Nil => manual \in ManualRequests

WorkOK ==
  work # Nil =>
    /\ work.compaction.level \in 0..NumLevels - 2
    /\ work.compaction.inputs[1] \subseteq levels[work.compaction.level]
    /\ work.compaction.inputs[1] # {}
    /\ work.compaction.inputs[2] \subseteq levels[work.compaction.level + 1]
    /\ work.compaction.inputs[2] =
         DB!Touched(work.version[work.compaction.level + 1], DB!Hull(work.compaction.inputs[1]))
    /\ IsFiniteSet(UNION {g.entries : g \in work.compaction.grandparents})
    /\ work.smallestSnapshot \in 0..storeLast
    /\ \A i \in DOMAIN snapshots : work.smallestSnapshot <= snapshots[i]
    /\ work.byHand => manual \in ManualRequests

Newer(f, g) == \A e \in f.entries, d \in g.entries : e.key = d.key => e.seq > d.seq
Foreign(f, g) == \A e \in f.entries, d \in g.entries : e.key # d.key

Later(es, ds) == \A e \in es, d \in ds : e.seq > d.seq

TimeOrder ==
  /\ storeImm # <<>> => Later(storeMem, storeImm[1])
  /\ \A l \in DB!LevelNumbers : \A f \in levels[l] :
       Later(storeMem, f.entries) /\ (storeImm # <<>> => Later(storeImm[1], f.entries))
  /\ \A f, g \in levels[0] : f.number < g.number => Later(g.entries, f.entries)

MergeInputs(c) == c.inputs[1] \union c.inputs[2]

MergeIsClosed(c, version) ==
  /\ \A f \in levels[c.level] \ c.inputs[1], g \in c.inputs[1] : Newer(f, g)
  /\ \A f \in levels[c.level + 1] \ c.inputs[2], g \in MergeInputs(c) : Foreign(f, g)
  /\ \A l \in c.level + 2..NumLevels - 1 : \A f \in levels[l] :
       f \in version[l] \/ \A g \in MergeInputs(c) : Foreign(f, g)

OrderWhileApart ==
  ~straddled =>
    /\ DB!Apart(levels)
    /\ DB!SmallerLevelsAreNewer
    /\ work # Nil => MergeIsClosed(work.compaction, work.version)

Live == DB!ToSet(snapshots) \union {storeLast}

KeptOrDeleted ==
  \A s \in Live, e \in written : e \in DB!Found(written, e.key, s) => DB!Held(e) \/ e.type = "Deletion"

NothingUnderTheDropped ==
  ~straddled =>
    \A s \in Live, e \in written : e \in DB!Found(written, e.key, s) /\ ~DB!Held(e) =>
      \A d \in written : d.key = e.key /\ d.seq < e.seq => ~DB!Held(d)

StoreInv ==
  /\ EntriesOK /\ MemTablesOK /\ FilesOK /\ SnapshotsOK /\ SeekOK /\ ManualOK /\ WorkOK
  /\ TimeOrder /\ OrderWhileApart /\ KeptOrDeleted /\ NothingUnderTheDropped /\ DB!OverlapsAreLate

LEMMA ConstantsAreTyped ==
  ASSUME DB!StoreAssumption
  PROVE  /\ DB!LevelAssumption /\ NumLevels \in Nat /\ NumLevels >= 2
         /\ StoreMaxWrites \in Nat /\ MaxSequenceNumber \in Nat /\ StoreMaxWrites < MaxSequenceNumber
         /\ 0 \in DB!LevelNumbers /\ \A l \in 0 .. NumLevels - 2 : l \in DB!LevelNumbers /\ l + 1 \in DB!LevelNumbers
         /\ \A l \in 1..NumLevels - 1 : l \in DB!LevelNumbers
BY DEF DB!StoreAssumption, DB!LevelAssumption, DB!LevelNumbers

\* The entries written can be sorted, and so can those of every level.
LEMMA WrittenIsSortable ==
  ASSUME DB!StoreAssumption, EntriesOK
  PROVE  /\ Sortable(written) /\ IsFiniteSet(written)
         /\ \A e \in written : /\ e.key \in Nat /\ e.key # 0 /\ e.seq \in Nat /\ e.seq > 0
                              /\ e.seq <= storeLast /\ storeLast <= StoreMaxWrites /\ storeLast \in Nat
                              /\ e.type \in {"Value", "Deletion"}
<1>1. \A e \in written : /\ e.key \in Nat /\ e.key # 0 /\ e.seq \in Nat /\ e.seq > 0
                         /\ e.seq <= storeLast /\ e.type \in {"Value", "Deletion"}
  <2> SUFFICES ASSUME NEW e \in written
               PROVE  /\ e.key \in Nat /\ e.key # 0 /\ e.seq \in Nat /\ e.seq > 0
                      /\ e.seq <= storeLast /\ e.type \in {"Value", "Deletion"}
    OBVIOUS
  <2>1. e \in DB!Entries /\ e.seq <= storeLast
    BY DEF EntriesOK
  <2>2. e.key \in Keys /\ e.seq \in 1 .. StoreMaxWrites /\ e.type \in Kinds
    BY <2>1 DEF DB!Entries
  <2>3. Keys \subseteq Nat \ {0} /\ Kinds \subseteq {"Value", "Deletion"} /\ StoreMaxWrites \in Nat
    BY DEF DB!StoreAssumption
  <2>4. e.key \in Nat /\ e.key # 0
    BY <2>2, <2>3
  <2>5. e.seq \in Nat /\ e.seq > 0
    BY <2>2, <2>3
  <2> QED BY <2>1, <2>2, <2>3, <2>4, <2>5
<1>2. storeLast \in Nat /\ storeLast <= StoreMaxWrites
  BY DEF EntriesOK, DB!StoreAssumption
<1> QED BY <1>1, <1>2 DEF EntriesOK, Sortable

LEMMA FilesAreGood ==
  ASSUME DB!StoreAssumption, EntriesOK, FilesOK
  PROVE  /\ Good(levels)
         /\ \A l \in DB!LevelNumbers :
              WellFormed(levels[l]) /\ IsFiniteSet(levels[l]) /\ EntriesOf(levels[l]) \subseteq written
         /\ \A l \in DB!LevelNumbers : \A f \in levels[l] :
              f.number \in Nat /\ f.number < nextFile /\ f.entries \subseteq written /\ Between(f)
<1>1. ASSUME NEW l \in DB!LevelNumbers, NEW f \in levels[l]
      PROVE  /\ f.number \in Nat /\ f.number < nextFile /\ f.entries \subseteq written /\ f.entries # {}
             /\ IsFiniteSet(f.entries)
  <2>1. f \in [number : 1..nextFile - 1, entries : (SUBSET written) \ {{}}]
    BY DEF FilesOK
  <2>2. f.number \in 1 .. nextFile - 1 /\ f.entries \in (SUBSET written) \ {{}} /\ nextFile \in Nat
    BY <2>1 DEF FilesOK
  <2>3. /\ f.number \in Nat /\ f.number < nextFile /\ f.entries \subseteq written /\ f.entries # {}
    BY <2>2
  <2> QED BY <2>3, FS_Subset DEF EntriesOK
<1>2. ASSUME NEW l \in DB!LevelNumbers
      PROVE  WellFormed(levels[l]) /\ EntriesOf(levels[l]) \subseteq written
  <2>1. EntriesOf(levels[l]) \subseteq written
    BY <1>1 DEF EntriesOf
  <2>2. Sortable(EntriesOf(levels[l]))
    BY <2>1, WrittenIsSortable, SortableSubset
  <2>3. \A f, g \in levels[l] : f.number = g.number => f = g
    BY DEF FilesOK
  <2> QED BY <2>1, <2>2, <2>3, <1>1 DEF WellFormed, FilesOK
<1>3. Good(levels)
  <2>1. \A e \in written : e.seq <= MaxSequenceNumber
    BY WrittenIsSortable, ConstantsAreTyped
  <2> QED BY <1>2, <2>1 DEF Good
<1>4. \A l \in DB!LevelNumbers : \A f \in levels[l] : Between(f)
  BY <1>2, EndsOfFile
<1> QED BY <1>1, <1>2, <1>3, <1>4 DEF FilesOK

LEMMA LiveIsTyped ==
  ASSUME DB!StoreAssumption, EntriesOK, SnapshotsOK
  PROVE  /\ storeLast \in Nat /\ Live \subseteq 0 .. storeLast /\ Live \subseteq Nat
         /\ DOMAIN snapshots = 1 .. Len(snapshots) /\ Len(snapshots) \in Nat
         /\ \A i \in DOMAIN snapshots : snapshots[i] \in 0..storeLast
<1>1. storeLast \in Nat
  BY ConstantsAreTyped DEF EntriesOK
<1>2. snapshots \in Seq(0..storeLast)
  BY DEF SnapshotsOK
<1>3. \A i \in DOMAIN snapshots : snapshots[i] \in 0..storeLast
  BY <1>2, LenProperties, ElementOfSeq
<1>4. DB!ToSet(snapshots) \subseteq 0..storeLast
  BY <1>3 DEF DB!ToSet
<1>5. Live \subseteq 0 .. storeLast /\ Live \subseteq Nat
  BY <1>1, <1>4 DEF Live
<1> QED BY <1>1, <1>2, <1>3, <1>5, LenProperties
------------------------
(* The steps that move no entry between the tables. *)

\* What is kept stays so while the same entries are held, no entry is written and no new
\* sequence number is read at.
LEMMA KeptWhileHeld ==
  ASSUME KeptOrDeleted, NothingUnderTheDropped, written' = written, Live' \subseteq Live,
         straddled => straddled', \A e \in written : DB!Held(e)' <=> DB!Held(e)
  PROVE  KeptOrDeleted' /\ NothingUnderTheDropped'
<1>1. ASSUME NEW s \in Live', NEW e \in written', e \in DB!Found(written', e.key, s)
      PROVE  DB!Held(e)' \/ e.type = "Deletion"
  BY <1>1 DEF KeptOrDeleted
<1>2. ASSUME ~straddled', NEW s \in Live', NEW e \in written', e \in DB!Found(written', e.key, s), ~DB!Held(e)',
             NEW d \in written', d.key = e.key, d.seq < e.seq
      PROVE  ~DB!Held(d)'
  BY <1>2 DEF NothingUnderTheDropped
<1>3. KeptOrDeleted'
  BY <1>1 DEF KeptOrDeleted
<1>4. NothingUnderTheDropped'
  BY <1>2 DEF NothingUnderTheDropped
<1> QED BY <1>3, <1>4

LEMMA RemoveAtKeepsOrder ==
  ASSUME NEW S, NEW s \in Seq(S), NEW i \in DOMAIN s
  PROVE  /\ DB!RemoveAt(s, i) \in Seq(S)
         /\ \E place \in [DOMAIN DB!RemoveAt(s, i) -> DOMAIN s] :
              /\ \A j \in DOMAIN DB!RemoveAt(s, i) : DB!RemoveAt(s, i)[j] = s[place[j]]
              /\ \A j, k \in DOMAIN DB!RemoveAt(s, i) : j < k => place[j] < place[k]
<1>1. i \in 1 .. Len(s) /\ Len(s) \in Nat /\ \A j \in 1..Len(s) : s[j] \in S
  BY LenProperties, ElementOfSeq
<1> DEFINE a == SubSeq(s, 1, i - 1)
           b == SubSeq(s, i + 1, Len(s))
<1>2. /\ a \in Seq(S) /\ Len(a) = i - 1 /\ \A j \in 1..i - 1 : a[j] = s[j]
  <2>1. \A j \in 1..i - 1 : s[j] \in S
    BY <1>1
  <2> QED BY <2>1, <1>1, SubSeqProperties
<1>3. /\ b \in Seq(S) /\ Len(b) = Len(s) - i /\ \A j \in 1..Len(s) - i : b[j] = s[i + j]
  <2>1. \A j \in i + 1..Len(s) : s[j] \in S
    BY <1>1
  <2>2. /\ b \in Seq(S) /\ Len(b) = (IF i + 1 <= Len(s) THEN Len(s) - (i + 1) + 1 ELSE 0)
        /\ \A j \in 1..Len(s) - (i + 1) + 1 : b[j] = s[(i + 1) + j - 1]
    BY <2>1, <1>1, SubSeqProperties
  <2>3. Len(b) = Len(s) - i
    BY <2>2, <1>1
  <2>4. ASSUME NEW j \in 1..Len(s) - i
        PROVE  b[j] = s[i + j]
    <3>1. j \in 1 .. Len(s) - (i + 1) + 1 /\ (i + 1) + j - 1 = i + j
      BY <1>1
    <3> HIDE DEF b
    <3> QED BY <3>1, <2>2
  <2> QED BY <2>2, <2>3, <2>4
<1>4. DB!RemoveAt(s, i) = a \o b
  BY DEF DB!RemoveAt
<1> HIDE DEF a, b
<1>5. /\ DB!RemoveAt(s, i) \in Seq(S) /\ Len(DB!RemoveAt(s, i)) = Len(s) - 1
      /\ \A j \in 1..Len(s) - 1 : DB!RemoveAt(s, i)[j] = IF j <= i - 1 THEN a[j] ELSE b[j - (i - 1)]
  <2>1. /\ a \o b \in Seq(S) /\ Len(a \o b) = Len(a) + Len(b)
        /\ \A j \in 1..Len(a) + Len(b) : (a \o b)[j] = IF j <= Len(a) THEN a[j] ELSE b[j - Len(a)]
    BY <1>2, <1>3, ConcatProperties
  <2>2. Len(a) + Len(b) = Len(s) - 1
    BY <1>1, <1>2, <1>3
  <2> QED BY <2>1, <2>2, <1>2, <1>4
<1>6. DOMAIN DB!RemoveAt(s, i) = 1..Len(s) - 1
  BY <1>5, LenProperties
<1> DEFINE place == [j \in 1..Len(s) - 1 |-> IF j < i THEN j ELSE j + 1]
<1>7. place \in [DOMAIN DB!RemoveAt(s, i) -> DOMAIN s]
  BY <1>1, <1>6
<1>8. \A j \in 1..Len(s) - 1 : DB!RemoveAt(s, i)[j] = s[place[j]]
  <2> SUFFICES ASSUME NEW j \in 1..Len(s) - 1
               PROVE  DB!RemoveAt(s, i)[j] = s[place[j]]
    OBVIOUS
  <2>1. CASE j < i
    <3>1. j \in 1 .. i - 1 /\ place[j] = j
      BY <2>1, <1>1
    <3> QED BY <3>1, <1>1, <1>2, <1>5
  <2>2. CASE ~(j < i)
    <3>1. j - (i - 1) \in 1 .. Len(s) - i /\ place[j] = j + 1 /\ i + (j - (i - 1)) = j + 1 /\ ~(j <= i - 1)
      BY <2>2, <1>1
    <3>2. DB!RemoveAt(s, i)[j] = b[j - (i - 1)] BY <3>1, <1>5
    <3>3. b[j - (i - 1)] = s[i + (j - (i - 1))] BY <3>1, <1>3
    <3> QED BY <3>1, <3>2, <3>3
  <2> QED BY <2>1, <2>2
<1>9. \A j, k \in 1..Len(s) - 1 : j < k => place[j] < place[k]
  BY <1>1
<1> HIDE DEF place
<1> QED BY <1>5, <1>6, <1>7, <1>8, <1>9
\* A request by hand.
LEMMA RequestManualKeeps ==
  ASSUME DB!StoreAssumption, StoreInv,
         NEW level \in 0..NumLevels - 2, NEW lo \in Nat, NEW hi \in Nat, DB!RequestManual(level, lo, hi)
  PROVE  StoreInv'
<1>1. manual' \in ManualRequests
  BY DEF DB!RequestManual, ManualRequests
<1>2. ManualOK'
  BY <1>1 DEF ManualOK
<1>3. WorkOK'
  BY <1>1 DEF StoreInv, WorkOK, DB!RequestManual
<1>4. KeptOrDeleted' /\ NothingUnderTheDropped'
  <2>1. \A e \in written : DB!Held(e)' <=> DB!Held(e)
    BY DEF DB!Held, DB!RequestManual
  <2>2. Live' \subseteq Live
    BY DEF Live, DB!RequestManual
  <2> QED BY <2>1, <2>2, KeptWhileHeld DEF StoreInv, DB!RequestManual
<1>5. EntriesOK'
  BY DEF StoreInv, EntriesOK, DB!RequestManual
<1>6. MemTablesOK'
  BY DEF StoreInv, MemTablesOK, DB!RequestManual
<1>7. FilesOK'
  BY DEF StoreInv, FilesOK, DB!RequestManual
<1>8. SnapshotsOK'
  BY DEF StoreInv, SnapshotsOK, DB!RequestManual
<1>9. SeekOK'
  BY DEF StoreInv, SeekOK, DB!RequestManual
<1>10. TimeOrder'
  BY DEF StoreInv, TimeOrder, DB!RequestManual
<1>11. OrderWhileApart'
  BY DEF StoreInv, OrderWhileApart, DB!SmallerLevelsAreNewer, MergeIsClosed, DB!RequestManual
<1>12. DB!OverlapsAreLate'
  BY DEF StoreInv, DB!OverlapsAreLate, DB!LevelsDoNotOverlap, DB!RequestManual
<1> QED BY <1>2, <1>3, <1>4, <1>5, <1>6, <1>7, <1>8, <1>9, <1>10, <1>11, <1>12 DEF StoreInv

\* The request registers again.
LEMMA RegisterAgainKeeps ==
  ASSUME DB!StoreAssumption, StoreInv, DB!RegisterAgain
  PROVE  StoreInv'
<1>1. manual' \in ManualRequests
  <2>1. manual \in ManualRequests /\ manual' = [manual EXCEPT !.registered = TRUE]
    BY DEF StoreInv, ManualOK, DB!RegisterAgain
  <2> QED BY <2>1 DEF ManualRequests
<1>2. ManualOK'
  BY <1>1 DEF ManualOK
<1>3. WorkOK'
  BY <1>1 DEF StoreInv, WorkOK, DB!RegisterAgain
<1>4. KeptOrDeleted' /\ NothingUnderTheDropped'
  <2>1. \A e \in written : DB!Held(e)' <=> DB!Held(e)
    BY DEF DB!Held, DB!RegisterAgain
  <2>2. Live' \subseteq Live
    BY DEF Live, DB!RegisterAgain
  <2> QED BY <2>1, <2>2, KeptWhileHeld DEF StoreInv, DB!RegisterAgain
<1>5. EntriesOK'
  BY DEF StoreInv, EntriesOK, DB!RegisterAgain
<1>6. MemTablesOK'
  BY DEF StoreInv, MemTablesOK, DB!RegisterAgain
<1>7. FilesOK'
  BY DEF StoreInv, FilesOK, DB!RegisterAgain
<1>8. SnapshotsOK'
  BY DEF StoreInv, SnapshotsOK, DB!RegisterAgain
<1>9. SeekOK'
  BY DEF StoreInv, SeekOK, DB!RegisterAgain
<1>10. TimeOrder'
  BY DEF StoreInv, TimeOrder, DB!RegisterAgain
<1>11. OrderWhileApart'
  BY DEF StoreInv, OrderWhileApart, DB!SmallerLevelsAreNewer, MergeIsClosed, DB!RegisterAgain
<1>12. DB!OverlapsAreLate'
  BY DEF StoreInv, DB!OverlapsAreLate, DB!LevelsDoNotOverlap, DB!RegisterAgain
<1> QED BY <1>2, <1>3, <1>4, <1>5, <1>6, <1>7, <1>8, <1>9, <1>10, <1>11, <1>12 DEF StoreInv

\* The full memtable becomes the immutable one.
LEMMA SwitchMemTableKeeps ==
  ASSUME DB!StoreAssumption, StoreInv, DB!SwitchMemTable
  PROVE  StoreInv'
<1>1. storeImm' = <<storeMem>> /\ storeMem' = {} /\ storeMem # {} /\ storeImm = <<>> /\ storeImm' # <<>> /\ storeImm'[1] = storeMem
  BY DEF DB!SwitchMemTable
<1>2. /\ levels' = levels /\ written' = written /\ straddled' = straddled
      /\ snapshots' = snapshots /\ storeLast' = storeLast
  BY DEF DB!SwitchMemTable
<1>3. MemTablesOK'
  BY <1>1, <1>2 DEF StoreInv, MemTablesOK
<1>4. TimeOrder'
  BY <1>1, <1>2 DEF StoreInv, TimeOrder, Later
<1>5. KeptOrDeleted' /\ NothingUnderTheDropped'
  <2>1. \A e \in written : DB!Held(e)' <=> DB!Held(e)
    BY <1>1, <1>2 DEF DB!Held
  <2>2. Live' \subseteq Live
    BY <1>2 DEF Live
  <2> QED BY <2>1, <2>2, <1>2, KeptWhileHeld DEF StoreInv
<1>6. EntriesOK'
  BY DEF StoreInv, EntriesOK, DB!SwitchMemTable
<1>7. FilesOK'
  BY DEF StoreInv, FilesOK, DB!SwitchMemTable
<1>8. SnapshotsOK'
  BY DEF StoreInv, SnapshotsOK, DB!SwitchMemTable
<1>9. SeekOK'
  BY DEF StoreInv, SeekOK, DB!SwitchMemTable
<1>10. ManualOK'
  BY DEF StoreInv, ManualOK, DB!SwitchMemTable
<1>11. WorkOK'
  BY DEF StoreInv, WorkOK, DB!SwitchMemTable
<1>12. OrderWhileApart'
  BY DEF StoreInv, OrderWhileApart, DB!SmallerLevelsAreNewer, MergeIsClosed, DB!SwitchMemTable
<1>13. DB!OverlapsAreLate'
  BY DEF StoreInv, DB!OverlapsAreLate, DB!LevelsDoNotOverlap, DB!SwitchMemTable
<1> QED BY <1>3, <1>4, <1>5, <1>6, <1>7, <1>8, <1>9, <1>10, <1>11, <1>12, <1>13 DEF StoreInv

\* A snapshot is of now, later than the ones before.
LEMMA GetSnapshotKeeps ==
  ASSUME DB!StoreAssumption, StoreInv, DB!GetSnapshot
  PROVE  StoreInv'
<1>1. /\ snapshots \in Seq(0 .. storeLast) /\ storeLast \in Nat /\ DOMAIN snapshots = 1..Len(snapshots)
      /\ Len(snapshots) \in Nat /\ \A i \in 1..Len(snapshots) : snapshots[i] \in 0..storeLast
  <2>1. snapshots \in Seq(0 .. storeLast) /\ storeLast \in 0 .. StoreMaxWrites /\ StoreMaxWrites \in Nat
    BY ConstantsAreTyped DEF StoreInv, SnapshotsOK, EntriesOK
  <2> QED BY <2>1, LenProperties, ElementOfSeq
<1>2. /\ snapshots' \in Seq(0 .. storeLast) /\ DOMAIN snapshots' = 1..Len(snapshots) + 1
      /\ \A i \in 1..Len(snapshots) : snapshots'[i] = snapshots[i]
      /\ snapshots'[Len(snapshots) + 1] = storeLast
  <2>1. snapshots' = Append(snapshots, storeLast) /\ storeLast \in 0..storeLast
    BY <1>1 DEF DB!GetSnapshot
  <2> QED BY <2>1, <1>1, AppendProperties, LenProperties
<1>3. /\ levels' = levels /\ written' = written /\ straddled' = straddled /\ work' = work
      /\ storeLast' = storeLast /\ storeMem' = storeMem /\ storeImm' = storeImm /\ manual' = manual
  BY DEF DB!GetSnapshot
<1>4. SnapshotsOK'
  <2>1. \A i, j \in DOMAIN snapshots' : i < j => snapshots'[i] <= snapshots'[j]
    <3> SUFFICES ASSUME NEW i \in DOMAIN snapshots', NEW j \in DOMAIN snapshots', i < j
                 PROVE  snapshots'[i] <= snapshots'[j]
      OBVIOUS
    <3>1. i \in 1 .. Len(snapshots) /\ snapshots'[i] = snapshots[i]
      BY <1>1, <1>2
    <3>2. CASE j \in 1..Len(snapshots)
      BY <3>1, <3>2, <1>1, <1>2 DEF StoreInv, SnapshotsOK
    <3>3. CASE j \notin 1..Len(snapshots)
      BY <3>1, <3>3, <1>1, <1>2
    <3> QED BY <3>2, <3>3
  <2> QED BY <2>1, <1>2, <1>3 DEF SnapshotsOK
<1>5. WorkOK'
  <2> SUFFICES ASSUME work # Nil
               PROVE  \A i \in DOMAIN snapshots' : work.smallestSnapshot <= snapshots'[i]
    BY <1>3 DEF StoreInv, WorkOK
  <2>1. work.smallestSnapshot <= storeLast /\ \A i \in DOMAIN snapshots : work.smallestSnapshot <= snapshots[i]
    BY <1>1 DEF StoreInv, WorkOK
  <2> QED BY <2>1, <1>1, <1>2
<1>6. KeptOrDeleted' /\ NothingUnderTheDropped'
  <2>1. \A e \in written : DB!Held(e)' <=> DB!Held(e)
    BY <1>3 DEF DB!Held
  <2>2. Live' \subseteq Live
    BY <1>1, <1>2, <1>3 DEF Live, DB!ToSet
  <2> QED BY <2>1, <2>2, <1>3, KeptWhileHeld DEF StoreInv
<1>7. EntriesOK'
  BY DEF StoreInv, EntriesOK, DB!GetSnapshot
<1>8. MemTablesOK'
  BY DEF StoreInv, MemTablesOK, DB!GetSnapshot
<1>9. FilesOK'
  BY DEF StoreInv, FilesOK, DB!GetSnapshot
<1>10. SeekOK'
  BY DEF StoreInv, SeekOK, DB!GetSnapshot
<1>11. ManualOK'
  BY DEF StoreInv, ManualOK, DB!GetSnapshot
<1>12. TimeOrder'
  BY DEF StoreInv, TimeOrder, DB!GetSnapshot
<1>13. OrderWhileApart'
  BY DEF StoreInv, OrderWhileApart, DB!SmallerLevelsAreNewer, MergeIsClosed, DB!GetSnapshot
<1>14. DB!OverlapsAreLate'
  BY DEF StoreInv, DB!OverlapsAreLate, DB!LevelsDoNotOverlap, DB!GetSnapshot
<1> QED BY <1>4, <1>5, <1>6, <1>7, <1>8, <1>9, <1>10, <1>11, <1>12, <1>13, <1>14 DEF StoreInv

\* The snapshots left stay in order.
LEMMA ReleaseSnapshotKeeps ==
  ASSUME DB!StoreAssumption, StoreInv, NEW i \in DOMAIN snapshots, DB!ReleaseSnapshot(i)
  PROVE  StoreInv'
<1>1. snapshots \in Seq(0..storeLast)
  BY DEF StoreInv, SnapshotsOK
<1>2. snapshots' \in Seq(0..storeLast)
  BY <1>1, RemoveAtKeepsOrder DEF DB!ReleaseSnapshot
<1>3. PICK place \in [DOMAIN snapshots' -> DOMAIN snapshots] :
        /\ \A j \in DOMAIN snapshots' : snapshots'[j] = snapshots[place[j]]
        /\ \A j, k \in DOMAIN snapshots' : j < k => place[j] < place[k]
  BY <1>1, RemoveAtKeepsOrder DEF DB!ReleaseSnapshot
<1>4. /\ levels' = levels /\ written' = written /\ straddled' = straddled /\ work' = work
      /\ storeLast' = storeLast /\ storeMem' = storeMem /\ storeImm' = storeImm /\ manual' = manual
  BY DEF DB!ReleaseSnapshot
<1>5. SnapshotsOK'
  <2>1. \A j, k \in DOMAIN snapshots' : j < k => snapshots'[j] <= snapshots'[k]
    BY <1>2, <1>3 DEF StoreInv, SnapshotsOK
  <2> QED BY <2>1, <1>1, <1>2, <1>4 DEF SnapshotsOK
<1>6. WorkOK'
  <2> SUFFICES ASSUME work # Nil
               PROVE  \A j \in DOMAIN snapshots' : work.smallestSnapshot <= snapshots'[j]
    BY <1>4 DEF StoreInv, WorkOK
  <2>1. \A j \in DOMAIN snapshots : work.smallestSnapshot <= snapshots[j]
    BY DEF StoreInv, WorkOK
  <2> QED BY <2>1, <1>3
<1>7. KeptOrDeleted' /\ NothingUnderTheDropped'
  <2>1. \A e \in written : DB!Held(e)' <=> DB!Held(e)
    BY <1>4 DEF DB!Held
  <2>2. Live' \subseteq Live
    BY <1>3, <1>4 DEF Live, DB!ToSet
  <2> QED BY <2>1, <2>2, <1>4, KeptWhileHeld DEF StoreInv
<1>8. EntriesOK'
  BY DEF StoreInv, EntriesOK, DB!ReleaseSnapshot
<1>9. MemTablesOK'
  BY DEF StoreInv, MemTablesOK, DB!ReleaseSnapshot
<1>10. FilesOK'
  BY DEF StoreInv, FilesOK, DB!ReleaseSnapshot
<1>11. SeekOK'
  BY DEF StoreInv, SeekOK, DB!ReleaseSnapshot
<1>12. ManualOK'
  BY DEF StoreInv, ManualOK, DB!ReleaseSnapshot
<1>13. TimeOrder'
  BY DEF StoreInv, TimeOrder, DB!ReleaseSnapshot
<1>14. OrderWhileApart'
  BY DEF StoreInv, OrderWhileApart, DB!SmallerLevelsAreNewer, MergeIsClosed, DB!ReleaseSnapshot
<1>15. DB!OverlapsAreLate'
  BY DEF StoreInv, DB!OverlapsAreLate, DB!LevelsDoNotOverlap, DB!ReleaseSnapshot
<1> QED BY <1>5, <1>6, <1>7, <1>8, <1>9, <1>10, <1>11, <1>12, <1>13, <1>14, <1>15 DEF StoreInv
------------------------
(* The files a read visits, in order. *)

LEMMA OneFileIsFound ==
  ASSUME NEW files, WellFormed(files), NEW target
  PROVE  \A f, g \in DB!FindFile(files, target) : f = g /\ f \in files
<1> DEFINE Is(h) == h = [n \in 0..DB!Cardinality(files) |->
             IF n = 0 THEN [left |-> 0, right |-> DB!Cardinality(files)]
             ELSE DB!Halve(h[n - 1], files, target)]
           h == CHOOSE h : Is(h)
<1>1. DB!FindFile(files, target) = {f \in files : DB!Position(f, files) = h[DB!Cardinality(files)].right}
  BY DEF DB!FindFile
<1> HIDE DEF h
<1> QED BY <1>1, PositionsCount

LEMMA VisitedFiles ==
  ASSUME DB!LevelAssumption, NEW ls, Good(ls), NEW key, NEW seq,
         NEW v \in DB!Visited(ls, key, seq)
  PROVE  /\ v.level \in DB!LevelNumbers /\ v.file \in ls[v.level]
         /\ v.file \in DB!Sought(ls, v.level, key, seq)
         /\ v = [level |-> v.level, file |-> v.file]
<1>1. PICK l \in DB!LevelNumbers :
        \E f \in DB!Sought(ls, l, key, seq) : v = [level |-> l, file |-> f]
  BY DEF DB!Visited
<1>2. PICK f \in DB!Sought(ls, l, key, seq) : v = [level |-> l, file |-> f]
  BY <1>1
<1>3. v.level = l /\ v.file = f
  BY <1>2
<1>4. f \in ls[l]
  <2>1. CASE l = 0
    BY <1>1, <2>1 DEF DB!Sought, DB!Touched
  <2>2. CASE l # 0
    <3>1. f \in DB!FindFile(ls[l], [key |-> key, seq |-> seq])
      BY <1>1, <2>2 DEF DB!Sought
    <3> QED BY <3>1, OneFileIsFound DEF Good
  <2> QED BY <2>1, <2>2
<1> QED BY <1>2, <1>3, <1>4

LEMMA OneVisitPerLevel ==
  ASSUME DB!LevelAssumption, NEW ls, Good(ls), NEW key, NEW seq,
         NEW v \in DB!Visited(ls, key, seq), NEW w \in DB!Visited(ls, key, seq),
         v.level = w.level, v.level # 0
  PROVE  v = w
<1>1. /\ v.level \in DB!LevelNumbers /\ v.file \in DB!Sought(ls, v.level, key, seq)
      /\ w.file \in DB!Sought(ls, v.level, key, seq)
      /\ v = [level |-> v.level, file |-> v.file] /\ w = [level |-> v.level, file |-> w.file]
  BY VisitedFiles
<1>2. /\ v.file \in DB!FindFile(ls[v.level], [key |-> key, seq |-> seq])
      /\ w.file \in DB!FindFile(ls[v.level], [key |-> key, seq |-> seq])
  BY <1>1 DEF DB!Sought
<1>3. v.file = w.file
  BY <1>1, <1>2, OneFileIsFound DEF Good
<1> QED BY <1>1, <1>3

VisitPairs(visits) == {p \in visits \X visits : DB!Before(p[1], p[2])}

LEMMA VisitsAreOrdered ==
  ASSUME DB!LevelAssumption, NEW ls, Good(ls), NEW key, NEW seq
  PROVE  Orders(VisitPairs(DB!Visited(ls, key, seq)), DB!Visited(ls, key, seq))
<1> DEFINE V == DB!Visited(ls, key, seq)
<1>1. \A v \in V : /\ v.level \in Nat /\ v.level \in DB!LevelNumbers /\ v.file \in ls[v.level]
                   /\ v.file.number \in Nat
                   /\ v = [level |-> v.level, file |-> v.file]
  <2>1. DB!LevelNumbers \subseteq Nat
    BY DEF DB!LevelNumbers
  <2> QED BY <2>1, VisitedFiles DEF Good, WellFormed
<1>2. ASSUME NEW v \in V, NEW w \in V, v # w
      PROVE  DB!Before(v, w) \/ DB!Before(w, v)
  <2>1. CASE v.level # w.level
    BY <2>1, <1>1 DEF DB!Before
  <2>2. CASE v.level = w.level
    <3>1. v.level = 0 BY <2>2, <1>2, OneVisitPerLevel
    <3>2. v.file # w.file /\ v.file \in ls[0] /\ w.file \in ls[0]
      BY <2>2, <3>1, <1>1, <1>2
    <3>3. v.file.number # w.file.number BY <3>1, <3>2, <1>1 DEF Good, WellFormed
    <3> QED BY <3>3, <2>2, <1>1 DEF DB!Before
  <2> QED BY <2>1, <2>2
<1>3. \A v \in V : ~DB!Before(v, v)
  BY <1>1 DEF DB!Before
<1>4. \A u, v, w \in V : DB!Before(u, v) /\ DB!Before(v, w) => DB!Before(u, w)
  BY <1>1 DEF DB!Before
<1>5. \A v, w \in V : <<v, w>> \in VisitPairs(V) <=> DB!Before(v, w)
  BY DEF VisitPairs
<1> HIDE DEF V
<1>6. Orders(VisitPairs(V), V)
  BY <1>2, <1>3, <1>4, <1>5, Zenon DEF Orders
<1> QED BY <1>6 DEF V

LEMMA VisitsAreFinite ==
  ASSUME DB!LevelAssumption, NEW ls, Good(ls), NEW key, NEW seq
  PROVE  IsFiniteSet(DB!Visited(ls, key, seq))
<1> DEFINE At1(l) == {[level |-> l, file |-> f] : f \in DB!Sought(ls, l, key, seq)}
           T == {At1(l) : l \in DB!LevelNumbers}
<1>1. ASSUME NEW l \in DB!LevelNumbers
      PROVE  IsFiniteSet(At1(l))
  <2> DEFINE F == DB!Sought(ls, l, key, seq)
             D == At1(l)
             m == [f \in F |-> [level |-> l, file |-> f]]
  <2>1. F \subseteq ls[l]
    <3>1. CASE l = 0
      BY <3>1 DEF DB!Sought, DB!Touched
    <3>2. CASE l # 0
      BY <3>2, OneFileIsFound DEF DB!Sought, Good
    <3> QED BY <3>1, <3>2
  <2>2. IsFiniteSet(ls[l])
    BY DEF Good, WellFormed
  <2>3. IsFiniteSet(F)
    <3> HIDE DEF F
    <3> QED BY <2>1, <2>2, FS_Subset
  <2>4. m \in Surjection(F, D)
    <3>1. m \in [F -> D] OBVIOUS
    <3>2. \A d \in D : \E f \in F : m[f] = d OBVIOUS
    <3> HIDE DEF m, D, F
    <3> QED BY <3>1, <3>2 DEF Surjection
  <2> HIDE DEF F, D, m
  <2>5. IsFiniteSet(D)
    BY <2>3, <2>4, FS_Surjection
  <2> QED BY <2>5 DEF D
<1>2. IsFiniteSet(T)
  <2> DEFINE m == [l \in DB!LevelNumbers |-> At1(l)]
  <2> HIDE DEF At1
  <2>1. m \in Surjection(DB!LevelNumbers, T)
    BY DEF Surjection
  <2>2. IsFiniteSet(DB!LevelNumbers)
    BY FS_Interval DEF DB!LevelNumbers, DB!LevelAssumption
  <2> HIDE DEF m, T
  <2> QED BY <2>1, <2>2, FS_Surjection
<1>3. \A t \in T : IsFiniteSet(t)
  <2> HIDE DEF At1
  <2> QED BY <1>1
<1>4. IsFiniteSet(UNION T)
  <2> HIDE DEF T
  <2> QED BY <1>2, <1>3, FS_UNION
<1> QED BY <1>4 DEF DB!Visited

LEMMA FirstVisitIsFirst ==
  ASSUME DB!LevelAssumption, NEW ls, Good(ls), NEW key, NEW seq,
         NEW some, some \subseteq DB!Visited(ls, key, seq), some # {}
  PROVE  /\ DB!FirstVisit(some) \in some
         /\ \A w \in some \ {DB!FirstVisit(some)} : DB!Before(DB!FirstVisit(some), w)
<1> DEFINE V == DB!Visited(ls, key, seq)
           R == VisitPairs(V)
<1>1. Orders(R, some)
  <2>1. Orders(R, V)
    BY VisitsAreOrdered
  <2> HIDE DEF R, V
  <2> QED BY <2>1, SuborderOrders DEF V
<1>2. IsFiniteSet(some)
  BY VisitsAreFinite, FS_Subset
<1>3. \E x \in some : \A y \in some \ {x} : <<x, y>> \in R
  <2> HIDE DEF R
  <2> QED BY <1>1, <1>2, LeastElement
<1>4. \E x \in some : \A y \in some \ {x} : DB!Before(x, y)
  BY <1>3 DEF VisitPairs
<1> QED BY <1>4 DEF DB!FirstVisit
\* A seek is charged to a file with another one visited after it, so not to one of the last level.
LEMMA ChargeSeekKeeps ==
  ASSUME DB!StoreAssumption, StoreInv, NEW key, NEW seq, DB!ChargeSeek(key, seq)
  PROVE  StoreInv'
<1> DEFINE files == DB!Visited(levels, key, seq)
           first == DB!FirstVisit(files)
<1>1. DB!LevelAssumption /\ NumLevels \in Nat /\ NumLevels >= 2 /\ Good(levels)
  BY ConstantsAreTyped, FilesAreGood DEF StoreInv
<1>2. toCompact' = first /\ levels' = levels /\ Cardinality(files) >= 2
  BY CountsAreTheSame DEF DB!ChargeSeek
<1>3. files # {} /\ files # {first}
  <2> HIDE DEF files, first
  <2>1. Cardinality(files) >= 2
    BY <1>2
  <2>2. Cardinality({}) = 0 /\ Cardinality({first}) = 1
    BY FS_EmptySet, FS_Singleton
  <2> QED BY <2>1, <2>2
<1>4. first \in files /\ \A w \in files \ {first} : DB!Before(first, w)
  BY <1>1, <1>3, FirstVisitIsFirst
<1>5. PICK w \in files : w # first /\ DB!Before(first, w)
  BY <1>3, <1>4
<1>6. /\ first.level \in DB!LevelNumbers /\ first.file \in levels[first.level]
      /\ w.level \in DB!LevelNumbers
  BY <1>1, <1>4, <1>5, VisitedFiles
<1>7. first.level \in 0..NumLevels - 2
  <2>1. first.level = w.level => first.level = 0
    BY <1>1, <1>4, <1>5, OneVisitPerLevel
  <2>2. first.level <= w.level
    BY <1>5, <1>6 DEF DB!Before, DB!LevelNumbers
  <2> HIDE DEF first
  <2> QED BY <2>1, <2>2, <1>1, <1>6 DEF DB!LevelNumbers
<1>9. SeekOK'
  BY <1>2, <1>6, <1>7 DEF SeekOK
<1>10. KeptOrDeleted' /\ NothingUnderTheDropped'
  <2>1. \A e \in written : DB!Held(e)' <=> DB!Held(e)
    BY DEF DB!Held, DB!ChargeSeek
  <2>2. Live' \subseteq Live
    BY DEF Live, DB!ChargeSeek
  <2> QED BY <2>1, <2>2, KeptWhileHeld DEF StoreInv, DB!ChargeSeek
<1>11. EntriesOK'
  BY DEF StoreInv, EntriesOK, DB!ChargeSeek
<1>12. MemTablesOK'
  BY DEF StoreInv, MemTablesOK, DB!ChargeSeek
<1>13. FilesOK'
  BY DEF StoreInv, FilesOK, DB!ChargeSeek
<1>14. SnapshotsOK'
  BY DEF StoreInv, SnapshotsOK, DB!ChargeSeek
<1>15. ManualOK'
  BY DEF StoreInv, ManualOK, DB!ChargeSeek
<1>16. WorkOK'
  BY DEF StoreInv, WorkOK, DB!ChargeSeek
<1>17. TimeOrder'
  BY DEF StoreInv, TimeOrder, DB!ChargeSeek
<1>18. OrderWhileApart'
  BY DEF StoreInv, OrderWhileApart, DB!SmallerLevelsAreNewer, MergeIsClosed, DB!ChargeSeek
<1>19. DB!OverlapsAreLate'
  BY DEF StoreInv, DB!OverlapsAreLate, DB!LevelsDoNotOverlap, DB!ChargeSeek
<1> QED BY <1>9, <1>10, <1>11, <1>12, <1>13, <1>14, <1>15, <1>16, <1>17, <1>18, <1>19 DEF StoreInv

\* A write is later than all before it.
LEMMA WriteKeeps ==
  ASSUME DB!StoreAssumption, StoreInv, NEW key \in Keys, NEW type \in Kinds, DB!Write(key, type)
  PROVE  StoreInv'
<1>0. PICK new : new = [key |-> key, seq |-> storeLast + 1, type |-> type] OBVIOUS
<1>1. /\ storeMem' = storeMem \union {new} /\ written' = written \union {new}
      /\ new.key = key /\ new.seq = storeLast + 1 /\ new.type = type /\ key \in Nat
  BY <1>0 DEF DB!Write, DB!StoreAssumption
<1>2. storeLast \in Nat /\ storeLast' = storeLast + 1 /\ storeLast + 1 \in 1 .. StoreMaxWrites /\ storeLast' \in 0..StoreMaxWrites
  BY ConstantsAreTyped DEF StoreInv, EntriesOK, DB!Write
<1>3. /\ \A e \in written : e.key \in Nat /\ e.seq \in Nat /\ e.seq <= storeLast
      /\ Sortable(written) /\ IsFiniteSet(written)
  BY WrittenIsSortable DEF StoreInv
<1>4. /\ storeImm' = storeImm /\ levels' = levels /\ straddled' = straddled /\ snapshots' = snapshots
      /\ work' = work /\ nextFile' = nextFile /\ manual' = manual
  BY DEF DB!Write
<1>5. storeImm # <<>> => storeImm[1] \subseteq written
  <2>1. storeImm \in Seq(SUBSET written)
    BY DEF StoreInv, MemTablesOK
  <2> QED BY <2>1, ElementOfSeq, EmptySeq, LenProperties
<1>6. Live \subseteq Nat
  BY <1>2, LiveIsTyped DEF StoreInv
<1>8. EntriesOK'
  <2>1. new \in DB!Entries
    BY <1>0, <1>2 DEF DB!Entries
  <2>2. IsFiniteSet(written')
    BY <1>1, <1>3, FS_AddElement
  <2>3. \A e \in written' : e.seq <= storeLast'
    BY <1>1, <1>2, <1>3
  <2>4. \A e, d \in written' : e.seq = d.seq => e = d
    BY <1>1, <1>2, <1>3 DEF StoreInv, EntriesOK
  <2> QED BY <2>1, <2>2, <2>3, <2>4, <1>1, <1>2 DEF StoreInv, EntriesOK
<1>9. MemTablesOK'
  <2>1. storeImm \in Seq(SUBSET written')
    <3>1. SUBSET written \subseteq SUBSET written' BY <1>1
    <3> QED BY <3>1, SeqMonotonic DEF StoreInv, MemTablesOK
  <2> QED BY <2>1, <1>1, <1>4 DEF StoreInv, MemTablesOK
<1>10. FilesOK'
  <2>1. levels \in [DB!LevelNumbers -> SUBSET [number : 1..nextFile - 1, entries : (SUBSET written') \ {{}}]]
    BY <1>1 DEF StoreInv, FilesOK
  <2> QED BY <2>1, <1>4 DEF StoreInv, FilesOK
<1>11. SnapshotsOK'
  <2>1. snapshots \in Seq(0..storeLast')
    <3>1. 0..storeLast \subseteq 0..storeLast' BY <1>2
    <3> QED BY <3>1, SeqMonotonic DEF StoreInv, SnapshotsOK
  <2> QED BY <2>1, <1>4 DEF StoreInv, SnapshotsOK
<1>12. WorkOK'
  <2>1. 0..storeLast \subseteq 0..storeLast'
    BY <1>2
  <2> QED BY <2>1, <1>4 DEF StoreInv, WorkOK
<1>13. TimeOrder'
  <2>1. \A es : es \subseteq written => Later({new}, es)
    BY <1>1, <1>2, <1>3 DEF Later
  <2>2. storeImm # <<>> => storeImm[1] \subseteq written
    BY <1>5
  <2>3. \A l \in DB!LevelNumbers : \A f \in levels[l] : f.entries \subseteq written
    BY FilesAreGood DEF StoreInv
  <2> QED BY <2>1, <2>2, <2>3, <1>1, <1>4 DEF StoreInv, TimeOrder, Later
<1>14. KeptOrDeleted' /\ NothingUnderTheDropped'
  <2>1. \A e \in written : DB!Held(e)' <=> DB!Held(e)
    BY <1>1, <1>2, <1>3, <1>4 DEF DB!Held
  <2>2. DB!Held(new)'
    BY <1>1 DEF DB!Held
  <2>3. Sortable(written') /\ IsFiniteSet(written')
    <3>1. IsFiniteSet(written') BY <1>1, <1>3, FS_AddElement
    <3> QED BY <3>1, <1>1, <1>2, <1>3 DEF Sortable
  <2>4. ASSUME NEW s \in Live', NEW e \in written', e \in DB!Found(written', e.key, s), e # new
        PROVE  \E t \in Live : e \in DB!Found(written, e.key, t)
    <3>1. e \in written BY <2>4, <1>1
    <3>2. s \in Nat /\ (s \in Live \/ s = storeLast + 1) /\ storeLast \in Live
      BY <1>2, <1>4, <1>6 DEF Live
    <3>3. e.seq <= s /\ \A d \in written' : d.key = e.key /\ d.seq <= s => d.seq <= e.seq
      BY <2>3, <2>4, <3>2, FoundIsNewest
    <3>4. CASE s \in Live
      BY <3>1, <3>2, <3>3, <3>4, <1>1, <1>3, FoundIsNewest
    <3>5. CASE s = storeLast + 1
      <4>1. e.seq <= storeLast /\ \A d \in written : d.key = e.key /\ d.seq <= storeLast => d.seq <= e.seq
        BY <3>1, <3>3, <3>5, <1>1, <1>2, <1>3
      <4>2. e \in DB!Found(written, e.key, storeLast)
        BY <4>1, <3>1, <1>2, <1>3, FoundIsNewest
      <4> QED BY <4>2, <3>2
    <3> QED BY <3>2, <3>4, <3>5
  <2>5. KeptOrDeleted'
    <3> SUFFICES ASSUME NEW s \in Live', NEW e \in written', e \in DB!Found(written', e.key, s)
                 PROVE  DB!Held(e)' \/ e.type = "Deletion"
      BY DEF KeptOrDeleted
    <3>1. CASE e = new
      BY <3>1, <2>2
    <3>2. CASE e # new
      <4>1. e \in written /\ \E t \in Live : e \in DB!Found(written, e.key, t)
        BY <3>2, <2>4, <1>1
      <4> QED BY <4>1, <2>1 DEF StoreInv, KeptOrDeleted
    <3> QED BY <3>1, <3>2
  <2>6. NothingUnderTheDropped'
    <3> SUFFICES ASSUME ~straddled', NEW s \in Live', NEW e \in written', e \in DB!Found(written', e.key, s),
                        ~DB!Held(e)', NEW d \in written', d.key = e.key, d.seq < e.seq
                 PROVE  ~DB!Held(d)'
      BY DEF NothingUnderTheDropped
    <3>1. e # new BY <2>2
    <3>2. e \in written /\ \E t \in Live : e \in DB!Found(written, e.key, t)
      BY <3>1, <2>4, <1>1
    <3>3. d \in written
      <4>1. e.seq \in Nat /\ e.seq <= storeLast
        BY <3>2, <1>3
      <4>2. d # new BY <4>1, <1>1, <1>2
      <4> QED BY <4>2, <1>1
    <3>4. ~DB!Held(e) BY <3>2, <2>1
    <3>5. ~DB!Held(d) BY <3>2, <3>3, <3>4, <1>4 DEF StoreInv, NothingUnderTheDropped
    <3> QED BY <3>3, <3>5, <2>1
  <2> QED BY <2>5, <2>6
<1>15. SeekOK'
  BY DEF StoreInv, SeekOK, DB!Write
<1>16. ManualOK'
  BY DEF StoreInv, ManualOK, DB!Write
<1>17. OrderWhileApart'
  BY DEF StoreInv, OrderWhileApart, DB!SmallerLevelsAreNewer, MergeIsClosed, DB!Write
<1>18. DB!OverlapsAreLate'
  BY DEF StoreInv, DB!OverlapsAreLate, DB!LevelsDoNotOverlap, DB!Write
<1> QED BY <1>8, <1>9, <1>10, <1>11, <1>12, <1>13, <1>14, <1>15, <1>16, <1>17, <1>18 DEF StoreInv
------------------------
(* The flush of the immutable memtable. *)

LEMMA CommonKey ==
  ASSUME NEW f, NEW g, Between(f), Between(g), ~DB!Overlaps(f, DB!RangeOf(g))
  PROVE  /\ Foreign(f, g) /\ Foreign(g, f)
         /\ DB!Precedes(DB!Largest(f), DB!Smallest(g)) \/ DB!Precedes(DB!Largest(g), DB!Smallest(f))
<1>1. DB!Largest(f).key < DB!Smallest(g).key \/ DB!Largest(g).key < DB!Smallest(f).key
  <2>1. /\ DB!Largest(f).key \in Nat /\ DB!Smallest(f).key \in Nat
        /\ DB!Largest(g).key \in Nat /\ DB!Smallest(g).key \in Nat
    BY DEF Between
  <2>2. DB!RangeOf(g).lo = DB!Smallest(g).key /\ DB!RangeOf(g).hi = DB!Largest(g).key
    BY DEF DB!RangeOf
  <2> QED BY <2>1, <2>2 DEF DB!Overlaps
<1>2. \A e \in f.entries, d \in g.entries : e.key # d.key
  BY <1>1 DEF Between
<1> QED BY <1>1, <1>2 DEF Foreign, DB!Precedes

LEMMA ApartIsSorted ==
  ASSUME DB!LevelAssumption, NEW ls, Good(ls), DB!Apart(ls)
  PROVE  AllSorted(ls)
<1> SUFFICES ASSUME NEW l \in 1..NumLevels - 1, NEW f \in ls[l], NEW g \in ls[l], f # g
             PROVE  DB!Precedes(DB!Largest(f), DB!Smallest(g)) \/ DB!Precedes(DB!Largest(g), DB!Smallest(f))
  BY DEF AllSorted, Sorted
<1>1. l \in DB!LevelNumbers
  BY DEF DB!LevelNumbers, DB!LevelAssumption
<1>2. Between(f) /\ Between(g)
  BY <1>1, EndsOfFile DEF Good
<1>3. ~DB!Overlaps(f, DB!RangeOf(g))
  BY DEF DB!Apart
<1> QED BY <1>2, <1>3, CommonKey

\* The immutable memtable, and the table made of it.
LEMMA NewTable ==
  ASSUME DB!StoreAssumption, StoreInv, storeImm # <<>>,
         NEW new, new = [number |-> nextFile, entries |-> storeImm[1]]
  PROVE  /\ storeImm[1] \subseteq written /\ storeImm[1] # {} /\ new.entries = storeImm[1] /\ new.number = nextFile
         /\ new \in [number : 1..nextFile, entries : (SUBSET written) \ {{}}]
         /\ Between(new) /\ IsRange(DB!RangeOf(new))
<1>1. storeImm[1] \subseteq written /\ storeImm[1] # {}
  <2>1. storeImm \in Seq(SUBSET written)
    BY DEF StoreInv, MemTablesOK
  <2> QED BY <2>1, ElementOfSeq, EmptySeq, LenProperties DEF StoreInv, MemTablesOK
<1>2. IsFiniteSet(storeImm[1]) /\ Sortable(storeImm[1])
  BY <1>1, WrittenIsSortable, FS_Subset, SortableSubset DEF StoreInv
<1>3. new.entries = storeImm[1] /\ new.number = nextFile /\ nextFile \in Nat \ {0}
  BY DEF StoreInv, FilesOK
<1>4. WellFormed({new})
  <2>1. EntriesOf({new}) = storeImm[1]
    BY <1>3 DEF EntriesOf
  <2>2. IsFiniteSet({new})
    BY FS_Singleton
  <2> QED BY <2>1, <2>2, <1>1, <1>2, <1>3 DEF WellFormed
<1>5. Between(new)
  BY <1>4, EndsOfFile
<1>6. IsRange(DB!RangeOf(new))
  BY <1>5 DEF Between, IsRange, DB!RangeOf
<1> QED BY <1>1, <1>3, <1>5, <1>6

\* A table below level 0 shares no key with a file of its level or one above, as long as
\* the levels are sorted.
LEMMA FlushedBelowIsForeign ==
  ASSUME DB!StoreAssumption, StoreInv, storeImm # <<>>, AllSorted(levels),
         NEW new, new = [number |-> nextFile, entries |-> storeImm[1]],
         NEW l, l = DB!PickLevelForMemTableOutput(levels, DB!RangeOf(new)), l # 0
  PROVE  \A k \in 0..l : \A f \in levels[k] :
           /\ Foreign(f, new) /\ Foreign(new, f)
           /\ DB!Precedes(DB!Largest(f), DB!Smallest(new)) \/ DB!Precedes(DB!Largest(new), DB!Smallest(f))
<1>1. /\ DB!LevelAssumption /\ MaxSequenceNumber \in Nat /\ NumLevels \in Nat /\ NumLevels >= 2
      /\ Good(levels) /\ Between(new) /\ IsRange(DB!RangeOf(new))
  BY ConstantsAreTyped, FilesAreGood, NewTable DEF StoreInv
<1>2. l \in 0..NumLevels - 2
  BY <1>1, PickedLevel
<1>3. \A k \in 0..l : \A f \in levels[k] : ~DB!Overlaps(f, DB!RangeOf(new))
  BY <1>1, PickedLevel
<1>4. ASSUME NEW k \in 0..l, NEW f \in levels[k]
      PROVE  Between(f)
  <2>1. k \in DB!LevelNumbers
    BY <1>1, <1>2 DEF DB!LevelNumbers
  <2> QED BY <2>1, FilesAreGood DEF StoreInv
<1> QED BY <1>1, <1>3, <1>4, CommonKey

\* The table is later than all files, and goes below one only where it shares no key.
LEMMA CompactMemTableKeeps ==
  ASSUME DB!StoreAssumption, StoreInv, DB!CompactMemTable
  PROVE  StoreInv'
<1>0. PICK new : new = [number |-> nextFile, entries |-> storeImm[1]] OBVIOUS
<1>1. DB!LevelAssumption /\ NumLevels \in Nat /\ NumLevels >= 2 /\ Good(levels)
  BY ConstantsAreTyped, FilesAreGood DEF StoreInv
<1>2. /\ storeImm # <<>> /\ new = [number |-> nextFile, entries |-> storeImm[1]]
      /\ new.entries = storeImm[1] /\ new.number = nextFile
      /\ new \in [number : 1..nextFile, entries : (SUBSET written) \ {{}}]
      /\ IsRange(DB!RangeOf(new))
  BY <1>0, NewTable DEF DB!CompactMemTable
<1>3. PICK l \in DB!LevelNumbers : l = DB!PickLevelForMemTableOutput(levels, DB!RangeOf(new)) /\ l \in Nat
  <2>1. DB!PickLevelForMemTableOutput(levels, DB!RangeOf(new)) \in 0..NumLevels - 2
    BY <1>1, <1>2, ConstantsAreTyped, PickedLevel
  <2> QED BY <2>1, <1>1 DEF DB!LevelNumbers
<1>4. /\ levels' = [k \in DB!LevelNumbers |-> levels'[k]]
      /\ \A k \in DB!LevelNumbers : levels'[k] = IF k = l THEN levels[k] \union {new} ELSE levels[k]
  <2>1. levels' = [levels EXCEPT ![l] = @ \union {new}]
    BY <1>0, <1>3 DEF DB!CompactMemTable, DB!Install
  <2>2. DOMAIN levels = DB!LevelNumbers
    BY DEF StoreInv, FilesOK
  <2> QED BY <2>1, <2>2
<1>5. /\ toCompact' = Nil /\ straddled' = (straddled \/ ~DB!Apart(levels')) /\ storeImm' = <<>> /\ storeImm # <<>>
      /\ nextFile' = nextFile + 1 /\ storeMem' = storeMem /\ storeLast' = storeLast /\ snapshots' = snapshots
      /\ work' = work /\ manual' = manual /\ written' = written /\ late' = late
  BY DEF DB!CompactMemTable, DB!Install
<1>7. MemTablesOK'
  BY <1>5, EmptySeq DEF StoreInv, MemTablesOK
<1>8. FilesOK'
  <2>1. nextFile' \in Nat \ {0} /\ 1 .. nextFile = 1 .. nextFile' - 1 /\ nextFile \in Nat
    BY <1>5 DEF StoreInv, FilesOK
  <2>2. levels' \in [DB!LevelNumbers -> SUBSET [number : 1..nextFile' - 1, entries : (SUBSET written') \ {{}}]]
    <3>1. \A k \in DB!LevelNumbers : levels[k] \subseteq [number : 1..nextFile, entries : (SUBSET written) \ {{}}]
      BY <2>1 DEF StoreInv, FilesOK
    <3>2. \A k \in DB!LevelNumbers : levels'[k] \subseteq [number : 1..nextFile, entries : (SUBSET written) \ {{}}]
      BY <3>1, <1>2, <1>4
    <3>3. written' = written BY <1>5
    <3>4. levels' = [k \in DB!LevelNumbers |-> levels'[k]] BY <1>4
    <3> QED BY <3>2, <3>3, <3>4, <2>1
  <2>3. \A k \in DB!LevelNumbers : IsFiniteSet(levels'[k])
    <3>1. \A k \in DB!LevelNumbers : IsFiniteSet(levels[k]) /\ IsFiniteSet(levels[k] \union {new})
      BY FS_AddElement DEF StoreInv, FilesOK
    <3> QED BY <3>1, <1>4
  <2>4. ASSUME NEW k \in DB!LevelNumbers, NEW m \in DB!LevelNumbers, NEW f \in levels'[k], NEW g \in levels'[m],
               f.number = g.number
        PROVE  f = g /\ k = m
    <3>1. /\ \A h \in levels[k] : h.number \in Nat /\ h.number < nextFile
          /\ \A h \in levels[m] : h.number \in Nat /\ h.number < nextFile
      BY FilesAreGood DEF StoreInv
    <3>2. new.number = nextFile BY <1>2
    <3>3. CASE f = new /\ k = l
      BY <3>1, <3>2, <3>3, <2>1, <2>4, <1>4
    <3>4. CASE f \in levels[k] /\ ~(f = new /\ k = l)
      BY <3>1, <3>2, <3>4, <2>1, <2>4, <1>4 DEF StoreInv, FilesOK
    <3> QED BY <3>3, <3>4, <1>4
  <2> QED BY <2>1, <2>2, <2>3, <2>4 DEF FilesOK
<1>9. SeekOK'
  BY <1>5 DEF SeekOK
<1>10. WorkOK'
  <2> SUFFICES ASSUME work # Nil
               PROVE  WorkOK'
    BY <1>5 DEF WorkOK
  <2>1. work.compaction.level \in DB!LevelNumbers /\ work.compaction.level + 1 \in DB!LevelNumbers
    BY ConstantsAreTyped DEF StoreInv, WorkOK
  <2>2. /\ levels[work.compaction.level] \subseteq levels'[work.compaction.level]
        /\ levels[work.compaction.level + 1] \subseteq levels'[work.compaction.level + 1]
    BY <2>1, <1>4
  <2> QED BY <2>2, <1>5 DEF StoreInv, WorkOK
<1>11. TimeOrder'
  <2>1. ASSUME NEW k \in DB!LevelNumbers, NEW f \in levels'[k]
        PROVE  Later(storeMem, f.entries)
    BY <1>2, <1>4, <1>5 DEF StoreInv, TimeOrder
  <2>2. ASSUME NEW f \in levels'[0], NEW g \in levels'[0], f.number < g.number
        PROVE  Later(g.entries, f.entries)
    <3>1. 0 \in DB!LevelNumbers /\ nextFile \in Nat
      BY ConstantsAreTyped DEF StoreInv, FilesOK
    <3>2. \A h \in levels[0] : h.number \in Nat /\ h.number < nextFile
      BY <3>1, FilesAreGood DEF StoreInv
    <3>3. new.number = nextFile BY <1>2
    <3>4. f \in levels[0] BY <3>1, <3>2, <3>3, <2>2, <1>4
    <3>5. CASE g \in levels[0]
      BY <3>4, <3>5, <2>2 DEF StoreInv, TimeOrder
    <3>6. CASE g = new
      BY <3>1, <3>4, <3>6, <1>2, <1>5 DEF StoreInv, TimeOrder
    <3> QED BY <3>1, <3>5, <3>6, <1>4
  <2> QED BY <2>1, <2>2, <1>5 DEF TimeOrder
<1>12. OrderWhileApart'
  <2> SUFFICES ASSUME ~straddled'
               PROVE  /\ DB!Apart(levels') /\ DB!SmallerLevelsAreNewer'
                      /\ work # Nil => MergeIsClosed(work.compaction, work.version)'
    BY <1>5 DEF OrderWhileApart
  <2>1. ~straddled /\ DB!Apart(levels')
    BY <1>5
  <2>2. /\ DB!Apart(levels) /\ DB!SmallerLevelsAreNewer
        /\ work # Nil => MergeIsClosed(work.compaction, work.version)
    BY <2>1 DEF StoreInv, OrderWhileApart
  <2>3. AllSorted(levels)
    BY <2>2, <1>1, ApartIsSorted
  <2>4. \A k \in DB!LevelNumbers : \A f \in levels[k] : Later(new.entries, f.entries)
    BY <1>2, <1>5 DEF StoreInv, TimeOrder
  <2>5. ASSUME NEW k \in DB!LevelNumbers, NEW f \in levels[k], k <= l, l # 0
        PROVE  Foreign(f, new) /\ Foreign(new, f)
    <3>1. k \in 0..l BY <2>5, <1>1, <1>3 DEF DB!LevelNumbers
    <3> QED BY <3>1, <2>3, <2>5, <1>2, <1>3, <1>5, FlushedBelowIsForeign
  <2>6. DB!SmallerLevelsAreNewer'
    <3> SUFFICES ASSUME NEW k \in DB!LevelNumbers, NEW m \in DB!LevelNumbers, k < m,
                        NEW f \in levels'[k], NEW g \in levels'[m],
                        NEW e \in f.entries, NEW d \in g.entries, e.key = d.key
                 PROVE  e.seq > d.seq
      BY DEF DB!SmallerLevelsAreNewer
    <3>0. k \in Nat /\ m \in Nat
      BY DEF DB!LevelNumbers
    <3>1. CASE k = l /\ f = new
      <4>1. g \in levels[m] BY <3>0, <3>1, <1>4
      <4> QED BY <4>1, <3>1, <2>4 DEF Later
    <3>2. CASE m = l /\ g = new
      <4>1. f \in levels[k] BY <3>0, <3>2, <1>4
      <4>2. Foreign(f, new) BY <4>1, <3>0, <3>2, <2>5
      <4> QED BY <4>2, <3>2 DEF Foreign
    <3>3. CASE f \in levels[k] /\ g \in levels[m]
      BY <3>3, <2>2 DEF DB!SmallerLevelsAreNewer
    <3> QED BY <3>1, <3>2, <3>3, <1>4
  <2>7. ASSUME work # Nil
        PROVE  MergeIsClosed(work.compaction, work.version)'
    <3>0. PICK c : c = work.compaction OBVIOUS
    <3>1. /\ c.level \in DB!LevelNumbers /\ c.level + 1 \in DB!LevelNumbers /\ c.level \in Nat
          /\ c.inputs[1] \subseteq levels[c.level] /\ c.inputs[2] \subseteq levels[c.level + 1]
      BY <3>0, <2>7, ConstantsAreTyped DEF StoreInv, WorkOK
    <3>2. MergeIsClosed(c, work.version) BY <3>0, <2>2, <2>7
    <3>3. \A f \in levels'[c.level] \ c.inputs[1], g \in c.inputs[1] : Newer(f, g)
      <4> SUFFICES ASSUME NEW f \in levels'[c.level] \ c.inputs[1], NEW g \in c.inputs[1]
                   PROVE  Newer(f, g)
        OBVIOUS
      <4>1. CASE f = new
        BY <4>1, <3>1, <2>4 DEF Newer, Later
      <4>2. CASE f \in levels[c.level]
        BY <4>2, <3>2 DEF MergeIsClosed
      <4> QED BY <4>1, <4>2, <3>1, <1>4
    <3>4. ASSUME NEW k \in DB!LevelNumbers, k >= c.level + 1, new \in levels'[k], k = l, NEW g \in MergeInputs(c)
          PROVE  Foreign(new, g)
      <4>1. k # 0 /\ c.level <= l /\ c.level + 1 <= l
        BY <3>1, <3>4 DEF DB!LevelNumbers
      <4>2. g \in levels[c.level] \/ g \in levels[c.level + 1]
        BY <3>1 DEF MergeInputs
      <4> QED BY <4>1, <4>2, <3>1, <3>4, <2>5
    <3>5. \A f \in levels'[c.level + 1] \ c.inputs[2], g \in MergeInputs(c) : Foreign(f, g)
      <4> SUFFICES ASSUME NEW f \in levels'[c.level + 1] \ c.inputs[2], NEW g \in MergeInputs(c)
                   PROVE  Foreign(f, g)
        OBVIOUS
      <4>1. CASE f = new /\ c.level + 1 = l
        BY <4>1, <3>1, <3>4
      <4>2. CASE f \in levels[c.level + 1]
        BY <4>2, <3>2 DEF MergeIsClosed
      <4> QED BY <4>1, <4>2, <3>1, <1>4
    <3>6. \A k \in c.level + 2..NumLevels - 1 : \A f \in levels'[k] :
            f \in work.version[k] \/ \A g \in MergeInputs(c) : Foreign(f, g)
      <4> SUFFICES ASSUME NEW k \in c.level + 2..NumLevels - 1, NEW f \in levels'[k]
                   PROVE  f \in work.version[k] \/ \A g \in MergeInputs(c) : Foreign(f, g)
        OBVIOUS
      <4>0. k \in DB!LevelNumbers /\ k >= c.level + 1
        BY <3>1, <1>1 DEF DB!LevelNumbers
      <4>1. CASE f = new /\ k = l
        BY <4>0, <4>1, <3>4
      <4>2. CASE f \in levels[k]
        BY <4>2, <3>2 DEF MergeIsClosed
      <4> QED BY <4>0, <4>1, <4>2, <1>4
    <3>7. work' = work BY <1>5
    <3> QED BY <3>0, <3>3, <3>5, <3>6, <3>7 DEF MergeIsClosed
  <2> QED BY <2>1, <2>6, <2>7
<1>13. KeptOrDeleted' /\ NothingUnderTheDropped'
  <2>1. \A e \in written : DB!Held(e)' <=> DB!Held(e)
    <3>1. ASSUME NEW e \in written, DB!Held(e)'
          PROVE  DB!Held(e)
      <4>1. e \in storeMem \/ \E k \in DB!LevelNumbers : \E f \in levels'[k] : e \in f.entries
        BY <3>1, <1>5 DEF DB!Held
      <4> QED BY <4>1, <1>2, <1>4, <1>5 DEF DB!Held
    <3>2. ASSUME NEW e \in written, DB!Held(e)
          PROVE  DB!Held(e)'
      <4>1. CASE e \in storeMem
        BY <4>1, <1>5 DEF DB!Held
      <4>2. CASE e \in storeImm[1]
        <5>1. new \in levels'[l] /\ e \in new.entries /\ l \in DB!LevelNumbers
          BY <4>2, <1>2, <1>3, <1>4
        <5> QED BY <5>1 DEF DB!Held
      <4>3. CASE \E k \in DB!LevelNumbers : \E f \in levels[k] : e \in f.entries
        BY <4>3, <1>4 DEF DB!Held
      <4> QED BY <4>1, <4>2, <4>3, <3>2 DEF DB!Held
    <3> QED BY <3>1, <3>2
  <2>2. Live' \subseteq Live
    BY <1>5 DEF Live
  <2> QED BY <2>1, <2>2, <1>5, KeptWhileHeld DEF StoreInv
<1>14. DB!OverlapsAreLate'
  <2> SUFFICES ASSUME ~late, NEW k \in 1..NumLevels - 1, NEW f \in levels'[k], NEW g \in levels'[k], f # g
               PROVE  DB!Precedes(DB!Largest(f), DB!Smallest(g)) \/ DB!Precedes(DB!Largest(g), DB!Smallest(f))
    BY <1>5 DEF DB!OverlapsAreLate, DB!LevelsDoNotOverlap
  <2>0. k \in DB!LevelNumbers /\ k \in Nat /\ k # 0
    BY ConstantsAreTyped
  <2>1. AllSorted(levels)
    BY DEF StoreInv, DB!OverlapsAreLate, DB!LevelsDoNotOverlap, AllSorted, Sorted
  <2>2. CASE f \in levels[k] /\ g \in levels[k]
    BY <2>1, <2>2 DEF AllSorted, Sorted
  <2>3. CASE k = l
    <3>1. \A h \in levels[k] : DB!Precedes(DB!Largest(h), DB!Smallest(new)) \/ DB!Precedes(DB!Largest(new), DB!Smallest(h))
      <4>1. k \in 0..l BY <2>0, <2>3
      <4> QED BY <4>1, <2>0, <2>1, <2>3, <1>2, <1>3, <1>5, FlushedBelowIsForeign
    <3>2. /\ f \in levels[k] \/ f = new
          /\ g \in levels[k] \/ g = new
      BY <2>0, <1>4
    <3> QED BY <3>1, <3>2, <2>2
  <2> QED BY <2>0, <2>2, <2>3, <1>4
<1>15. EntriesOK'
  BY DEF StoreInv, EntriesOK, DB!CompactMemTable
<1>16. SnapshotsOK'
  BY DEF StoreInv, SnapshotsOK, DB!CompactMemTable
<1>17. ManualOK'
  BY DEF StoreInv, ManualOK, DB!CompactMemTable
<1> QED BY <1>7, <1>8, <1>9, <1>10, <1>11, <1>12, <1>13, <1>14, <1>15, <1>16, <1>17 DEF StoreInv
------------------------
(* What begins a compaction. *)

LEMMA LimitIsPositive ==
  ASSUME DB!LevelAssumption, NEW level \in Nat \ {0}
  PROVE  DB!MaxBytesForLevel(level) \in Nat \ {0}
<1> DEFINE n == level - 1
           S == Nat \ {0}
           body(x) == LevelFactor * x
           step == [p \in (1..n) \X S |-> body(p[2])]
           IsLimit(f) == f = [l \in 0..n |-> IF l = 0 THEN LevelOneBytes ELSE body(f[l - 1])]
           limit == CHOOSE f : IsLimit(f)
<1>1. n \in Nat /\ LevelOneBytes \in S /\ LevelFactor \in S
  BY DEF DB!LevelAssumption
<1>2. \A x \in S : body(x) \in S
  <2> SUFFICES ASSUME NEW x \in Nat \ {0}
               PROVE  LevelFactor * x \in Nat \ {0}
    OBVIOUS
  <2>1. PICK k \in Nat : k = LevelFactor - 1
    BY <1>1
  <2>2. LevelFactor * x = k * x + x /\ k * x \in Nat
    BY <2>1, <1>1
  <2> QED BY <2>2
<1>3. step \in [(1..n) \X S -> S]
  <2> HIDE DEF S, n, body
  <2> QED BY <1>2
<1>4. PICK r \in [0 .. n -> S] : r[0] = LevelOneBytes /\ \A m \in 1..n : r[m] = step[<<m, r[m - 1]>>]
  <2> HIDE DEF step, S, n
  <2>1. \E f : IsRecursion(f, n, S, LevelOneBytes, step)
    BY <1>1, <1>3, RecursionOnInterval
  <2> QED BY <2>1 DEF IsRecursion
<1>5. IsLimit(r)
  <2> HIDE DEF n, body, S
  <2>1. ASSUME NEW m \in 0..n PROVE r[m] = IF m = 0 THEN LevelOneBytes ELSE body(r[m - 1])
    <3>1. CASE m = 0
      BY <3>1, <1>4
    <3>2. CASE m # 0
      <4>1. m \in 1 .. n /\ m - 1 \in 0..n
        BY <3>2, <1>1
      <4>2. r[m] = body(r[m - 1]) BY <4>1, <1>4
      <4> QED BY <3>2, <4>2
    <3> QED BY <3>1, <3>2
  <2>2. r = [m \in 0..n |-> r[m]]
    BY <1>4
  <2> QED BY <2>1, <2>2
<1>6. limit = [l \in 0..n |-> IF l = 0 THEN LevelOneBytes ELSE body(limit[l - 1])]
  <2>1. IsLimit(limit)
    <3> HIDE DEF IsLimit
    <3> QED BY <1>5
  <2> QED BY <2>1, Zenon
<1>7. DB!MaxBytesForLevel(level) = limit[n]
  BY DEF DB!MaxBytesForLevel
<1> HIDE DEF n, body, S, limit
<1>8. \A m \in 0..n : limit[m] = IF m = 0 THEN LevelOneBytes ELSE body(limit[m - 1])
  BY <1>6
<1>9. limit[0] \in S
  <2>1. 0 \in 0..n
    BY <1>1
  <2> QED BY <2>1, <1>1, <1>8
<1>10. \A m \in 1..n : limit[m - 1] \in S => limit[m] \in S
  <2> SUFFICES ASSUME NEW m \in 1..n, limit[m - 1] \in S PROVE limit[m] \in S OBVIOUS
  <2>1. m \in 0 .. n /\ m # 0
    BY <1>1
  <2>2. limit[m] = body(limit[m - 1])
    BY <2>1, <1>8, Zenon
  <2> QED BY <2>2, <1>2
<1>11. \A m \in 0..n : limit[m] \in S
  BY <1>1, <1>9, <1>10, StaysInSet
<1>12. n \in 0..n
  BY <1>1
<1> QED BY <1>7, <1>11, <1>12 DEF S

LEMMA CompactionLevelIsTyped ==
  ASSUME DB!LevelAssumption, NEW ls
  PROVE  DB!CompactionLevel(ls) \in 0..NumLevels - 2
<1> DEFINE n == NumLevels - 2
           S == 0..n
           body(l, b) == IF DB!Exceeds(DB!Score(ls, l), DB!Score(ls, b)) THEN l ELSE b
           step == [p \in (1..n) \X S |-> body(p[1], p[2])]
           IsBest(f) == f = [l \in 0..n |-> IF l = 0 THEN 0 ELSE body(l, f[l - 1])]
           best == CHOOSE f : IsBest(f)
<1>1. n \in Nat /\ 0 \in S
  BY DEF DB!LevelAssumption
<1>2. \A l \in 1..n, b \in S : body(l, b) \in S
  BY <1>1
<1>3. step \in [(1..n) \X S -> S]
  <2> HIDE DEF S, n, body
  <2> QED BY <1>2
<1>4. PICK r \in [0 .. n -> S] : r[0] = 0 /\ \A m \in 1..n : r[m] = step[<<m, r[m - 1]>>]
  <2> HIDE DEF step, S, n
  <2>1. \E f : IsRecursion(f, n, S, 0, step)
    BY <1>1, <1>3, RecursionOnInterval
  <2> QED BY <2>1 DEF IsRecursion
<1>5. IsBest(r)
  <2> HIDE DEF n, body, S
  <2>1. ASSUME NEW m \in 0..n PROVE r[m] = IF m = 0 THEN 0 ELSE body(m, r[m - 1])
    <3>1. CASE m = 0
      BY <3>1, <1>4
    <3>2. CASE m # 0
      <4>1. m \in 1 .. n /\ m - 1 \in 0..n
        BY <3>2, <1>1
      <4>2. r[m] = body(m, r[m - 1]) BY <4>1, <1>4
      <4> QED BY <3>2, <4>2
    <3> QED BY <3>1, <3>2
  <2>2. r = [m \in 0..n |-> r[m]]
    BY <1>4
  <2> QED BY <2>1, <2>2
<1>6. best = [l \in 0..n |-> IF l = 0 THEN 0 ELSE body(l, best[l - 1])]
  <2>1. IsBest(best)
    <3> HIDE DEF IsBest
    <3> QED BY <1>5
  <2> QED BY <2>1, Zenon
<1>7. DB!CompactionLevel(ls) = best[n]
  BY DEF DB!CompactionLevel
<1> HIDE DEF n, body, S, best
<1>8. \A m \in 0..n : best[m] = IF m = 0 THEN 0 ELSE body(m, best[m - 1])
  BY <1>6
<1>9. best[0] \in S
  <2>1. 0 \in 0..n
    BY <1>1
  <2> QED BY <2>1, <1>1, <1>8
<1>10. \A m \in 1..n : best[m - 1] \in S => best[m] \in S
  <2> SUFFICES ASSUME NEW m \in 1..n, best[m - 1] \in S PROVE best[m] \in S OBVIOUS
  <2>1. m \in 0 .. n /\ m # 0
    BY <1>1
  <2>2. best[m] = body(m, best[m - 1])
    BY <2>1, <1>8, Zenon
  <2> QED BY <2>2, <1>2
<1>11. \A m \in 0..n : best[m] \in S
  BY <1>1, <1>9, <1>10, StaysInSet
<1>12. n \in 0..n
  BY <1>1
<1> QED BY <1>7, <1>11, <1>12 DEF S, n

\* A level whose score calls for a compaction has a file.
LEMMA FullLevelHasFiles ==
  ASSUME DB!LevelAssumption, NEW ls, DB!SizeCompaction(ls)
  PROVE  ls[DB!CompactionLevel(ls)] # {}
<1>1. PICK l \in 0..NumLevels - 2 : l = DB!CompactionLevel(ls)
  BY CompactionLevelIsTyped
<1>2. DB!Score(ls, l).num >= DB!Score(ls, l).den
  BY <1>1 DEF DB!SizeCompaction, DB!AtLeastOne
<1>3. l \in Nat
  BY DEF DB!LevelAssumption
<1> SUFFICES ASSUME ls[l] = {} PROVE FALSE
  BY <1>1
<1>4. CASE l = 0
  BY <1>2, <1>4, FS_EmptySet, CountsAreTheSame DEF DB!Score, DB!LevelAssumption
<1>5. CASE l # 0
  <2>1. DB!TotalSize(ls[l]) = 0
    <3>1. UNION {f.entries : f \in ls[l]} = {} OBVIOUS
    <3> QED BY <3>1, FS_EmptySet, CountsAreTheSame DEF DB!TotalSize
  <2>2. DB!MaxBytesForLevel(l) \in Nat \ {0}
    BY <1>3, <1>5, LimitIsPositive
  <2> QED BY <2>1, <2>2, <1>2, <1>5 DEF DB!Score
<1> QED BY <1>4, <1>5

LEMMA FileAfterIsOne ==
  ASSUME NEW files, WellFormed(files), files # {}, NEW key
  PROVE  DB!FileAfter(key, files) \in files
<1> DEFINE past == {f \in files : key = Nil \/ DB!Precedes(key, DB!Largest(f))}
<1>1. PICK some : some = IF past = {} THEN files ELSE past OBVIOUS
<1>2. some \subseteq files /\ some # {} /\ WellFormed(some)
  BY <1>1, WellFormedSubset
<1>3. DB!FileAfter(key, files) = DB!FirstFile(some)
  BY <1>1 DEF DB!FileAfter
<1> QED BY <1>2, <1>3, FirstFileIsFirst

LEMMA LimitedTakesSome ==
  ASSUME NEW files, WellFormed(files), files # {}
  PROVE  DB!Limited(files) \subseteq files /\ DB!Limited(files) # {}
<1> DEFINE full == {f \in files : DB!TotalSize(DB!UpTo(f, files)) >= MaxOutputFileSize}
<1>1. CASE full = {}
  BY <1>1 DEF DB!Limited
<1>2. CASE full # {}
  <2>1. full \subseteq files /\ WellFormed(full)
    BY WellFormedSubset
  <2>2. DB!FirstFile(full) \in full
    <3> HIDE DEF full
    <3> QED BY <1>2, <2>1, FirstFileIsFirst
  <2>3. DB!Limited(files) = DB!UpTo(DB!FirstFile(full), files)
    BY <1>2 DEF DB!Limited
  <2> HIDE DEF full
  <2> QED BY <2>1, <2>2, <2>3 DEF DB!UpTo
<1> QED BY <1>1, <1>2

\* What a compaction has when it is set up.
Ready(c, ls) ==
  /\ c.level \in 0..NumLevels - 2
  /\ c.inputs[1] \subseteq ls[c.level] /\ c.inputs[1] # {}
  /\ c.inputs[2] = DB!Touched(ls[c.level + 1], DB!Hull(c.inputs[1]))
  /\ IsFiniteSet(UNION {g.entries : g \in c.grandparents})
  /\ c.level = 0 => NoneIsLeft(ls[0], c.inputs[1])

LEMMA PickedIsReady ==
  ASSUME DB!StoreAssumption, StoreInv, DB!SizeCompaction(levels) \/ toCompact # Nil
  PROVE  Ready(DB!Picked, levels)
<1>1. DB!LevelAssumption /\ Good(levels) /\ \A l \in DB!LevelNumbers : WellFormed(levels[l])
  BY ConstantsAreTyped, FilesAreGood DEF StoreInv
<1>2. PICK p : p = IF DB!SizeCompaction(levels) THEN DB!PickBySize(DB!CompactionLevel(levels))
                   ELSE [level |-> toCompact.level, files |-> {toCompact.file}]
  OBVIOUS
<1>3. p.level \in 0 .. NumLevels - 2 /\ p.files \subseteq levels[p.level] /\ p.files # {}
  <2>1. CASE DB!SizeCompaction(levels)
    <3>1. PICK l \in 0..NumLevels - 2 : l = DB!CompactionLevel(levels)
      BY <1>1, CompactionLevelIsTyped
    <3>2. levels[l] # {} /\ WellFormed(levels[l])
      BY <3>1, <2>1, <1>1, FullLevelHasFiles, ConstantsAreTyped
    <3>3. DB!FileAfter(pointer[l], levels[l]) \in levels[l] BY <3>2, FileAfterIsOne
    <3>4. p.level = l /\ p.files = {DB!FileAfter(pointer[l], levels[l])}
      BY <3>1, <2>1, <1>2 DEF DB!PickBySize
    <3> QED BY <3>3, <3>4
  <2>2. CASE ~DB!SizeCompaction(levels)
    BY <2>2, <1>2 DEF StoreInv, SeekOK
  <2> QED BY <2>1, <2>2
<1>4. PICK picked : picked = IF p.level = 0 THEN DB!GetOverlappingInputs(levels, 0, DB!Hull(p.files)) ELSE p.files
  OBVIOUS
<1>5. 0 \in DB!LevelNumbers /\ p.level \in DB!LevelNumbers /\ WellFormed(p.files)
  BY <1>1, <1>3, ConstantsAreTyped, WellFormedSubset
<1>6. picked \subseteq levels[p.level] /\ picked # {} /\ (p.level = 0 => NoneIsLeft(levels[0], picked))
  <2>1. CASE p.level = 0
    <3>1. PICK f \in p.files : TRUE BY <1>3
    <3>2. IsRange(DB!Hull(p.files)) /\ Covers(DB!Hull(p.files), p.files)
      BY <1>3, <1>5, HullCovers
    <3>3. PICK w : /\ IsRange(w) /\ w.lo <= DB!Hull(p.files).lo /\ DB!Hull(p.files).hi <= w.hi
                   /\ picked = DB!Touched(levels[0], w)
      BY <3>2, <2>1, <1>1, <1>4, <1>5, OverlappingInputs
    <3>4. DB!Overlaps(f, w)
      <4>1. /\ DB!Hull(p.files).lo <= DB!Smallest(f).key /\ DB!Largest(f).key <= DB!Hull(p.files).hi
            /\ DB!Hull(p.files).lo \in Nat /\ DB!Hull(p.files).hi \in Nat /\ w.lo \in Nat /\ w.hi \in Nat
        BY <3>2, <3>3 DEF Covers, IsRange
      <4>2. DB!Smallest(f).key \in Nat /\ DB!Largest(f).key \in Nat /\ DB!Smallest(f).key <= DB!Largest(f).key
        BY <1>5, EndsOfFile DEF Between
      <4> QED BY <4>1, <4>2, <3>3 DEF DB!Overlaps
    <3>5. f \in picked BY <3>3, <3>4, <2>1, <1>3 DEF DB!Touched
    <3>6. NoneIsLeft(levels[0], picked)
      BY <3>2, <2>1, <1>1, <1>4, <1>5, OverlappingInputsAreClosed
    <3> QED BY <3>3, <3>5, <3>6, <2>1 DEF DB!Touched
  <2>2. CASE p.level # 0
    BY <2>2, <1>3, <1>4
  <2> QED BY <2>1, <2>2
<1>7. DB!Picked = DB!SetupOtherInputs(levels, p.level, picked)
  BY <1>2, <1>4 DEF DB!Picked, DB!PickCompaction
<1>8. PICK c : c = DB!Picked OBVIOUS
<1>9. Takes(c, levels, p.level, picked)
  BY <1>1, <1>3, <1>6, <1>7, <1>8, CompactionTakes
<1>10. Ready(c, levels)
  BY <1>3, <1>6, <1>9 DEF Ready, Takes
<1> QED BY <1>8, <1>10

LEMMA RangeIsReady ==
  ASSUME DB!StoreAssumption, StoreInv, manual # Nil,
         NEW inputs, inputs = DB!GetOverlappingInputs(levels, manual.level, manual), inputs # {}
  PROVE  Ready(DB!CompactRange(inputs), levels)
<1>1. DB!LevelAssumption /\ Good(levels) /\ \A l \in DB!LevelNumbers : WellFormed(levels[l])
  BY ConstantsAreTyped, FilesAreGood DEF StoreInv
<1>2. manual.level \in 0 .. NumLevels - 2 /\ IsRange(manual)
  BY DEF StoreInv, ManualOK, ManualRequests, IsRange
<1>3. 0 \in DB!LevelNumbers /\ manual.level \in DB!LevelNumbers /\ manual.level \in Nat
  BY <1>2, ConstantsAreTyped
<1>4. inputs \subseteq levels[manual.level] /\ WellFormed(inputs)
  BY <1>1, <1>2, <1>3, OverlappingInputs, WellFormedSubset
<1>5. PICK picked : picked = IF manual.level = 0 THEN inputs ELSE DB!Limited(inputs)
  OBVIOUS
<1>6. picked \subseteq levels[manual.level] /\ picked # {}
  BY <1>4, <1>5, LimitedTakesSome
<1>7. manual.level = 0 => NoneIsLeft(levels[0], picked)
  BY <1>1, <1>2, <1>3, <1>5, OverlappingInputsAreClosed
<1>8. DB!CompactRange(inputs) = DB!SetupOtherInputs(levels, manual.level, picked)
  BY <1>5 DEF DB!CompactRange
<1>9. PICK c : c = DB!CompactRange(inputs) OBVIOUS
<1>10. Takes(c, levels, manual.level, picked)
  BY <1>1, <1>2, <1>6, <1>8, <1>9, CompactionTakes
<1>11. Ready(c, levels)
  BY <1>2, <1>7, <1>10 DEF Ready, Takes
<1> QED BY <1>9, <1>11

\* A merge begins with inputs no file left out shares a key with.
LEMMA ReadyIsClosed ==
  ASSUME DB!StoreAssumption, StoreInv, ~straddled, NEW c, Ready(c, levels)
  PROVE  MergeIsClosed(c, levels)
<1>1. /\ c.level \in DB!LevelNumbers /\ c.level + 1 \in DB!LevelNumbers /\ c.level \in Nat /\ NumLevels \in Nat
      /\ c.level \in 0..NumLevels - 2
      /\ \A l \in DB!LevelNumbers : WellFormed(levels[l]) /\ \A f \in levels[l] : Between(f)
  BY ConstantsAreTyped, FilesAreGood DEF Ready, StoreInv
<1>2. DB!Apart(levels)
  BY DEF StoreInv, OrderWhileApart
<1>3. /\ c.inputs[1] \subseteq levels[c.level] /\ c.inputs[1] # {} /\ c.inputs[2] \subseteq levels[c.level + 1]
      /\ c.inputs[2] = DB!Touched(levels[c.level + 1], DB!Hull(c.inputs[1]))
  BY DEF Ready, DB!Touched
<1>4. ASSUME NEW f \in levels[c.level] \ c.inputs[1], NEW g \in c.inputs[1]
      PROVE  Foreign(f, g)
  <2>1. ~DB!Overlaps(f, DB!RangeOf(g))
    <3>1. CASE c.level = 0
      BY <3>1 DEF Ready, NoneIsLeft
    <3>2. CASE c.level # 0
      <4>1. c.level \in 1..NumLevels - 1 BY <3>2, <1>1
      <4> QED BY <4>1, <1>2, <1>3 DEF DB!Apart
    <3> QED BY <3>1, <3>2
  <2> QED BY <2>1, <1>1, <1>3, CommonKey
<1>5. ASSUME NEW f \in levels[c.level + 1] \ c.inputs[2], NEW g \in MergeInputs(c)
      PROVE  Foreign(f, g)
  <2>1. CASE g \in c.inputs[1]
    <3>1. WellFormed(c.inputs[1]) BY <1>1, <1>3, WellFormedSubset
    <3>2. IsRange(DB!Hull(c.inputs[1])) /\ Covers(DB!Hull(c.inputs[1]), c.inputs[1])
      BY <3>1, <1>3, HullCovers
    <3>3. ~DB!Overlaps(f, DB!Hull(c.inputs[1])) BY <1>3 DEF DB!Touched
    <3>4. Between(f) /\ Between(g)
      BY <2>1, <1>1, <1>3
    <3>5. ~DB!Overlaps(f, DB!RangeOf(g))
      <4>1. /\ DB!Hull(c.inputs[1]).lo <= DB!Smallest(g).key /\ DB!Largest(g).key <= DB!Hull(c.inputs[1]).hi
            /\ DB!Hull(c.inputs[1]).lo \in Nat /\ DB!Hull(c.inputs[1]).hi \in Nat
        BY <3>2, <2>1 DEF Covers, IsRange
      <4>2. /\ DB!Smallest(f).key \in Nat /\ DB!Largest(f).key \in Nat
            /\ DB!Smallest(g).key \in Nat /\ DB!Largest(g).key \in Nat
        BY <3>4 DEF Between
      <4> QED BY <4>1, <4>2, <3>3 DEF DB!Overlaps, DB!RangeOf
    <3> QED BY <3>4, <3>5, CommonKey
  <2>2. CASE g \in c.inputs[2]
    <3>1. c.level + 1 \in 1..NumLevels - 1 BY <1>1
    <3>2. ~DB!Overlaps(f, DB!RangeOf(g)) BY <3>1, <2>2, <1>2, <1>3 DEF DB!Apart
    <3> QED BY <3>2, <2>2, <1>1, <1>3, CommonKey
  <2> QED BY <2>1, <2>2 DEF MergeInputs
<1>6. \A f \in levels[c.level] \ c.inputs[1], g \in c.inputs[1] : Newer(f, g)
  BY <1>4 DEF Newer, Foreign
<1> QED BY <1>5, <1>6 DEF MergeIsClosed
\* What a step that begins a compaction leaves alone.
RestUnchanged == UNCHANGED <<storeMem, storeImm, storeLast, snapshots, manual, nextFile, written, late>>

\* The file moved overlaps nothing of the level it comes to.
LEMMA TrivialMoveKeeps ==
  ASSUME DB!StoreAssumption, StoreInv, NEW c, Ready(c, levels), work = Nil, DB!TrivialMove(c), RestUnchanged
  PROVE  StoreInv'
<1>1. /\ c.level \in DB!LevelNumbers /\ c.level + 1 \in DB!LevelNumbers /\ c.level \in Nat /\ c.level + 1 \in Nat
      /\ c.level # c.level + 1 /\ c.level + 1 # 0 /\ 0 \in DB!LevelNumbers
      /\ c.inputs[1] \subseteq levels[c.level]
  BY ConstantsAreTyped DEF Ready
<1>2. PICK f0 \in levels[c.level] : /\ c.inputs[1] = {f0}
                                   /\ {} = DB!Touched(levels[c.level + 1], DB!Hull(c.inputs[1]))
  <2>1. Cardinality(c.inputs[1]) = 1 /\ c.inputs[2] = {}
    BY CountsAreTheSame DEF DB!TrivialMove, DB!IsTrivialMove
  <2>2. IsFiniteSet(c.inputs[1])
    BY <1>1, FilesAreGood, FS_Subset DEF StoreInv
  <2>3. \E f : c.inputs[1] = {f}
    BY <2>1, <2>2, FS_Singleton
  <2> QED BY <2>1, <2>3, <1>1 DEF Ready
<1>3. /\ levels' = [k \in DB!LevelNumbers |-> levels'[k]]
      /\ \A k \in DB!LevelNumbers : levels'[k] = IF k = c.level THEN levels[k] \ {f0}
                                          ELSE IF k = c.level + 1 THEN levels[k] \union {f0} ELSE levels[k]
  <2>1. levels' = [levels EXCEPT ![c.level] = @ \ {f0}, ![c.level + 1] = @ \union {f0}]
    BY <1>2 DEF DB!TrivialMove, DB!Install
  <2>2. levels = [k \in DB!LevelNumbers |-> levels[k]]
    BY DEF StoreInv, FilesOK
  <2> QED BY <2>1, <2>2, <1>1
<1>4. /\ toCompact' = Nil /\ straddled' = (straddled \/ ~DB!Apart(levels')) /\ storeImm' = storeImm
      /\ nextFile' = nextFile /\ storeMem' = storeMem /\ storeLast' = storeLast /\ snapshots' = snapshots
      /\ work' = work /\ work = Nil /\ manual' = manual /\ written' = written /\ late' = late
  BY DEF DB!TrivialMove, DB!Install, RestUnchanged
<1>5. FilesOK'
  <2>1. \A k \in DB!LevelNumbers : levels'[k] \subseteq [number : 1..nextFile - 1, entries : (SUBSET written) \ {{}}]
    BY <1>1, <1>2, <1>3 DEF StoreInv, FilesOK
  <2>2. levels' \in [DB!LevelNumbers -> SUBSET [number : 1..nextFile' - 1, entries : (SUBSET written') \ {{}}]]
    <3>1. levels' = [k \in DB!LevelNumbers |-> levels'[k]] /\ nextFile' = nextFile /\ written' = written
      BY <1>3, <1>4
    <3> QED BY <2>1, <3>1
  <2>3. \A k \in DB!LevelNumbers : IsFiniteSet(levels'[k])
    <3>1. \A k \in DB!LevelNumbers : IsFiniteSet(levels[k]) /\ IsFiniteSet(levels[k] \union {f0}) /\ IsFiniteSet(levels[k] \ {f0})
      BY FS_AddElement, FS_RemoveElement DEF StoreInv, FilesOK
    <3> QED BY <3>1, <1>3
  <2>4. ASSUME NEW k \in DB!LevelNumbers, NEW m \in DB!LevelNumbers, NEW f \in levels'[k], NEW g \in levels'[m],
               f.number = g.number
        PROVE  f = g /\ k = m
    <3>1. \A j, n \in DB!LevelNumbers : \A h \in levels[j], i \in levels[n] : h.number = i.number => h = i /\ j = n
      BY DEF StoreInv, FilesOK
    <3>2. CASE f \in levels[k] /\ g \in levels[m]
      BY <3>1, <3>2, <2>4
    <3>3. CASE f = f0 /\ k = c.level + 1
      <4>1. g = f0 BY <3>1, <3>3, <2>4, <1>1, <1>2, <1>3
      <4>2. m # c.level BY <4>1, <1>1, <1>3
      <4>3. m = c.level + 1 BY <3>1, <4>1, <4>2, <1>1, <1>2, <1>3
      <4> QED BY <4>1, <4>3, <3>3
    <3>4. CASE g = f0 /\ m = c.level + 1
      <4>1. f = f0 BY <3>1, <3>4, <2>4, <1>1, <1>2, <1>3
      <4>2. k # c.level BY <4>1, <1>1, <1>3
      <4>3. k = c.level + 1 BY <3>1, <4>1, <4>2, <1>1, <1>2, <1>3
      <4> QED BY <4>1, <4>3, <3>4
    <3>5. /\ f \in levels[k] \/ (f = f0 /\ k = c.level + 1)
          /\ g \in levels[m] \/ (g = f0 /\ m = c.level + 1)
      BY <1>3
    <3> QED BY <3>2, <3>3, <3>4, <3>5
  <2> QED BY <2>2, <2>3, <2>4, <1>4 DEF StoreInv, FilesOK
<1>6. SeekOK'
  BY <1>4 DEF SeekOK
<1>7. WorkOK'
  BY <1>4 DEF WorkOK
<1>8. TimeOrder'
  <2>1. levels'[0] \subseteq levels[0] /\ 0 \in DB!LevelNumbers
    BY <1>1, <1>3
  <2>2. \A k \in DB!LevelNumbers : \A f \in levels'[k] :
          Later(storeMem, f.entries) /\ (storeImm # <<>> => Later(storeImm[1], f.entries))
    BY <1>1, <1>2, <1>3 DEF StoreInv, TimeOrder
  <2> QED BY <2>1, <2>2, <1>4 DEF StoreInv, TimeOrder
<1>9. OrderWhileApart'
  <2> SUFFICES ASSUME ~straddled'
               PROVE  DB!Apart(levels') /\ DB!SmallerLevelsAreNewer'
    BY <1>4 DEF OrderWhileApart
  <2>1. ~straddled /\ DB!Apart(levels')
    BY <1>4
  <2>2. DB!SmallerLevelsAreNewer /\ MergeIsClosed(c, levels)
    BY <2>1, ReadyIsClosed DEF StoreInv, OrderWhileApart
  <2>3. DB!SmallerLevelsAreNewer'
    <3> SUFFICES ASSUME NEW k \in DB!LevelNumbers, NEW m \in DB!LevelNumbers, k < m,
                        NEW f \in levels'[k], NEW g \in levels'[m],
                        NEW e \in f.entries, NEW d \in g.entries, e.key = d.key
                 PROVE  e.seq > d.seq
      BY DEF DB!SmallerLevelsAreNewer
    <3>0. k \in Nat /\ m \in Nat
      BY DEF DB!LevelNumbers
    <3>1. \A j, n \in DB!LevelNumbers : j < n => \A h \in levels[j], i \in levels[n] :
            e \in h.entries /\ d \in i.entries => e.seq > d.seq
      BY <2>2 DEF DB!SmallerLevelsAreNewer
    <3>2. CASE f \in levels[k] /\ g \in levels[m]
      BY <3>1, <3>2
    <3>3. CASE f = f0 /\ k = c.level + 1
      <4>1. g \in levels[m] /\ c.level < m
        BY <3>0, <3>3, <1>1, <1>3
      <4> QED BY <3>1, <3>3, <4>1, <1>1, <1>2
    <3>4. CASE g = f0 /\ m = c.level + 1
      <4>1. f \in levels[k] /\ k <= c.level
        BY <3>0, <3>4, <1>1, <1>3
      <4>2. CASE k < c.level
        BY <3>1, <3>4, <4>1, <4>2, <1>1, <1>2
      <4>3. CASE k = c.level
        <5>1. f \in levels[c.level] \ c.inputs[1] BY <4>1, <4>3, <1>1, <1>2, <1>3
        <5>2. Newer(f, f0) BY <5>1, <2>2, <1>2 DEF MergeIsClosed
        <5> QED BY <5>2, <3>4 DEF Newer
      <4> QED BY <4>1, <4>2, <4>3, <3>0, <1>1
    <3>5. /\ f \in levels[k] \/ (f = f0 /\ k = c.level + 1)
          /\ g \in levels[m] \/ (g = f0 /\ m = c.level + 1)
      BY <1>3
    <3> QED BY <3>2, <3>3, <3>4, <3>5
  <2> QED BY <2>1, <2>3
<1>10. KeptOrDeleted' /\ NothingUnderTheDropped'
  <2>1. \A e \in written : DB!Held(e)' <=> DB!Held(e)
    <3>1. ASSUME NEW e
          PROVE  (\E k \in DB!LevelNumbers : \E f \in levels'[k] : e \in f.entries)
                   <=> (\E k \in DB!LevelNumbers : \E f \in levels[k] : e \in f.entries)
      <4>1. ASSUME NEW k \in DB!LevelNumbers, NEW f \in levels'[k], e \in f.entries
            PROVE  \E m \in DB!LevelNumbers : \E g \in levels[m] : e \in g.entries
        BY <4>1, <1>1, <1>2, <1>3
      <4>2. ASSUME NEW k \in DB!LevelNumbers, NEW f \in levels[k], e \in f.entries
            PROVE  \E m \in DB!LevelNumbers : \E g \in levels'[m] : e \in g.entries
        <5>1. CASE f = f0
          <6>1. f0 \in levels'[c.level + 1] BY <1>1, <1>3
          <6> QED BY <5>1, <6>1, <4>2, <1>1
        <5>2. CASE f # f0
          <6>1. f \in levels'[k] BY <5>2, <1>3
          <6> QED BY <6>1, <4>2
        <5> QED BY <5>1, <5>2
      <4> QED BY <4>1, <4>2
    <3> QED BY <3>1, <1>4 DEF DB!Held
  <2>2. Live' \subseteq Live
    BY <1>4 DEF Live
  <2> QED BY <2>1, <2>2, <1>4, KeptWhileHeld DEF StoreInv
<1>11. DB!OverlapsAreLate'
  <2> SUFFICES ASSUME ~late, NEW k \in 1..NumLevels - 1, NEW f \in levels'[k], NEW g \in levels'[k], f # g
               PROVE  DB!Precedes(DB!Largest(f), DB!Smallest(g)) \/ DB!Precedes(DB!Largest(g), DB!Smallest(f))
    BY <1>4 DEF DB!OverlapsAreLate, DB!LevelsDoNotOverlap
  <2>0. k \in DB!LevelNumbers
    BY ConstantsAreTyped
  <2>1. CASE f \in levels[k] /\ g \in levels[k]
    BY <2>1 DEF StoreInv, DB!OverlapsAreLate, DB!LevelsDoNotOverlap
  <2>2. CASE k = c.level + 1
    <3>1. \A h \in levels[k] : DB!Precedes(DB!Largest(h), DB!Smallest(f0)) \/ DB!Precedes(DB!Largest(f0), DB!Smallest(h))
      <4> SUFFICES ASSUME NEW h \in levels[k]
                   PROVE  DB!Precedes(DB!Largest(h), DB!Smallest(f0)) \/ DB!Precedes(DB!Largest(f0), DB!Smallest(h))
        OBVIOUS
      <4>1. Between(h) /\ Between(f0)
        BY <2>0, <1>1, <1>2, FilesAreGood DEF StoreInv
      <4>2. ~DB!Overlaps(h, DB!RangeOf(f0))
        <5>1. ~DB!Overlaps(h, DB!Hull(c.inputs[1])) BY <2>2, <1>2 DEF DB!Touched
        <5>2. WellFormed({f0})
          BY <1>1, <1>2, FilesAreGood, WellFormedSubset DEF StoreInv
        <5>3. IsRange(DB!Hull({f0})) /\ Covers(DB!Hull({f0}), {f0})
          BY <5>2, HullCovers
        <5>4. /\ DB!Hull({f0}).lo <= DB!Smallest(f0).key /\ DB!Largest(f0).key <= DB!Hull({f0}).hi
              /\ DB!Hull({f0}).lo \in Nat /\ DB!Hull({f0}).hi \in Nat
              /\ DB!Smallest(h).key \in Nat /\ DB!Largest(h).key \in Nat
              /\ DB!Smallest(f0).key \in Nat /\ DB!Largest(f0).key \in Nat
          BY <5>3, <4>1 DEF Covers, IsRange, Between
        <5>5. ~DB!Overlaps(h, DB!Hull({f0})) BY <5>1, <1>2
        <5> QED BY <5>4, <5>5 DEF DB!Overlaps, DB!RangeOf
      <4> QED BY <4>1, <4>2, CommonKey
    <3>2. /\ f \in levels[k] \/ f = f0
          /\ g \in levels[k] \/ g = f0
      BY <2>0, <1>3
    <3> QED BY <3>1, <3>2, <2>1
  <2>3. CASE k # c.level + 1
    <3>1. f \in levels[k] /\ g \in levels[k]
      BY <2>0, <2>3, <1>3
    <3> QED BY <3>1, <2>1
  <2> QED BY <2>2, <2>3
<1>12. EntriesOK'
  BY DEF StoreInv, EntriesOK, DB!TrivialMove, DB!Install, RestUnchanged
<1>13. MemTablesOK'
  BY DEF StoreInv, MemTablesOK, DB!TrivialMove, DB!Install, RestUnchanged
<1>14. SnapshotsOK'
  BY DEF StoreInv, SnapshotsOK, DB!TrivialMove, DB!Install, RestUnchanged
<1>15. ManualOK'
  BY DEF StoreInv, ManualOK, DB!TrivialMove, DB!Install, RestUnchanged
<1> QED BY <1>5, <1>6, <1>7, <1>8, <1>9, <1>10, <1>11, <1>12, <1>13, <1>14, <1>15 DEF StoreInv

\* A merge begins with what the code set up for it.
LEMMA BeginKeeps ==
  ASSUME DB!StoreAssumption, StoreInv, NEW c, Ready(c, levels), NEW byHand, byHand => manual \in ManualRequests, DB!Begin(c, byHand), RestUnchanged
  PROVE  StoreInv'
<1>1. /\ work'.compaction = c /\ work'.byHand = byHand /\ work'.version = levels
      /\ work'.smallestSnapshot = IF snapshots = <<>> THEN storeLast ELSE Head(snapshots)
  BY DEF DB!Begin
<1>2. /\ levels' = levels /\ straddled' = straddled /\ storeLast' = storeLast /\ snapshots' = snapshots /\ manual' = manual
  BY DEF DB!Begin, RestUnchanged
<1>3. WorkOK'
  <2>1. work'.smallestSnapshot \in 0 .. storeLast /\ \A i \in DOMAIN snapshots : work'.smallestSnapshot <= snapshots[i]
    <3>1. /\ storeLast \in Nat /\ snapshots \in Seq(0 .. storeLast) /\ DOMAIN snapshots = 1 .. Len(snapshots) /\ Len(snapshots) \in Nat
          /\ \A i \in DOMAIN snapshots : snapshots[i] \in 0..storeLast
      BY LiveIsTyped DEF StoreInv, SnapshotsOK
    <3>2. CASE snapshots = <<>>
      BY <3>1, <3>2, <1>1
    <3>3. CASE snapshots # <<>>
      <4>1. Len(snapshots) # 0 /\ Head(snapshots) = snapshots[1]
        BY <3>1, <3>3, EmptySeq
      <4>2. 1 \in DOMAIN snapshots /\ \A i \in DOMAIN snapshots : i # 1 => 1 < i
        BY <3>1, <4>1
      <4>3. \A i \in DOMAIN snapshots : snapshots[1] <= snapshots[i]
        BY <3>1, <4>2 DEF StoreInv, SnapshotsOK
      <4> QED BY <3>1, <3>3, <4>1, <4>2, <4>3, <1>1
    <3> QED BY <3>2, <3>3
  <2>2. c.inputs[2] \subseteq levels[c.level + 1]
    BY DEF Ready, DB!Touched
  <2> QED BY <2>1, <2>2, <1>1, <1>2 DEF Ready, WorkOK
<1>4. OrderWhileApart'
  <2> SUFFICES ASSUME ~straddled
               PROVE  /\ DB!Apart(levels) /\ DB!SmallerLevelsAreNewer'
                      /\ MergeIsClosed(work.compaction, work.version)'
    BY <1>2 DEF OrderWhileApart
  <2>1. DB!Apart(levels) /\ DB!SmallerLevelsAreNewer /\ MergeIsClosed(c, levels)
    BY ReadyIsClosed DEF StoreInv, OrderWhileApart
  <2> QED BY <2>1, <1>1, <1>2 DEF DB!SmallerLevelsAreNewer, MergeIsClosed
<1>5. KeptOrDeleted' /\ NothingUnderTheDropped'
  <2>1. \A e \in written : DB!Held(e)' <=> DB!Held(e)
    BY DEF DB!Held, DB!Begin, RestUnchanged
  <2>2. Live' \subseteq Live
    BY DEF Live, DB!Begin, RestUnchanged
  <2> QED BY <2>1, <2>2, KeptWhileHeld DEF StoreInv, DB!Begin, RestUnchanged
<1>6. EntriesOK'
  BY DEF StoreInv, EntriesOK, DB!Begin, RestUnchanged
<1>7. MemTablesOK'
  BY DEF StoreInv, MemTablesOK, DB!Begin, RestUnchanged
<1>8. FilesOK'
  BY DEF StoreInv, FilesOK, DB!Begin, RestUnchanged
<1>9. SnapshotsOK'
  BY DEF StoreInv, SnapshotsOK, DB!Begin, RestUnchanged
<1>10. SeekOK'
  BY DEF StoreInv, SeekOK, DB!Begin, RestUnchanged
<1>11. ManualOK'
  BY DEF StoreInv, ManualOK, DB!Begin, RestUnchanged
<1>12. TimeOrder'
  BY DEF StoreInv, TimeOrder, DB!Begin, RestUnchanged
<1>13. DB!OverlapsAreLate'
  BY DEF StoreInv, DB!OverlapsAreLate, DB!LevelsDoNotOverlap, DB!Begin, RestUnchanged
<1> QED BY <1>3, <1>4, <1>5, <1>6, <1>7, <1>8, <1>9, <1>10, <1>11, <1>12, <1>13 DEF StoreInv

\* The background thread's compaction, moved or begun.
LEMMA CompactKeeps ==
  ASSUME DB!StoreAssumption, StoreInv, DB!Compact
  PROVE  StoreInv'
<1>1. PICK c : c = DB!Picked /\ (DB!TrivialMove(c) \/ DB!Begin(c, FALSE))
  BY DEF DB!Compact
<1>2. Ready(c, levels) /\ work = Nil /\ RestUnchanged
  BY <1>1, PickedIsReady DEF DB!Compact, RestUnchanged
<1>3. CASE DB!TrivialMove(c)
  BY <1>2, <1>3, TrivialMoveKeeps
<1>4. CASE DB!Begin(c, FALSE)
  BY <1>2, <1>4, BeginKeeps
<1> QED BY <1>1, <1>3, <1>4

LEMMA EndOfRequestKeeps ==
  ASSUME DB!StoreAssumption, StoreInv, work = Nil, manual' = Nil,
         UNCHANGED <<levels, toCompact, straddled, work, storeMem, storeImm, storeLast, snapshots, nextFile, written, late>>
  PROVE  StoreInv'
<1>1. ManualOK' /\ WorkOK'
  BY DEF ManualOK, WorkOK
<1>2. EntriesOK'
  BY DEF StoreInv, EntriesOK
<1>3. MemTablesOK'
  BY DEF StoreInv, MemTablesOK
<1>4. FilesOK'
  BY DEF StoreInv, FilesOK
<1>5. SnapshotsOK'
  BY DEF StoreInv, SnapshotsOK
<1>6. SeekOK'
  BY DEF StoreInv, SeekOK
<1>7. TimeOrder'
  BY DEF StoreInv, TimeOrder
<1>8. OrderWhileApart'
  BY DEF StoreInv, OrderWhileApart, DB!SmallerLevelsAreNewer, MergeIsClosed
<1>9. DB!OverlapsAreLate'
  BY DEF StoreInv, DB!OverlapsAreLate, DB!LevelsDoNotOverlap
<1>10. KeptOrDeleted' /\ NothingUnderTheDropped'
  <2>1. \A e \in written : DB!Held(e)' <=> DB!Held(e)
    BY DEF DB!Held
  <2>2. Live' \subseteq Live
    BY DEF Live
  <2> QED BY <2>1, <2>2, KeptWhileHeld DEF StoreInv
<1> QED BY <1>1, <1>2, <1>3, <1>4, <1>5, <1>6, <1>7, <1>8, <1>9, <1>10 DEF StoreInv

\* A part of the requested range, or its end.
LEMMA BeginManualKeeps ==
  ASSUME DB!StoreAssumption, StoreInv, DB!BeginManual
  PROVE  StoreInv'
<1>1. PICK inputs : inputs = DB!GetOverlappingInputs(levels, manual.level, manual)
  OBVIOUS
<1>2. CASE inputs = {}
  BY <1>1, <1>2, EndOfRequestKeeps DEF DB!BeginManual
<1>3. CASE inputs # {}
  <2>1. PICK c : c = DB!CompactRange(inputs) /\ DB!Begin(c, TRUE) /\ manual' = manual
    BY <1>1, <1>3 DEF DB!BeginManual
  <2>2. Ready(c, levels) /\ RestUnchanged /\ manual \in ManualRequests
    BY <1>1, <1>3, <2>1, RangeIsReady DEF DB!BeginManual, RestUnchanged, StoreInv, ManualOK
  <2> QED BY <2>1, <2>2, BeginKeeps
<1> QED BY <1>2, <1>3
------------------------
(* The installation of a merge. *)

\* The tables made of the outputs of a merge.
OutputsOf(files, all) ==
  /\ WellFormed(files) /\ Sorted(files)
  /\ \A f \in files : /\ f.entries \subseteq all /\ f.entries # {} /\ Between(f)
                      /\ f = [number |-> f.number, entries |-> f.entries]

FilesOf(outs, n) == {[number |-> n + i - 1, entries |-> outs[i]] : i \in DOMAIN outs}

LEMMA OutputFiles ==
  ASSUME NEW all, Sortable(all), IsFiniteSet(all), NEW outs, NEW kept, OutputList(outs, all, kept),
         NEW n \in Nat \ {0},
         NEW files, files = FilesOf(outs, n)
  PROVE  /\ OutputsOf(files, all) /\ EntriesOf(files) = kept /\ Len(outs) \in Nat
         /\ \A f \in files : f.number \in n..n + Len(outs) - 1
<1>0. /\ outs \in Seq(SUBSET all)
      /\ UNION {outs[i] : i \in DOMAIN outs} = kept
      /\ \A i \in DOMAIN outs : outs[i] # {}
      /\ \A i, j \in DOMAIN outs : i < j => InOrder(outs[i], outs[j])
  BY DEF OutputList
<1>10. files = {[number |-> n + i - 1, entries |-> outs[i]] : i \in DOMAIN outs}
  BY DEF FilesOf
<1>1. /\ Len(outs) \in Nat /\ DOMAIN outs = 1..Len(outs)
      /\ \A i \in DOMAIN outs : outs[i] \subseteq all
  BY <1>0, LenProperties, ElementOfSeq
<1>2. IsFiniteSet(files)
  <2> DEFINE m == [i \in 1..Len(outs) |-> [number |-> n + i - 1, entries |-> outs[i]]]
  <2>1. m \in Surjection(1..Len(outs), files)
    <3>1. m \in [1..Len(outs) -> files] BY <1>10, <1>1
    <3>2. \A f \in files : \E i \in 1..Len(outs) : m[i] = f BY <1>10, <1>1
    <3> HIDE DEF m
    <3> QED BY <3>1, <3>2 DEF Surjection
  <2>2. IsFiniteSet(1..Len(outs))
    BY <1>1, FS_Interval
  <2> HIDE DEF m
  <2> QED BY <2>1, <2>2, FS_Surjection
<1>3. ASSUME NEW f \in files
      PROVE  \E i \in 1..Len(outs) :
               /\ f.number = n + i - 1 /\ f.entries = outs[i]
               /\ f = [number |-> f.number, entries |-> f.entries]
  BY <1>10, <1>1
<1>4. EntriesOf(files) = UNION {outs[i] : i \in DOMAIN outs}
  <2>1. ASSUME NEW e \in EntriesOf(files) PROVE e \in UNION {outs[i] : i \in DOMAIN outs}
    <3>1. PICK f \in files : e \in f.entries BY DEF EntriesOf
    <3> QED BY <3>1, <1>1, <1>3
  <2>2. ASSUME NEW i \in DOMAIN outs, NEW e \in outs[i] PROVE e \in EntriesOf(files)
    <3>1. PICK f \in files : f = [number |-> n + i - 1, entries |-> outs[i]]
      BY <1>10
    <3> QED BY <3>1 DEF EntriesOf
  <2> QED BY <2>1, <2>2
<1>5. \A f \in files : /\ f.number \in n .. n + Len(outs) - 1 /\ f.number \in Nat
                       /\ f.entries \subseteq all /\ f.entries # {}
                       /\ f = [number |-> f.number, entries |-> f.entries]
  <2> SUFFICES ASSUME NEW f \in files
               PROVE  /\ f.number \in n .. n + Len(outs) - 1 /\ f.number \in Nat
                      /\ f.entries \subseteq all /\ f.entries # {}
                      /\ f = [number |-> f.number, entries |-> f.entries]
    BY <1>0
  <2>1. PICK i \in 1 .. Len(outs) : /\ f.number = n + i - 1 /\ f.entries = outs[i]
                                    /\ f = [number |-> f.number, entries |-> f.entries]
    BY <1>3
  <2> QED BY <2>1, <1>0, <1>1
<1>6. \A f, g \in files : f.number = g.number => f = g
  <2> SUFFICES ASSUME NEW f \in files, NEW g \in files, f.number = g.number
               PROVE  f.entries = g.entries
    BY <1>5
  <2>1. PICK i \in 1 .. Len(outs) : f.number = n + i - 1 /\ f.entries = outs[i]
    BY <1>3
  <2>2. PICK j \in 1 .. Len(outs) : g.number = n + j - 1 /\ g.entries = outs[j]
    BY <1>3
  <2>3. i = j
    <3>1. n + i - 1 = n + j - 1 BY <2>1, <2>2
    <3>2. i \in Nat /\ j \in Nat /\ n \in Nat
      BY <1>1
    <3> QED BY <3>1, <3>2
  <2> QED BY <2>1, <2>2, <2>3
<1>7. WellFormed(files)
  <2>1. EntriesOf(files) \subseteq all
    BY <1>5 DEF EntriesOf
  <2>2. \A f \in files : IsFiniteSet(f.entries)
    BY <1>5, FS_Subset
  <2> QED BY <2>1, <2>2, <1>2, <1>5, <1>6, SortableSubset DEF WellFormed
<1>8. \A f \in files : Between(f)
  BY <1>7, EndsOfFile
<1>9. Sorted(files)
  <2> SUFFICES ASSUME NEW f \in files, NEW g \in files, f # g
               PROVE  DB!Precedes(DB!Largest(f), DB!Smallest(g)) \/ DB!Precedes(DB!Largest(g), DB!Smallest(f))
    BY DEF Sorted
  <2>1. PICK i \in 1 .. Len(outs) : f.number = n + i - 1 /\ f.entries = outs[i]
    BY <1>3
  <2>2. PICK j \in 1 .. Len(outs) : g.number = n + j - 1 /\ g.entries = outs[j]
    BY <1>3
  <2>3. i # j
    BY <2>1, <2>2, <1>6
  <2>4. InOrder(f.entries, g.entries) \/ InOrder(g.entries, f.entries)
    <3>1. i < j \/ j < i
      BY <2>3, <1>1
    <3> QED BY <3>1, <2>1, <2>2, <1>0, <1>1
  <2>5. /\ DB!Smallest(f) \in f.entries /\ DB!Largest(f) \in f.entries
        /\ DB!Smallest(g) \in g.entries /\ DB!Largest(g) \in g.entries
    BY <1>8 DEF Between
  <2> QED BY <2>4, <2>5 DEF InOrder
<1> QED BY <1>0, <1>1, <1>4, <1>5, <1>7, <1>8, <1>9 DEF OutputsOf

\* What the merge in progress takes in.
Taken == EntriesOf(MergeInputs(work.compaction))

LEMMA WorkIsMergeable ==
  ASSUME DB!StoreAssumption, StoreInv, work # Nil
  PROVE  /\ Mergeable(work, Taken) /\ Taken \subseteq written
         /\ \A e \in Taken : \E f \in MergeInputs(work.compaction) : e \in f.entries
<1>1. /\ work.compaction.level \in DB!LevelNumbers /\ work.compaction.level + 1 \in DB!LevelNumbers
      /\ work.compaction.inputs[1] \subseteq levels[work.compaction.level]
      /\ work.compaction.inputs[2] \subseteq levels[work.compaction.level + 1]
  BY ConstantsAreTyped DEF StoreInv, WorkOK
<1>2. \A f \in MergeInputs(work.compaction) : f.entries \subseteq written
  BY <1>1, FilesAreGood DEF StoreInv, MergeInputs
<1>3. Taken \subseteq written
  BY <1>2 DEF Taken, EntriesOf
<1>4. Sortable(Taken) /\ IsFiniteSet(Taken) /\ \A e \in Taken : e.key # 0
  BY <1>3, WrittenIsSortable, SortableSubset, FS_Subset DEF StoreInv
<1>5. /\ work.smallestSnapshot \in Nat /\ MaxSequenceNumber \in Nat
      /\ work.smallestSnapshot < MaxSequenceNumber
  <2>1. work.smallestSnapshot \in 0 .. storeLast /\ storeLast \in 0..StoreMaxWrites
    BY DEF StoreInv, WorkOK, EntriesOK
  <2> QED BY <2>1, ConstantsAreTyped
<1>6. IsFiniteSet(UNION {g.entries : g \in work.compaction.grandparents})
  BY DEF StoreInv, WorkOK
<1>7. \A e \in Taken : \E f \in MergeInputs(work.compaction) : e \in f.entries
  BY DEF Taken, EntriesOf
<1> QED BY <1>3, <1>4, <1>5, <1>6, <1>7 DEF Mergeable

\* What the end of a merge makes of the levels.
Installed(c, files) ==
  /\ levels' = [k \in DB!LevelNumbers |-> levels'[k]]
  /\ \A k \in DB!LevelNumbers : levels'[k] =
       IF k = c.level THEN levels[k] \ c.inputs[1]
       ELSE IF k = c.level + 1 THEN (levels[k] \ c.inputs[2]) \union files ELSE levels[k]
  /\ toCompact' = Nil /\ straddled' = (straddled \/ ~DB!Apart(levels')) /\ work' = Nil
  /\ nextFile \in Nat \ {0} /\ nextFile' \in Nat \ {0} /\ nextFile <= nextFile'
  /\ \A f \in files : f.number \in nextFile..nextFile' - 1
  /\ storeImm' = storeImm /\ storeMem' = storeMem /\ storeLast' = storeLast /\ snapshots' = snapshots /\ written' = written
  /\ late' = (late \/ levels[c.level + 1] # work.version[c.level + 1])

LEMMA FinishInstalls ==
  ASSUME DB!StoreAssumption, StoreInv, DB!FinishCompaction
  PROVE  \E files : /\ Installed(work.compaction, files) /\ OutputsOf(files, Taken)
                    /\ EntriesOf(files) = Kept(work, Taken)
<1>1. /\ Mergeable(work, Taken) /\ work # Nil
  BY WorkIsMergeable DEF DB!FinishCompaction
<1>2. PICK outs : outs = DB!Outputs(work) OBVIOUS
<1>3. PICK all : all = Taken OBVIOUS
<1>4. OutputList(outs, all, Kept(work, all))
  <2>1. all = UNION {f.entries : f \in work.compaction.inputs[1] \union work.compaction.inputs[2]}
    BY <1>3 DEF Taken, EntriesOf, MergeInputs
  <2> QED BY <2>1, <1>1, <1>2, <1>3, OutputsAreRight
<1>5. nextFile \in Nat \ {0} /\ Sortable(all) /\ IsFiniteSet(all)
  BY <1>1, <1>3 DEF StoreInv, FilesOK, Mergeable
<1>6. PICK files : files = FilesOf(outs, nextFile) OBVIOUS
<1>7. /\ OutputsOf(files, all) /\ EntriesOf(files) = Kept(work, all) /\ Len(outs) \in Nat
      /\ \A f \in files : f.number \in nextFile..nextFile + Len(outs) - 1
  BY <1>4, <1>5, <1>6, OutputFiles
<1>8. /\ levels' = [levels EXCEPT ![work.compaction.level] = @ \ work.compaction.inputs[1],
                                  ![work.compaction.level + 1] = (@ \ work.compaction.inputs[2]) \union files]
      /\ toCompact' = Nil /\ straddled' = (straddled \/ ~DB!Apart(levels'))
      /\ nextFile' = nextFile + Len(outs)
  BY <1>2, <1>6 DEF DB!FinishCompaction, DB!InstallCompactionResults, DB!Install, FilesOf
<1>9. /\ work.compaction.level \in DB!LevelNumbers /\ work.compaction.level + 1 \in DB!LevelNumbers
      /\ work.compaction.level \in Nat
  BY <1>1, ConstantsAreTyped DEF StoreInv, WorkOK
<1>10. Installed(work.compaction, files)
  <2>1. levels = [k \in DB!LevelNumbers |-> levels[k]]
    BY DEF StoreInv, FilesOK
  <2>2. /\ levels' = [k \in DB!LevelNumbers |-> levels'[k]]
        /\ \A k \in DB!LevelNumbers : levels'[k] =
             IF k = work.compaction.level THEN levels[k] \ work.compaction.inputs[1]
             ELSE IF k = work.compaction.level + 1
             THEN (levels[k] \ work.compaction.inputs[2]) \union files ELSE levels[k]
    <3>1. PICK l \in DB!LevelNumbers : l = work.compaction.level BY <1>9
    <3>2. PICK i : i = work.compaction.inputs OBVIOUS
    <3>3. levels' = [levels EXCEPT ![l] = @ \ i[1], ![l + 1] = (@ \ i[2]) \union files]
      BY <3>1, <3>2, <1>8
    <3>4. /\ levels' = [k \in DB!LevelNumbers |-> levels'[k]]
          /\ \A k \in DB!LevelNumbers : levels'[k] =
               IF k = l THEN levels[k] \ i[1]
               ELSE IF k = l + 1 THEN (levels[k] \ i[2]) \union files ELSE levels[k]
      <4>1. l \in Nat /\ l + 1 \in DB!LevelNumbers /\ l # l + 1
        BY <3>1, <1>9
      <4>2. PICK a : a = levels[l] \ i[1] OBVIOUS
      <4>3. PICK b : b = (levels[l + 1] \ i[2]) \union files OBVIOUS
      <4>4. levels' = [levels EXCEPT ![l] = a, ![l + 1] = b]
        BY <4>1, <4>2, <4>3, <2>1, <3>3
      <4> QED BY <4>1, <4>2, <4>3, <4>4, <2>1
    <3> QED BY <3>1, <3>2, <3>4
  <2>3. /\ nextFile' \in Nat \ {0} /\ nextFile <= nextFile'
        /\ \A f \in files : f.number \in nextFile..nextFile' - 1
    BY <1>5, <1>7, <1>8
  <2>4. /\ storeImm' = storeImm /\ storeMem' = storeMem /\ storeLast' = storeLast /\ snapshots' = snapshots /\ written' = written /\ work' = Nil
        /\ late' = (late \/ levels[work.compaction.level + 1] # work.version[work.compaction.level + 1])
    BY DEF DB!FinishCompaction
  <2> QED BY <2>2, <2>3, <2>4, <1>5, <1>8 DEF Installed
<1> QED BY <1>3, <1>7, <1>10
LEMMA WorkFacts ==
  ASSUME DB!StoreAssumption, StoreInv, work # Nil, NEW c, c = work.compaction
  PROVE  /\ c.level \in DB!LevelNumbers /\ c.level + 1 \in DB!LevelNumbers /\ c.level \in Nat /\ c.level + 1 \in Nat
         /\ c.level + 1 # 0 /\ c.level # c.level + 1 /\ NumLevels \in Nat
         /\ c.inputs[1] \subseteq levels[c.level] /\ c.inputs[1] # {}
         /\ c.inputs[2] \subseteq levels[c.level + 1]
         /\ c.inputs[2] = DB!Touched(work.version[c.level + 1], DB!Hull(c.inputs[1]))
         /\ \A e \in Taken : \E f \in c.inputs[1] \union c.inputs[2] : e \in f.entries
BY ConstantsAreTyped, WorkIsMergeable DEF StoreInv, WorkOK, MergeInputs

\* Which files there are: new ones with new numbers, at one level.
LEMMA InstalledFiles ==
  ASSUME DB!StoreAssumption, StoreInv, work # Nil, NEW c, c = work.compaction,
         NEW files, Installed(c, files), OutputsOf(files, Taken)
  PROVE  FilesOK'
<1>1. /\ c.level \in DB!LevelNumbers /\ c.level + 1 \in DB!LevelNumbers /\ c.level # c.level + 1
      /\ nextFile \in Nat \ {0} /\ nextFile' \in Nat \ {0} /\ nextFile <= nextFile' /\ written' = written
      /\ levels' = [k \in DB!LevelNumbers |-> levels'[k]]
      /\ \A f \in files : f.number \in nextFile..nextFile' - 1
  BY WorkFacts DEF Installed
<1>2. \A k \in DB!LevelNumbers : \A f \in levels'[k] : f \in levels[k] \/ (f \in files /\ k = c.level + 1)
  BY DEF Installed
<1>3. \A k \in DB!LevelNumbers : levels'[k] \subseteq [number : 1..nextFile' - 1, entries : (SUBSET written) \ {{}}]
  <2> SUFFICES ASSUME NEW k \in DB!LevelNumbers, NEW f \in levels'[k]
               PROVE  f \in [number : 1..nextFile' - 1, entries : (SUBSET written) \ {{}}]
    OBVIOUS
  <2>1. CASE f \in levels[k]
    <3>1. f \in [number : 1..nextFile - 1, entries : (SUBSET written) \ {{}}]
      BY <2>1 DEF StoreInv, FilesOK
    <3>2. 1..nextFile - 1 \subseteq 1..nextFile' - 1 BY <1>1
    <3> QED BY <3>1, <3>2
  <2>2. CASE f \in files
    <3>1. /\ f.number \in 1 .. nextFile' - 1 /\ f.entries \subseteq Taken /\ f.entries # {}
          /\ f = [number |-> f.number, entries |-> f.entries]
      BY <2>2, <1>1 DEF OutputsOf
    <3>2. Taken \subseteq written BY WorkIsMergeable
    <3> QED BY <3>1, <3>2
  <2> QED BY <2>1, <2>2, <1>2
<1>4. levels' \in [DB!LevelNumbers -> SUBSET [number : 1..nextFile' - 1, entries : (SUBSET written') \ {{}}]]
  BY <1>1, <1>3
<1>5. \A k \in DB!LevelNumbers : IsFiniteSet(levels'[k])
  <2> SUFFICES ASSUME NEW k \in DB!LevelNumbers
               PROVE  IsFiniteSet(levels'[k])
    OBVIOUS
  <2>1. IsFiniteSet(levels[k]) /\ IsFiniteSet(files)
    BY DEF StoreInv, FilesOK, OutputsOf, WellFormed
  <2>2. IsFiniteSet(levels[k] \union files)
    BY <2>1, FS_Union
  <2>3. levels'[k] \subseteq levels[k] \union files
    BY <1>2
  <2> QED BY <2>2, <2>3, FS_Subset
<1>6. ASSUME NEW k \in DB!LevelNumbers, NEW m \in DB!LevelNumbers, NEW f \in levels'[k], NEW g \in levels'[m],
             f.number = g.number
      PROVE  f = g /\ k = m
  <2>1. /\ f \in levels[k] => f.number \in Nat /\ f.number < nextFile
        /\ g \in levels[m] => g.number \in Nat /\ g.number < nextFile
    BY FilesAreGood DEF StoreInv
  <2>2. /\ f \in files => f.number \in Nat /\ f.number >= nextFile
        /\ g \in files => g.number \in Nat /\ g.number >= nextFile
    BY <1>1
  <2>3. CASE f \in levels[k] /\ g \in levels[m]
    BY <2>3, <1>6 DEF StoreInv, FilesOK
  <2>4. CASE f \in files /\ k = c.level + 1 /\ g \in files /\ m = c.level + 1
    BY <2>4, <1>6 DEF OutputsOf, WellFormed
  <2> QED BY <2>1, <2>2, <2>3, <2>4, <1>1, <1>2, <1>6
<1> QED BY <1>1, <1>4, <1>5, <1>6 DEF FilesOK

LEMMA InstalledOrder ==
  ASSUME DB!StoreAssumption, StoreInv, work # Nil, NEW c, c = work.compaction,
         NEW files, Installed(c, files), OutputsOf(files, Taken)
  PROVE  TimeOrder' /\ OrderWhileApart'
<1>0. \A e \in Taken : \E f \in c.inputs[1] \union c.inputs[2] : e \in f.entries
  BY WorkFacts
<1>1. /\ c.level \in DB!LevelNumbers /\ c.level + 1 \in DB!LevelNumbers /\ c.level \in Nat /\ c.level + 1 \in Nat
      /\ c.level + 1 # 0 /\ c.level # c.level + 1
      /\ c.inputs[1] \subseteq levels[c.level] /\ c.inputs[2] \subseteq levels[c.level + 1]
  BY WorkFacts
<1>2. /\ \A k \in DB!LevelNumbers : \A f \in levels'[k] : f \in levels[k] \/ (f \in files /\ k = c.level + 1)
      /\ levels'[c.level] = levels[c.level] \ c.inputs[1] /\ levels'[0] \subseteq levels[0] /\ 0 \in DB!LevelNumbers
  BY <1>1, ConstantsAreTyped DEF Installed
<1>3. /\ storeMem' = storeMem /\ storeImm' = storeImm /\ work' = Nil /\ straddled' = (straddled \/ ~DB!Apart(levels'))
  BY DEF Installed
<1>4. \A f \in files : f.entries \subseteq Taken
  BY DEF OutputsOf
<1>5. TimeOrder'
  <2>1. \A k \in DB!LevelNumbers : \A f \in levels'[k] :
          Later(storeMem, f.entries) /\ (storeImm # <<>> => Later(storeImm[1], f.entries))
    <3> SUFFICES ASSUME NEW k \in DB!LevelNumbers, NEW f \in levels'[k]
                 PROVE  Later(storeMem, f.entries) /\ (storeImm # <<>> => Later(storeImm[1], f.entries))
      OBVIOUS
    <3>1. CASE f \in levels[k]
      BY <3>1 DEF StoreInv, TimeOrder
    <3>2. CASE f \in files
      <4>1. \A d \in Taken : \E m \in DB!LevelNumbers : \E g \in levels[m] : d \in g.entries
        BY <1>0, <1>1
      <4>2. \A d \in Taken : (\A e \in storeMem : e.seq > d.seq) /\ (storeImm # <<>> => \A e \in storeImm[1] : e.seq > d.seq)
        BY <4>1 DEF StoreInv, TimeOrder, Later
      <4> QED BY <4>2, <3>2, <1>4 DEF Later
    <3> QED BY <3>1, <3>2, <1>2
  <2> QED BY <2>1, <1>2, <1>3 DEF StoreInv, TimeOrder
<1>6. OrderWhileApart'
  <2> SUFFICES ASSUME ~straddled'
               PROVE  DB!Apart(levels') /\ DB!SmallerLevelsAreNewer'
    BY <1>3 DEF OrderWhileApart
  <2>1. ~straddled /\ DB!Apart(levels')
    BY <1>3
  <2>2. DB!SmallerLevelsAreNewer /\ \A f \in levels[c.level] \ c.inputs[1], g \in c.inputs[1] : Newer(f, g)
    BY <2>1 DEF StoreInv, OrderWhileApart, MergeIsClosed
  <2>3. DB!SmallerLevelsAreNewer'
    <3> SUFFICES ASSUME NEW k \in DB!LevelNumbers, NEW m \in DB!LevelNumbers, k < m,
                        NEW f \in levels'[k], NEW g \in levels'[m],
                        NEW e \in f.entries, NEW d \in g.entries, e.key = d.key
                 PROVE  e.seq > d.seq
      BY DEF DB!SmallerLevelsAreNewer
    <3>0. k \in Nat /\ m \in Nat
      BY DEF DB!LevelNumbers
    <3>1. \A j, n \in DB!LevelNumbers : j < n => \A h \in levels[j], i \in levels[n] :
            e \in h.entries /\ d \in i.entries => e.seq > d.seq
      BY <2>2 DEF DB!SmallerLevelsAreNewer
    <3>2. CASE f \in levels[k] /\ g \in levels[m]
      BY <3>1, <3>2
    <3>3. CASE f \in files /\ k = c.level + 1
      <4>1. g \in levels[m] /\ c.level < m
        BY <3>0, <3>3, <1>1, <1>2
      <4>2. PICK h \in c.inputs[1] \union c.inputs[2] : e \in h.entries
        BY <3>3, <1>0, <1>4
      <4>3. PICK j \in DB!LevelNumbers : h \in levels[j] /\ j < m
        BY <4>1, <4>2, <3>0, <3>3, <1>1
      <4> QED BY <3>1, <4>1, <4>2, <4>3
    <3>4. CASE g \in files /\ m = c.level + 1
      <4>1. f \in levels[k] /\ k <= c.level
        BY <3>0, <3>4, <1>1, <1>2
      <4>2. PICK h \in c.inputs[1] \union c.inputs[2] : d \in h.entries
        BY <3>4, <1>0, <1>4
      <4>3. CASE h \in c.inputs[2]
        BY <3>1, <3>4, <4>1, <4>2, <4>3, <1>1
      <4>4. CASE h \in c.inputs[1] /\ k < c.level
        BY <3>1, <4>1, <4>2, <4>4, <1>1
      <4>5. CASE h \in c.inputs[1] /\ k = c.level
        <5>1. Newer(f, h) BY <4>1, <4>5, <2>2, <1>2
        <5> QED BY <5>1, <4>2 DEF Newer
      <4> QED BY <4>1, <4>2, <4>3, <4>4, <4>5, <3>0, <1>1
    <3>5. /\ f \in levels[k] \/ (f \in files /\ k = c.level + 1)
          /\ g \in levels[m] \/ (g \in files /\ m = c.level + 1)
      BY <1>2
    <3> QED BY <3>2, <3>3, <3>4, <3>5
  <2> QED BY <2>1, <2>3
<1> QED BY <1>5, <1>6
\* What is held after the installation: all but the entries the merge dropped.
LEMMA InstalledIsHeld ==
  ASSUME DB!StoreAssumption, StoreInv, work # Nil, NEW c, c = work.compaction,
         NEW files, Installed(c, files), OutputsOf(files, Taken), EntriesOf(files) = Kept(work, Taken)
  PROVE  /\ \A e : DB!Held(e)' => DB!Held(e)
         /\ \A e : DB!Held(e) /\ ~DB!Held(e)' => e \in Taken /\ e \notin Kept(work, Taken)
<1>0. \A e \in Taken : \E f \in c.inputs[1] \union c.inputs[2] : e \in f.entries
  BY WorkFacts
<1>1. /\ c.level \in DB!LevelNumbers /\ c.level + 1 \in DB!LevelNumbers /\ c.level # c.level + 1
      /\ c.inputs[1] \subseteq levels[c.level] /\ c.inputs[2] \subseteq levels[c.level + 1]
  BY WorkFacts
<1>2. /\ storeMem' = storeMem /\ storeImm' = storeImm
      /\ \A k \in DB!LevelNumbers : levels'[k] =
           IF k = c.level THEN levels[k] \ c.inputs[1]
           ELSE IF k = c.level + 1 THEN (levels[k] \ c.inputs[2]) \union files ELSE levels[k]
  BY DEF Installed
<1>3. /\ \A f \in files : f.entries \subseteq Taken
      /\ \A e \in Kept(work, Taken) : \E f \in files : e \in f.entries
  BY DEF OutputsOf, EntriesOf
<1>4. ASSUME NEW e, NEW k \in DB!LevelNumbers, NEW f \in levels'[k], e \in f.entries
      PROVE  \E m \in DB!LevelNumbers : \E g \in levels[m] : e \in g.entries
  <2>1. CASE f \in levels[k]
    BY <2>1, <1>4
  <2>2. CASE f \in files
    BY <2>2, <1>0, <1>1, <1>3, <1>4
  <2> QED BY <2>1, <2>2, <1>2
<1>5. ASSUME NEW e, NEW k \in DB!LevelNumbers, NEW f \in levels[k], e \in f.entries,
             ~\E m \in DB!LevelNumbers : \E g \in levels'[m] : e \in g.entries
      PROVE  e \in Taken /\ e \notin Kept(work, Taken)
  <2>1. f \notin levels'[k]
    BY <1>5
  <2>2. f \in c.inputs[1] \/ f \in c.inputs[2]
    BY <2>1, <1>2
  <2>3. e \in Taken
    BY <2>2, <1>5 DEF Taken, EntriesOf, MergeInputs
  <2>4. files \subseteq levels'[c.level + 1]
    BY <1>1, <1>2
  <2>5. e \notin Kept(work, Taken)
    BY <2>4, <1>1, <1>3, <1>5
  <2> QED BY <2>3, <2>5
<1>6. \A e : DB!Held(e)' => DB!Held(e)
  BY <1>2, <1>4 DEF DB!Held
<1>7. \A e : DB!Held(e) /\ ~DB!Held(e)' => e \in Taken /\ e \notin Kept(work, Taken)
  BY <1>2, <1>5 DEF DB!Held
<1> QED BY <1>6, <1>7

\* An entry that a live snapshot asks for is dropped only as a deletion with nothing under it.
LEMMA DroppedIsDone ==
  ASSUME DB!StoreAssumption, StoreInv, work # Nil, NEW s \in Live, NEW e \in written,
         e \in DB!Found(written, e.key, s), e \in Taken, e \notin Kept(work, Taken)
  PROVE  Done(work, e)
<1>1. s \in Nat /\ Live \subseteq Nat
  BY LiveIsTyped DEF StoreInv
<1>2. work.smallestSnapshot <= s
  <2>1. work.smallestSnapshot <= storeLast /\ \A i \in DOMAIN snapshots : work.smallestSnapshot <= snapshots[i]
    <3>1. work.smallestSnapshot \in 0 .. storeLast /\ storeLast \in Nat
      BY LiveIsTyped DEF StoreInv, WorkOK
    <3> QED BY <3>1 DEF StoreInv, WorkOK
  <2> QED BY <2>1 DEF Live, DB!ToSet
<1>3. work.smallestSnapshot \in Nat /\ Taken \subseteq written
  BY WorkIsMergeable DEF Mergeable
<1>4. \A d \in written : d.key = e.key /\ d.seq <= s => d.seq <= e.seq
  BY <1>1, WrittenIsSortable, FoundIsNewest DEF StoreInv
<1>5. ~Shadowed(work, Taken, e)
  <2> SUFFICES ASSUME NEW d \in Taken, d.key = e.key, d.seq > e.seq, d.seq <= work.smallestSnapshot
               PROVE  FALSE
    BY DEF Shadowed
  <2>1. d \in written /\ d.seq \in Nat /\ e.seq \in Nat
    BY <1>3, WrittenIsSortable DEF StoreInv
  <2> QED BY <2>1, <1>1, <1>2, <1>3, <1>4
<1> QED BY <1>5 DEF Kept

LEMMA InstalledIsKept ==
  ASSUME DB!StoreAssumption, StoreInv, work # Nil, NEW c, c = work.compaction,
         NEW files, Installed(c, files), OutputsOf(files, Taken), EntriesOf(files) = Kept(work, Taken)
  PROVE  KeptOrDeleted' /\ NothingUnderTheDropped'
<1>1. /\ \A e : DB!Held(e)' => DB!Held(e)
      /\ \A e : DB!Held(e) /\ ~DB!Held(e)' => e \in Taken /\ e \notin Kept(work, Taken)
  BY InstalledIsHeld
<1>2. Live' = Live /\ written' = written /\ straddled' = (straddled \/ ~DB!Apart(levels'))
  BY DEF Installed, Live
<1>3. KeptOrDeleted'
  <2> SUFFICES ASSUME NEW s \in Live, NEW e \in written, e \in DB!Found(written, e.key, s)
               PROVE  DB!Held(e)' \/ e.type = "Deletion"
    BY <1>2 DEF KeptOrDeleted
  <2>1. CASE ~DB!Held(e)
    BY <2>1 DEF StoreInv, KeptOrDeleted
  <2>2. CASE DB!Held(e) /\ ~DB!Held(e)'
    <3>1. Done(work, e) BY <2>2, <1>1, DroppedIsDone
    <3> QED BY <3>1 DEF Done
  <2> QED BY <2>1, <2>2
<1>4. NothingUnderTheDropped'
  <2> SUFFICES ASSUME ~straddled', NEW s \in Live, NEW e \in written, e \in DB!Found(written, e.key, s), ~DB!Held(e)',
                      NEW d \in written, d.key = e.key, d.seq < e.seq, DB!Held(d)'
               PROVE  FALSE
    BY <1>2 DEF NothingUnderTheDropped
  <2>1. ~straddled
    BY <1>2
  <2>2. DB!Held(d)
    BY <1>1
  <2>3. DB!Held(e)
    BY <2>1, <2>2 DEF StoreInv, NothingUnderTheDropped
  <2>4. e \in Taken /\ e \notin Kept(work, Taken) /\ Done(work, e)
    BY <2>3, <1>1, DroppedIsDone
  <2>5. PICK h \in c.inputs[1] \union c.inputs[2] : e \in h.entries
    BY <2>4, WorkFacts
  <2>6. /\ c.level \in DB!LevelNumbers /\ c.level + 1 \in DB!LevelNumbers /\ c.level \in Nat /\ c.level + 1 \in Nat
        /\ c.level # c.level + 1 /\ NumLevels \in Nat
        /\ c.inputs[1] \subseteq levels[c.level] /\ c.inputs[2] \subseteq levels[c.level + 1]
    BY WorkFacts
  <2>7. PICK j \in DB!LevelNumbers : h \in levels[j] /\ (j = c.level \/ j = c.level + 1)
    BY <2>6
  <2>8. e.seq \in Nat /\ d.seq \in Nat
    BY WrittenIsSortable DEF StoreInv
  <2>9. d \notin storeMem /\ ~(storeImm # <<>> /\ d \in storeImm[1])
    BY <2>5, <2>7, <2>8 DEF StoreInv, TimeOrder, Later
  <2>10. PICK k \in DB!LevelNumbers : \E f \in levels'[k] : d \in f.entries
    BY <2>9 DEF DB!Held, Installed
  <2>11. PICK f \in levels'[k] : d \in f.entries
    BY <2>10
  <2>12. k \in Nat /\ DB!SmallerLevelsAreNewer /\ MergeIsClosed(c, work.version)
    BY <2>1 DEF StoreInv, OrderWhileApart, DB!LevelNumbers
  <2>13. CASE f \in files /\ k = c.level + 1
    <3>1. d \in Kept(work, Taken) BY <2>11, <2>13 DEF EntriesOf
    <3>2. Shadowed(work, Taken, d)
      <4>1. e.seq <= work.smallestSnapshot BY <2>4 DEF Done
      <4> QED BY <4>1, <2>4, <2>8 DEF Shadowed
    <3> QED BY <3>1, <3>2 DEF Kept
  <2>14. CASE f \in levels[k] /\ k < j
    BY <2>5, <2>7, <2>8, <2>11, <2>12, <2>14 DEF DB!SmallerLevelsAreNewer
  <2>15. CASE f \in levels[k] /\ k = c.level
    <3>1. f \in levels[c.level] \ c.inputs[1] BY <2>6, <2>15 DEF Installed
    <3>2. CASE h \in c.inputs[1]
      <4>1. Newer(f, h) BY <3>1, <3>2, <2>12 DEF MergeIsClosed
      <4> QED BY <4>1, <2>5, <2>8, <2>11 DEF Newer
    <3>3. CASE h \in c.inputs[2]
      <4>1. h \in levels[c.level + 1] /\ c.level < c.level + 1
        BY <3>3, <2>6
      <4> QED BY <4>1, <3>1, <2>5, <2>6, <2>8, <2>11, <2>12 DEF DB!SmallerLevelsAreNewer
    <3> QED BY <3>2, <3>3, <2>5
  <2>16. CASE f \in levels[k] /\ k = c.level + 1 /\ f \notin files
    <3>1. f \in levels[c.level + 1] \ c.inputs[2] BY <2>6, <2>16 DEF Installed
    <3>2. Foreign(f, h) BY <3>1, <2>5, <2>12 DEF MergeIsClosed, MergeInputs
    <3> QED BY <3>2, <2>5, <2>11 DEF Foreign
  <2>17. CASE f \in levels[k] /\ k > c.level + 1
    <3>1. k \in c.level + 2..NumLevels - 1 BY <2>6, <2>17 DEF DB!LevelNumbers
    <3>2. f \in work.version[k] \/ Foreign(f, h)
      BY <3>1, <2>5, <2>12, <2>17 DEF MergeIsClosed, MergeInputs
    <3>3. ~Foreign(f, h) BY <2>5, <2>11 DEF Foreign
    <3>4. ~DB!Overlaps(f, DB!Only(e.key))
      BY <3>1, <3>2, <3>3, <2>4 DEF Done, DB!IsBaseLevelForKey
    <3>5. DB!Overlaps(f, DB!Only(d.key))
      BY <2>11, <2>17, FilesAreGood, KeyIsTouched DEF StoreInv
    <3> QED BY <3>4, <3>5
  <2>18. f \in levels[k] \/ (f \in files /\ k = c.level + 1)
    BY DEF Installed
  <2> QED BY <2>6, <2>7, <2>12, <2>13, <2>14, <2>15, <2>16, <2>17, <2>18
<1> QED BY <1>3, <1>4
LEMMA BeforeFile ==
  ASSUME NEW f, NEW g, Between(f), Between(g), NEW e \in g.entries
  PROVE  /\ DB!Precedes(DB!Largest(f), DB!Smallest(g)) => DB!Precedes(DB!Largest(f), e)
         /\ DB!Precedes(DB!Largest(g), DB!Smallest(f)) => DB!Precedes(e, DB!Smallest(f))
<1>1. /\ e.key \in Nat /\ e.seq \in Nat /\ DB!Smallest(g).key <= e.key /\ e.key <= DB!Largest(g).key
      /\ e.key = DB!Smallest(g).key => e.seq <= DB!Smallest(g).seq
      /\ e.key = DB!Largest(g).key => DB!Largest(g).seq <= e.seq
  BY DEF Between
<1>2. /\ DB!Smallest(g).key \in Nat /\ DB!Smallest(g).seq \in Nat /\ DB!Largest(g).key \in Nat /\ DB!Largest(g).seq \in Nat
      /\ DB!Smallest(f).key \in Nat /\ DB!Smallest(f).seq \in Nat /\ DB!Largest(f).key \in Nat /\ DB!Largest(f).seq \in Nat
  BY DEF Between
<1> QED BY <1>1, <1>2 DEF DB!Precedes

\* The outputs of a merge overlap no file of the level they come to, if that level is as it
\* was when the merge began.
LEMMA InstalledIsSorted ==
  ASSUME DB!StoreAssumption, StoreInv, work # Nil, NEW c, c = work.compaction,
         NEW files, Installed(c, files), OutputsOf(files, Taken)
  PROVE  DB!OverlapsAreLate'
<1> SUFFICES ASSUME ~late', NEW k \in 1..NumLevels - 1, NEW f \in levels'[k], NEW g \in levels'[k], f # g
             PROVE  DB!Precedes(DB!Largest(f), DB!Smallest(g)) \/ DB!Precedes(DB!Largest(g), DB!Smallest(f))
  BY DEF DB!OverlapsAreLate, DB!LevelsDoNotOverlap
<1>0. k \in DB!LevelNumbers
  BY ConstantsAreTyped
<1>1. ~late /\ work.version[c.level + 1] = levels[c.level + 1]
  BY DEF Installed
<1>2. \A j \in 1..NumLevels - 1 : \A a, b \in levels[j] :
        a = b \/ DB!Precedes(DB!Largest(a), DB!Smallest(b)) \/ DB!Precedes(DB!Largest(b), DB!Smallest(a))
  BY <1>1 DEF StoreInv, DB!OverlapsAreLate, DB!LevelsDoNotOverlap
<1>3. CASE f \in levels[k] /\ g \in levels[k]
  BY <1>2, <1>3
<1>4. CASE f \in files /\ g \in files
  BY <1>4 DEF OutputsOf, Sorted
<1>5. ASSUME NEW a \in files, NEW b \in levels[c.level + 1] \ c.inputs[2]
      PROVE  DB!Precedes(DB!Largest(a), DB!Smallest(b)) \/ DB!Precedes(DB!Largest(b), DB!Smallest(a))
  <2>1. /\ c.level \in DB!LevelNumbers /\ c.level + 1 \in DB!LevelNumbers /\ c.level \in Nat /\ NumLevels \in Nat
        /\ c.inputs[1] \subseteq levels[c.level] /\ c.inputs[1] # {}
        /\ c.inputs[2] \subseteq levels[c.level + 1]
        /\ c.inputs[2] = DB!Touched(levels[c.level + 1], DB!Hull(c.inputs[1]))
        /\ \A e \in Taken : \E h \in c.inputs[1] \union c.inputs[2] : e \in h.entries
    BY <1>1, WorkFacts
  <2>2. PICK r : r = DB!Hull(c.inputs[1]) OBVIOUS
  <2>3. WellFormed(c.inputs[1])
    BY <2>1, FilesAreGood, WellFormedSubset DEF StoreInv
  <2>4. r.lo \in Nat /\ r.hi \in Nat /\ \A h \in c.inputs[1] : r.lo <= DB!Smallest(h).key /\ DB!Largest(h).key <= r.hi
    BY <2>1, <2>2, <2>3, HullCovers DEF IsRange, Covers
  <2>5. Between(a) /\ a.entries \subseteq Taken /\ Between(b)
    BY <2>1, FilesAreGood DEF OutputsOf, StoreInv
  <2>6. DB!Smallest(b).key \in Nat /\ DB!Largest(b).key \in Nat /\ DB!Smallest(b).key <= DB!Largest(b).key
    BY <2>5 DEF Between
  <2>7. \A h \in c.inputs[1] : Between(h)
    BY <2>1, FilesAreGood DEF StoreInv
  <2>8. ASSUME NEW h \in c.inputs[2]
        PROVE  /\ Between(h) /\ DB!Largest(h).key \in Nat /\ DB!Smallest(h).key \in Nat
               /\ DB!Largest(h).key >= r.lo /\ DB!Smallest(h).key <= r.hi
               /\ DB!Precedes(DB!Largest(h), DB!Smallest(b)) \/ DB!Precedes(DB!Largest(b), DB!Smallest(h))
    <3>1. Between(h) BY <2>1, FilesAreGood DEF StoreInv
    <3>2. DB!Overlaps(h, r) BY <2>1, <2>2 DEF DB!Touched
    <3>3. c.level + 1 \in 1..NumLevels - 1 BY <2>1 DEF DB!LevelNumbers
    <3>4. h \in levels[c.level + 1] /\ h # b
      BY <2>1
    <3>5. DB!Precedes(DB!Largest(h), DB!Smallest(b)) \/ DB!Precedes(DB!Largest(b), DB!Smallest(h))
      BY <3>3, <3>4, <1>2
    <3>6. DB!Largest(h).key \in Nat /\ DB!Smallest(h).key \in Nat
      BY <3>1 DEF Between
    <3> QED BY <3>1, <3>2, <3>5, <3>6 DEF DB!Overlaps
  <2>9. DB!Largest(b).key < r.lo \/ DB!Smallest(b).key > r.hi
    <3>1. ~DB!Overlaps(b, r) BY <2>1, <2>2 DEF DB!Touched
    <3> QED BY <3>1, <2>4, <2>6 DEF DB!Overlaps
  <2>10. DB!Smallest(a) \in a.entries /\ DB!Largest(a) \in a.entries
    BY <2>5 DEF Between
  <2>11. CASE DB!Largest(b).key < r.lo
    <3>1. \A h \in c.inputs[1] : DB!Precedes(DB!Largest(b), DB!Smallest(h))
      <4> SUFFICES ASSUME NEW h \in c.inputs[1]
                   PROVE  DB!Largest(b).key < DB!Smallest(h).key
        BY DEF DB!Precedes
      <4>1. DB!Smallest(h).key \in Nat BY <2>7 DEF Between
      <4> QED BY <4>1, <2>4, <2>6, <2>11
    <3>2. \A h \in c.inputs[2] : DB!Precedes(DB!Largest(b), DB!Smallest(h))
      <4> SUFFICES ASSUME NEW h \in c.inputs[2], DB!Precedes(DB!Largest(h), DB!Smallest(b))
                   PROVE  FALSE
        BY <2>8
      <4>1. DB!Largest(h).key <= DB!Smallest(b).key BY <2>6, <2>8 DEF DB!Precedes
      <4> QED BY <4>1, <2>4, <2>6, <2>8, <2>11
    <3>3. \A e \in Taken : DB!Precedes(DB!Largest(b), e)
      BY <3>1, <3>2, <2>1, <2>5, <2>7, <2>8, BeforeFile
    <3> QED BY <3>3, <2>5, <2>10
  <2>12. CASE DB!Smallest(b).key > r.hi
    <3>1. \A h \in c.inputs[1] : DB!Precedes(DB!Largest(h), DB!Smallest(b))
      <4> SUFFICES ASSUME NEW h \in c.inputs[1]
                   PROVE  DB!Largest(h).key < DB!Smallest(b).key
        BY DEF DB!Precedes
      <4>1. DB!Largest(h).key \in Nat BY <2>7 DEF Between
      <4> QED BY <4>1, <2>4, <2>6, <2>12
    <3>2. \A h \in c.inputs[2] : DB!Precedes(DB!Largest(h), DB!Smallest(b))
      <4> SUFFICES ASSUME NEW h \in c.inputs[2], DB!Precedes(DB!Largest(b), DB!Smallest(h))
                   PROVE  FALSE
        BY <2>8
      <4>1. DB!Largest(b).key <= DB!Smallest(h).key BY <2>6, <2>8 DEF DB!Precedes
      <4> QED BY <4>1, <2>4, <2>6, <2>8, <2>12
    <3>3. \A e \in Taken : DB!Precedes(e, DB!Smallest(b))
      BY <3>1, <3>2, <2>1, <2>5, <2>7, <2>8, BeforeFile
    <3> QED BY <3>3, <2>5, <2>10
  <2> QED BY <2>9, <2>11, <2>12
<1>6. CASE k = c.level + 1
  <2>1. /\ f \in levels[c.level + 1] \ c.inputs[2] \/ f \in files
        /\ g \in levels[c.level + 1] \ c.inputs[2] \/ g \in files
    <3>1. c.level # c.level + 1 BY WorkFacts
    <3> QED BY <3>1, <1>0, <1>6 DEF Installed
  <2> QED BY <2>1, <1>3, <1>4, <1>5, <1>6
<1>7. CASE k # c.level + 1
  <2>1. f \in levels[k] /\ g \in levels[k]
    BY <1>0, <1>7 DEF Installed
  <2> QED BY <2>1, <1>3
<1> QED BY <1>6, <1>7

LEMMA FinishCompactionKeeps ==
  ASSUME DB!StoreAssumption, StoreInv, DB!FinishCompaction
  PROVE  StoreInv'
<1>1. PICK files : /\ Installed(work.compaction, files) /\ OutputsOf(files, Taken)
                   /\ EntriesOf(files) = Kept(work, Taken)
  BY FinishInstalls
<1>2. PICK c : c = work.compaction OBVIOUS
<1>3. Installed(c, files) /\ work # Nil
  BY <1>1, <1>2 DEF DB!FinishCompaction
<1>4. EntriesOK'
  BY DEF StoreInv, EntriesOK, DB!FinishCompaction
<1>5. MemTablesOK'
  BY DEF StoreInv, MemTablesOK, DB!FinishCompaction
<1>6. FilesOK'
  BY <1>1, <1>2, <1>3, InstalledFiles
<1>7. SnapshotsOK'
  BY DEF StoreInv, SnapshotsOK, DB!FinishCompaction
<1>8. SeekOK'
  BY <1>3 DEF SeekOK, Installed
<1>9. ManualOK'
  <2>1. CASE ~work.byHand
    BY <2>1 DEF StoreInv, ManualOK, DB!FinishCompaction
  <2>2. CASE work.byHand
    <3>1. c.inputs[1] \subseteq levels[c.level] /\ c.inputs[1] # {} /\ c.level \in DB!LevelNumbers
      BY <1>2, <1>3, WorkFacts
    <3>2. WellFormed(c.inputs[1])
      BY <3>1, FilesAreGood, WellFormedSubset DEF StoreInv
    <3>3. PICK f \in c.inputs[1] : f = DB!LastFile(c.inputs[1])
      BY <3>1, <3>2, LastFileIsLast
    <3>4. DB!Largest(f).key \in Nat BY <3>1, <3>2, EndsOfFile DEF Between
    <3>5. manual' = [manual EXCEPT !.lo = DB!Largest(f).key, !.registered = FALSE]
      BY <2>2, <1>2, <3>3 DEF DB!FinishCompaction
    <3>6. manual \in ManualRequests BY <2>2, <1>3 DEF StoreInv, WorkOK
    <3> QED BY <3>4, <3>5, <3>6 DEF ManualOK, ManualRequests
  <2> QED BY <2>1, <2>2
<1>10. WorkOK'
  BY <1>3 DEF WorkOK, Installed
<1>11. TimeOrder' /\ OrderWhileApart'
  BY <1>1, <1>2, <1>3, InstalledOrder
<1>12. KeptOrDeleted' /\ NothingUnderTheDropped'
  BY <1>1, <1>2, <1>3, InstalledIsKept
<1>13. DB!OverlapsAreLate'
  BY <1>1, <1>2, <1>3, InstalledIsSorted
<1> QED BY <1>4, <1>5, <1>6, <1>7, <1>8, <1>9, <1>10, <1>11, <1>12, <1>13 DEF StoreInv
------------------------
(* Every state the store reaches satisfies the invariant. *)

LEMMA InvInit == ASSUME DB!StoreAssumption, DB!Init PROVE StoreInv
<1>1. EntriesOK
  BY ConstantsAreTyped, FS_EmptySet DEF DB!Init, EntriesOK
<1>2. MemTablesOK /\ SeekOK /\ ManualOK /\ WorkOK
  BY DEF DB!Init, MemTablesOK, SeekOK, ManualOK, WorkOK
<1>3. FilesOK
  BY FS_EmptySet DEF DB!Init, FilesOK
<1>4. SnapshotsOK
  BY DEF DB!Init, SnapshotsOK
<1>5. TimeOrder
  BY ConstantsAreTyped DEF DB!Init, TimeOrder, Later
<1>6. \A l \in DB!LevelNumbers : levels[l] = {}
  BY DEF DB!Init
<1>7. OrderWhileApart /\ DB!OverlapsAreLate
  <2>1. \A l \in 1..NumLevels - 1 : levels[l] = {}
    BY <1>6, ConstantsAreTyped
  <2>2. work = Nil
    BY DEF DB!Init
  <2> QED
    BY <1>6, <2>1, <2>2 DEF OrderWhileApart, DB!OverlapsAreLate, DB!Apart, DB!SmallerLevelsAreNewer,
        DB!LevelsDoNotOverlap
<1>8. KeptOrDeleted /\ NothingUnderTheDropped
  BY DEF DB!Init, KeptOrDeleted, NothingUnderTheDropped
<1> QED BY <1>1, <1>2, <1>3, <1>4, <1>5, <1>7, <1>8 DEF StoreInv

LEMMA InvStutters == ASSUME StoreInv, UNCHANGED DB!vars PROVE StoreInv'
<1>1. UNCHANGED <<storeMem, storeImm, storeLast, levels, toCompact, snapshots, work, manual, nextFile, written,
                  straddled, late>>
  BY DEF DB!vars
<1>2. EntriesOK' /\ MemTablesOK' /\ FilesOK' /\ SnapshotsOK' /\ SeekOK' /\ ManualOK' /\ WorkOK'
  BY <1>1 DEF StoreInv, EntriesOK, MemTablesOK, FilesOK, SnapshotsOK, SeekOK, ManualOK, WorkOK
<1>3. TimeOrder' /\ OrderWhileApart' /\ DB!OverlapsAreLate'
  BY <1>1 DEF StoreInv, TimeOrder, OrderWhileApart, DB!OverlapsAreLate, DB!Apart, DB!SmallerLevelsAreNewer,
     DB!LevelsDoNotOverlap, MergeIsClosed
<1>4. Live' = Live /\ \A e \in written : DB!Held(e)' <=> DB!Held(e)
  BY <1>1 DEF Live, DB!Held
<1>5. KeptOrDeleted' /\ NothingUnderTheDropped'
  BY <1>1, <1>4, KeptWhileHeld DEF StoreInv
<1> QED BY <1>2, <1>3, <1>5 DEF StoreInv

LEMMA InvStep == ASSUME DB!StoreAssumption, StoreInv, [DB!Next]_DB!vars PROVE StoreInv'
<1>1. ASSUME NEW key \in Keys, NEW type \in Kinds, DB!Write(key, type) PROVE StoreInv'
  BY <1>1, WriteKeeps
<1>2. CASE DB!SwitchMemTable
  BY <1>2, SwitchMemTableKeeps
<1>3. CASE DB!GetSnapshot
  BY <1>3, GetSnapshotKeeps
<1>4. ASSUME NEW i \in DOMAIN snapshots, DB!ReleaseSnapshot(i) PROVE StoreInv'
  BY <1>4, ReleaseSnapshotKeeps
<1>5. ASSUME NEW key, NEW seq, DB!ChargeSeek(key, seq) PROVE StoreInv'
  BY <1>5, ChargeSeekKeeps
<1>6. ASSUME NEW level \in 0..NumLevels - 2, NEW r \in ManualRanges, DB!RequestManual(level, r[1], r[2])
      PROVE  StoreInv'
  <2>1. r[1] \in Nat /\ r[2] \in Nat
    BY DEF DB!StoreAssumption
  <2> QED BY <1>6, <2>1, RequestManualKeeps
<1>7. CASE DB!RegisterAgain
  BY <1>7, RegisterAgainKeeps
<1>8. CASE DB!Background
  BY <1>8, CompactMemTableKeeps, CompactKeeps, BeginManualKeeps, FinishCompactionKeeps DEF DB!Background
<1>9. CASE UNCHANGED DB!vars
  BY <1>9, InvStutters
<1> QED BY <1>1, <1>2, <1>3, <1>4, <1>5, <1>6, <1>7, <1>8, <1>9 DEF DB!Next

LEMMA InvIsTyped == ASSUME DB!StoreAssumption, StoreInv PROVE DB!TypeOK
<1>1. storeMem \in SUBSET DB!Entries
  BY DEF StoreInv, EntriesOK, MemTablesOK
<1>2. storeImm \in Seq(SUBSET DB!Entries) /\ Len(storeImm) <= 1
  <2>1. storeImm \in Seq(SUBSET written) /\ SUBSET written \subseteq SUBSET DB!Entries
    BY DEF StoreInv, EntriesOK, MemTablesOK
  <2>2. DOMAIN storeImm = 1 .. Len(storeImm) /\ Len(storeImm) \in Nat /\ \A i \in 1..Len(storeImm) : storeImm[i] \in SUBSET DB!Entries
    BY <2>1, ElementOfSeq, LenProperties
  <2>3. storeImm = [i \in 1..Len(storeImm) |-> storeImm[i]]
    BY <2>1, <2>2, LenProperties
  <2>4. storeImm \in Seq(SUBSET DB!Entries)
    BY <2>2, <2>3
  <2> QED BY <2>4 DEF StoreInv, MemTablesOK
<1>3. storeLast \in 0..StoreMaxWrites
  BY DEF StoreInv, EntriesOK
<1>4. ASSUME NEW l \in DB!LevelNumbers, NEW f \in levels[l]
      PROVE  f.number \in 1 .. nextFile - 1 /\ f.entries \in (SUBSET DB!Entries) \ {{}}
  <2>1. f \in [number : 1..nextFile - 1, entries : (SUBSET written) \ {{}}]
    BY DEF StoreInv, FilesOK
  <2>2. written \subseteq DB!Entries
    BY DEF StoreInv, EntriesOK
  <2> QED BY <2>1, <2>2
<1>5. \A i \in DOMAIN snapshots : snapshots[i] \in 0..storeLast
  BY LiveIsTyped DEF StoreInv
<1>6. toCompact # Nil => toCompact.file \in levels[toCompact.level]
  BY DEF StoreInv, SeekOK
<1> QED BY <1>1, <1>2, <1>3, <1>4, <1>5, <1>6 DEF DB!TypeOK

LEMMA InvKeepsNeeded == ASSUME DB!StoreAssumption, StoreInv PROVE DB!NeededIsKept
<1>1. ASSUME NEW s \in Live, NEW e \in written, e.type = "Value", e \in DB!Found(written, e.key, s)
      PROVE  DB!Held(e)
  BY <1>1 DEF StoreInv, KeptOrDeleted
<1> QED BY <1>1 DEF DB!NeededIsKept, Live

LEMMA InvKeepsOrder == ASSUME StoreInv PROVE DB!LevelsInOrder /\ DB!OverlapsAreLate
BY DEF StoreInv, OrderWhileApart, DB!LevelsInOrder
------------------------
(* What a read finds. *)

Asked(e, key, seq) == e.key = key /\ e.seq <= seq

LEMMA FoundIsOne ==
  ASSUME NEW es, NEW key, NEW seq
  PROVE  /\ \A e : e \in DB!Found(es, key, seq) => DB!Found(es, key, seq) = {e}
         /\ \A e \in es : Asked(e, key, seq) => DB!Found(es, key, seq) # {}
         /\ (\A e \in es : ~Asked(e, key, seq)) => DB!Found(es, key, seq) = {}
BY DEF DB!Found, Asked

\* While no level above 0 has had one user key in two files, the file that has an entry
\* asked for is visited.
LEMMA FileIsVisited ==
  ASSUME DB!StoreAssumption, StoreInv, ~straddled, NEW key \in Nat, NEW seq \in Nat,
         NEW l \in DB!LevelNumbers, NEW f \in levels[l], NEW e \in f.entries, Asked(e, key, seq)
  PROVE  [level |-> l, file |-> f] \in DB!Visited(levels, key, seq)
<1>1. Good(levels) /\ WellFormed(levels[l]) /\ Between(f)
  BY FilesAreGood DEF StoreInv
<1>2. e.key = key /\ e.seq <= seq
  BY DEF Asked
<1>3. DB!Overlaps(f, DB!Only(key))
  BY <1>1, <1>2, KeyIsTouched
<1>4. key >= DB!Smallest(f).key
  BY <1>1, <1>2 DEF Between
<1>5. CASE l = 0
  <2>1. f \in DB!Sought(levels, 0, key, seq)
    BY <1>3, <1>5 DEF DB!Sought, DB!Touched
  <2> QED BY <2>1, <1>5 DEF DB!Visited
<1>6. CASE l # 0
  <2>1. l \in 1 .. NumLevels - 1 /\ DB!Apart(levels) /\ AllSorted(levels)
    <3>1. l \in 1..NumLevels - 1 BY <1>6, ConstantsAreTyped DEF DB!LevelNumbers
    <3>2. DB!Apart(levels) BY DEF StoreInv, OrderWhileApart
    <3> QED BY <3>1, <3>2, <1>1, ApartIsSorted, ConstantsAreTyped
  <2>2. Sorted(levels[l])
    BY <2>1 DEF AllSorted
  <2>3. PICK target : target = [key |-> key, seq |-> seq] OBVIOUS
  <2>4. target.key = key /\ target.seq = seq
    BY <2>3
  <2>5. ~DB!Precedes(DB!Largest(f), target)
    <3>1. /\ DB!Largest(f).key \in Nat /\ DB!Largest(f).seq \in Nat /\ e.seq \in Nat /\ e.key <= DB!Largest(f).key
          /\ e.key = DB!Largest(f).key => DB!Largest(f).seq <= e.seq
      BY <1>1 DEF Between
    <3> QED BY <3>1, <2>4, <1>2 DEF DB!Precedes
  <2>6. PICK h \in DB!FindFile(levels[l], target) : h = f \/ DB!FileOrder(h, f)
    BY <1>1, <2>2, <2>4, <2>5, FindFileFirst
  <2>7. h \in levels[l] /\ ~DB!Precedes(DB!Largest(h), target)
    BY <1>1, <2>2, <2>4, <2>6, FindFileFinds
  <2>8. h = f
    <3> SUFFICES ASSUME h # f PROVE FALSE OBVIOUS
    <3>1. DB!Precedes(DB!Largest(h), DB!Smallest(f))
      BY <1>1, <2>2, <2>6, <2>7, SortedInOrder
    <3>2. Between(h) BY <2>7, FilesAreGood DEF StoreInv
    <3>3. /\ DB!Largest(h) \in h.entries /\ DB!Largest(h).key \in Nat /\ DB!Largest(h).seq \in Nat
          /\ DB!Smallest(f).key \in Nat /\ DB!Smallest(f).key <= key
      BY <1>1, <1>2, <3>2 DEF Between
    <3>4. DB!Largest(h).key = key BY <3>1, <3>3, <2>4, <2>7 DEF DB!Precedes
    <3>5. ~DB!Overlaps(f, DB!RangeOf(h)) BY <2>1, <2>7 DEF DB!Apart
    <3>6. Foreign(f, h) BY <1>1, <3>2, <3>5, CommonKey
    <3> QED BY <3>3, <3>4, <3>6, <1>2 DEF Foreign
  <2>9. f \in DB!Sought(levels, l, key, seq)
    BY <2>3, <2>6, <2>8, <1>4, <1>6 DEF DB!Sought
  <2> QED BY <2>9 DEF DB!Visited
<1> QED BY <1>5, <1>6

InTables(e) == \E l \in DB!LevelNumbers : \E f \in levels[l] : e \in f.entries

\* The tables answer with the newest entry they have.
LEMMA TablesAnswer ==
  ASSUME DB!StoreAssumption, StoreInv, ~straddled, NEW key \in Nat, NEW seq \in Nat
  PROVE  /\ \A e : /\ InTables(e) /\ Asked(e, key, seq)
                   /\ \A d : InTables(d) /\ Asked(d, key, seq) => d.seq <= e.seq
                   => DB!VersionGet(levels, key, seq) = {e}
         /\ (\A e : InTables(e) => ~Asked(e, key, seq)) => DB!VersionGet(levels, key, seq) = {}
<1> DEFINE hits == {v \in DB!Visited(levels, key, seq) : DB!Found(v.file.entries, key, seq) # {}}
<1>1. DB!VersionGet(levels, key, seq) = IF hits = {} THEN {} ELSE DB!Found(DB!FirstVisit(hits).file.entries, key, seq)
  BY DEF DB!VersionGet
<1>2. DB!LevelAssumption /\ Good(levels)
  BY ConstantsAreTyped, FilesAreGood DEF StoreInv
<1>3. ASSUME NEW v \in hits
      PROVE  /\ v.level \in DB!LevelNumbers /\ v.file \in levels[v.level]
             /\ v = [level |-> v.level, file |-> v.file]
             /\ \E d \in v.file.entries : Asked(d, key, seq)
  BY <1>2, <1>3, VisitedFiles, FoundIsOne
<1>4. ASSUME \A e : InTables(e) => ~Asked(e, key, seq)
      PROVE  DB!VersionGet(levels, key, seq) = {}
  <2>1. hits = {}
    BY <1>3, <1>4 DEF InTables
  <2> QED BY <2>1, <1>1
<1>5. ASSUME NEW e, InTables(e), Asked(e, key, seq),
             \A d : InTables(d) /\ Asked(d, key, seq) => d.seq <= e.seq
      PROVE  DB!VersionGet(levels, key, seq) = {e}
  <2>1. PICK l \in DB!LevelNumbers : \E f \in levels[l] : e \in f.entries
    BY <1>5 DEF InTables
  <2>2. PICK f \in levels[l] : e \in f.entries
    BY <2>1
  <2>3. PICK v : v = [level |-> l, file |-> f] OBVIOUS
  <2>4. v \in hits /\ v.level = l /\ v.file = f
    <3>1. v \in DB!Visited(levels, key, seq) BY <1>5, <2>2, <2>3, FileIsVisited
    <3>2. DB!Found(f.entries, key, seq) # {} BY <1>5, <2>2, FoundIsOne
    <3> QED BY <3>1, <3>2, <2>3
  <2>5. PICK w : w = DB!FirstVisit(hits) OBVIOUS
  <2>6. hits \subseteq DB!Visited(levels, key, seq) /\ hits # {}
    BY <2>4
  <2>7. w \in hits /\ (v # w => DB!Before(w, v))
    <3> HIDE DEF hits
    <3> QED BY <1>2, <2>4, <2>5, <2>6, FirstVisitIsFirst
  <2>8. PICK d \in w.file.entries : Asked(d, key, seq)
    BY <2>7, <1>3
  <2>9. w.level \in DB!LevelNumbers /\ w.file \in levels[w.level]
    BY <2>7, <1>3
  <2>10. d.seq <= e.seq /\ d.key = e.key /\ d.seq \in Nat /\ e.seq \in Nat
    <3>1. InTables(d) BY <2>8, <2>9 DEF InTables
    <3>2. d.seq <= e.seq /\ d.key = e.key
      BY <3>1, <2>8, <1>5 DEF Asked
    <3>3. Between(w.file) /\ Between(f)
      BY <2>2, <2>9, FilesAreGood DEF StoreInv
    <3> QED BY <3>2, <3>3, <2>2, <2>8 DEF Between
  <2>11. w = v
    <3> SUFFICES ASSUME DB!Before(w, v) PROVE w = v
      BY <2>7
    <3>1. CASE w.level < l
      <4>1. DB!SmallerLevelsAreNewer BY DEF StoreInv, OrderWhileApart
      <4>2. d.seq > e.seq
        BY <4>1, <3>1, <2>2, <2>8, <2>9, <2>10 DEF DB!SmallerLevelsAreNewer
      <4> QED BY <4>2, <2>10
    <3>2. CASE w.level = l /\ w.file.number > f.number /\ l = 0
      <4>1. w.file \in levels[0] /\ f \in levels[0] /\ f.number < w.file.number
        <5>1. w.file.number \in Nat /\ f.number \in Nat
          BY <2>2, <2>9, FilesAreGood DEF StoreInv
        <5> QED BY <5>1, <3>2, <2>2, <2>9
      <4>2. Later(w.file.entries, f.entries) BY <4>1 DEF StoreInv, TimeOrder
      <4>3. d.seq > e.seq BY <4>2, <2>2, <2>8 DEF Later
      <4> QED BY <4>3, <2>10
    <3>3. CASE w.level = l /\ l # 0
      <4>1. v \in DB!Visited(levels, key, seq) /\ w \in DB!Visited(levels, key, seq) /\ v.level = w.level
            /\ v.level # 0
        BY <3>3, <2>4, <2>7
      <4> QED BY <4>1, <1>2, OneVisitPerLevel
    <3> QED BY <3>1, <3>2, <3>3, <2>4 DEF DB!Before
  <2>12. DB!VersionGet(levels, key, seq) = DB!Found(f.entries, key, seq)
    BY <1>1, <2>4, <2>5, <2>11
  <2>13. e \in DB!Found(f.entries, key, seq)
    <3>1. f.entries \subseteq written BY <2>2, FilesAreGood DEF StoreInv
    <3>2. Sortable(f.entries) /\ IsFiniteSet(f.entries)
      BY <3>1, WrittenIsSortable, SortableSubset, FS_Subset DEF StoreInv
    <3>3. \A x \in f.entries : x.key = key /\ x.seq <= seq => x.seq <= e.seq
      BY <1>5, <2>1, <2>2 DEF InTables, Asked
    <3>4. e \in f.entries /\ e.key = key /\ e.seq <= seq
      BY <1>5, <2>2 DEF Asked
    <3> QED BY <3>2, <3>3, <3>4, FoundIsNewest
  <2> QED BY <2>12, <2>13, FoundIsOne
<1> QED BY <1>4, <1>5
\* What a read is answered with.
Hit(key, seq) ==
  DB!FirstHit(DB!Found(storeMem, key, seq), IF storeImm = <<>> THEN {} ELSE DB!Found(storeImm[1], key, seq),
           DB!VersionGet(levels, key, seq))

\* All that is held was written.
LEMMA HeldIsWritten ==
  ASSUME DB!StoreAssumption, StoreInv, NEW e, DB!Held(e)
  PROVE  /\ e \in written
         /\ e \in storeMem \/ (storeImm # <<>> /\ e \in storeImm[1]) \/ InTables(e)
<1>1. e \in storeMem => e \in written
  BY DEF StoreInv, MemTablesOK
<1>2. storeImm # <<>> /\ e \in storeImm[1] => e \in written
  BY NewTable
<1>3. InTables(e) => e \in written
  BY FilesAreGood DEF StoreInv, InTables
<1> QED BY <1>1, <1>2, <1>3 DEF DB!Held, InTables

LEMMA ImmIsWritten == ASSUME StoreInv, storeImm # <<>> PROVE storeImm[1] \subseteq written
<1>1. storeImm \in Seq(SUBSET written)
  BY DEF StoreInv, MemTablesOK
<1> QED BY <1>1, ElementOfSeq, EmptySeq, LenProperties

\* The newest entry held is found first.
LEMMA NewestIsHit ==
  ASSUME DB!StoreAssumption, StoreInv, ~straddled, NEW key \in Nat, NEW seq \in Nat,
         NEW e, DB!Held(e), Asked(e, key, seq),
         \A d : DB!Held(d) /\ Asked(d, key, seq) => d.seq <= e.seq
  PROVE  Hit(key, seq) = {e}
<1>1. \A d : DB!Held(d) => d.seq \in Nat /\ d \in written
  BY HeldIsWritten, WrittenIsSortable DEF StoreInv
<1>2. /\ \A d \in storeMem : DB!Held(d)
      /\ storeImm # <<>> => \A d \in storeImm[1] : DB!Held(d)
      /\ \A d : InTables(d) => DB!Held(d)
  BY DEF DB!Held, InTables
<1>3. storeMem \subseteq written /\ (storeImm # <<>> => storeImm[1] \subseteq written)
  BY ImmIsWritten DEF StoreInv, MemTablesOK
<1>4. ASSUME NEW es, es \subseteq written, e \in es, \A d \in es : DB!Held(d)
      PROVE  DB!Found(es, key, seq) = {e}
  <2>1. Sortable(es) /\ IsFiniteSet(es)
    BY <1>4, WrittenIsSortable, SortableSubset, FS_Subset DEF StoreInv
  <2>2. \A x \in es : x.key = key /\ x.seq <= seq => x.seq <= e.seq
    BY <1>4 DEF Asked
  <2>3. e.key = key /\ e.seq <= seq
    BY DEF Asked
  <2>4. e \in DB!Found(es, key, seq)
    BY <2>1, <2>2, <2>3, <1>4, FoundIsNewest
  <2> QED BY <2>4, FoundIsOne
<1>5. ASSUME NEW es, \A d \in es : DB!Held(d) /\ d.seq > e.seq
      PROVE  DB!Found(es, key, seq) = {}
  <2>1. \A d \in es : ~Asked(d, key, seq)
    <3> SUFFICES ASSUME NEW d \in es, Asked(d, key, seq) PROVE FALSE OBVIOUS
    <3>1. DB!Held(d) /\ d.seq > e.seq
      BY <1>5
    <3>2. d.seq <= e.seq /\ d.seq \in Nat /\ e.seq \in Nat
      BY <3>1, <1>1
    <3> QED BY <3>1, <3>2
  <2> QED BY <2>1, FoundIsOne
<1>6. CASE e \in storeMem
  <2>1. DB!Found(storeMem, key, seq) = {e}
    BY <1>2, <1>3, <1>4, <1>6
  <2> QED BY <2>1 DEF Hit, DB!FirstHit
<1>7. CASE storeImm # <<>> /\ e \in storeImm[1]
  <2>1. \A d \in storeMem : DB!Held(d) /\ d.seq > e.seq
    BY <1>2, <1>7 DEF StoreInv, TimeOrder, Later
  <2>2. DB!Found(storeMem, key, seq) = {}
    BY <2>1, <1>5
  <2>3. DB!Found(storeImm[1], key, seq) = {e}
    BY <1>2, <1>3, <1>4, <1>7
  <2> QED BY <2>2, <2>3, <1>7 DEF Hit, DB!FirstHit
<1>8. CASE InTables(e)
  <2>1. PICK l \in DB!LevelNumbers : \E f \in levels[l] : e \in f.entries
    BY <1>8 DEF InTables
  <2>2. PICK f \in levels[l] : e \in f.entries
    BY <2>1
  <2>3. Later(storeMem, f.entries) /\ (storeImm # <<>> => Later(storeImm[1], f.entries))
    BY <2>2 DEF StoreInv, TimeOrder
  <2>4. DB!Found(storeMem, key, seq) = {}
    <3>1. \A d \in storeMem : DB!Held(d) /\ d.seq > e.seq
      BY <2>2, <2>3, <1>2 DEF Later
    <3> QED BY <3>1, <1>5
  <2>5. storeImm # <<>> => DB!Found(storeImm[1], key, seq) = {}
    <3>1. storeImm # <<>> => \A d \in storeImm[1] : DB!Held(d) /\ d.seq > e.seq
      BY <2>2, <2>3, <1>2 DEF Later
    <3> QED BY <3>1, <1>5
  <2>6. DB!VersionGet(levels, key, seq) = {e}
    BY <1>2, <1>8, TablesAnswer
  <2> QED BY <2>4, <2>5, <2>6 DEF Hit, DB!FirstHit
<1> QED BY <1>6, <1>7, <1>8, HeldIsWritten

LEMMA NothingIsHit ==
  ASSUME DB!StoreAssumption, StoreInv, ~straddled, NEW key \in Nat, NEW seq \in Nat,
         \A d : DB!Held(d) => ~Asked(d, key, seq)
  PROVE  Hit(key, seq) = {}
<1>1. /\ \A d \in storeMem : ~Asked(d, key, seq)
      /\ storeImm # <<>> => \A d \in storeImm[1] : ~Asked(d, key, seq)
      /\ \A d : InTables(d) => ~Asked(d, key, seq)
  BY DEF DB!Held, InTables
<1>2. DB!Found(storeMem, key, seq) = {}
  BY <1>1, FoundIsOne
<1>3. storeImm # <<>> => DB!Found(storeImm[1], key, seq) = {}
  BY <1>1, FoundIsOne
<1>4. DB!VersionGet(levels, key, seq) = {}
  BY <1>1, TablesAnswer
<1> QED BY <1>2, <1>3, <1>4 DEF Hit, DB!FirstHit

LEMMA InvAnswersReads == ASSUME DB!StoreAssumption, StoreInv PROVE DB!ReadsSeeSnapshot
<1> SUFFICES ASSUME ~straddled, NEW key \in Keys, NEW seq \in Live
             PROVE  DB!Answer(Hit(key, seq)) = DB!Answer(DB!Found(written, key, seq))
  BY DEF DB!ReadsSeeSnapshot, Live, DB!Get, DB!Reference, Hit
<1>1. key \in Nat /\ seq \in Nat
  BY LiveIsTyped DEF StoreInv, DB!StoreAssumption
<1>2. Sortable(written) /\ IsFiniteSet(written) /\ \A d \in written : d.seq \in Nat
  BY WrittenIsSortable DEF StoreInv
<1>3. CASE \A d \in written : ~Asked(d, key, seq)
  <2>1. Hit(key, seq) = {}
    BY <1>1, <1>3, HeldIsWritten, NothingIsHit
  <2>2. DB!Found(written, key, seq) = {}
    BY <1>3, FoundIsOne
  <2> QED BY <2>1, <2>2
<1>4. CASE \E d \in written : Asked(d, key, seq)
  <2>1. PICK x \in DB!Found(written, key, seq) : TRUE
    BY <1>4, FoundIsOne
  <2>2. DB!Found(written, key, seq) = {x}
    BY <2>1, FoundIsOne
  <2>3. /\ x \in written /\ x.key = key /\ x.seq <= seq
        /\ \A d \in written : d.key = key /\ d.seq <= seq => d.seq <= x.seq
    BY <2>1, <1>1, <1>2, FoundIsNewest
  <2>4. \A d : DB!Held(d) /\ Asked(d, key, seq) => d \in written /\ d.seq <= x.seq
    BY <2>3, HeldIsWritten DEF Asked
  <2>5. CASE DB!Held(x)
    <3>1. Hit(key, seq) = {x} BY <1>1, <2>3, <2>4, <2>5, NewestIsHit DEF Asked
    <3> QED BY <3>1, <2>2
  <2>6. CASE ~DB!Held(x)
    <3>1. x \in DB!Found(written, x.key, seq) BY <2>1, <2>3
    <3>2. x.type = "Deletion" BY <3>1, <2>3, <2>6 DEF StoreInv, KeptOrDeleted
    <3>3. \A d \in written : d.key = x.key /\ d.seq < x.seq => ~DB!Held(d)
      BY <3>1, <2>3, <2>6 DEF StoreInv, NothingUnderTheDropped
    <3>4. \A d : DB!Held(d) => ~Asked(d, key, seq)
      <4> SUFFICES ASSUME NEW d, DB!Held(d), Asked(d, key, seq) PROVE FALSE OBVIOUS
      <4>1. d \in written /\ d.seq <= x.seq /\ d.key = x.key
        BY <2>3, <2>4 DEF Asked
      <4>2. d.seq # x.seq BY <4>1, <2>3, <2>6, <1>2 DEF Sortable
      <4> QED BY <4>1, <4>2, <3>3, <2>3, <1>2
    <3>5. Hit(key, seq) = {} BY <1>1, <3>4, NothingIsHit
    <3>6. DB!Answer({x}) = 0
      <4>1. (CHOOSE e \in {x} : TRUE) = x OBVIOUS
      <4> QED BY <4>1, <3>2 DEF DB!Answer
    <3> QED BY <3>5, <3>6, <2>2 DEF DB!Answer
  <2> QED BY <2>5, <2>6
<1> QED BY <1>3, <1>4

------------------------
(* Both in one specification. *)

\* One of the two moves, by a step of its own, and the other stands still.
LEMMA SuiteStep ==
  ASSUME [SuiteNext]_allVars
  PROVE  /\ [Next]_vars /\ part' = part
         /\ part = "levels" => [DB!Next]_DB!vars
<1>1. CASE Levels(DB!Next)
  BY <1>1 DEF Levels
<1>2. CASE Queueing(Next)
  BY <1>2 DEF Queueing
<1>3. CASE UNCHANGED allVars
  <2>1. UNCHANGED <<part, storeVars, vars>>
    BY <1>3 DEF allVars
  <2>2. UNCHANGED DB!vars
    BY <2>1 DEF storeVars, DB!vars
  <2> QED BY <2>1, <2>2
<1> QED BY <1>1, <1>2, <1>3 DEF SuiteNext

\* The queue behaves in the suite as it does alone, so what is proved of it above holds there.
THEOREM SuiteIsAQueue == SuiteSpec => Spec
<1>1. SuiteInit => Init
  BY DEF SuiteInit
<1>2. [SuiteNext]_allVars => [Next]_vars
  BY SuiteStep
<1> QED BY <1>1, <1>2, PTL DEF SuiteSpec, Spec

LEMMA StoreInvariant == ASSUME PathAssumption PROVE SuiteSpec => [](part = "levels" => StoreInv)
<1> DEFINE I == part = "levels" => StoreInv
<1>1. SuiteInit => I
  BY InvInit DEF SuiteInit, PathAssumption
<1>2. I /\ [SuiteNext]_allVars => I'
  <2> SUFFICES ASSUME I, [SuiteNext]_allVars, part' = "levels" PROVE StoreInv'
    OBVIOUS
  <2>1. part = "levels" /\ [DB!Next]_DB!vars
    BY SuiteStep
  <2> QED BY <2>1, InvStep DEF PathAssumption
<1> HIDE DEF I
<1>3. SuiteSpec => []I
  BY <1>1, <1>2, PTL DEF SuiteSpec
<1> QED BY <1>3 DEF I

\* A read in a snapshot answers what was last written as of it, whatever is flushed, moved or
\* merged meanwhile, as long as no level above 0 has had a user key in two files
\* (Version::Get, DoCompactionWork, SnapshotList).
THEOREM ReadsAreRight == ASSUME PathAssumption PROVE SuiteSpec => []ReadsSeeSnapshot
<1>1. (part = "levels" => StoreInv) => ReadsSeeSnapshot
  BY InvAnswersReads DEF ReadsSeeSnapshot, PathAssumption
<1> QED BY <1>1, StoreInvariant, PTL

\* Levels come to overlap only by a merge that installs late, keep newer entries above older
\* ones, and lose no value that a snapshot can ask for (SetupOtherInputs, ShouldStopBefore,
\* IsBaseLevelForKey, InstallCompactionResults).
THEOREM LevelsStayInOrder == ASSUME PathAssumption PROVE SuiteSpec => []LevelsAreInOrder
<1>1. (part = "levels" => StoreInv) => LevelsAreInOrder
  BY InvKeepsOrder, InvKeepsNeeded DEF LevelsAreInOrder, PathAssumption
<1> QED BY <1>1, StoreInvariant, PTL

\* The types of both: what is above of the queue's; the tables are not empty, their numbers
\* have been given out, snapshots are of the past, and the file to compact for its seeks is there.
THEOREM StatesAreTyped == ASSUME PathAssumption PROVE SuiteSpec => []AllTypesOK
<1>1. (part = "levels" => StoreInv) /\ TypeOK => AllTypesOK
  BY InvIsTyped DEF PathAssumption, AllTypesOK
<1>2. SuiteSpec => []TypeOK
  BY QueueIsWellTyped, SuiteIsAQueue, PTL DEF PathAssumption
<1> QED BY <1>1, <1>2, StoreInvariant, PTL
=============================================================================
