------------------------------ MODULE WriteQueue ------------------------------
(***************************************************************************)
(* DBImpl::Write and the background thread it shares the mutex with.  A    *)
(* write queues up; the one in front makes room in the memtable, gathers   *)
(* the writes behind it into one batch, logs and inserts the batch without *)
(* the mutex, and wakes the others with the result.  An action is what a   *)
(* thread does between taking the mutex and giving it up, or one call to   *)
(* the file system in between.  A condition variable wakes only who waits  *)
(* on it when it is signalled.                                             *)
(***************************************************************************)
EXTENDS Integers, Sequences, FiniteSets, SequencesExt

CONSTANTS
  Threads,      \* the threads that write
  Requests,     \* what they ask for: [sync, size], size 0 for a null batch
  MaxWrites,    \* writes of each thread
  MaxFailures,  \* failing calls to the file system
  SmallBatch, MaxBatch,     \* 128<<10 and 1<<20, in units of the model
  WriteBuffer,  \* options_.write_buffer_size, in batches
  L0Trigger, L0Slowdown, L0Stop,  \* config::kL0_...
  Nil

\* What the constants have to satisfy; the modules of the runs assume it.
WriteQueueAssumption ==
  /\ {L0Trigger, L0Slowdown, L0Stop, WriteBuffer, SmallBatch, MaxBatch, MaxWrites} \subseteq Nat
  /\ L0Trigger > 0 /\ L0Trigger <= L0Slowdown /\ L0Slowdown <= L0Stop
  /\ Requests \subseteq [sync : BOOLEAN, size : Nat]
  /\ Nil \notin {"ok", "error", "sync", "background"}
  /\ \A batches \in SUBSET (Threads \X (1 .. MaxWrites)) : Nil # batches

VARIABLES
  queue,      \* writers_
  pc,         \* where each thread is
  request,    \* its request
  count,      \* the writes it has begun
  signalled,  \* threads whose own condition variable has been signalled
  result,     \* Writer::done and status: Nil until done
  delayed,    \* it has slept once in this call (~allow_delay)
  members,    \* how many of the queue the front thread is writing for
  mem, imm,   \* batches in the memtable and in the immutable one, or Nil
  tables,     \* batches in tables
  log,        \* the records written to the logs, oldest first
  logFile,    \* logfile_number_
  last,       \* versions_->LastSequence(), one number per batch
  level0,     \* files in level 0
  scheduled,  \* bg_compaction_scheduled_
  bg,         \* what the background thread is doing
  error,      \* bg_error_: Nil, "sync" or "background"
  closing,    \* "open", then shutting_down_, then the destructor is through
  failures,   \* failed calls so far
  arrivals,   \* batches in the order they joined the queue
  acked, failed  \* batches whose write returned

queueVars == <<queue, members, arrivals>>
threadVars == <<request, count, signalled, result, delayed>>
answerVars == <<acked, failed>>
logVars == <<log, logFile, last>>
bgVars == <<level0, scheduled, bg>>
vars == <<queueVars, pc, threadVars, answerVars, logVars, mem, imm, tables,
          bgVars, error, closing, failures>>

Batch(t) == <<t, count[t]>>
IsNull(t) == request[t].size = 0

\* bg_cv_.SignalAll(): every stalled front thread looks again.
WakeStalled == [t \in Threads |-> IF pc[t] = "stalled" THEN "room" ELSE pc[t]]

RecordBackgroundError(e) ==
  /\ error' = IF error = Nil THEN e ELSE error
  /\ pc' = IF error = Nil THEN WakeStalled ELSE pc

Fails == failures < MaxFailures /\ failures' = failures + 1

\* MaybeScheduleCompaction, with what the step leaves of imm and level 0.
MaybeSchedule(i, l0, already) ==
  scheduled' = (already \/ (closing = "open" /\ error = Nil /\ (i # Nil \/ l0 >= L0Trigger)))

------------------------
(* The background thread. *)

\* BackgroundCall: after an error or in a shutdown it only signs off.
BackgroundCall ==
  /\ scheduled /\ bg = "idle"
  /\ bg' = IF closing # "open" \/ error # Nil THEN "ending"
           ELSE IF imm # Nil THEN "flushing"
           ELSE IF level0 >= L0Trigger THEN "merging" ELSE "ending"
  /\ UNCHANGED <<queueVars, pc, threadVars, answerVars, logVars, mem, imm, tables,
                 level0, scheduled, error, closing, failures>>

\* CompactMemTable: the table is written and the version installed without the
\* mutex; then the memtable is dropped, or the error recorded.
CompactMemTable ==
  \/ /\ closing = "open"
     /\ tables' = tables \union imm /\ imm' = Nil
     /\ level0' \in {level0, level0 + 1}
     /\ UNCHANGED <<error, failures>>
  \/ /\ Fails \/ (closing # "open" /\ UNCHANGED failures)
     /\ error' = IF error = Nil THEN "background" ELSE error
     /\ UNCHANGED <<tables, imm, level0>>

Flush ==
  /\ bg = "flushing" /\ bg' = "ending"
  /\ CompactMemTable
  /\ pc' = IF error' # error THEN WakeStalled ELSE pc
  /\ UNCHANGED <<queueVars, threadVars, answerVars, logVars, mem, scheduled, closing>>

\* The merge loop flushes an immutable memtable that turns up, and signals.
FlushInMerge ==
  /\ bg = "merging" /\ imm # Nil /\ closing = "open"
  /\ CompactMemTable
  /\ pc' = WakeStalled
  /\ UNCHANGED <<queueVars, threadVars, answerVars, logVars, mem, scheduled, bg, closing>>

\* The merge ends and its result is installed; a shutdown ends it as an error.
Merge ==
  /\ bg = "merging" /\ bg' = "ending"
  /\ \/ /\ closing = "open"
        /\ level0' \in 0 .. level0 - 1
        /\ UNCHANGED <<error, pc, failures>>
     \/ /\ Fails \/ (closing # "open" /\ UNCHANGED failures)
        /\ RecordBackgroundError("background")
        /\ UNCHANGED level0
  /\ UNCHANGED <<queueVars, threadVars, answerVars, logVars, mem, imm, tables, scheduled, closing>>

\* Mutant: no further work is scheduled.
BackgroundEnds_NotAgain ==
  /\ bg = "ending" /\ bg' = "idle"
  /\ scheduled' = FALSE
  /\ pc' = WakeStalled
  /\ UNCHANGED <<queueVars, threadVars, answerVars, logVars, mem, imm, tables,
                 level0, error, closing, failures>>

\* The end of BackgroundCall: more work is scheduled, everyone stalled wakes.
BackgroundEnds ==
  /\ bg = "ending" /\ bg' = "idle"
  /\ MaybeSchedule(imm, level0, FALSE)
  /\ pc' = WakeStalled
  /\ UNCHANGED <<queueVars, threadVars, answerVars, logVars, mem, imm, tables,
                 level0, error, closing, failures>>

Background == BackgroundCall \/ Flush \/ FlushInMerge \/ Merge \/ BackgroundEnds

------------------------
(* Joining the queue and leaving it. *)

Call(t, r) ==
  /\ pc[t] = "idle" /\ count[t] < MaxWrites /\ closing = "open"
  /\ request' = [request EXCEPT ![t] = r]
  /\ count' = [count EXCEPT ![t] = @ + 1]
  /\ queue' = Append(queue, t)
  /\ arrivals' = IF r.size = 0 THEN arrivals ELSE Append(arrivals, <<t, count[t] + 1>>)
  /\ pc' = [pc EXCEPT ![t] = IF queue = <<>> THEN "room" ELSE "waiting"]
  /\ result' = [result EXCEPT ![t] = Nil]
  /\ delayed' = [delayed EXCEPT ![t] = FALSE]
  /\ UNCHANGED <<members, signalled, answerVars, logVars, mem, imm, tables,
                 bgVars, error, closing, failures>>

\* What the callers of Write are told: for each of ts, its write and its status.
Return(ts, status) ==
  LET real == {Batch(t) : t \in {u \in ts : ~IsNull(u)}}
  IN  /\ acked' = IF status = "ok" THEN acked \union real ELSE acked
      /\ failed' = IF status = "ok" THEN failed ELSE failed \union real

\* A thread that waits in the queue is woken: its write is done, or it is in
\* front now, or it goes on waiting.
Wake(t) ==
  /\ pc[t] = "waiting" /\ t \in signalled
  /\ signalled' = signalled \ {t}
  /\ \/ /\ result[t] # Nil
        /\ pc' = [pc EXCEPT ![t] = "idle"]
        /\ Return({t}, result[t])
     \/ /\ result[t] = Nil /\ Head(queue) = t
        /\ pc' = [pc EXCEPT ![t] = "room"]
        /\ UNCHANGED answerVars
     \/ /\ result[t] = Nil /\ Head(queue) # t
        /\ UNCHANGED <<pc, answerVars>>
  /\ UNCHANGED <<queueVars, request, count, result, delayed, logVars, mem, imm, tables,
                 bgVars, error, closing, failures>>

\* Mutant: the group is told that all went well.
Finish_OthersOk(t, n, status) ==
  LET done == {queue[i] : i \in 2 .. n}
      rest == SubSeq(queue, n + 1, Len(queue))
  IN  /\ queue' = rest
      /\ result' = [u \in Threads |-> IF u \in done THEN "ok" ELSE result[u]]
      /\ signalled' = signalled \union done \union IF rest = <<>> THEN {} ELSE {Head(rest)}
      /\ Return({t}, status)
      /\ members' = 0
      /\ UNCHANGED <<request, count, delayed, arrivals>>

\* Mutant: the new front of the queue is not woken.
Finish_NoWake(t, n, status) ==
  LET done == {queue[i] : i \in 2 .. n}
  IN  /\ queue' = SubSeq(queue, n + 1, Len(queue))
      /\ result' = [u \in Threads |-> IF u \in done THEN status ELSE result[u]]
      /\ signalled' = signalled \union done
      /\ Return({t}, status)
      /\ members' = 0
      /\ UNCHANGED <<request, count, delayed, arrivals>>

\* The front thread takes the first n writers off the queue, tells the others
\* how it went, wakes the new front and returns.
Finish(t, n, status) ==
  LET done == {queue[i] : i \in 2 .. n}
      rest == SubSeq(queue, n + 1, Len(queue))
  IN  /\ queue' = rest
      /\ result' = [u \in Threads |-> IF u \in done THEN status ELSE result[u]]
      /\ signalled' = signalled \union done \union IF rest = <<>> THEN {} ELSE {Head(rest)}
      /\ Return({t}, status)
      /\ members' = 0
      /\ UNCHANGED <<request, count, delayed, arrivals>>

------------------------
(* Making room, as the front of the queue. *)

\* Mutant: a synced write may join the group of one that is not.
Fits_AnySync(i) ==
  LET size(j) == request[queue[j]].size
      limit == IF size(1) <= SmallBatch THEN size(1) + SmallBatch ELSE MaxBatch
  IN  size(i) > 0 => MapThenSumSet(size, 1 .. i) <= limit

\* Whether the i-th writer may join the group of the first, with all before it.
Fits(i) ==
  LET size(j) == request[queue[j]].size
      limit == IF size(1) <= SmallBatch THEN size(1) + SmallBatch ELSE MaxBatch
  IN  /\ request[queue[i]].sync => request[queue[1]].sync
      /\ size(i) > 0 => MapThenSumSet(size, 1 .. i) <= limit

\* BuildBatchGroup: how many writers from the front on are written together.
GroupSize == Cardinality({n \in 1 .. Len(queue) : \A i \in 2 .. n : Fits(i)})

HasRoom(t) == ~IsNull(t) /\ Cardinality(mem) <= WriteBuffer

MustSleep(t) == ~IsNull(t) /\ ~delayed[t] /\ level0 >= L0Slowdown

\* An earlier background error is the answer.
RoomError(t) ==
  /\ pc[t] = "room" /\ error # Nil
  /\ Finish(t, 1, "error")
  /\ pc' = [pc EXCEPT ![t] = "idle"]
  /\ UNCHANGED <<logVars, mem, imm, tables, bgVars, error, closing, failures>>

\* Level 0 is getting full: sleep once, without the mutex.
RoomSleep(t) ==
  /\ pc[t] = "room" /\ error = Nil /\ MustSleep(t)
  /\ pc' = [pc EXCEPT ![t] = "sleeping"]
  /\ UNCHANGED <<queueVars, threadVars, answerVars, logVars, mem, imm, tables,
                 bgVars, error, closing, failures>>

Slept(t) ==
  /\ pc[t] = "sleeping"
  /\ pc' = [pc EXCEPT ![t] = "room"]
  /\ delayed' = [delayed EXCEPT ![t] = TRUE]
  /\ UNCHANGED <<queueVars, request, count, signalled, result, answerVars, logVars,
                 mem, imm, tables, bgVars, error, closing, failures>>

\* Mutant: room is found before the error is looked at.
RoomFound_AnyError(t) ==
  /\ pc[t] = "room" /\ ~MustSleep(t) /\ HasRoom(t)
  /\ pc' = [pc EXCEPT ![t] = "logging"]
  /\ members' = GroupSize
  /\ UNCHANGED <<queue, arrivals, threadVars, answerVars, logVars, mem, imm, tables,
                 bgVars, error, closing, failures>>

RoomFound(t) ==
  /\ pc[t] = "room" /\ error = Nil /\ ~MustSleep(t) /\ HasRoom(t)
  /\ pc' = [pc EXCEPT ![t] = "logging"]
  /\ members' = GroupSize
  /\ UNCHANGED <<queue, arrivals, threadVars, answerVars, logVars, mem, imm, tables,
                 bgVars, error, closing, failures>>

\* The old memtable is not flushed yet, or level 0 is full: wait on bg_cv_.
RoomStall(t) ==
  /\ pc[t] = "room" /\ error = Nil /\ ~MustSleep(t) /\ ~HasRoom(t)
  /\ imm # Nil \/ level0 >= L0Stop
  /\ pc' = [pc EXCEPT ![t] = "stalled"]
  /\ UNCHANGED <<queueVars, threadVars, answerVars, logVars, mem, imm, tables,
                 bgVars, error, closing, failures>>

\* A new log and a new memtable; then there is room, and a null batch is done.
RoomSwitch(t) ==
  /\ pc[t] = "room" /\ error = Nil /\ ~MustSleep(t) /\ ~HasRoom(t)
  /\ imm = Nil /\ level0 < L0Stop
  /\ \/ /\ logFile' = logFile + 1
        /\ imm' = mem /\ mem' = {}
        /\ MaybeSchedule(imm', level0, scheduled)
        /\ IF IsNull(t)
           THEN Finish(t, 1, "ok") /\ pc' = [pc EXCEPT ![t] = "idle"]
           ELSE /\ pc' = [pc EXCEPT ![t] = "logging"]
                /\ members' = GroupSize
                /\ UNCHANGED <<queue, arrivals, threadVars, answerVars>>
        /\ UNCHANGED failures
     \/ /\ Fails
        /\ Finish(t, 1, "error")
        /\ pc' = [pc EXCEPT ![t] = "idle"]
        /\ UNCHANGED <<logFile, imm, mem, scheduled>>
  /\ UNCHANGED <<log, last, tables, level0, bg, error, closing>>

------------------------
(* Writing the group, without the mutex. *)

\* BuildBatchGroup's loop: the batches of the writers that have one, appended in order.
AppendBatches(writers) ==
  LET appended[n \in 0 .. Len(writers)] ==
        IF n = 0 THEN <<>>
        ELSE IF writers[n].size = 0 THEN appended[n - 1]
        ELSE Append(appended[n - 1], writers[n].batch)
  IN  appended[Len(writers)]

Group == AppendBatches([i \in 1 .. members |-> [batch |-> Batch(queue[i]),
                                              size  |-> request[queue[i]].size]])

LogRecord(t) ==
  /\ pc[t] = "logging"
  /\ \/ /\ log' = Append(log, [file |-> logFile, first |-> last + 1, batches |-> Group,
                               synced |-> FALSE])
        /\ pc' = [pc EXCEPT ![t] = IF request[t].sync THEN "syncing" ELSE "inserting"]
        /\ UNCHANGED failures
     \/ /\ Fails
        /\ pc' = [pc EXCEPT ![t] = "logFailed"]
        /\ UNCHANGED log
  /\ UNCHANGED <<queueVars, threadVars, answerVars, logFile, last, mem, imm, tables,
                 bgVars, error, closing>>

\* A sync reaches every record of the log in use.
SyncLog(t) ==
  /\ pc[t] = "syncing"
  /\ \/ /\ log' = [i \in DOMAIN log |-> IF log[i].file = logFile
                                        THEN [log[i] EXCEPT !.synced = TRUE] ELSE log[i]]
        /\ pc' = [pc EXCEPT ![t] = "inserting"]
        /\ UNCHANGED failures
     \/ /\ Fails
        /\ pc' = [pc EXCEPT ![t] = "syncFailed"]
        /\ UNCHANGED log
  /\ UNCHANGED <<queueVars, threadVars, answerVars, logFile, last, mem, imm, tables,
                 bgVars, error, closing>>

Insert(t) ==
  /\ pc[t] = "inserting"
  /\ mem' = mem \union ToSet(Group)
  /\ pc' = [pc EXCEPT ![t] = "inserted"]
  /\ UNCHANGED <<queueVars, threadVars, answerVars, logVars, imm, tables, bgVars, error,
                 closing, failures>>

\* Mutant: a group uses up one sequence number.
Publish_OneNumber(t) ==
  /\ pc[t] \in {"inserted", "logFailed", "syncFailed"}
  /\ last' = last + 1
  /\ Finish(t, members, IF pc[t] = "inserted" THEN "ok" ELSE "error")
  /\ error' = IF pc[t] = "syncFailed" /\ error = Nil THEN "sync" ELSE error
  /\ pc' = [pc EXCEPT ![t] = "idle"]
  /\ UNCHANGED <<log, logFile, mem, imm, tables, bgVars, closing, failures>>

\* The mutex again: a failed sync becomes the background error, the numbers are
\* used up whatever happened, and the group is done.
Publish(t) ==
  /\ pc[t] \in {"inserted", "logFailed", "syncFailed"}
  /\ last' = last + Len(Group)
  /\ Finish(t, members, IF pc[t] = "inserted" THEN "ok" ELSE "error")
  /\ error' = IF pc[t] = "syncFailed" /\ error = Nil THEN "sync" ELSE error
  /\ pc' = [pc EXCEPT ![t] = "idle"]
  /\ UNCHANGED <<log, logFile, mem, imm, tables, bgVars, closing, failures>>

------------------------
(* Closing, when no thread uses the store any more. *)

Close ==
  /\ closing = "open" /\ \A t \in Threads : pc[t] = "idle"
  /\ closing' = "closing"
  /\ UNCHANGED <<queueVars, pc, threadVars, answerVars, logVars, mem, imm, tables,
                 bgVars, error, failures>>

\* Mutant: the destructor does not wait.
Closed_NoWait ==
  /\ closing = "closing"
  /\ closing' = "closed"
  /\ UNCHANGED <<queueVars, pc, threadVars, answerVars, logVars, mem, imm, tables,
                 bgVars, error, failures>>

Closed ==
  /\ closing = "closing" /\ ~scheduled
  /\ closing' = "closed"
  /\ UNCHANGED <<queueVars, pc, threadVars, answerVars, logVars, mem, imm, tables,
                 bgVars, error, failures>>

Init ==
  /\ queue = <<>> /\ members = 0 /\ arrivals = <<>>
  /\ pc = [t \in Threads |-> "idle"]
  /\ request = [t \in Threads |-> [sync |-> FALSE, size |-> 0]]
  /\ count = [t \in Threads |-> 0] /\ signalled = {}
  /\ result = [t \in Threads |-> Nil] /\ delayed = [t \in Threads |-> FALSE]
  /\ acked = {} /\ failed = {}
  /\ log = <<>> /\ logFile = 1 /\ last = 0
  /\ mem = {} /\ imm = Nil /\ tables = {}
  /\ level0 = 0 /\ scheduled = FALSE /\ bg = "idle"
  /\ error = Nil /\ closing = "open" /\ failures = 0

Step(t) ==
  \/ Wake(t) \/ RoomError(t) \/ RoomSleep(t) \/ Slept(t) \/ RoomFound(t) \/ RoomStall(t)
  \/ RoomSwitch(t) \/ LogRecord(t) \/ SyncLog(t) \/ Insert(t) \/ Publish(t)

Next ==
  \/ \E t \in Threads, r \in Requests : Call(t, r)
  \/ \E t \in Threads : Step(t)
  \/ Background
  \/ Close \/ Closed

Spec == Init /\ [][Next]_vars

\* Where Step(t) is enabled, and Background.
CanRun(t) ==
  \/ pc[t] \notin {"idle", "waiting", "stalled"}
  \/ pc[t] = "waiting" /\ t \in signalled
BackgroundCanRun == scheduled

\* A thread that can run does, and so does the scheduled background thread.
FairSpec ==
  Spec /\ (\A t \in Threads : WF_vars(Step(t))) /\ WF_vars(Background) /\ WF_vars(Closed)

------------------------
(* Properties. *)

Stages == {"idle", "waiting", "room", "sleeping", "stalled", "logging", "syncing",
           "inserting", "inserted", "logFailed", "syncFailed"}

TypeOK ==
  /\ queue \in Seq(Threads) /\ members \in 0 .. Len(queue)
  /\ pc \in [Threads -> Stages]
  /\ request \in [Threads -> Requests \union {[sync |-> FALSE, size |-> 0]}]
  /\ count \in [Threads -> 0 .. MaxWrites]
  /\ signalled \subseteq Threads
  /\ result \in [Threads -> {Nil, "ok", "error"}]
  /\ last \in Nat /\ level0 \in 0 .. L0Stop
  /\ bg \in {"idle", "flushing", "merging", "ending"} /\ bg # "idle" => scheduled
  /\ error \in {Nil, "sync", "background"}

ArrivesBefore(b, c) ==
  \E p, q \in DOMAIN arrivals : p < q /\ arrivals[p] = b /\ arrivals[q] = c

\* Batches are logged once, in the order they arrived, under sequence numbers
\* that ascend from record to record whatever failed in between.
LogInQueueOrder ==
  /\ \A i, j \in DOMAIN log :
       \A k \in DOMAIN log[i].batches, l \in DOMAIN log[j].batches :
         i < j \/ (i = j /\ k < l) => ArrivesBefore(log[i].batches[k], log[j].batches[l])
  /\ \A i \in 2 .. Len(log) : log[i - 1].first + Len(log[i - 1].batches) <= log[i].first

\* A write that asked for a sync and was acknowledged is on the disk, also when
\* another thread wrote it in its group.
AckedSyncsAreSynced ==
  \A i \in DOMAIN log : \A j \in DOMAIN log[i].batches :
    LET b == log[i].batches[j] IN
    b \in acked /\ count[b[1]] = b[2] /\ request[b[1]].sync => log[i].synced

\* What was acknowledged can be read, what was reported as failed cannot,
\* whichever of memtable, immutable memtable and tables holds it by now.
AnswersAreTrue ==
  LET readable == mem \union tables \union IF imm = Nil THEN {} ELSE imm
  IN  acked \subseteq readable /\ failed \cap readable = {}

\* What Write answers is true: batches are logged in the order they arrived, a synced one
\* is on the disk when it is acknowledged, an acknowledged one can be read, a failed one not.
QueueAnswersAreTrue == LogInQueueOrder /\ AckedSyncsAreSynced /\ AnswersAreTrue

\* The comment in DBImpl::Write: after a failed sync "we force the DB into a
\* mode where all future writes fail".
NoAnswerAfterFailedSync ==
  error = "sync" => acked' \ acked \subseteq {Batch(t) : t \in {u \in Threads : result[u] = "ok"}}
QueueNothingAfterFailedSync == [][NoAnswerAfterFailedSync]_vars

\* A stalled front thread is never forgotten: background work is under way or
\* scheduled that will signal it.
StalledIsScheduled ==
  \A t \in Threads : pc[t] = "stalled" => scheduled

\* The destructor returns only when the background thread is done.
ClosedIsQuiet == closing = "closed" => bg = "idle" /\ ~scheduled

\* Nobody waits for work that nobody will do: a stalled writer has the background thread
\* scheduled, a destructor that returned has left none behind.
QueueIsAttended == StalledIsScheduled /\ ClosedIsQuiet

\* Every write returns.
WritesReturn == \A t \in Threads : pc[t] # "idle" ~> pc[t] = "idle"
=============================================================================
