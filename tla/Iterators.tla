------------------------------- MODULE Iterators -------------------------------
(***************************************************************************)
(* A DBIter over a MergingIterator over the iterators of a memtable and of *)
(* a level (a TwoLevelIterator over its files).  The memtable grows while  *)
(* the iterator is in use; what is inserted has a later sequence number    *)
(* than the iterator's.  A file may turn out to be unreadable.  An action  *)
(* is one call the DBIter makes to the merging iterator.                   *)
(***************************************************************************)
EXTENDS Integers, Sequences, SequencesExt, FiniteSetsExt

CONSTANTS
  Keys,       \* user keys, naturals
  Histories,  \* the writes before the iterator is made: sequences of <<key, type>>
  MaxInserts, \* writes afterwards
  Nil

\* What the constants have to satisfy; the modules of the runs assume it.
IteratorAssumption ==
  Keys \subseteq Nat /\ Histories \subseteq Seq(Keys \X {"Value", "Deletion"}) /\ MaxInserts \in Nat

VARIABLES
  mem,       \* the entries <<key, sequence, type>> of the memtable
  files,     \* the level: sequences of entries, none empty
  bad,       \* the files that cannot be opened
  sequence,  \* sequence_
  iter,      \* the merging iterator: [mem, run, current, dir]
  dir, valid, savedKey, savedValue,  \* the members of DBIter
  pc, skipping, valueType,  \* where a call is, and its locals
  shown,     \* <<key, sequence>> of the entry the caller sees, Nil when not Valid
  expected   \* what it ought to see

fixed == <<files, bad, sequence>>
vars == <<mem, fixed, iter, dir, valid, savedKey, savedValue, pc, skipping, valueType,
          shown, expected>>

------------------------
(* Internal keys: by user key, then the newest first. *)

Less(e, f) == e[1] < f[1] \/ (e[1] = f[1] /\ e[2] > f[2])
AtLeast(e, f) == ~Less(e, f)

FirstIn(S) == IF S = {} THEN Nil ELSE CHOOSE e \in S : \A f \in S : AtLeast(f, e)
LastIn(S) == IF S = {} THEN Nil ELSE CHOOSE e \in S : \A f \in S : AtLeast(e, f)

Target(k) == <<k, sequence, "Value">>  \* kValueTypeForSeek

------------------------
(* The two-level iterator, [file, entry, error]: file 0 is not Valid.  A file  *)
(* that cannot be opened gives an iterator without entries and with an error.  *)

EntriesOf(i) == IF i \in bad THEN {} ELSE ToSet(files[i])

RunKey(r) == r.entry

\* SkipEmptyDataBlocksForward and ...Backward, from file i with its position in it.
OnFile(i, e, err) == [file |-> i, entry |-> e, error |-> err]

SkipForward(i, e, err) ==
  IF e # Nil THEN OnFile(i, e, err)
  ELSE LET rest == {j \in i + 1 .. Len(files) : EntriesOf(j) # {}}
           to == IF rest = {} THEN Len(files) ELSE Min(rest)
           seen == err \/ \E j \in i .. to : j \in bad
       IN IF rest = {} THEN OnFile(0, Nil, seen) ELSE OnFile(to, FirstIn(EntriesOf(to)), seen)

\* Mutant: a file that is through is entered again.
SkipBackward_SameFile(i, e, err) ==
  IF e # Nil THEN OnFile(i, e, err)
  ELSE LET rest == {j \in 1 .. i : EntriesOf(j) # {}}
           to == IF rest = {} THEN 1 ELSE Max(rest)
           seen == err \/ \E j \in to .. i : j \in bad
       IN IF rest = {} THEN OnFile(0, Nil, seen) ELSE OnFile(to, LastIn(EntriesOf(to)), seen)

SkipBackward(i, e, err) ==
  IF e # Nil THEN OnFile(i, e, err)
  ELSE LET rest == {j \in 1 .. i - 1 : EntriesOf(j) # {}}
           to == IF rest = {} THEN 1 ELSE Max(rest)
           seen == err \/ \E j \in to .. i : j \in bad
       IN IF rest = {} THEN OnFile(0, Nil, seen) ELSE OnFile(to, LastIn(EntriesOf(to)), seen)

RunSeek(r, t) ==
  LET at == {i \in 1 .. Len(files) : AtLeast(Last(files[i]), t)} IN  \* FindFile
  IF at = {} THEN OnFile(0, Nil, r.error)
  ELSE SkipForward(Min(at), FirstIn({e \in EntriesOf(Min(at)) : AtLeast(e, t)}), r.error)

RunFirst(r) == IF files = << >> THEN r ELSE SkipForward(1, FirstIn(EntriesOf(1)), r.error)
RunLast(r) ==
  IF files = << >> THEN r
  ELSE SkipBackward(Len(files), LastIn(EntriesOf(Len(files))), r.error)

RunNext(r) ==
  SkipForward(r.file, FirstIn({e \in EntriesOf(r.file) : Less(r.entry, e)}), r.error)
RunPrev(r) ==
  SkipBackward(r.file, LastIn({e \in EntriesOf(r.file) : Less(e, r.entry)}), r.error)

------------------------
(* The skip list's iterator is at a node of the memtable as it is now. *)

MemSeek(t) == FirstIn({e \in mem : AtLeast(e, t)})
MemNext(e) == FirstIn({f \in mem : Less(e, f)})
MemPrev(e) == LastIn({f \in mem : Less(f, e)})

------------------------
(* The merging iterator; the memtable is its first child. *)

Key(m) == IF m.current = "mem" THEN m.mem ELSE RunKey(m.run)

FindSmallest(m) ==
  [m EXCEPT !.dir = "forward", !.current =
     IF m.mem = Nil THEN (IF RunKey(m.run) = Nil THEN Nil ELSE "run")
     ELSE IF RunKey(m.run) # Nil /\ Less(RunKey(m.run), m.mem) THEN "run" ELSE "mem"]

FindLargest(m) ==
  [m EXCEPT !.dir = "reverse", !.current =
     IF RunKey(m.run) = Nil THEN (IF m.mem = Nil THEN Nil ELSE "mem")
     ELSE IF m.mem # Nil /\ Less(RunKey(m.run), m.mem) THEN "mem" ELSE "run"]

MergedFirst == FindSmallest([iter EXCEPT !.mem = FirstIn(mem), !.run = RunFirst(@)])
MergedLast == FindLargest([iter EXCEPT !.mem = LastIn(mem), !.run = RunLast(@)])
MergedSeek(t) == FindSmallest([iter EXCEPT !.mem = MemSeek(t), !.run = RunSeek(@, t)])

\* A change of direction puts the child that is not current on the other side of the key.
PutAfter(m) ==
  IF m.dir = "forward" THEN m
  ELSE IF m.current = "mem"
       THEN LET r == RunSeek(m.run, Key(m)) IN
            [m EXCEPT !.run = IF r.entry = Key(m) THEN RunNext(r) ELSE r]
       ELSE LET e == MemSeek(Key(m)) IN
            [m EXCEPT !.mem = IF e = Key(m) THEN MemNext(e) ELSE e]

\* Mutant: a child without an entry at or after the key is lost.
PutBefore_NoLast(m) ==
  IF m.dir = "reverse" THEN m
  ELSE IF m.current = "mem"
       THEN LET r == RunSeek(m.run, Key(m)) IN
            [m EXCEPT !.run = IF r.entry = Nil THEN r ELSE RunPrev(r)]
       ELSE LET e == MemSeek(Key(m)) IN
            [m EXCEPT !.mem = IF e = Nil THEN Nil ELSE MemPrev(e)]

PutBefore(m) ==
  IF m.dir = "reverse" THEN m
  ELSE IF m.current = "mem"
       THEN LET r == RunSeek(m.run, Key(m)) IN
            [m EXCEPT !.run = IF r.entry = Nil THEN RunLast(r) ELSE RunPrev(r)]
       ELSE LET e == MemSeek(Key(m)) IN
            [m EXCEPT !.mem = IF e = Nil THEN LastIn(mem) ELSE MemPrev(e)]

MergedNext(m) ==
  FindSmallest(IF m.current = "mem" THEN [PutAfter(m) EXCEPT !.mem = MemNext(@)]
               ELSE [PutAfter(m) EXCEPT !.run = RunNext(@)])
MergedPrev(m) ==
  FindLargest(IF m.current = "mem" THEN [PutBefore(m) EXCEPT !.mem = MemPrev(@)]
              ELSE [PutBefore(m) EXCEPT !.run = RunPrev(@)])

------------------------
(* What the snapshot holds, and where each call should lead. *)

Entries == mem \union UNION {ToSet(files[i]) : i \in 1 .. Len(files)}

Visible ==
  LET seen == {e \in Entries : e[2] <= sequence} IN
  {<<e[1], e[2]>> : e \in {e \in seen : e[3] = "Value" /\ \A f \in seen : f[1] = e[1] => f[2] <= e[2]}}

Lowest(S) == IF S = {} THEN Nil ELSE CHOOSE v \in S : \A w \in S : v[1] <= w[1]
Highest(S) == IF S = {} THEN Nil ELSE CHOOSE v \in S : \A w \in S : v[1] >= w[1]

------------------------
\* The sequence number of an entry is its place in the history; the older entries are in
\* files of one or two, the newer ones in the memtable, and a repaired database
\* may have an entry in both.
Init ==
  /\ \E h \in Histories : \E inFiles \in 0 .. Len(h), inBoth \in 0 .. 1, size \in 1 .. 2 :
       LET all == {<<h[n][1], n, h[n][2]>> : n \in 1 .. Len(h)}
           run == SetToSortSeq({e \in all : e[2] <= inFiles}, Less)
       IN /\ mem = {e \in all : e[2] > inFiles - inBoth}
          /\ files = [i \in 1 .. (Len(run) + size - 1) \div size |->
                        SubSeq(run, (i - 1) * size + 1, Min({i * size, Len(run)}))]
          /\ sequence \in {Len(h) - 1, Len(h)}
  /\ bad \in {{}} \union {{i} : i \in 1 .. Len(files)}
  /\ iter = [mem |-> Nil, run |-> OnFile(0, Nil, FALSE), current |-> Nil, dir |-> "forward"]
  /\ dir = "forward" /\ valid = FALSE /\ savedKey = Nil /\ savedValue = Nil
  /\ pc = "idle" /\ skipping = FALSE /\ valueType = "Deletion"
  /\ shown = Nil /\ expected = Nil

\* A call returns with what Valid, key and value say then.
Return(v, entry) ==
  /\ pc' = "idle" /\ valid' = v /\ shown' = entry
  /\ UNCHANGED <<skipping, valueType>>

\* The loop of FindNextUserEntry is entered, if the merging iterator is valid.
FindNext(skip) ==
  IF iter'.current # Nil
  THEN pc' = "forward" /\ skipping' = skip /\ UNCHANGED <<valid, shown, valueType>>
  ELSE Return(FALSE, Nil)

FindPrev ==
  /\ pc' = "backward" /\ valueType' = "Deletion"
  /\ UNCHANGED <<valid, shown, skipping>>

SeekToFirst ==
  /\ pc = "idle" /\ expected' = Lowest(Visible)
  /\ dir' = "forward" /\ savedValue' = Nil /\ UNCHANGED savedKey
  /\ iter' = MergedFirst
  /\ FindNext(FALSE)
  /\ UNCHANGED <<mem, fixed>>

Seek(k) ==
  /\ pc = "idle" /\ expected' = Lowest({v \in Visible : v[1] >= k})
  /\ dir' = "forward" /\ savedValue' = Nil /\ savedKey' = k
  /\ iter' = MergedSeek(Target(k))
  /\ FindNext(FALSE)
  /\ UNCHANGED <<mem, fixed>>

SeekToLast ==
  /\ pc = "idle" /\ expected' = Highest(Visible)
  /\ dir' = "reverse" /\ savedValue' = Nil
  /\ iter' = MergedLast
  /\ FindPrev
  /\ UNCHANGED <<mem, fixed, savedKey>>

Next_ ==
  /\ pc = "idle" /\ valid /\ dir' = "forward"
  /\ expected' = Lowest({v \in Visible : v[1] > shown[1]})
  /\ IF dir = "reverse"
     THEN /\ iter' = IF iter.current = Nil THEN MergedFirst ELSE MergedNext(iter)
          /\ savedKey' = IF iter'.current = Nil THEN Nil ELSE savedKey
     ELSE iter' = iter /\ savedKey' = Key(iter)[1]
  /\ FindNext(TRUE)
  /\ UNCHANGED <<mem, fixed, savedValue>>

Prev ==
  /\ pc = "idle" /\ valid
  /\ expected' = Highest({v \in Visible : v[1] < shown[1]})
  /\ IF dir = "forward"
     THEN /\ savedKey' = Key(iter)[1] /\ pc' = "turning"
          /\ UNCHANGED <<valid, shown, skipping, valueType>>
     ELSE FindPrev /\ UNCHANGED savedKey
  /\ UNCHANGED <<mem, fixed, iter, dir, savedValue>>

\* Prev scans backwards until the key changes.
Turn ==
  /\ pc = "turning" /\ iter' = MergedPrev(iter)
  /\ IF iter'.current = Nil
     THEN savedKey' = Nil /\ savedValue' = Nil /\ dir' = dir /\ Return(FALSE, Nil)
     ELSE /\ UNCHANGED <<savedKey, savedValue>>
          /\ IF Key(iter')[1] < savedKey
             THEN dir' = "reverse" /\ FindPrev
             ELSE UNCHANGED <<dir, pc, valid, shown, skipping, valueType>>
  /\ UNCHANGED <<mem, fixed, expected>>

\* One turn of the loop in FindNextUserEntry.
FindNextUserEntry ==
  /\ pc = "forward"
  /\ LET e == Key(iter)
         seen == e[2] <= sequence
         hidden == skipping /\ e[1] <= savedKey
     IN IF seen /\ e[3] = "Value" /\ ~hidden
        THEN savedKey' = Nil /\ Return(TRUE, <<e[1], e[2]>>) /\ UNCHANGED iter
        ELSE /\ iter' = MergedNext(iter)
             /\ IF iter'.current = Nil THEN savedKey' = Nil /\ Return(FALSE, Nil)
                ELSE /\ savedKey' = IF seen /\ e[3] = "Deletion" THEN e[1] ELSE savedKey
                     /\ skipping' = (skipping \/ (seen /\ e[3] = "Deletion"))
                     /\ UNCHANGED <<pc, valid, shown, valueType>>
  /\ UNCHANGED <<mem, fixed, dir, savedValue, expected>>

\* Mutant: the first value met is the answer.
IsComplete_AnyKey(e) == e[2] <= sequence /\ valueType # "Deletion"

\* An entry of a key before the one saved: what is saved is the answer.
IsComplete(e) == e[2] <= sequence /\ valueType # "Deletion" /\ e[1] < savedKey

\* One turn of the loop in FindPrevUserEntry, and what follows it.
FindPrevUserEntry ==
  /\ pc = "backward"
  /\ LET e == Key(iter)
         seen == e[2] <= sequence
     IN IF iter.current = Nil \/ IsComplete(e)
        THEN /\ IF valueType = "Deletion"
                THEN Return(FALSE, Nil) /\ savedKey' = Nil /\ savedValue' = Nil /\ dir' = "forward"
                ELSE Return(TRUE, <<savedKey, savedValue>>) /\ UNCHANGED <<savedKey, savedValue, dir>>
             /\ UNCHANGED iter
        ELSE /\ IF seen
                THEN /\ valueType' = e[3]
                     /\ savedKey' = IF e[3] = "Deletion" THEN Nil ELSE e[1]
                     /\ savedValue' = IF e[3] = "Deletion" THEN Nil ELSE e[2]
                ELSE UNCHANGED <<valueType, savedKey, savedValue>>
             /\ iter' = MergedPrev(iter)
             /\ UNCHANGED <<pc, valid, shown, skipping, dir>>
  /\ UNCHANGED <<mem, fixed, expected>>

\* A writer inserts into the memtable, at any time.
Insert(k, type) ==
  /\ LET newest == Max({0} \union {e[2] : e \in Entries}) IN
     /\ newest < sequence + MaxInserts
     /\ mem' = mem \union {<<k, newest + 1, type>>}
  /\ UNCHANGED <<fixed, iter, dir, valid, savedKey, savedValue, pc, skipping, valueType,
                 shown, expected>>

Loop == Turn \/ FindNextUserEntry \/ FindPrevUserEntry

Next ==
  \/ SeekToFirst \/ SeekToLast \/ Next_ \/ Prev \/ Loop
  \/ \E k \in Keys : Seek(k) \/ Insert(k, "Value") \/ Insert(k, "Deletion")

Spec == Init /\ [][Next]_vars
FairSpec == Spec /\ WF_vars(Loop)

------------------------
(* Properties. *)

TypeOK ==
  /\ iter.current \in {Nil, "mem", "run"} /\ iter.mem \in mem \union {Nil}
  /\ dir \in {"forward", "reverse"} /\ iter.dir \in {"forward", "reverse"}
  /\ pc \in {"idle", "turning", "forward", "backward"}
  /\ savedKey \in Keys \union {Nil} /\ valid = (shown # Nil)

\* Whatever the sequence of calls and turns, and whatever is inserted meanwhile, a call
\* ends at the entry the snapshot has there, or status reports the file that could not
\* be read.
ShowsTheSnapshot == pc = "idle" => shown = expected \/ iter.run.error

\* A direction of DBIter agrees with what the comment says about its inner iterator:
\* backwards, that one is before every entry of the key shown.
ReverseIsBefore ==
  pc = "idle" /\ valid /\ dir = "reverse" => iter.current = Nil \/ Key(iter)[1] < shown[1]

\* Every call returns.
CallsReturn == pc # "idle" ~> pc = "idle"
===============================================================================
