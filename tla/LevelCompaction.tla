---------------------------- MODULE LevelCompaction ----------------------------
(***************************************************************************)
(* Memtable, tables and compactions of the store: writes fill the          *)
(* memtable, the background thread flushes the full one and merges files   *)
(* down the levels, with snapshots taken and released meanwhile.  The      *)
(* mutex is released while a compaction merges, so writes, snapshots,      *)
(* manual requests and the flush the merge loop itself makes fall between  *)
(* its start and its installation.                                         *)
(***************************************************************************)
EXTENDS LevelFiles, SequencesExt

CONSTANTS
  Keys,            \* user keys, numbers
  Kinds,           \* the kinds of entries written: "Value", "Deletion"
  L0Stop,          \* config::kL0_StopWritesTrigger
  MaxOutputFileSize,
  MaxWrites, MaxSnapshots, MaxManual, MaxSeeks, \* bounds of the instance
  ManualRanges,    \* the ranges <<begin, end>> requested by hand
  Nil

\* What the constants have to satisfy; the modules of the runs assume it.
StoreAssumption ==
  /\ LevelAssumption
  /\ ManualRanges \subseteq Nat \X Nat
  /\ Keys \subseteq Nat \ {0} /\ Kinds \subseteq {"Value", "Deletion"}
  /\ MaxWrites \in Nat /\ MaxSequenceNumber \in Nat /\ MaxWrites < MaxSequenceNumber

VARIABLES
  mem, imm,        \* entries of the memtable; the immutable one, if any
  last,            \* last_sequence_
  levels,          \* current_->files_
  toCompact,       \* current_->file_to_compact_ with its level, or Nil
  pointer,         \* compact_pointer_
  snapshots,       \* snapshots_, oldest first
  work,            \* the compaction in progress, or Nil
  manual,          \* the manual request: Nil or its level and range, and
                   \* whether it is registered as manual_compaction_
  nextFile,        \* next_file_number_
  manuals, seeks,  \* requests and charged seeks so far
  written,         \* every entry ever written
  straddled,       \* some level above 0 has held one user key in two files
  late             \* a merge has installed its outputs in a level that had got
                   \* another file since it began

vars == <<mem, imm, last, levels, toCompact, pointer, snapshots, work, manual,
          nextFile, manuals, seeks, written, straddled, late>>

Entries == [key : Keys, seq : 1 .. MaxWrites, type : Kinds]

\* No two files of a level above 0 share a user key.
Apart(ls) ==
  \A l \in 1 .. NumLevels - 1 : \A f, g \in ls[l] :
    f # g => ~Overlaps(f, RangeOf(g))

\* Mutant: the seek compaction of the old version is kept.
Install_KeepSeek(ls) ==
  /\ levels' = ls
  /\ UNCHANGED toCompact
  /\ straddled' = (straddled \/ ~Apart(ls))

Install(ls) ==
  /\ levels' = ls
  /\ toCompact' = Nil
  /\ straddled' = (straddled \/ ~Apart(ls))

------------------------
(* Writers and snapshots. *)

Write(key, type) ==
  /\ last < MaxWrites
  /\ LET e == [key |-> key, seq |-> last + 1, type |-> type]
     IN  mem' = mem \union {e} /\ written' = written \union {e}
  /\ last' = last + 1
  /\ UNCHANGED <<imm, levels, toCompact, pointer, snapshots, work, manual,
                 nextFile, manuals, seeks, straddled, late>>

\* The front writer switches to a new memtable once the old one is flushed and
\* level 0 is not full.
SwitchMemTable ==
  /\ imm = <<>> /\ mem # {}
  /\ Cardinality(levels[0]) < L0Stop
  /\ imm' = <<mem>> /\ mem' = {}
  /\ UNCHANGED <<last, levels, toCompact, pointer, snapshots, work, manual,
                 nextFile, manuals, seeks, written, straddled, late>>

GetSnapshot ==
  /\ Len(snapshots) < MaxSnapshots
  /\ snapshots' = Append(snapshots, last)
  /\ UNCHANGED <<mem, imm, last, levels, toCompact, pointer, work, manual,
                 nextFile, manuals, seeks, written, straddled, late>>

ReleaseSnapshot(i) ==
  /\ snapshots' = RemoveAt(snapshots, i)
  /\ UNCHANGED <<mem, imm, last, levels, toCompact, pointer, work, manual,
                 nextFile, manuals, seeks, written, straddled, late>>

\* Reads that visit two files charge the first; after enough of them that file
\* is to be compacted.
ChargeSeek(key, seq) ==
  LET files == Visited(levels, key, seq) IN
  /\ seeks < MaxSeeks
  /\ toCompact = Nil
  /\ Cardinality(files) >= 2
  /\ toCompact' = FirstVisit(files)
  /\ seeks' = seeks + 1
  /\ UNCHANGED <<mem, imm, last, levels, pointer, snapshots, work, manual,
                 nextFile, manuals, written, straddled, late>>

------------------------
(* Manual requests. *)

RequestManual(level, lo, hi) ==
  /\ manual = Nil /\ manuals < MaxManual
  /\ manual' = [level |-> level, lo |-> lo, hi |-> hi, registered |-> TRUE]
  /\ manuals' = manuals + 1
  /\ UNCHANGED <<mem, imm, last, levels, toCompact, pointer, snapshots, work,
                 nextFile, seeks, written, straddled, late>>

\* Woken after a part of its range was compacted, the request registers again.
RegisterAgain ==
  /\ manual # Nil /\ ~manual.registered
  /\ manual' = [manual EXCEPT !.registered = TRUE]
  /\ UNCHANGED <<mem, imm, last, levels, toCompact, pointer, snapshots, work,
                 nextFile, manuals, seeks, written, straddled, late>>

------------------------
(* The background thread. *)

\* The immutable memtable becomes a table: alone, or from the merge loop.
CompactMemTable ==
  /\ imm # <<>>
  /\ LET f == [number |-> nextFile, entries |-> imm[1]]
         l == PickLevelForMemTableOutput(levels, RangeOf(f))
     IN  Install([levels EXCEPT ![l] = @ \union {f}])
  /\ imm' = <<>>
  /\ nextFile' = nextFile + 1
  /\ UNCHANGED <<mem, last, pointer, snapshots, work, manual, manuals, seeks, written, late>>

\* Of a level too full, the first file past the one compacted last, else the first.
FileAfter(key, files) ==
  LET past == {f \in files : key = Nil \/ Precedes(key, Largest(f))}
  IN  FirstFile(IF past = {} THEN files ELSE past)

PickBySize(level) == [level |-> level, files |-> {FileAfter(pointer[level], levels[level])}]

\* At level 0 with every file that overlaps the one picked.
PickCompaction(p) ==
  SetupOtherInputs(levels, p.level,
    IF p.level = 0 THEN GetOverlappingInputs(levels, 0, Hull(p.files)) ELSE p.files)

Picked ==
  PickCompaction(IF SizeCompaction(levels) THEN PickBySize(CompactionLevel(levels))
                 ELSE [level |-> toCompact.level, files |-> {toCompact.file}])

IsTrivialMove(c) ==
  /\ Cardinality(c.inputs[1]) = 1 /\ c.inputs[2] = {}
  /\ TotalSize(c.grandparents) <= MaxGrandParentOverlap

\* A file that overlaps nothing below just changes its level.
TrivialMove(c) ==
  /\ IsTrivialMove(c)
  /\ Install([levels EXCEPT ![c.level] = @ \ c.inputs[1],
                            ![c.level + 1] = @ \union c.inputs[1]])
  /\ UNCHANGED work

Begin(c, byHand) ==
  /\ work' = [compaction |-> c, byHand |-> byHand, version |-> levels,
              smallestSnapshot |-> IF snapshots = <<>> THEN last ELSE Head(snapshots)]
  /\ UNCHANGED <<levels, toCompact, straddled>>

Compact ==
  /\ work = Nil /\ imm = <<>>
  /\ manual # Nil => ~manual.registered
  /\ SizeCompaction(levels) \/ toCompact # Nil
  /\ \E c \in {Picked} :
       /\ TrivialMove(c) \/ (~IsTrivialMove(c) /\ Begin(c, FALSE))
       /\ pointer' = [pointer EXCEPT ![c.level] = c.pointer]
  /\ UNCHANGED <<mem, imm, last, snapshots, manual, nextFile, manuals, seeks, written, late>>

\* VersionSet::CompactRange: above level 0, only the first files of the range,
\* as many as fill one output file.
UpTo(f, files) == {g \in files : g = f \/ FileOrder(g, f)}
Limited(files) ==
  LET full == {f \in files : TotalSize(UpTo(f, files)) >= MaxOutputFileSize}
  IN  IF full = {} THEN files ELSE UpTo(FirstFile(full), files)

CompactRange(inputs) ==
  SetupOtherInputs(levels, manual.level, IF manual.level = 0 THEN inputs ELSE Limited(inputs))

\* Mutant: an empty range does not end the request.
BeginManual_NeverDone ==
  /\ work = Nil /\ imm = <<>>
  /\ manual # Nil /\ manual.registered
  /\ \E inputs \in {GetOverlappingInputs(levels, manual.level, manual)} :
       IF inputs = {}
       THEN /\ manual' = [manual EXCEPT !.registered = FALSE]
            /\ UNCHANGED <<levels, toCompact, straddled, pointer, work>>
       ELSE \E c \in {CompactRange(inputs)} :
              /\ Begin(c, TRUE)
              /\ pointer' = [pointer EXCEPT ![c.level] = c.pointer]
              /\ UNCHANGED manual
  /\ UNCHANGED <<mem, imm, last, snapshots, nextFile, manuals, seeks, written, late>>

\* A manual compaction goes before any other; an empty range is done at once.
BeginManual ==
  /\ work = Nil /\ imm = <<>>
  /\ manual # Nil /\ manual.registered
  /\ \E inputs \in {GetOverlappingInputs(levels, manual.level, manual)} :
       IF inputs = {}
       THEN manual' = Nil /\ UNCHANGED <<levels, toCompact, straddled, pointer, work>>
       ELSE \E c \in {CompactRange(inputs)} :
              /\ Begin(c, TRUE)
              /\ pointer' = [pointer EXCEPT ![c.level] = c.pointer]
              /\ UNCHANGED manual
  /\ UNCHANGED <<mem, imm, last, snapshots, nextFile, manuals, seeks, written, late>>

------------------------
(* Merging. *)

IsBaseLevelForKey(w, key) ==
  \A l \in w.compaction.level + 2 .. NumLevels - 1 :
    \A f \in w.version[l] : ~Overlaps(f, Only(key))

\* Mutant: a deletion is dropped though deeper levels have its key.
Dropped_AnyDeletion(w, e, newer) ==
  newer <= w.smallestSnapshot \/ (e.type = "Deletion" /\ e.seq <= w.smallestSnapshot)

\* Whether an entry is dropped, given the sequence number of the entry of the
\* same user key before it.
Dropped(w, e, newer) ==
  \/ newer <= w.smallestSnapshot
  \/ /\ e.type = "Deletion"
     /\ e.seq <= w.smallestSnapshot
     /\ IsBaseLevelForKey(w, e.key)

\* ShouldStopBefore: the grandparents passed since the output was begun.
Passed(w, seen, e) == {g \in w.compaction.grandparents \ seen : Precedes(Largest(g), e)}

\* The output being built is closed before an entry if it would overlap too much
\* two levels down, else after it if it is full.
Close(acc) == IF acc.out = {} THEN acc
              ELSE [acc EXCEPT !.outs = Append(@, acc.out), !.out = {}]

StopBefore(acc, passed) ==
  LET overlap == acc.overlap + IF acc.started THEN TotalSize(passed) ELSE 0
      here == [acc EXCEPT !.started = TRUE, !.passed = @ \union passed, !.overlap = overlap]
  IN  IF overlap > MaxGrandParentOverlap THEN Close([here EXCEPT !.overlap = 0]) ELSE here

AddToOutput(acc, e) ==
  LET added == [acc EXCEPT !.out = @ \union {e}]
  IN  IF Cardinality(acc.out) + 1 >= MaxOutputFileSize THEN Close(added) ELSE added

\* Mutant: a new user key does not reset the sequence number before.
MergeEntry_NoReset(w, acc, e) ==
  LET newer == IF acc.started THEN acc.seq ELSE MaxSequenceNumber
  IN  [(IF Dropped(w, e, newer) THEN StopBefore(acc, Passed(w, acc.passed, e))
        ELSE AddToOutput(StopBefore(acc, Passed(w, acc.passed, e)), e))
       EXCEPT !.key = e.key, !.seq = e.seq]

\* One round of the loop over the merged inputs; acc.rest is what is still to come,
\* acc.outs are the finished output files and acc.out the one being built.
MergeEntry(w, acc, e) ==
  LET newer == IF acc.key = e.key THEN acc.seq ELSE MaxSequenceNumber
  IN  [(IF Dropped(w, e, newer) THEN StopBefore(acc, Passed(w, acc.passed, e))
        ELSE AddToOutput(StopBefore(acc, Passed(w, acc.passed, e)), e))
       EXCEPT !.key = e.key, !.seq = e.seq]

Outputs(w) ==
  LET all == UNION {f.entries : f \in w.compaction.inputs[1] \union w.compaction.inputs[2]}
      merged[n \in 0 .. Cardinality(all)] ==
        IF n = 0
        THEN [key |-> 0, seq |-> 0, started |-> FALSE, passed |-> {}, overlap |-> 0,
              outs |-> <<>>, out |-> {}, rest |-> all]
        ELSE LET acc == merged[n - 1]
             IN  MergeEntry(w, [acc EXCEPT !.rest = @ \ {FirstOf(@)}], FirstOf(acc.rest))
  IN  Close(merged[Cardinality(all)]).outs

\* The outputs replace the inputs in whatever version is current by now; a
\* manual request keeps the rest of its range.
InstallCompactionResults(c, outs) ==
  LET files == {[number |-> nextFile + i - 1, entries |-> outs[i]] : i \in DOMAIN outs}
  IN  /\ Install([levels EXCEPT ![c.level] = @ \ c.inputs[1],
                                ![c.level + 1] = (@ \ c.inputs[2]) \union files])
      /\ nextFile' = nextFile + Len(outs)

FinishCompaction ==
  /\ work # Nil
  /\ \E outs \in {Outputs(work)} : InstallCompactionResults(work.compaction, outs)
  /\ manual' = IF work.byHand
               THEN [manual EXCEPT
                       !.lo = Largest(LastFile(work.compaction.inputs[1])).key,
                       !.registered = FALSE]
               ELSE manual
  /\ work' = Nil
  /\ late' = (late \/ levels[work.compaction.level + 1] # work.version[work.compaction.level + 1])
  /\ UNCHANGED <<mem, imm, last, pointer, snapshots, manuals, seeks, written>>

------------------------

Init ==
  /\ mem = {} /\ imm = <<>> /\ last = 0
  /\ levels = [l \in LevelNumbers |-> {}]
  /\ toCompact = Nil /\ pointer = [l \in LevelNumbers |-> Nil]
  /\ snapshots = <<>> /\ work = Nil /\ manual = Nil
  /\ nextFile = 1 /\ manuals = 0 /\ seeks = 0
  /\ written = {} /\ straddled = FALSE /\ late = FALSE

Background ==
  CompactMemTable \/ Compact \/ BeginManual \/ FinishCompaction

Next ==
  \/ \E key \in Keys, type \in Kinds : Write(key, type)
  \/ SwitchMemTable
  \/ GetSnapshot
  \/ \E i \in DOMAIN snapshots : ReleaseSnapshot(i)
  \/ \E key \in Keys, seq \in ToSet(snapshots) \union {last} : ChargeSeek(key, seq)
  \/ \E level \in 0 .. NumLevels - 2, r \in ManualRanges : RequestManual(level, r[1], r[2])
  \/ RegisterAgain
  \/ Background

Spec == Init /\ [][Next]_vars

\* Where Background is enabled; and what it alone changes, by which its steps are told.
WorkToDo ==
  \/ imm # <<>> \/ work # Nil \/ toCompact # Nil \/ SizeCompaction(levels)
  \/ manual # Nil /\ manual.registered
BackgroundStep ==
  \/ levels' # levels \/ work' # work \/ (imm # <<>> /\ imm' = <<>>)
  \/ manual # Nil /\ manual.registered /\ manual' # manual

\* The background thread is scheduled whenever there is work, and a waiting manual
\* request is woken when a round of it ends.  The first is weak fairness of Background.
FairSpec ==
  /\ Spec
  /\ []<>~WorkToDo \/ []<><<BackgroundStep>>_vars
  /\ WF_vars(RegisterAgain)

------------------------
(* Properties. *)

TypeOK ==
  /\ mem \in SUBSET Entries
  /\ imm \in Seq(SUBSET Entries) /\ Len(imm) <= 1
  /\ last \in 0 .. MaxWrites
  /\ \A l \in LevelNumbers : \A f \in levels[l] :
       /\ f.number \in 1 .. nextFile - 1
       /\ f.entries \in (SUBSET Entries) \ {{}}
  /\ \A i \in DOMAIN snapshots : snapshots[i] \in 0 .. last
  /\ toCompact # Nil => toCompact.file \in levels[toCompact.level]

FirstHit(inMem, inImm, inTables) ==
  IF inMem # {} THEN inMem ELSE IF inImm # {} THEN inImm ELSE inTables

Get(key, seq) ==
  Answer(FirstHit(Found(mem, key, seq),
                  IF imm = <<>> THEN {} ELSE Found(imm[1], key, seq),
                  VersionGet(levels, key, seq)))

\* What was last written to the key as of seq.
Reference(key, seq) == Answer(Found(written, key, seq))

\* A read as of now or of any live snapshot returns what was last written to
\* its key by then - no merge drops an entry a snapshot needs, forgets a
\* deletion an older value still waits for, or brings a key back - as long as
\* no level has held one user key in two files.
ReadsSeeSnapshot ==
  ~straddled =>
    \A key \in Keys, seq \in ToSet(snapshots) \union {last} :
      Get(key, seq) = Reference(key, seq)

\* The comment in Version::Get: "We can search level-by-level since entries
\* never hop across levels.  Therefore we are guaranteed that if we find data
\* in an smaller level, later levels are irrelevant."
SmallerLevelsAreNewer ==
  \A l, m \in LevelNumbers : l < m =>
    \A f \in levels[l], g \in levels[m] : \A e \in f.entries, d \in g.entries :
      e.key = d.key => e.seq > d.seq

\* The check of Builder::SaveTo ("Make sure there is no overlap in levels > 0",
\* abort) and MaybeAddFile's assertion "Must not overlap".
LevelsDoNotOverlap ==
  \A l \in 1 .. NumLevels - 1 : \A f, g \in levels[l] :
    f = g \/ Precedes(Largest(f), Smallest(g)) \/ Precedes(Largest(g), Smallest(f))

\* Without the straddling the order of the levels holds in every state, in the
\* middle of a merge and with a flush in between.
LevelsInOrder == ~straddled => SmallerLevelsAreNewer

Held(e) ==
  \/ e \in mem \/ (imm # <<>> /\ e \in imm[1])
  \/ \E l \in LevelNumbers : \E f \in levels[l] : e \in f.entries

\* The value that a read as of now or of a live snapshot asks for is held somewhere: no
\* installation loses it, whatever was written, flushed and released while the merge ran.
NeededIsKept ==
  \A s \in ToSet(snapshots) \union {last}, e \in written :
    e.type = "Value" /\ e \in Found(written, e.key, s) => Held(e)

\* Levels above 0 come to overlap in one way only: a merge installs its outputs in a level
\* that has got another file since the merge began.
OverlapsAreLate == ~late => LevelsDoNotOverlap

\* Once no more is written, the background thread comes to rest: nothing to
\* flush, every level within its limit, every manual request done.
Settled ==
  /\ imm = <<>> /\ work = Nil /\ manual = Nil
  /\ ~SizeCompaction(levels) /\ toCompact = Nil
CompactionsSettle == <>[]Settled
=============================================================================
