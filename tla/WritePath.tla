------------------------------- MODULE WritePath -------------------------------
(***************************************************************************)
(* The way of a write through the storage engine: the queue of writers and *)
(* the log, and the memtable with the levels of tables under it.  The      *)
(* initial state picks one of the two; each has its own variables.  They   *)
(* meet in what each has of the other: the queue counts the files of level *)
(* 0, the levels have writes that succeed.                                 *)
(***************************************************************************)
EXTENDS WriteQueue

CONSTANTS
  \* Those of LevelFiles and LevelCompaction.
  NumLevels, MaxMemCompactLevel, LevelOneBytes, LevelFactor, MaxGrandParentOverlap,
  ExpandedLimit, MaxOutputFileSize, MaxSequenceNumber, Keys, Kinds, ManualRanges,
  MaxSnapshots, MaxManual, MaxSeeks,
  \* Those whose names the queue has too.
  StoreL0Trigger, StoreL0Stop, StoreMaxWrites

VARIABLES
  part,            \* "queue" or "levels"
  \* Those of LevelCompaction.
  levels, toCompact, pointer, snapshots, work, manual, nextFile, manuals, seeks, written,
  straddled, late,
  \* Those whose names the queue has too.
  storeMem, storeImm, storeLast

DB == INSTANCE LevelCompaction WITH
  L0Trigger <- StoreL0Trigger, L0Stop <- StoreL0Stop, MaxWrites <- StoreMaxWrites,
  mem <- storeMem, imm <- storeImm, last <- storeLast

PathAssumption == WriteQueueAssumption /\ DB!StoreAssumption

storeVars == <<storeMem, storeImm, storeLast, levels, toCompact, pointer, snapshots, work,
               manual, nextFile, manuals, seeks, written, straddled, late>>
allVars == <<part, storeVars, vars>>

NoLevels ==
  /\ storeMem = Nil /\ storeImm = Nil /\ storeLast = Nil /\ levels = Nil /\ toCompact = Nil
  /\ pointer = Nil /\ snapshots = Nil /\ work = Nil /\ manual = Nil /\ nextFile = Nil
  /\ manuals = Nil /\ seeks = Nil /\ written = Nil /\ straddled = Nil /\ late = Nil

SuiteInit ==
  /\ Init
  /\ \/ part = "levels" /\ DB!Init
     \/ part = "queue" /\ NoLevels

Levels(A) == part = "levels" /\ UNCHANGED <<part, vars>> /\ A
Queueing(A) == part = "queue" /\ UNCHANGED <<part, storeVars>> /\ A

SuiteNext == Levels(DB!Next) \/ Queueing(Next)

\* The fairness of both, as their FairSpec have it; where ENABLED is written out, TLC
\* evaluates it much faster.
SuiteFairness ==
  /\ \/ []<>~(part = "levels" /\ DB!WorkToDo)
     \/ []<><<Levels(DB!BackgroundStep)>>_allVars
  /\ WF_allVars(Levels(DB!RegisterAgain))
  /\ \A t \in Threads :
       []<>~(part = "queue" /\ CanRun(t)) \/ []<><<Queueing(Step(t))>>_allVars
  /\ []<>~(part = "queue" /\ BackgroundCanRun) \/ []<><<Queueing(Background)>>_allVars
  /\ WF_allVars(Queueing(Closed))

SuiteSpec == SuiteInit /\ [][SuiteNext]_allVars /\ SuiteFairness

------------------------

\* A read in a snapshot sees what was there when the snapshot was taken.
ReadsSeeSnapshot == part = "levels" => DB!ReadsSeeSnapshot

\* Files of a level above 0 come to overlap in one way only, by a merge installed into a level
\* that has got another file since it began; newer entries of a key lie in smaller levels,
\* unless a level has held the key in two files; and no value is lost that a snapshot needs.
LevelsAreInOrder ==
  part = "levels" =>
    DB!OverlapsAreLate /\ DB!LevelsInOrder /\ DB!NeededIsKept

\* When writes stop, compactions come to an end.
LevelsSettle == <>[](part = "levels" => DB!Settled)

\* Every call of Write returns.
QueueWritesReturn ==
  \A t \in Threads : part = "queue" /\ pc[t] # "idle" ~> part = "queue" /\ pc[t] = "idle"

\* The types of both.
AllTypesOK == TypeOK /\ (part = "levels" => DB!TypeOK)
=============================================================================
