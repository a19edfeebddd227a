------------------------------ MODULE LevelFiles ------------------------------
(***************************************************************************)
(* The files of a version of the store: the order of internal keys, which  *)
(* files of a level a range of user keys touches, which file answers a     *)
(* read, how full a level is.  A level is a set of files; its vector in    *)
(* the code is that set sorted by smallest key.  A file is its number and  *)
(* its entries, so smallest, largest and file_size are read off the        *)
(* entries, each entry counting one unit of size.  A value is named by the *)
(* sequence number that wrote it.                                          *)
(***************************************************************************)
EXTENDS Integers, FiniteSets, FiniteSetsExt

CONSTANTS
  NumLevels,            \* config::kNumLevels
  L0Trigger,            \* config::kL0_CompactionTrigger
  MaxMemCompactLevel,   \* config::kMaxMemCompactLevel
  LevelOneBytes,        \* the size limit of level 1
  LevelFactor,          \* how much larger each further level may be
  MaxGrandParentOverlap,\* MaxGrandParentOverlapBytes
  ExpandedLimit,        \* ExpandedCompactionByteSizeLimit
  MaxSequenceNumber     \* kMaxSequenceNumber, above every one in use

LevelNumbers == 0 .. NumLevels - 1

\* What the constants have to satisfy; the modules of the runs assume it.
LevelAssumption ==
  /\ NumLevels \in Nat \ {0, 1}
  /\ MaxMemCompactLevel \in 0 .. NumLevels - 2
  /\ L0Trigger \in Nat \ {0}
  /\ LevelOneBytes \in Nat \ {0} /\ LevelFactor \in Nat \ {0}

------------------------
(* Internal keys: user keys ascending, sequence numbers descending. *)

Precedes(a, b) == a.key < b.key \/ (a.key = b.key /\ a.seq > b.seq)

FirstOf(es) == CHOOSE e \in es : \A d \in es \ {e} : Precedes(e, d)
LastOf(es)  == CHOOSE e \in es : \A d \in es \ {e} : Precedes(d, e)

Smallest(f) == FirstOf(f.entries)
Largest(f)  == LastOf(f.entries)

\* What a lookup of key as of seq finds in a sorted run of entries: the first
\* entry at or after the internal key sought, if it is of that user key.
Found(es, key, seq) ==
  LET hits == {e \in es : e.key = key /\ e.seq <= seq}
  IN  IF hits = {} THEN {} ELSE {FirstOf(hits)}

\* A read's answer: the sequence number of the value, 0 when there is none.
Answer(hit) ==
  IF hit # {} /\ (CHOOSE e \in hit : TRUE).type = "Value"
  THEN (CHOOSE e \in hit : TRUE).seq
  ELSE 0

\* No two files have an entry in common.
TotalSize(files) == Cardinality(UNION {f.entries : f \in files})

------------------------
(* Ranges of user keys. *)

\* BySmallestKey, the order of a level's vector.
FileOrder(f, g) ==
  \/ Precedes(Smallest(f), Smallest(g))
  \/ Smallest(f) = Smallest(g) /\ f.number < g.number

FirstFile(files) == CHOOSE f \in files : \A g \in files \ {f} : FileOrder(f, g)
LastFile(files)  == CHOOSE f \in files : \A g \in files \ {f} : FileOrder(g, f)

\* Where the vector has a file, from 0.
Position(f, files) == Cardinality({g \in files : FileOrder(g, f)})
At(i, files) == CHOOSE f \in files : Position(f, files) = i

\* One round of the binary search between s.left and s.right.
Halve(s, files, target) ==
  LET mid == (s.left + s.right) \div 2
  IN  IF s.left >= s.right THEN s
      ELSE IF Precedes(Largest(At(mid, files)), target) THEN [s EXCEPT !.left = mid + 1]
      ELSE [s EXCEPT !.right = mid]

\* The first file whose largest key is at or after the target, by binary search
\* over the vector: right only while the files do not overlap.
FindFile(files, target) ==
  LET search[n \in 0 .. Cardinality(files)] ==
        IF n = 0 THEN [left |-> 0, right |-> Cardinality(files)]
        ELSE Halve(search[n - 1], files, target)
  IN  {f \in files : Position(f, files) = search[Cardinality(files)].right}

\* A range r of user keys, from r.lo to r.hi.
Overlaps(f, r) == Largest(f).key >= r.lo /\ Smallest(f).key <= r.hi

Touched(files, r) == {f \in files : Overlaps(f, r)}

Only(key) == [lo |-> key, hi |-> key]

RangeOf(f) == [lo |-> Smallest(f).key, hi |-> Largest(f).key]

OverlapInLevel(levels, level, r) ==
  \E f \in IF level = 0 THEN levels[0]
          ELSE FindFile(levels[level], [key |-> r.lo, seq |-> MaxSequenceNumber]) :
    Overlaps(f, r)

Hull(files) ==
  [lo |-> Min({Smallest(f).key : f \in files}),
   hi |-> Max({Largest(f).key : f \in files})]

\* A range with all of the files it touches.
Widened(r, files) ==
  [lo |-> Min({r.lo} \union {Smallest(f).key : f \in files}),
   hi |-> Max({r.hi} \union {Largest(f).key : f \in files})]

\* Files of a level above 0 that touch the range; at level 0 the range grows
\* with every file it touches, until none is left that sticks out.
GetOverlappingInputs(levels, level, r) ==
  LET grown[n \in 0 .. Cardinality(levels[0])] ==
        IF n = 0 THEN r ELSE Widened(grown[n - 1], Touched(levels[0], grown[n - 1]))
  IN  Touched(levels[level], grown[IF level = 0 THEN Cardinality(levels[0]) ELSE 0])

\* A memtable's table may go below a level that has nothing of its range under
\* it, as long as what it would overlap two levels down stays small.
MayPass(levels, level, r) ==
  /\ ~OverlapInLevel(levels, level + 1, r)
  /\ level + 2 < NumLevels =>
       TotalSize(GetOverlappingInputs(levels, level + 2, r)) <= MaxGrandParentOverlap

\* Mutant: level 0 is not looked at.
PickLevelForMemTableOutput_Deep(levels, r) ==
  Max({level \in 0 .. MaxMemCompactLevel :
        \A l \in 0 .. level - 1 : MayPass(levels, l, r)})

PickLevelForMemTableOutput(levels, r) ==
  IF OverlapInLevel(levels, 0, r) THEN 0
  ELSE Max({level \in 0 .. MaxMemCompactLevel :
              \A l \in 0 .. level - 1 : MayPass(levels, l, r)})

------------------------
(* Reading. *)

\* The files of a level that a read of key as of seq visits: above level 0 one at most.
Sought(levels, level, key, seq) ==
  IF level = 0 THEN Touched(levels[0], Only(key))
  ELSE {f \in FindFile(levels[level], [key |-> key, seq |-> seq]) : key >= Smallest(f).key}

Visited(levels, key, seq) ==
  UNION {{[level |-> l, file |-> f] : f \in Sought(levels, l, key, seq)} : l \in LevelNumbers}

\* Level by level, at level 0 from newest to oldest.
Before(v, w) == v.level < w.level \/ (v.level = w.level /\ v.file.number > w.file.number)
FirstVisit(visits) == CHOOSE v \in visits : \A w \in visits \ {v} : Before(v, w)

VersionGet(levels, key, seq) ==
  LET hits == {v \in Visited(levels, key, seq) : Found(v.file.entries, key, seq) # {}}
  IN  IF hits = {} THEN {} ELSE Found(FirstVisit(hits).file.entries, key, seq)

------------------------
(* How full the levels are. *)

MaxBytesForLevel(level) ==
  LET limit[l \in 0 .. level - 1] ==
        IF l = 0 THEN LevelOneBytes ELSE LevelFactor * limit[l - 1]
  IN  limit[level - 1]

\* A level's score as a fraction: level 0 by its number of files, the others
\* by their size against a limit that grows with the level.
Score(levels, level) ==
  IF level = 0
  THEN [num |-> Cardinality(levels[0]), den |-> L0Trigger]
  ELSE [num |-> TotalSize(levels[level]), den |-> MaxBytesForLevel(level)]

Exceeds(s, t) == s.num * t.den > t.num * s.den

\* Finalize: the first level with the best score; the last has none.
CompactionLevel(levels) ==
  LET best[l \in 0 .. NumLevels - 2] ==
        IF l = 0 THEN 0
        ELSE LET b == best[l - 1]
             IN  IF Exceeds(Score(levels, l), Score(levels, b)) THEN l ELSE b
  IN  best[NumLevels - 2]

AtLeastOne(score) == score.num >= score.den
SizeCompaction(levels) == AtLeastOne(Score(levels, CompactionLevel(levels)))

------------------------
(* Setting a compaction up. *)

\* The files a level below meets.
Below(levels, level, files) == GetOverlappingInputs(levels, level + 1, Hull(files))

Compaction(levels, level, inputs) ==
  [level |-> level, inputs |-> inputs,
   grandparents |-> IF level + 2 < NumLevels
                    THEN GetOverlappingInputs(levels, level + 2, Hull(inputs[1] \union inputs[2]))
                    ELSE {},
   pointer |-> LastOf({Largest(f) : f \in inputs[1]})]

\* The inputs may grow to every file of the level inside the range covered, if
\* that adds no further file of the next level and stays small enough.
Expanded(picked, below, wider, belowWider) ==
  IF /\ below # {}
     /\ Cardinality(wider) > Cardinality(picked)
     /\ TotalSize(below) + TotalSize(wider) < ExpandedLimit
     /\ Cardinality(belowWider) = Cardinality(below)
  THEN <<wider, belowWider>>
  ELSE <<picked, below>>

ExpandInputs(levels, level, picked, below) ==
  LET wider == GetOverlappingInputs(levels, level, Hull(picked \union below))
  IN  Expanded(picked, below, wider, Below(levels, level, wider))

SetupOtherInputs(levels, level, picked) ==
  Compaction(levels, level,
             ExpandInputs(levels, level, picked, Below(levels, level, picked)))
=============================================================================
