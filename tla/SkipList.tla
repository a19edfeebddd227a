------------------------------- MODULE SkipList -------------------------------
(***************************************************************************)
(* The skip list of a memtable: one writer at a time inserts, readers walk *)
(* it without a lock.  Every load and store of a link is a step.  Links    *)
(* are stored with release and loaded with acquire, so a reader that finds *)
(* a node finds what was written into it before; max_height_ is read       *)
(* without a barrier, and a reader may see an older one.                   *)
(***************************************************************************)
EXTENDS Integers, FiniteSets, FiniteSetsExt

CONSTANTS
  Keys,       \* naturals greater than 0
  MaxHeight,  \* kMaxHeight
  Readers,
  Nil         \* the null pointer

\* What the constants have to satisfy; the modules of the runs assume it.
SkipListAssumption ==
  Keys \subseteq Nat \ {0} /\ IsFiniteSet(Keys) /\ MaxHeight \in Nat \ {0}

head_ == 0
Garbage == -1  \* what the arena's memory holds before a link is set
Infinite == Max(Keys \union {0}) + 1
Levels == 0 .. MaxHeight - 1

VARIABLES
  next,       \* next_ of every node
  maxHeight,  \* max_height_
  inserting,  \* the writer: [key, height, prev, level, set], or Nil
  inserted,   \* the keys whose Insert has returned
  reader      \* the one search of each reader: [kind, target, node, level, busy, found, before]

vars == <<next, maxHeight, inserting, inserted, reader>>

Order(n) == IF n = Nil THEN Infinite ELSE n  \* NULL n is considered infinite

------------------------
Init ==
  /\ next = [n \in Keys \union {head_} |->
               [l \in Levels |-> IF n = head_ THEN Nil ELSE Garbage]]
  /\ maxHeight = 1 /\ inserting = Nil /\ inserted = {}
  /\ reader = [r \in Readers |-> [kind |-> Nil, target |-> 0, node |-> head_, level |-> 0,
                                  busy |-> FALSE, found |-> Nil, before |-> {}]]

\* The last node before the key at a level: the writer sees its own list.
PrevAt(k, l) ==
  Max({n \in inserted \union {head_} : n < k /\ (n = head_ \/ next[n][l] # Garbage)})

\* Mutant: the head precedes the key at the top level in use.
BeginInsert_LowHeight(k, h) ==
  /\ inserting = Nil /\ k \notin inserted
  /\ inserting' = [key |-> k, height |-> h, level |-> 0, set |-> FALSE,
                   prev |-> [l \in 0 .. h - 1 |-> IF l < maxHeight - 1 THEN PrevAt(k, l) ELSE head_]]
  /\ maxHeight' = Max({maxHeight, h})
  /\ UNCHANGED <<next, inserted, reader>>

\* Insert: the search, a random height, a new node, and perhaps a higher list.
BeginInsert(k, h) ==
  /\ inserting = Nil /\ k \notin inserted
  /\ inserting' = [key |-> k, height |-> h, level |-> 0, set |-> FALSE,
                   prev |-> [l \in 0 .. h - 1 |-> IF l < maxHeight THEN PrevAt(k, l) ELSE head_]]
  /\ maxHeight' = Max({maxHeight, h})
  /\ UNCHANGED <<next, inserted, reader>>

\* The node's own link is set before the link to it is published, level by level.
SetLink ==
  /\ inserting # Nil /\ ~inserting.set
  /\ LET l == inserting.level IN
     next' = [next EXCEPT ![inserting.key][l] = next[inserting.prev[l]][l]]
  /\ inserting' = [inserting EXCEPT !.set = TRUE]
  /\ UNCHANGED <<maxHeight, inserted, reader>>

\* Mutant: the link to the node is set before the node's own.
Publish_First ==
  /\ inserting # Nil
  /\ LET l == inserting.level IN
     /\ next' = [next EXCEPT ![inserting.prev[l]][l] = inserting.key]
     /\ IF l + 1 = inserting.height
        THEN inserting' = Nil /\ inserted' = inserted \union {inserting.key}
        ELSE /\ inserting' = [inserting EXCEPT !.level = l + 1, !.set = FALSE]
             /\ UNCHANGED inserted
  /\ UNCHANGED <<maxHeight, reader>>

Publish ==
  /\ inserting # Nil /\ inserting.set
  /\ LET l == inserting.level IN
     /\ next' = [next EXCEPT ![inserting.prev[l]][l] = inserting.key]
     /\ IF l + 1 = inserting.height
        THEN inserting' = Nil /\ inserted' = inserted \union {inserting.key}
        ELSE /\ inserting' = [inserting EXCEPT !.level = l + 1, !.set = FALSE]
             /\ UNCHANGED inserted
  /\ UNCHANGED <<maxHeight, reader>>

------------------------
\* A reader begins FindGreaterOrEqual, FindLessThan or FindLast at the top of the
\* height it happens to see.
BeginSearch(r, kind, k) ==
  /\ reader[r].kind = Nil
  /\ \E h \in 1 .. maxHeight :
       reader' = [reader EXCEPT ![r] =
         [kind |-> kind, target |-> k, node |-> head_, level |-> h - 1,
          busy |-> TRUE, found |-> Nil, before |-> inserted]]
  /\ UNCHANGED <<next, maxHeight, inserting, inserted>>

\* Mutant: a search passes its target.
GoesOn_AtTarget(s, n) == n # Nil /\ (s.kind = "last" \/ n <= s.target)

\* KeyIsAfterNode, or any node at all: whether the search goes on in this list.
GoesOn(s, n) == n # Nil /\ (s.kind = "last" \/ n < s.target)

\* What the search returns; Iterator::Prev and SeekToLast take the head for no node.
Answer(s, n) ==
  IF s.kind = "atLeast" THEN n ELSE IF s.node = head_ THEN Nil ELSE s.node

\* Mutant: the bottom list has no end.
Step_NoEnd(r) ==
  /\ reader[r].busy
  /\ LET s == reader[r]
         n == next[s.node][s.level]
     IN reader' = [reader EXCEPT ![r] =
          IF GoesOn(s, n) THEN [s EXCEPT !.node = n] ELSE [s EXCEPT !.level = Max({@ - 1, 0})]]
  /\ UNCHANGED <<next, maxHeight, inserting, inserted>>

Step(r) ==
  /\ reader[r].busy
  /\ LET s == reader[r]
         n == next[s.node][s.level]
     IN reader' = [reader EXCEPT ![r] =
          IF GoesOn(s, n) THEN [s EXCEPT !.node = n]
          ELSE IF s.level > 0 THEN [s EXCEPT !.level = @ - 1]
          ELSE [s EXCEPT !.busy = FALSE, !.found = Answer(s, n)]]
  /\ UNCHANGED <<next, maxHeight, inserting, inserted>>

Next ==
  \/ \E k \in Keys, h \in 1 .. MaxHeight : BeginInsert(k, h)
  \/ SetLink \/ Publish
  \/ \E r \in Readers, k \in Keys : BeginSearch(r, "atLeast", k) \/ BeginSearch(r, "before", k)
  \/ \E r \in Readers : BeginSearch(r, "last", Infinite) \/ Step(r)

Spec == Init /\ [][Next]_vars
FairSpec == Spec /\ \A r \in Readers : WF_vars(Step(r))

------------------------
(* Properties. *)

\* The nodes a reader can reach at a level.
Linked(l) == {n \in Keys : \E m \in Keys \union {head_} : next[m][l] = n}

TypeOK ==
  /\ \A n \in Keys \union {head_}, l \in Levels : next[n][l] \in Keys \union {Nil, Garbage}
  /\ maxHeight \in 1 .. MaxHeight /\ inserted \subseteq Keys
  /\ \A r \in Readers : reader[r].node \in Keys \union {head_}

\* No reader follows a link of a node that has not been written yet, whatever the
\* height it started from and however far the writer has come.
NoReaderSeesGarbage ==
  \A r \in Readers : reader[r].busy => next[reader[r].node][reader[r].level] # Garbage

\* The lists are sorted, and every list is part of the one below it, even in the
\* middle of an insertion.
ListsAreSorted ==
  \A l \in Levels :
    /\ \A n \in Linked(l) \union {head_} : next[n][l] # Garbage /\ Order(next[n][l]) > n
    /\ l > 0 => Linked(l) \subseteq Linked(l - 1)

\* A search finds nothing that is farther off than what was in the list when it began,
\* and nothing on the wrong side of its target.
SearchesSeeWhatWasThere ==
  \A r \in Readers : LET s == reader[r] IN
    s.kind # Nil /\ ~s.busy =>
      IF s.kind = "atLeast"
      THEN /\ Order(s.found) >= s.target
           /\ \A b \in s.before : b >= s.target => Order(s.found) <= b
      ELSE LET at == IF s.found = Nil THEN head_ ELSE s.found IN
           at < s.target /\ \A b \in s.before : b < s.target => b <= at

\* Readers without a lock see links that are written and lists that are sorted, and miss
\* nothing that was there before.
ListIsConsistent == NoReaderSeesGarbage /\ ListsAreSorted /\ SearchesSeeWhatWasThere

\* Every search ends, though the writer may go on inserting.
SearchesEnd == \A r \in Readers : reader[r].busy ~> ~reader[r].busy
===============================================================================
