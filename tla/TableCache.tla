------------------------------ MODULE TableCache ------------------------------
(***************************************************************************)
(* A shard of the LRU cache and the table cache in front of it.  Threads   *)
(* look a table up, open its file when it is not there, insert it, use it  *)
(* and release it; a file that goes away is evicted.  Every operation of   *)
(* the cache holds its mutex and is one action; opening a file does not.   *)
(***************************************************************************)
EXTENDS Integers, Sequences, FiniteSets, SequencesExt, FiniteSetsExt, Functions

CONSTANTS
  Threads,
  Files,       \* file numbers, which are also the hashes of the keys
  Capacity,    \* capacity_, with a charge of 1 each (TableCache::FindTable)
  MinBuckets,  \* the 4 in HandleTable::Resize
  MaxInserts,  \* bound
  Nil

\* What the constants have to satisfy; the modules of the runs assume it.
CacheAssumption ==
  /\ Files \subseteq Nat /\ IsFiniteSet(Files) /\ Capacity \in Nat
  /\ MinBuckets \in Nat \ {0} /\ MaxInserts \in Nat
  /\ IsFiniteSet(Threads) /\ Nil \notin Nat

VARIABLES
  cache,   \* [entries, lru, inUse, buckets, elems, usage], see below
  pc,      \* "idle", "opening" or "using"
  wanted,  \* the file a thread is after
  held     \* the handle it uses

vars == <<cache, pc, wanted, held>>

------------------------
(* The state behind the mutex.  entries: the LRUHandles ever made, by their  *)
(* number, [key, refs, inCache, deletions]; lru, inUse: the lists, oldest    *)
(* first; buckets, elems: the HandleTable.                                   *)

Empty == [entries |-> << >>, lru |-> << >>, inUse |-> << >>,
          buckets |-> [i \in 1 .. MinBuckets |-> << >>], elems |-> 0, usage |-> 0]

Bucket(c, key) == (key % Len(c.buckets)) + 1
KeyOf(c, e) == c.entries[e].key

\* FindPointer: the place of the key in its chain, or the end of the chain.
Place(c, key) ==
  LET chain == c.buckets[Bucket(c, key)]
      at == {i \in 1 .. Len(chain) : KeyOf(c, chain[i]) = key}
  IN IF at = {} THEN Len(chain) + 1 ELSE Min(at)

TableLookup(c, key) ==
  LET chain == c.buckets[Bucket(c, key)] IN
  IF Place(c, key) > Len(chain) THEN Nil ELSE chain[Place(c, key)]

\* The length doubles until it is enough for so many handles.
NewLength(elems) ==
  LET doubled[n \in 0 .. elems] ==
        IF n = 0 THEN MinBuckets
        ELSE LET length == doubled[n - 1] IN IF length < elems THEN 2 * length ELSE length
  IN doubled[elems]

\* Mutant: handles keep the chains of the old length.
Resize_OldLength(c) ==
  LET all == FlattenSeq(c.buckets)
      moved[n \in 0 .. Len(all)] ==
        IF n = 0 THEN [i \in 1 .. NewLength(c.elems) |-> << >>]
        ELSE [moved[n - 1] EXCEPT ![Bucket(c, KeyOf(c, all[n]))] = <<all[n]>> \o @]
  IN [c EXCEPT !.buckets = moved[Len(all)]]

\* Resize moves every handle, chain after chain, to the front of its new chain.
Resize(c) ==
  LET length == NewLength(c.elems)
      all == FlattenSeq(c.buckets)
      moved[n \in 0 .. Len(all)] ==
        IF n = 0 THEN [i \in 1 .. length |-> << >>]
        ELSE [moved[n - 1] EXCEPT ![(KeyOf(c, all[n]) % length) + 1] = <<all[n]>> \o @]
  IN [c EXCEPT !.buckets = moved[Len(all)]]

TableInsert(c, e) ==
  LET b == Bucket(c, KeyOf(c, e))
      at == Place(c, KeyOf(c, e))
      old == TableLookup(c, KeyOf(c, e))
      put == [c EXCEPT !.buckets[b] = IF old = Nil THEN Append(@, e) ELSE [@ EXCEPT ![at] = e],
                       !.elems = IF old = Nil THEN @ + 1 ELSE @]
  IN IF old = Nil /\ put.elems > Len(put.buckets) THEN Resize(put) ELSE put

TableRemove(c, key) ==
  IF TableLookup(c, key) = Nil THEN c
  ELSE [c EXCEPT !.buckets[Bucket(c, key)] = RemoveAt(@, Place(c, key)), !.elems = @ - 1]

\* LRU_Remove takes a handle out of whichever list it is in.
Unlink(c, e) == [c EXCEPT !.lru = RemoveFirst(@, e), !.inUse = RemoveFirst(@, e)]

\* Mutant: the handle stays in the list of the unused.
Ref_NoMove(c, e) == [c EXCEPT !.entries[e].refs = @ + 1]

\* Mutant: the new user is not counted.
Ref_NoCount(c, e) ==
  IF c.entries[e].refs = 1 /\ c.entries[e].inCache
  THEN [Unlink(c, e) EXCEPT !.inUse = Append(@, e)] ELSE c

Ref(c, e) ==
  LET h == c.entries[e]
      moved == IF h.refs = 1 /\ h.inCache
               THEN [Unlink(c, e) EXCEPT !.inUse = Append(@, e)] ELSE c
  IN [moved EXCEPT !.entries[e].refs = @ + 1]

Unref(c, e) ==
  LET less == [c EXCEPT !.entries[e].refs = @ - 1] IN
  IF less.entries[e].refs = 0 THEN [less EXCEPT !.entries[e].deletions = @ + 1]
  ELSE IF less.entries[e].inCache /\ less.entries[e].refs = 1
  THEN [Unlink(less, e) EXCEPT !.lru = Append(@, e)]
  ELSE less

\* Mutant: the cache's own reference is kept.
FinishErase_NoUnref(c, e) ==
  IF e = Nil THEN c ELSE [Unlink(c, e) EXCEPT !.entries[e].inCache = FALSE, !.usage = @ - 1]

FinishErase(c, e) ==
  IF e = Nil THEN c
  ELSE Unref([Unlink(c, e) EXCEPT !.entries[e].inCache = FALSE, !.usage = @ - 1], e)

Erase(c, key) == FinishErase(TableRemove(c, key), TableLookup(c, key))

\* Mutant: one entry goes at the most.
Evict_One(c) ==
  IF c.usage > Capacity /\ c.lru # << >> THEN Erase(c, KeyOf(c, Head(c.lru))) ELSE c

\* The oldest that nobody uses go, while there is too much.
Evict(c) ==
  LET after[n \in 0 .. Len(c.lru)] ==
        IF n = 0 THEN c
        ELSE LET d == after[n - 1] IN
             IF d.usage > Capacity THEN Erase(d, KeyOf(d, c.lru[n])) ELSE d
  IN after[Len(c.lru)]

Insert(c, key) ==
  LET e == Len(c.entries) + 1
      made == [c EXCEPT !.entries =
                 Append(@, [key |-> key, refs |-> 1, inCache |-> FALSE, deletions |-> 0])]
      old == TableLookup(made, key)
      kept == [made EXCEPT !.entries[e].refs = 2, !.entries[e].inCache = TRUE,
                           !.inUse = Append(@, e), !.usage = @ + 1]
  IN Evict(IF Capacity > 0 THEN FinishErase(TableInsert(kept, e), old) ELSE made)

Prune(c) ==
  LET after[n \in 0 .. Len(c.lru)] ==
        IF n = 0 THEN c
        ELSE LET d == after[n - 1] IN Erase(d, KeyOf(d, c.lru[n]))
  IN after[Len(c.lru)]

------------------------
Init ==
  /\ cache = Empty
  /\ pc = [t \in Threads |-> "idle"]
  /\ wanted = [t \in Threads |-> Nil] /\ held = [t \in Threads |-> Nil]

\* FindTable: the lookup; a miss goes on to open the file.
Find(t, f) ==
  /\ pc[t] = "idle"
  /\ wanted' = [wanted EXCEPT ![t] = f]
  /\ LET e == TableLookup(cache, f) IN
     IF e = Nil
     THEN pc' = [pc EXCEPT ![t] = "opening"] /\ UNCHANGED <<cache, held>>
     ELSE /\ pc' = [pc EXCEPT ![t] = "using"] /\ held' = [held EXCEPT ![t] = e]
          /\ cache' = Ref(cache, e)

\* The file has been opened, and the table goes into the cache.
Opened(t) ==
  /\ pc[t] = "opening" /\ Len(cache.entries) < MaxInserts
  /\ cache' = Insert(cache, wanted[t])
  /\ pc' = [pc EXCEPT ![t] = "using"]
  /\ held' = [held EXCEPT ![t] = Len(cache.entries) + 1]
  /\ UNCHANGED wanted

\* It could not be opened; errors are not cached.
OpenFails(t) ==
  /\ pc[t] = "opening"
  /\ pc' = [pc EXCEPT ![t] = "idle"] /\ wanted' = [wanted EXCEPT ![t] = Nil]
  /\ UNCHANGED <<cache, held>>

\* Get, or the cleanup of an iterator.
Release(t) ==
  /\ pc[t] = "using"
  /\ cache' = Unref(cache, held[t])
  /\ pc' = [pc EXCEPT ![t] = "idle"]
  /\ held' = [held EXCEPT ![t] = Nil] /\ wanted' = [wanted EXCEPT ![t] = Nil]

\* TableCache::Evict, when the file is deleted.
EvictFile(f) == TableLookup(cache, f) # Nil /\ cache' = Erase(cache, f) /\ UNCHANGED <<pc, wanted, held>>

PruneAll == cache.lru # << >> /\ cache' = Prune(cache) /\ UNCHANGED <<pc, wanted, held>>


Next ==
  \/ \E t \in Threads : Opened(t) \/ OpenFails(t) \/ Release(t) \/ \E f \in Files : Find(t, f)
  \/ PruneAll
  \/ \E f \in Files : EvictFile(f)

Spec == Init /\ [][Next]_vars

------------------------
(* Properties. *)

Handles == 1 .. Len(cache.entries)
Holders(e) == {t \in Threads : held[t] = e}
InCache == {e \in Handles : cache.entries[e].inCache}

TypeOK ==
  /\ cache.usage \in Nat /\ cache.elems \in Nat
  /\ \A e \in Handles : cache.entries[e].key \in Files /\ cache.entries[e].refs \in Nat
  /\ \A t \in Threads : held[t] \in Handles \union {Nil} /\ wanted[t] \in Files \union {Nil}
  /\ pc \in [Threads -> {"idle", "opening", "using"}]

\* A handle counts its users and the cache, and is deleted once, when nobody is left:
\* however lookups, double openings, evictions and releases of several threads mix.
ReferencesAreCounted ==
  \A e \in Handles : LET h == cache.entries[e] IN
    /\ h.refs = Cardinality(Holders(e)) + (IF h.inCache THEN 1 ELSE 0)
    /\ h.deletions = (IF h.refs = 0 THEN 1 ELSE 0)

\* A thread uses a table of the file it asked for, and not one that was deleted.
UsedTablesAreOpen ==
  \A t \in Threads : pc[t] = "using" =>
    /\ cache.entries[held[t]].deletions = 0
    /\ cache.entries[held[t]].key = wanted[t]

\* The comment on LRUCache: what is in the cache is in one list or the other and never in
\* both, in-use with users and lru without; what was erased is in neither.
ListsAgree ==
  /\ ToSet(cache.lru) = {e \in InCache : Holders(e) = {}}
  /\ ToSet(cache.inUse) = {e \in InCache : Holders(e) # {}}
  /\ Len(cache.lru) + Len(cache.inUse) = Cardinality(InCache)

\* The hash table finds exactly what is in the cache, through every resize, and never
\* two handles of one file.
TableFindsTheCached ==
  /\ \A e \in InCache : TableLookup(cache, cache.entries[e].key) = e
  /\ cache.elems = Cardinality(InCache) /\ cache.usage = Cardinality(InCache)

\* Inserting leaves the cache within its capacity, unless all of it is in use.
MakesRoom ==
  Len(cache'.entries) > Len(cache.entries) => cache'.usage <= Capacity \/ cache'.lru = << >>
InsertMakesRoom == [][MakesRoom]_vars
===============================================================================
