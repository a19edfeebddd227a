------------------------------- MODULE TableFile -------------------------------
(***************************************************************************)
(* A table file.  TableBuilder cuts sorted entries into blocks with shared *)
(* prefixes and restart points, an index with shortened keys, and a filter *)
(* per stretch of the file; then the table is searched through all three,  *)
(* and an iterator walks one of its blocks.                                *)
(***************************************************************************)
EXTENDS Integers, Sequences, FiniteSets, SequencesExt, FiniteSetsExt

CONSTANTS
  UserKeys,         \* sequences of bytes
  Top,              \* the byte 0xff
  MaxSequence,      \* sequence numbers are 1 .. MaxSequence
  MaxEntries,       \* bound
  RestartInterval,  \* options.block_restart_interval
  BlockSize,        \* options.block_size
  FilterBase,       \* kFilterBase
  Nil

\* What the constants have to satisfy; the modules of the runs assume it.
TableAssumption ==
  /\ \A u \in UserKeys : \A i \in DOMAIN u : u[i] \in 0 .. Top
  /\ MaxSequence \in Nat /\ MaxEntries \in Nat /\ RestartInterval \in Nat \ {0}
  /\ BlockSize \in Nat /\ FilterBase \in Nat \ {0}

VARIABLES
  entries,  \* the keys added, in order
  builder,  \* TableBuilder::Rep
  filter,   \* FilterBlockBuilder: [keys, filters]
  table,    \* what was written: [blocks, index, filters], or Nil
  iter      \* Block::Iter over a block, or Nil

vars == <<entries, builder, filter, table, iter>>

------------------------
(* Internal keys: [user, number].  In a block they are the bytes of the user *)
(* key and then the number, kept apart from any byte.                        *)

InternalKeys == [user : UserKeys, number : 1 .. MaxSequence]
Bytes(k) == Append(k.user, Top + 1 + k.number)
KeyOf(bytes) == [user |-> Front(bytes), number |-> Last(bytes) - Top - 1]

Shared(a, b) ==
  Max({n \in 0 .. Len(a) : n <= Len(b) /\ SubSeq(a, 1, n) = SubSeq(b, 1, n)})
UserLess(a, b) ==
  LET n == Shared(a, b) IN n < Len(b) /\ (n = Len(a) \/ (n < Len(a) /\ a[n + 1] < b[n + 1]))
Less(a, b) == UserLess(a.user, b.user) \/ (a.user = b.user /\ a.number > b.number)

\* Mutant: the separator may reach the limit.
UserSeparator_Loose(start, limit) ==
  LET n == Shared(start, limit) IN
  IF n < Len(start) /\ n < Len(limit) /\ start[n + 1] < Top
  THEN Append(SubSeq(start, 1, n), start[n + 1] + 1) ELSE start

\* BytewiseComparator, and what InternalKeyComparator makes of its answers.
UserSeparator(start, limit) ==
  LET n == Shared(start, limit) IN
  IF n < Len(start) /\ n < Len(limit) /\ start[n + 1] < Top /\ start[n + 1] + 1 < limit[n + 1]
  THEN Append(SubSeq(start, 1, n), start[n + 1] + 1) ELSE start
UserSuccessor(key) ==
  LET able == {i \in DOMAIN key : key[i] # Top} IN
  IF able = {} THEN key ELSE Append(SubSeq(key, 1, Min(able) - 1), key[Min(able)] + 1)
Shortened(key, user) ==
  IF Len(user) < Len(key.user) /\ UserLess(key.user, user)
  THEN [user |-> user, number |-> MaxSequence] ELSE key
FindShortestSeparator(start, limit) == Shortened(start, UserSeparator(start.user, limit.user))
FindShortSuccessor(key) == Shortened(key, UserSuccessor(key.user))

------------------------
(* BlockBuilder: buffer of [shared, rest, value]; an entry's place in it     *)
(* stands for its offset.                                                    *)

NewBlock == [buffer |-> << >>, restarts |-> <<1>>, counter |-> 0, last |-> << >>]

BlockAdd(b, key, value, interval) ==
  LET restart == b.counter >= interval
      shared == IF restart THEN 0 ELSE Shared(b.last, Bytes(key))
  IN [buffer |-> Append(b.buffer, [shared |-> shared, value |-> value,
                                   rest |-> SubSeq(Bytes(key), shared + 1, Len(Bytes(key)))]),
      restarts |-> IF restart THEN Append(b.restarts, Len(b.buffer) + 1) ELSE b.restarts,
      counter |-> IF restart THEN 1 ELSE b.counter + 1,
      last |-> Bytes(key)]

\* A length byte, the rest of the key and a value for each entry.
Size(b) == FoldLeft(LAMBDA n, e : n + 2 + Len(e.rest), 0, b.buffer)
CurrentSizeEstimate(b) == Size(b) + Len(b.restarts)

\* FilterBlockBuilder: StartBlock closes the filters of the stretches before.  A filter
\* is the bits its keys set (InternalFilterPolicy: user keys only).
Bits(n) == IF 2 * n < 5 THEN 5 ELSE 2 * n
Hash(user) == FoldLeft(LAMBDA h, byte : (h * 7 + byte + 3) % 64, 1, user)
Probes(user, bits) ==
  LET h == Hash(user)
      delta == (h \div 8) + (h % 8) * 8
  IN {h % bits, ((h + delta) % 64) % bits}
CreateFilter(users) ==
  [bits |-> Bits(Len(users)),
   set |-> UNION {Probes(users[i], Bits(Len(users))) : i \in DOMAIN users}]
GenerateFilter(f) ==
  [keys |-> << >>, filters |-> Append(f.filters, IF f.keys = << >> THEN Nil ELSE CreateFilter(f.keys))]
\* Mutant: the filter of the stretch the new block lies in is closed too.
StartBlock_OneMore(f, offset) ==
  LET missing == (offset \div FilterBase) + 1 - Len(f.filters) IN
  FoldLeft(LAMBDA g, i : GenerateFilter(g), f, [i \in 1 .. missing |-> i])

StartBlock(f, offset) ==
  LET missing == (offset \div FilterBase) - Len(f.filters) IN
  FoldLeft(LAMBDA g, i : GenerateFilter(g), f, [i \in 1 .. missing |-> i])

------------------------
(* TableBuilder. *)

Init ==
  /\ entries = << >>
  /\ builder = [data |-> NewBlock, index |-> NewBlock, blocks |-> << >>, offset |-> 0,
                pending |-> FALSE, handle |-> 0]
  /\ filter = [keys |-> << >>, filters |-> << >>]
  /\ table = Nil /\ iter = Nil

\* The index entry of the block before, when there is one to write: from key on.
Indexed(b, key) ==
  IF b.pending THEN [b EXCEPT !.index = BlockAdd(@, key, b.handle, 1), !.pending = FALSE] ELSE b

\* Mutant: the block builder is not reset.
Flushed_NoReset(b) ==
  IF b.data.buffer = << >> THEN b
  ELSE [b EXCEPT !.blocks = Append(@, [offset |-> b.offset, block |-> b.data]),
                 !.handle = b.offset, !.pending = TRUE,
                 !.offset = @ + CurrentSizeEstimate(b.data) + 1]

\* Flush: the block is written at the offset, its trailer after it.
Flushed(b) ==
  IF b.data.buffer = << >> THEN b
  ELSE [b EXCEPT !.blocks = Append(@, [offset |-> b.offset, block |-> b.data]),
                 !.handle = b.offset, !.pending = TRUE,
                 !.offset = @ + CurrentSizeEstimate(b.data) + 1, !.data = NewBlock]

Add(key) ==
  /\ table = Nil /\ Len(entries) < MaxEntries
  /\ entries # << >> => Less(Last(entries), key)
  /\ entries' = Append(entries, key)
  /\ LET indexed == IF entries = << >> THEN builder
                    ELSE Indexed(builder, FindShortestSeparator(Last(entries), key))
         added == [indexed EXCEPT !.data = BlockAdd(@, key, Len(entries) + 1, RestartInterval)]
         keyed == [filter EXCEPT !.keys = Append(@, key.user)]
         full == CurrentSizeEstimate(added.data) >= BlockSize
     IN /\ builder' = IF full THEN Flushed(added) ELSE added
        /\ filter' = IF full THEN StartBlock(keyed, builder'.offset) ELSE keyed
  /\ UNCHANGED <<table, iter>>

\* Finish, with the filter read again when the table is opened, or not (ReadMeta does
\* without it when it cannot be read).
Finish ==
  /\ table = Nil /\ entries # << >>
  /\ LET last == Flushed(builder)
         started == IF builder.data.buffer = << >> THEN filter ELSE StartBlock(filter, last.offset)
         filtered == IF started.keys = << >> THEN started ELSE GenerateFilter(started)
     IN /\ builder' = Indexed(last, FindShortSuccessor(Last(entries)))
        /\ filter' = filtered
        /\ \E filters \in {filtered.filters, Nil} :
             table' = [blocks |-> last.blocks, index |-> builder'.index, filters |-> filters]
  /\ UNCHANGED <<entries, iter>>

------------------------
(* Block::Iter: [block, current, restart_index, key]; current_ is past the   *)
(* buffer when the iterator is not valid.                                    *)

End(b) == Len(b.buffer) + 1
NewIter(b) == [block |-> b, current |-> End(b), next |-> End(b), restart |-> Len(b.restarts) + 1, key |-> << >>]
Valid(it) == it.current < End(it.block)
Invalid(it) == [it EXCEPT !.current = End(it.block), !.restart = Len(it.block.restarts) + 1]

SeekToRestartPoint(it, i) ==
  [it EXCEPT !.key = << >>, !.restart = i, !.next = it.block.restarts[i]]

\* Mutant: the shared prefix is lost.
ParseNextKey_NoPrefix(it) ==
  LET current == it.next
      e == it.block.buffer[current]
      later == {i \in it.restart + 1 .. Len(it.block.restarts) : it.block.restarts[i] < current}
  IN IF current >= End(it.block) THEN Invalid([it EXCEPT !.next = current])
     ELSE [it EXCEPT !.current = current, !.next = current + 1, !.key = e.rest,
                     !.restart = IF later = {} THEN @ ELSE Max(later)]

ParseNextKey(it) ==
  LET current == it.next
      e == it.block.buffer[current]
      later == {i \in it.restart + 1 .. Len(it.block.restarts) : it.block.restarts[i] < current}
  IN IF current >= End(it.block) THEN Invalid([it EXCEPT !.next = current])
     ELSE [it EXCEPT !.current = current, !.next = current + 1,
                     !.key = SubSeq(@, 1, e.shared) \o e.rest,
                     !.restart = IF later = {} THEN @ ELSE Max(later)]

\* ParseNextKey until the test holds or the block ends.
ParseUntil(it, Test(_)) ==
  LET parsed[n \in 1 .. End(it.block)] ==
        IF n = 1 THEN ParseNextKey(it)
        ELSE IF ~Valid(parsed[n - 1]) \/ Test(parsed[n - 1]) THEN parsed[n - 1]
        ELSE ParseNextKey(parsed[n - 1])
  IN parsed[End(it.block)]

\* The binary search for the last restart point with a key below the target.
RestartBefore(b, target) ==
  LET search[w \in (1 .. Len(b.restarts)) \X (1 .. Len(b.restarts))] ==
        LET mid == (w[1] + w[2] + 1) \div 2 IN
        IF w[1] >= w[2] THEN w[1]
        ELSE IF Less(KeyOf(b.buffer[b.restarts[mid]].rest), target)
        THEN search[<<mid, w[2]>>] ELSE search[<<w[1], mid - 1>>]
  IN search[<<1, Len(b.restarts)>>]

BlockSeek(it, target) ==
  ParseUntil(SeekToRestartPoint(it, RestartBefore(it.block, target)),
             LAMBDA p : ~Less(KeyOf(p.key), target))

SeekToFirst(it) == ParseNextKey(SeekToRestartPoint(it, 1))
SeekToLast(it) ==
  ParseUntil(SeekToRestartPoint(it, Len(it.block.restarts)), LAMBDA p : p.next >= End(it.block))

\* Mutant: the restart point may be the entry itself.
BlockPrev_AtCurrent(it) ==
  LET before == {i \in 1 .. it.restart : i <= Len(it.block.restarts) /\ it.block.restarts[i] <= it.current} IN
  IF before = {} THEN Invalid(it)
  ELSE ParseUntil(SeekToRestartPoint(it, Max(before)), LAMBDA p : p.next >= it.current)

BlockPrev(it) ==
  LET before == {i \in 1 .. it.restart : i <= Len(it.block.restarts) /\ it.block.restarts[i] < it.current} IN
  IF before = {} THEN Invalid(it)
  ELSE ParseUntil(SeekToRestartPoint(it, Max(before)), LAMBDA p : p.next >= it.current)

\* A user of the iterator moves it.
OpenBlock ==
  /\ table # Nil /\ iter = Nil
  /\ \E i \in DOMAIN table.blocks : iter' = NewIter(table.blocks[i].block)
  /\ UNCHANGED <<entries, builder, filter, table>>

Move ==
  /\ iter # Nil
  /\ \/ iter' = SeekToFirst(iter)
     \/ iter' = SeekToLast(iter)
     \/ \E k \in InternalKeys : iter' = BlockSeek(iter, k)
     \/ Valid(iter) /\ iter' = ParseNextKey(iter)
     \/ Valid(iter) /\ iter' = BlockPrev(iter)
  /\ UNCHANGED <<entries, builder, filter, table>>

Next == (\E k \in InternalKeys : Add(k)) \/ Finish \/ OpenBlock \/ Move
Spec == Init /\ [][Next]_vars

------------------------
(* Reading the table. *)

KeyMayMatch(offset, user) ==
  LET i == (offset \div FilterBase) + 1 IN
  \/ table.filters = Nil
  \/ i > Len(table.filters)
  \/ /\ table.filters[i] # Nil
     /\ Probes(user, table.filters[i].bits) \subseteq table.filters[i].set

BlockAt(offset) == (CHOOSE i \in DOMAIN table.blocks : table.blocks[i].offset = offset)

\* InternalGet: the entry passed to the saver, or Nil.
InternalGet(k) ==
  LET at == BlockSeek(NewIter(table.index), k)
      offset == table.index.buffer[at.current].value
      found == BlockSeek(NewIter(table.blocks[BlockAt(offset)].block), k)
  IN IF ~Valid(at) THEN Nil
     ELSE IF ~KeyMayMatch(offset, k.user) THEN Nil
     ELSE IF Valid(found) THEN found.block.buffer[found.current].value ELSE Nil

\* ApproximateOffsetOf: past the last key, where the metaindex block begins.
ApproximateOffsetOf(k) ==
  LET at == BlockSeek(NewIter(table.index), k) IN
  IF Valid(at) THEN table.index.buffer[at.current].value ELSE builder.offset

------------------------
(* Properties. *)

TypeOK ==
  /\ \A i \in DOMAIN entries : entries[i] \in InternalKeys
  /\ builder.offset \in Nat /\ builder.pending \in BOOLEAN
  /\ builder.pending => builder.data.buffer = << >>
  /\ iter # Nil => iter.current \in 1 .. End(iter.block)

AtOrAfter(k) == {i \in DOMAIN entries : ~Less(entries[i], k)}

\* A lookup finds the newest entry of its user key that its number may see, or nothing of
\* that user key when there is none: no shortened index key, no shared prefix and no
\* filter hides an entry or turns up another.
LookupsAreRight ==
  table # Nil =>
    \A k \in InternalKeys :
      LET right == IF AtOrAfter(k) = {} THEN Nil ELSE Min(AtOrAfter(k))
          got == InternalGet(k)
      IN IF right # Nil /\ entries[right].user = k.user THEN got = right
         ELSE got = Nil \/ entries[got].user # k.user

\* TableBuilder::Rep: the index key is "it is >= all entries in the first block and < all
\* entries in subsequent blocks"; and offsets never go back along the keys.
IndexSeparates ==
  table # Nil =>
    /\ \A k, l \in InternalKeys : Less(k, l) => ApproximateOffsetOf(k) <= ApproximateOffsetOf(l)
    /\ \A i \in DOMAIN entries :
         ApproximateOffsetOf(entries[i]) =
           Max({table.blocks[j].offset : j \in {j \in DOMAIN table.blocks :
                  table.blocks[j].block.buffer[1].value <= i}})

\* Wherever an iterator was moved, what it shows is an entry of its block, put together
\* from the right prefixes.
IteratorShowsAnEntry ==
  iter # Nil /\ Valid(iter) => KeyOf(iter.key) = entries[iter.block.buffer[iter.current].value]

\* One step back leads to the entry before, whichever way the iterator came to where it
\* is, through prefixes and restart points; and one step forward from there returns.
PrevUndoesNext ==
  iter # Nil /\ Valid(iter) =>
    LET back == BlockPrev(iter) IN
    IF iter.current = 1 THEN ~Valid(back)
    ELSE /\ back.current = iter.current - 1
         /\ ParseNextKey(back).key = iter.key
===============================================================================
