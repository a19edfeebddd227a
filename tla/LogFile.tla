------------------------------- MODULE LogFile -------------------------------
(***************************************************************************)
(* The format of the write-ahead log and of the MANIFEST.  A writer splits *)
(* records over fixed-size blocks; it may die in the middle, go on with a  *)
(* file that ends anywhere, or have an append fail under it.  A byte may   *)
(* rot.  Then a reader reads the file from some offset on.                 *)
(***************************************************************************)
EXTENDS Integers, Sequences, FiniteSets, SequencesExt

CONSTANTS
  BlockSize, HeaderSize,  \* kBlockSize, kHeaderSize
  Sizes,                  \* sizes a record may have
  MaxRecords, MaxFaults,  \* bounds: records written; deaths, failed appends and rotten bytes
  Offsets                 \* initial_offset of the reader

\* What the constants have to satisfy; the modules of the runs assume it.
LogAssumption ==
  /\ HeaderSize \in Nat \ {0} /\ BlockSize \in Nat /\ BlockSize > HeaderSize
  /\ Sizes \subseteq Nat /\ Offsets \subseteq Nat /\ MaxRecords \in Nat /\ MaxFaults \in Nat

VARIABLES
  file,          \* its bytes: what each is part of
  written,       \* what AddRecord was given: [size, offset (Nil: it failed), place]
  block_offset,  \* block_offset_ of the writer
  faults,        \* [count, damaged: positions, misled: an append failed and the writer went on]
  reader         \* see Closed and SkipToInitialBlock

vars == <<file, written, block_offset, faults, reader>>

------------------------
(* A physical record is its type, the bytes of data it carries and its       *)
(* header; byte i of record n is <<n, i>>.                                   *)

Zero == [type |-> "Zero", data |-> << >>, at |-> 0]
Rotten == [type |-> "Rotten", data |-> << >>, at |-> 0]
Content(n) == [i \in 1 .. written[n].size |-> <<n, i>>]

EmitPhysicalRecord(type, data) ==
  [i \in 1 .. HeaderSize + Len(data) |-> [type |-> type, data |-> data, at |-> i]]

\* The loop of AddRecord: the fragments in order, each with the bytes written for it
\* (the rest of the last block filled up before) and the offset in the block after it.
Fragments(data, offset) ==
  LET from[s \in [left : {SubSeq(data, i, Len(data)) : i \in 1 .. Len(data) + 1},
                  offset : 0 .. BlockSize, begin : BOOLEAN]] ==
        LET leftover == BlockSize - s.offset
            switch == leftover < HeaderSize
            at == IF switch THEN 0 ELSE s.offset
            avail == BlockSize - at - HeaderSize
            length == IF Len(s.left) < avail THEN Len(s.left) ELSE avail
            end == length = Len(s.left)
            type == IF s.begin /\ end THEN "Full" ELSE IF s.begin THEN "First"
                    ELSE IF end THEN "Last" ELSE "Middle"
            after == at + HeaderSize + length
            piece == [bytes |-> (IF switch THEN [i \in 1 .. leftover |-> Zero] ELSE << >>)
                                  \o EmitPhysicalRecord(type, SubSeq(s.left, 1, length)),
                      offset |-> after]
        IN IF end THEN <<piece>>
           ELSE <<piece>> \o from[[left |-> SubSeq(s.left, length + 1, Len(s.left)),
                                  offset |-> after, begin |-> FALSE]]
  IN from[[left |-> data, offset |-> offset, begin |-> TRUE]]

Bytes(pieces) == FoldLeft(LAMBDA bytes, piece : bytes \o piece.bytes, << >>, pieces)

\* Where the header of a record begins that AddRecord writes at this place.
StartsAt(offset) == Len(file) + (IF BlockSize - offset < HeaderSize THEN BlockSize - offset ELSE 0)

------------------------
(* The writer. *)

Closed == [open |-> FALSE]

Init ==
  /\ file = << >> /\ written = << >> /\ block_offset = 0
  /\ faults = [count |-> 0, damaged |-> {}, misled |-> FALSE]
  /\ reader = Closed

Writing == ~reader.open
New(size, whole) == [size |-> size, whole |-> whole, offset |-> StartsAt(block_offset),
                     misled |-> faults.misled]
Data(size) == [i \in 1 .. size |-> <<Len(written) + 1, i>>]

AddRecord(size) ==
  /\ Writing /\ Len(written) < MaxRecords
  /\ LET pieces == Fragments(Data(size), block_offset) IN
     /\ file' = file \o Bytes(pieces)
     /\ block_offset' = Last(pieces).offset
  /\ written' = Append(written, New(size, TRUE))
  /\ UNCHANGED <<faults, reader>>

\* The process dies after some of the bytes; the next one goes on with the file at
\* the length it has (Writer with dest_length).
DiesWriting(size) ==
  /\ Writing /\ Len(written) < MaxRecords /\ faults.count < MaxFaults
  /\ LET bytes == Bytes(Fragments(Data(size), block_offset)) IN
     \E n \in 0 .. Len(bytes) - 1 :
       /\ file' = file \o SubSeq(bytes, 1, n)
       /\ block_offset' = (Len(file) + n) % BlockSize
       /\ faults' = [faults EXCEPT !.count = @ + 1, !.misled = FALSE,
                                   !.damaged = @ \union {Len(file) + n}]
  /\ written' = Append(written, New(size, FALSE))
  /\ UNCHANGED reader

\* An append fails after some of the bytes and the same writer goes on:
\* EmitPhysicalRecord advances block_offset_ all the same.
AppendFails(size) ==
  /\ Writing /\ Len(written) < MaxRecords /\ faults.count < MaxFaults
  /\ LET pieces == Fragments(Data(size), block_offset) IN
     \E i \in DOMAIN pieces : \E n \in 0 .. Len(pieces[i].bytes) - 1 :
       /\ file' = file \o Bytes(SubSeq(pieces, 1, i - 1)) \o SubSeq(pieces[i].bytes, 1, n)
       /\ block_offset' = pieces[i].offset
       /\ faults' = [faults EXCEPT !.count = @ + 1, !.misled = TRUE, !.damaged = @ \union {Len(file')}]
  /\ written' = Append(written, New(size, FALSE))
  /\ UNCHANGED reader

\* A byte on the disk changes.
Rots ==
  /\ Writing /\ faults.count < MaxFaults
  /\ \E i \in 1 .. Len(file) :
       /\ file' = [file EXCEPT ![i] = Rotten]
       /\ faults' = [faults EXCEPT !.count = @ + 1, !.damaged = @ \union {i - 1}]
  /\ UNCHANGED <<written, block_offset, reader>>

------------------------
(* The reader: first, end: its buffer in the file (bytes first + 1 .. end);  *)
(* initial, last: initial_offset_, last_record_offset_; fragment, scratch,   *)
(* from: in_fragmented_record and the record being put together; got: the    *)
(* records returned; reports: what was reported, [from, bytes]; eof,         *)
(* resyncing; done: ReadRecord returned false.                               *)

ReaderOpens(initial) ==
  /\ Writing /\ written # << >>
  /\ LET inBlock == initial % BlockSize
         block == initial - inBlock
         start == IF inBlock > BlockSize - (HeaderSize - 1) THEN block + BlockSize ELSE block
     IN IF start > Len(file)
        THEN reader' = [open |-> TRUE, initial |-> initial, got |-> << >>, reports |-> 0, done |-> TRUE]
        ELSE reader' = [open |-> TRUE, initial |-> initial, first |-> start, end |-> start, eof |-> FALSE,
                        resyncing |-> initial > 0, fragment |-> FALSE, scratch |-> << >>, from |-> 0,
                        got |-> << >>, reports |-> 0, done |-> FALSE]
  /\ UNCHANGED <<file, written, block_offset, faults>>

Size(r) == r.end - r.first

\* Mutant: a full block counts as the last one.
Refill_FullIsLast(r) ==
  IF Size(r) >= HeaderSize \/ r.eof THEN r
  ELSE LET to == IF r.end + BlockSize < Len(file) THEN r.end + BlockSize ELSE Len(file)
       IN [r EXCEPT !.first = r.end, !.end = to, !.eof = to - r.end <= BlockSize]

Refill(r) ==
  IF Size(r) >= HeaderSize \/ r.eof THEN r
  ELSE LET to == IF r.end + BlockSize < Len(file) THEN r.end + BlockSize ELSE Len(file)
       IN [r EXCEPT !.first = r.end, !.end = to, !.eof = to - r.end < BlockSize]

\* ReportDrop: unless what was dropped began before the initial offset.
Reported(r, bytes) ==
  IF r.end - Size(r) - bytes >= r.initial THEN [r EXCEPT !.reports = @ + 1] ELSE r
Dropped(r) == [Reported([r EXCEPT !.first = r.end], Size(r)) EXCEPT !.first = r.end]

Header(r) == SubSeq(file, r.first + 1, r.first + HeaderSize)
\* What the header says, when its bytes are those of one header.
IsHeader(h) == h[1].at = 1 /\ \A i \in 1 .. HeaderSize : h[i] = [h[1] EXCEPT !.at = i]
IsWhole(r, h) ==
  SubSeq(file, r.first + 1, r.first + HeaderSize + Len(h.data)) = EmitPhysicalRecord(h.type, h.data)

\* ReadPhysicalRecord: what it may return, [type, data, reader].  A header that is not
\* one says a length that does not fit, or its checksum does not match.
ReadPhysicalRecord(old) ==
  LET r == Refill(old)
      gone == [r EXCEPT !.first = r.end]
      is(type, data, next) == [type |-> type, data |-> data, reader |-> next]
      tooLong == is(IF r.eof THEN "Eof" ELSE "Bad", << >>, IF r.eof THEN gone ELSE Dropped(r))
      mismatch == is("Bad", << >>, Dropped(r))
  IN IF Size(r) < HeaderSize THEN {is("Eof", << >>, gone)}
     ELSE IF \A i \in 1 .. HeaderSize : Header(r)[i] = Zero THEN {is("Bad", << >>, gone)}
     ELSE IF ~IsHeader(Header(r)) THEN {tooLong, mismatch}
     ELSE LET h == Header(r)[1]
              length == HeaderSize + Len(h.data)
          IN IF length > Size(r) THEN {tooLong}
             ELSE IF ~IsWhole(r, h) THEN {mismatch}
             ELSE LET next == [r EXCEPT !.first = @ + length] IN
                  IF r.first < r.initial THEN {is("Bad", << >>, next)}
                  ELSE {is(h.type, h.data, next)}

Returned(r, data, offset) ==
  [r EXCEPT !.got = Append(@, [data |-> data, offset |-> offset]),
            !.scratch = << >>, !.fragment = FALSE]
\* Mutant: a record without its end is reported.
EndOfFile_Reports(r) ==
  LET told == IF r.fragment THEN Reported(r, Len(r.scratch)) ELSE r
  IN [told EXCEPT !.done = TRUE, !.scratch = << >>]

EndOfFile(r) == [r EXCEPT !.done = TRUE, !.scratch = << >>]

\* Mutant: the fragments before a bad one are kept.
BadRecord_KeepsFragments(r) == IF r.fragment THEN Reported(r, Len(r.scratch)) ELSE r

BadRecord(r) ==
  IF r.fragment
  THEN [Reported(r, Len(r.scratch)) EXCEPT !.fragment = FALSE, !.scratch = << >>]
  ELSE r

Interrupted(r) == IF r.fragment /\ r.scratch # << >> THEN Reported(r, Len(r.scratch)) ELSE r

\* One turn of the loop of ReadRecord; returning a record begins the next call.
ReadRecord ==
  /\ reader.open /\ ~reader.done
  /\ \E p \in ReadPhysicalRecord(reader) :
       LET r == p.reader
           offset == r.first - HeaderSize - Len(p.data)
           synced == [r EXCEPT !.resyncing = FALSE]
       IN reader' =
            CASE r.resyncing /\ p.type = "Middle" -> r
              [] r.resyncing /\ p.type = "Last" -> synced
              [] p.type = "Full" -> Returned(Interrupted(synced), p.data, offset)
              [] p.type = "First" ->
                   [Interrupted(synced) EXCEPT !.fragment = TRUE, !.scratch = p.data, !.from = offset]
              [] p.type \in {"Middle", "Last"} /\ ~r.fragment -> Reported(synced, Len(p.data))
              [] p.type = "Middle" /\ r.fragment -> [synced EXCEPT !.scratch = @ \o p.data]
              [] p.type = "Last" /\ r.fragment -> Returned(synced, r.scratch \o p.data, r.from)
              [] p.type = "Eof" -> EndOfFile(synced)
              [] p.type = "Bad" -> BadRecord(synced)
  /\ UNCHANGED <<file, written, block_offset, faults>>

Next ==
  \/ \E size \in Sizes : AddRecord(size) \/ DiesWriting(size) \/ AppendFails(size)
  \/ Rots
  \/ \E initial \in Offsets : ReaderOpens(initial)
  \/ ReadRecord

Spec == Init /\ [][Next]_vars

------------------------
(* Properties. *)

TypeOK ==
  /\ block_offset \in 0 .. BlockSize /\ faults.count \in 0 .. MaxFaults
  /\ reader.open => reader.reports \in Nat /\ reader.done \in BOOLEAN

\* The records the reader is to return: begun at or after its offset and undisturbed,
\* which is so if no block they lie in holds a fault, at the byte or earlier.
Ends(n) == written[n].offset + Len(Bytes(Fragments(Content(n), written[n].offset % BlockSize)))
Blocks(n) == (written[n].offset \div BlockSize) .. ((Ends(n) - 1) \div BlockSize)
Undisturbed(n) ==
  /\ written[n].whole /\ ~written[n].misled
  /\ \A d \in faults.damaged : (d \div BlockSize) \in Blocks(n) => d >= Ends(n)
Due(n) == Undisturbed(n) /\ written[n].offset >= reader.initial

\* What is read was written, whole and in that order, each record once and with the
\* offset it is at: pieces of two records are never joined, whatever died or rotted.
ReadsWhatWasWritten ==
  reader.open =>
    \E place \in [1 .. Len(reader.got) -> 1 .. Len(written)] :
      /\ \A i, j \in DOMAIN place : i < j => place[i] < place[j]
      /\ \A i \in DOMAIN place : reader.got[i].data = Content(place[i])
                                 /\ reader.got[i].offset = written[place[i]].offset
                                 /\ reader.got[i].offset >= reader.initial

\* A fault costs no record outside the blocks it is in.
UndisturbedAreRead ==
  reader.open /\ reader.done =>
    \A n \in DOMAIN written : Due(n) =>
      \E i \in DOMAIN reader.got : reader.got[i] = [data |-> Content(n), offset |-> written[n].offset]

\* A file that only lost its end, and is read from its start, gives no reports: "this can
\* be caused by the writer dying ... don't treat it as a corruption" (ReadRecord).
DyingIsNotCorruption ==
  reader.open /\ reader.initial = 0 /\ faults.damaged \subseteq {Len(file)} => reader.reports = 0
===============================================================================
