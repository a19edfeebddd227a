------------------------------- MODULE Protobuf -------------------------------
(***************************************************************************)
(* nanopb as it is built here (no PB_ENABLE_MALLOC): static fields, no     *)
(* callbacks and no extensions.  A message is encoded; the bytes are cut,  *)
(* joined with another message, or hold a field unknown to the reader; then *)
(* they are decoded.  Bytes and words are narrower than the code's, so that *)
(* the same edges come within reach: a byte of a varint carries Payload    *)
(* bits below its continuation bit.                                        *)
(***************************************************************************)
EXTENDS Integers, Sequences, FiniteSets, SequencesExt, FiniteSetsExt

CONSTANTS
  Payload, HalfBits, WordBits,  \* 7, 32 and 64 in the code
  Fields,    \* the pb_field_t array: a sequence of [tag, rule, type, bits, count, group, fields]
  Messages,  \* messages to encode
  Unknown    \* the bytes of fields no message has

\* What the constants have to satisfy; the modules of the runs assume it.
WidthAssumption == Payload \in 3 .. 7 /\ HalfBits \in Nat /\ WordBits \in Nat

VARIABLES
  message, other,  \* the message, and one that follows it in the same bytes or Nothing
  bytes, done,     \* what travels; what was done to it
  answer           \* of pb_decode: [ok, value: the struct, rest], or Nothing

vars == <<message, other, bytes, done, answer>>

Nothing == << >>
Packable == {"varint", "svarint", "fixed"}
Tags(fields) == {fields[i].tag : i \in DOMAIN fields}
FieldOf(fields, tag) == fields[CHOOSE i \in DOMAIN fields : fields[i].tag = tag]
Wire(type) == CASE type \in {"varint", "svarint"} -> 0 [] type = "fixed" -> 5 [] OTHER -> 2

\* pb_message_set_to_defaults: a struct has for each tag the sequence of values it holds.
RECURSIVE Defaults(_)
DefaultOf(f) == CASE f.type = "message" -> Defaults(f.fields) [] f.type = "bytes" -> << >> [] OTHER -> 0
Defaults(fields) ==
  [t \in Tags(fields) |->
     IF FieldOf(fields, t).rule = "required" THEN <<DefaultOf(FieldOf(fields, t))>> ELSE << >>]

------------------------
(* Encoding. *)

Low(n) == n % (2 ^ Payload)
RECURSIVE Varint(_)
Varint(n) == IF n < 2 ^ Payload THEN <<n>> ELSE <<Low(n) + 2 ^ Payload>> \o Varint(n \div (2 ^ Payload))

EncodeTag(f, wire) == Varint(f.tag * 8 + wire)
ZigZag(n) == IF n < 0 THEN (-2) * n - 1 ELSE 2 * n
WithLength(s) == Varint(Len(s)) \o s

RECURSIVE Encode(_, _)
EncodeValue(f, v) ==
  CASE f.type = "varint" -> Varint(v % (2 ^ WordBits))
    [] f.type = "svarint" -> Varint(ZigZag(v))
    [] f.type = "fixed" -> LET n == v % (2 ^ HalfBits) IN <<n % 16, n \div 16>>
    [] f.type = "bytes" -> WithLength(v)
    [] f.type = "message" -> WithLength(Encode(f.fields, v))

\* Required, optional and oneof fields have at most one value; arrays that can be packed are.
EncodeItems(f, items) ==
  IF items = << >> THEN << >>
  ELSE IF f.rule = "repeated" /\ f.type \in Packable
  THEN EncodeTag(f, 2) \o WithLength(FlattenSeq(items))
  ELSE FlattenSeq([i \in DOMAIN items |-> EncodeTag(f, Wire(f.type)) \o items[i]])

EncodeField(f, values) == EncodeItems(f, [i \in DOMAIN values |-> EncodeValue(f, values[i])])

Encode(fields, struct) ==
  FlattenSeq([i \in DOMAIN fields |-> EncodeField(fields[i], struct[fields[i].tag])])

------------------------
(* Decoding.  Every reader returns [ok, value, rest]: the bytes it leaves.   *)

After(s, n) == SubSeq(s, n + 1, Len(s))
Read(value, rest) == [ok |-> TRUE, value |-> value, rest |-> rest]
Failed(rest) == [ok |-> FALSE, value |-> 0, rest |-> rest]
Then(read, Use(_, _)) == IF read.ok THEN Use(read.value, read.rest) ELSE read

\* pb_decode_varint and pb_decode_varint32: bits beyond the word are lost in the last
\* byte it may have, a byte more is an overflow.
DecodeVarint(bits, s) ==
  LET most == (bits + Payload - 1) \div Payload
      ends == {i \in 1 .. Len(s) : i <= most /\ s[i] < 2 ^ Payload}
      value(n) == FoldLeft(LAMBDA sum, i : sum + Low(s[i]) * 2 ^ (Payload * (i - 1)), 0,
                           [i \in 1 .. n |-> i])
  IN IF ends # {} THEN Read(value(Min(ends)) % (2 ^ bits), After(s, Min(ends)))
     ELSE Failed(After(s, IF Len(s) < most THEN Len(s) ELSE most))

\* Mutant: what is missing is read as zero.
ReadBytes_ZeroFilled(s, n) ==
  IF Len(s) < n THEN Read(s \o [i \in 1 .. n - Len(s) |-> 0], << >>)
  ELSE Read(SubSeq(s, 1, n), After(s, n))

ReadBytes(s, n) == IF Len(s) < n THEN Failed(s) ELSE Read(SubSeq(s, 1, n), After(s, n))

\* pb_make_string_substream, with the bytes of the substream as the value.
Substream(s) == Then(DecodeVarint(HalfBits, s), LAMBDA size, rest : ReadBytes(rest, size))

SkipVarint(s) ==
  LET ends == {i \in 1 .. Len(s) : s[i] < 2 ^ Payload} IN
  IF ends = {} THEN Failed(<< >>) ELSE Read(0, After(s, Min(ends)))

SkipField(s, wire) ==
  CASE wire = 0 -> SkipVarint(s)
    [] wire = 1 -> ReadBytes(s, 4)
    [] wire = 2 -> Substream(s)
    [] wire = 5 -> ReadBytes(s, 2)
    [] OTHER -> Failed(s)

Signed(n, bits) == LET m == n % (2 ^ bits) IN IF m >= 2 ^ (bits - 1) THEN m - 2 ^ bits ELSE m
\* Mutant: the complement is taken for the negative.
UnZigZag_Negative(n) == IF n % 2 = 1 THEN -(n \div 2) ELSE n \div 2

UnZigZag(n) == IF n % 2 = 1 THEN -(n \div 2) - 1 ELSE n \div 2
Fits(v, f, rest) == IF Signed(v, f.bits) = v THEN Read(v, rest) ELSE Failed(rest)

RECURSIVE DecodeMessage(_, _, _, _)

\* PB_DECODERS: the value found, onto the one the field has (which only a message uses).
DecodeValue(f, s, old) ==
  CASE f.type = "varint" ->
         Then(DecodeVarint(WordBits, s), LAMBDA n, rest :
           Fits(Signed(n, IF f.bits = WordBits THEN WordBits ELSE HalfBits), f, rest))
    [] f.type = "svarint" ->
         Then(DecodeVarint(WordBits, s), LAMBDA n, rest : Fits(UnZigZag(n), f, rest))
    [] f.type = "fixed" ->
         Then(ReadBytes(s, 2), LAMBDA two, rest : Read(two[1] + 16 * two[2], rest))
    [] f.type = "bytes" ->
         Then(DecodeVarint(HalfBits, s), LAMBDA size, rest :
           IF size > f.bits THEN Failed(rest) ELSE ReadBytes(rest, size))
    [] f.type = "message" ->
         Then(Substream(s), LAMBDA sub, rest :
           Then(DecodeMessage(sub, f.fields, old, {}), LAMBDA struct, none : Read(struct, rest)))

\* The packed array: items until the substream is empty or the array full.
RECURSIVE DecodePacked(_, _, _)
DecodePacked(f, s, values) ==
  IF s = << >> THEN Read(values, << >>)
  ELSE IF Len(values) >= f.count THEN Failed(s)
  ELSE Then(DecodeValue(f, s, 0), LAMBDA v, rest : DecodePacked(f, rest, Append(values, v)))

\* decode_static_field: the value is the sequence of the field's values.
DecodeField(f, wire, s, values) ==
  IF f.rule = "repeated" /\ wire = 2 /\ f.type \in Packable
  THEN Then(Substream(s), LAMBDA sub, rest :
         Then(DecodePacked(f, sub, values), LAMBDA items, none : Read(items, rest)))
  ELSE IF f.rule = "repeated" /\ Len(values) >= f.count THEN Failed(s)
  ELSE LET old == IF f.rule \in {"required", "optional"} /\ values # << >> THEN values[1]
                  ELSE DefaultOf(f)
       IN  Then(DecodeValue(f, s, old), LAMBDA v, rest :
             Read(IF f.rule = "repeated" THEN Append(values, v) ELSE <<v>>, rest))

\* Mutant: the other members of a oneof stay.
Stored_NoWhich(fields, struct, f, values) == [struct EXCEPT ![f.tag] = values]

\* Setting a field of a oneof moves which_.
Stored(fields, struct, f, values) ==
  [t \in DOMAIN struct |->
     IF t = f.tag THEN values
     ELSE IF f.rule = "oneof" /\ FieldOf(fields, t).rule = "oneof" /\ FieldOf(fields, t).group = f.group
     THEN << >> ELSE struct[t]]

Required(fields) == {t \in Tags(fields) : FieldOf(fields, t).rule = "required"}
Finished(fields, struct, seen) ==
  IF Required(fields) \subseteq seen THEN Read(struct, << >>) ELSE Failed(<< >>)

\* The loop of pb_decode_noinit.  pb_decode_tag takes any failure that leaves no bytes,
\* and a tag of zero, for the end.
DecodeFrom(key, fields, struct, seen) ==
  LET tag == key.value \div 8
      wire == key.value % 8
  IN IF (~key.ok /\ key.rest = << >>) \/ (key.ok /\ key.value = 0)
     THEN Finished(fields, struct, seen)
     ELSE IF ~key.ok THEN key
     ELSE IF tag \notin Tags(fields)
     THEN Then(SkipField(key.rest, wire), LAMBDA v, rest : DecodeMessage(rest, fields, struct, seen))
     ELSE Then(DecodeField(FieldOf(fields, tag), wire, key.rest, struct[tag]), LAMBDA values, rest :
            DecodeMessage(rest, fields, Stored(fields, struct, FieldOf(fields, tag), values),
                          seen \union {tag}))

DecodeMessage(s, fields, struct, seen) ==
  DecodeFrom(DecodeVarint(HalfBits, s), fields, struct, seen)

Decode(s) == DecodeMessage(s, Fields, Defaults(Fields), {})

------------------------
Init ==
  /\ message \in Messages /\ other = Nothing
  /\ bytes = Encode(Fields, message)
  /\ done = "nothing" /\ answer = Nothing

Travel(what, s) == /\ done = "nothing" /\ answer = Nothing
                   /\ done' = what /\ bytes' = s /\ UNCHANGED <<message, answer>>

Cut == \E n \in 0 .. Len(bytes) - 1 : Travel("cut", SubSeq(bytes, 1, n)) /\ UNCHANGED other
Join == \E m \in Messages : Travel("join", bytes \o Encode(Fields, m)) /\ other' = m
Insert == \E i \in 0 .. Len(Fields) : \E u \in Unknown :
            /\ Travel("insert", Encode(SubSeq(Fields, 1, i), message) \o u
                                \o Encode(SubSeq(Fields, i + 1, Len(Fields)), message))
            /\ UNCHANGED other

pb_decode == answer = Nothing /\ answer' = Decode(bytes) /\ UNCHANGED <<message, other, bytes, done>>

Next == Cut \/ Join \/ Insert \/ pb_decode
Spec == Init /\ [][Next]_vars

------------------------
(* Properties. *)

Answered(what) == answer # Nothing /\ done = what

TypeOK ==
  /\ done \in {"nothing", "cut", "join", "insert"}
  /\ \A i \in DOMAIN bytes : bytes[i] \in 0 .. 2 ^ (Payload + 1) - 1
  /\ answer # Nothing /\ answer.ok => DOMAIN answer.value = Tags(Fields)

\* What is encoded is decoded to itself: signs, widths, lengths, packing and nesting,
\* with or without fields the reader does not know in between.
RoundTrip == Answered("nothing") \/ Answered("insert") => answer.ok /\ answer.value = message

\* Two messages in a row are the second merged into the first: values replaced, arrays
\* joined as long as they fit, sub-messages merged, a oneof replaced.
RECURSIVE Merged(_, _, _)
Merged(fields, a, b) ==
  [t \in Tags(fields) |->
     LET f == FieldOf(fields, t) IN
     CASE f.rule = "repeated" -> a[t] \o b[t]
       [] f.rule = "oneof" ->
            IF \E u \in Tags(fields) : FieldOf(fields, u).rule = "oneof" /\ b[u] # << >> THEN b[t] ELSE a[t]
       [] OTHER -> IF b[t] = << >> THEN a[t]
                   ELSE IF a[t] # << >> /\ f.type = "message"
                   THEN <<Merged(f.fields, a[t][1], b[t][1])>> ELSE b[t]]
RECURSIVE Holds(_, _)
Holds(fields, m) ==
  \A t \in Tags(fields) : LET f == FieldOf(fields, t) IN
    /\ f.rule = "repeated" => Len(m[t]) <= f.count
    /\ f.type = "message" => \A i \in DOMAIN m[t] : Holds(f.fields, m[t][i])

JoinedIsMerged ==
  Answered("join") =>
    LET both == Merged(Fields, message, other) IN
    /\ answer.ok <=> Holds(Fields, both)
    /\ answer.ok => answer.value = both

\* A message that was cut and is accepted all the same holds whole fields of the
\* original or nothing: no value is made up from a part.
CutGivesWholeFields ==
  Answered("cut") /\ answer.ok =>
    \A t \in Tags(Fields) :
      \/ answer.value[t] = message[t]
      \/ FieldOf(Fields, t).rule # "required" /\ IsPrefix(answer.value[t], message[t])
===============================================================================
