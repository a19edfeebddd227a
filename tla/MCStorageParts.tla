----------------------------- MODULE MCStorageParts -----------------------------
(* The parts of the storage engine that share no state, each on its own: the initial   *)
(* state picks the part, whose variables are the registers x1, x2, ... or, for the     *)
(* skip list, those of SkipList.  What a part has no use for stays as it is.           *)
EXTENDS SkipList, Sequences, TLC

CONSTANTS t1, t2, t3  \* threads, or the openers and the processes of FileLock

VARIABLES part, x1, x2, x3, x4, x5, x6, x7, x8, x9, x10, x11, x12, x13, x14

registers == <<x1, x2, x3, x4, x5, x6, x7, x8, x9, x10, x11, x12, x13, x14>>
allVars == <<part, registers, vars>>
ThreeNames == {t1, t2, t3}

\* The registers x_n and up, for n > 4.
NilFrom(n) ==
  /\ IF n > 5 THEN TRUE ELSE x5 = Nil
  /\ IF n > 6 THEN TRUE ELSE x6 = Nil
  /\ IF n > 7 THEN TRUE ELSE x7 = Nil
  /\ IF n > 8 THEN TRUE ELSE x8 = Nil
  /\ x9 = Nil /\ x10 = Nil /\ x11 = Nil /\ x12 = Nil /\ x13 = Nil /\ x14 = Nil
KeptFrom(n) ==
  /\ IF n > 5 THEN TRUE ELSE UNCHANGED x5
  /\ IF n > 6 THEN TRUE ELSE UNCHANGED x6
  /\ IF n > 7 THEN TRUE ELSE UNCHANGED x7
  /\ IF n > 8 THEN TRUE ELSE UNCHANGED x8
  /\ UNCHANGED <<x9, x10, x11, x12, x13, x14>>

------------------------
(* A log: blocks of 5 bytes with headers of 2, so that records fill a block, leave    *)
(* room for a header and no more, or leave none, and may span three blocks.           *)

Log == INSTANCE LogFile WITH
  BlockSize <- 5, HeaderSize <- 2, Sizes <- {0, 1, 4}, MaxRecords <- 3, MaxFaults <- 1,
  Offsets <- {0, 2, 4, 7},
  file <- x1, written <- x2, block_offset <- x3, faults <- x4, reader <- x5

\* What is read was written, whole, once and in order; a fault costs no record outside its
\* blocks; a writer that died is not reported as a corruption.
LogIsReadBack ==
  part = "log" => Log!ReadsWhatWasWritten /\ Log!UndisturbedAreRead /\ Log!DyingIsNotCorruption

------------------------
(* A table: keys that are prefixes of one another, that end in the last byte, and     *)
(* that consist of it.                                                                *)

Table == INSTANCE TableFile WITH
  UserKeys <- {<<0>>, <<0, 2>>, <<1>>, <<2>>, <<2, 2>>}, Top <- 2, MaxSequence <- 2,
  MaxEntries <- 4, RestartInterval <- 2, BlockSize <- 10, FilterBase <- 4,
  entries <- x1, builder <- x2, filter <- x3, table <- x4, iter <- x5

\* Lookups find what was added and no filter hides it, the index separates the blocks, and
\* an iterator shows entries whichever way it was moved.
TablesAreRight ==
  part = "table" =>
    /\ Table!LookupsAreRight /\ Table!IndexSeparates
    /\ Table!IteratorShowsAnEntry /\ Table!PrevUndoesNext

------------------------
(* The table cache, with room for one table and three threads that want three.        *)

Cache == INSTANCE TableCache WITH
  Threads <- ThreeNames, Files <- 1 .. 3, Capacity <- 1, MinBuckets <- 1, MaxInserts <- 3,
  cache <- x1, pc <- x2, wanted <- x3, held <- x4

\* Handles count their users, tables in use stay open, and the lists and the hash table hold
\* what is cached.
CacheIsConsistent ==
  part = "cache" =>
    /\ Cache!ReferencesAreCounted /\ Cache!UsedTablesAreOpen
    /\ Cache!ListsAgree /\ Cache!TableFindsTheCached

\* An insertion leaves the cache within its capacity, unless all of it is in use.
CacheMakesRoom == [][part = "cache" => Cache!MakesRoom]_allVars

------------------------
(* The skip list of a memtable, one writer and one reader.  This part has the variables *)
(* of SkipList itself.                                                                  *)

OneReader == {t1}
ListSearchesEnd == part = "list" /\ reader[t1].busy ~> part = "list" /\ ~reader[t1].busy

------------------------
(* An iterator over a memtable and a level: a key deleted under its value, a key      *)
(* brought back, split into files at every place.                                      *)

TwoHistories ==
  {<< <<1, "Value">>, <<2, "Value">>, <<1, "Deletion">> >>,
   << <<1, "Value">>, <<2, "Deletion">>, <<2, "Value">> >>}

Iter == INSTANCE Iterators WITH
  Keys <- {1, 2}, Histories <- TwoHistories, MaxInserts <- 1,
  mem <- x1, files <- x2, bad <- x3, sequence <- x4, iter <- x5, dir <- x6, valid <- x7,
  savedKey <- x8, savedValue <- x9, pc <- x10, skipping <- x11, valueType <- x12,
  shown <- x13, expected <- x14

\* The iterator is where its calls have led it in the snapshot, forward and backward.
IteratorsAreRight == part = "iterator" => Iter!ShowsTheSnapshot /\ Iter!ReverseIsBefore

IteratorCallsReturn ==
  part = "iterator" /\ x10 # "idle" ~> part = "iterator" /\ x10 = "idle"

------------------------
(* The lock on a database: three openers in one process, in two or in three.          *)

Lock == INSTANCE FileLock WITH
  Openers <- ThreeNames, Processes <- ThreeNames, Homes <- [ThreeNames -> ThreeNames],
  MaxCalls <- 4,
  home <- x1, pc <- x2, descriptors <- x3, locked_files_ <- x4, kernel <- x5, calls <- x6

Returned(o) == x2[o] \in {"idle", "holding"}
LockCallsReturn ==
  \A o \in ThreeNames : part = "lock" /\ ~Returned(o) ~> part = "lock" /\ Returned(o)

------------------------
(* The environment: more users than mappings and descriptors.                         *)

Env == INSTANCE PosixEnv WITH
  Users <- ThreeNames, MaxMmaps <- 1, MaxOpenFiles <- 1, MaxItems <- 2, MaxOpens <- 4,
  queue_ <- x1, background <- x2, scheduled <- x3, ran <- x4, file <- x5,
  descriptors <- x6, allowed <- x7, opens <- x8

\* One holder of the lock in a process and, with one opener in each, among processes, and no
\* failed call that keeps it; limits that hold; scheduled work that is run in order.
EnvironmentIsRight ==
  /\ part = "lock" =>
       Lock!OneHolderPerProcess /\ Lock!OneHolderAmongProcesses /\ Lock!FreeWhenIdle
  /\ part = "env" => Env!LimitsHold /\ Env!WorkInOrder

EnvWorkIsDone ==
  \A n \in 1 .. 2 : part = "env" /\ x3 >= n ~> part = "env" /\ Len(x4) >= n

------------------------
(* Messages of nanopb: bytes of three bits and a flag, words of 10 bits.              *)

Field(tag, rule, type, bits, count, group, fields) ==
  [tag |-> tag, rule |-> rule, type |-> type, bits |-> bits, count |-> count,
   group |-> group, fields |-> fields]
SubFields == <<Field(1, "required", "varint", 3, 1, 0, << >>),
               Field(2, "repeated", "svarint", 10, 2, 0, << >>)>>
MessageFields ==
  <<Field(1, "required", "varint", 10, 1, 0, << >>),
    Field(2, "repeated", "varint", 8, 2, 0, << >>),
    Field(3, "optional", "message", 0, 1, 0, SubFields),
    Field(4, "oneof", "bytes", 3, 1, "g", << >>),
    Field(5, "oneof", "message", 0, 1, "g", SubFields),
    Field(6, "repeated", "message", 0, 2, 0, SubFields),
    Field(9, "optional", "fixed", 8, 1, 0, << >>)>>
Sub(a, b) == (1 :> <<a>>) @@ (2 :> b)
Message(a, b, c, d, e, f, g) ==
  (1 :> <<a>>) @@ (2 :> b) @@ (3 :> c) @@ (4 :> d) @@ (5 :> e) @@ (6 :> f) @@ (9 :> g)
Deep == Sub(3, <<-512, 511>>)
Flat == Sub(-1, <<5>>)
SomeMessages ==
  {Message(a, b, c, d[1], d[2], f, <<200>>) :
     a \in {-1, 511}, b \in {<< >>, <<7, -128>>}, c \in {<< >>, <<Deep>>},
     d \in {<< << >>, << >> >>, << << <<1, 7>> >>, << >> >>, << << >>, <<Flat>> >>},
     f \in {<< >>, <<Flat>>}}
UnknownFields == {<<8, 7, 12, 8, 14, 1>>, <<10, 8, 1, 2, 9, 9>>}  \* fields 7 and 8

Proto == INSTANCE Protobuf WITH
  Payload <- 3, HalfBits <- 8, WordBits <- 10, Fields <- MessageFields,
  Messages <- SomeMessages, Unknown <- UnknownFields,
  message <- x1, other <- x2, bytes <- x3, done <- x4, answer <- x5

\* A message comes back, joined ones are merged, one that was cut gives whole fields.
MessagesAreKept ==
  part = "protobuf" =>
    Proto!RoundTrip /\ Proto!JoinedIsMerged /\ Proto!CutGivesWholeFields

------------------------
(* One part at a time. *)

ASSUME PartsConstants ==
  /\ Log!LogAssumption /\ Table!TableAssumption /\ Cache!CacheAssumption
  /\ SkipListAssumption /\ Iter!IteratorAssumption /\ Lock!LockAssumption /\ Env!EnvAssumption
  /\ Proto!WidthAssumption

Starts(p, n) == part = p /\ NilFrom(n)

SuiteInit ==
  /\ Init
  /\ \/ Starts("log", 6) /\ Log!Init
     \/ Starts("table", 6) /\ Table!Init
     \/ Starts("cache", 5) /\ Cache!Init
     \/ Starts("lock", 7) /\ Lock!Init
     \/ Starts("env", 9) /\ Env!Init
     \/ Starts("protobuf", 6) /\ Proto!Init
     \/ part = "iterator" /\ Iter!Init
     \/ Starts("list", 5) /\ x1 = Nil /\ x2 = Nil /\ x3 = Nil /\ x4 = Nil

\* A step of the part p, which has the registers below x_n.
In(p, n) == part = p /\ UNCHANGED <<part, vars>> /\ KeptFrom(n)
Iterating == part = "iterator" /\ UNCHANGED <<part, vars>>
Listing == part = "list" /\ UNCHANGED <<part, registers>>

SuiteNext ==
  \/ In("log", 6) /\ Log!Next
  \/ In("table", 6) /\ Table!Next
  \/ In("cache", 5) /\ Cache!Next
  \/ In("lock", 7) /\ Lock!Next
  \/ In("env", 9) /\ Env!Next
  \/ In("protobuf", 6) /\ Proto!Next
  \/ Iterating /\ Iter!Next
  \/ Listing /\ Next

\* The fairness of each part, as its own FairSpec has it.  For the iterator ENABLED is
\* written out, which TLC evaluates much faster.
SuiteSpec ==
  /\ SuiteInit /\ [][SuiteNext]_allVars
  /\ WF_allVars(Listing /\ Step(t1))
  /\ \A o \in ThreeNames : WF_allVars(In("lock", 7) /\ Lock!Step(o))
  /\ WF_allVars(In("env", 9) /\ Env!TakeItem)
  /\ WF_allVars(In("env", 9) /\ Env!Wait)
  /\ WF_allVars(In("env", 9) /\ Env!ItemReturns)
  /\ \/ []<>~(part = "iterator" /\ x10 # "idle")
     \/ []<><<Iterating /\ Iter!Loop>>_allVars

\* Searches of the list, calls of the iterator and of the lock return, and work that is
\* scheduled gets done.
PartsFinish == ListSearchesEnd /\ IteratorCallsReturn /\ LockCallsReturn /\ EnvWorkIsDone

\* The types of every part.
AllTypesOK ==
  /\ TypeOK
  /\ part = "log" => Log!TypeOK
  /\ part = "table" => Table!TypeOK
  /\ part = "cache" => Cache!TypeOK
  /\ part = "iterator" => Iter!TypeOK
  /\ part = "lock" => Lock!TypeOK
  /\ part = "env" => Env!TypeOK
  /\ part = "protobuf" => Proto!TypeOK
=============================================================================
