-------------------------- MODULE RecoveryInvariant --------------------------
(***************************************************************************)
(* The inductive invariant of the database's files: what the manifests,    *)
(* logs and tables on the disk and the process's picture of them have to   *)
(* do with each other in every phase of an open, of a write, of the        *)
(* background thread and of a repair.                                      *)
(***************************************************************************)
EXTENDS Repair

------------------------
(* What is in files. *)

\* The batches of the tables, and of the logs, among these numbers; and the synced ones.
TableBatches(tabs, ns) == UNION {tabs[n] : n \in ns \intersect DOMAIN tabs}
LogBatches(ls, ns) == UNION {ToSet(ls[n].records) : n \in ns \intersect DOMAIN ls}
SyncedPart(f) == {f.records[i] : i \in 1 .. f.synced}
SyncedBatches(ls, ns) == UNION {SyncedPart(ls[n]) : n \in ns \intersect DOMAIN ls}

\* The logs that count where n is the first that does.
From(ls, n) == {m \in DOMAIN ls : m >= n}

\* All that is in files.
Disk(tabs, ls) == TableBatches(tabs, DOMAIN tabs) \union LogBatches(ls, DOMAIN ls)

\* What a stop of the machine cannot take.
Lasting(tabs, ls, crash) ==
  TableBatches(tabs, DOMAIN tabs) \union
    (IF crash = "never" THEN LogBatches(ls, DOMAIN ls) ELSE SyncedBatches(ls, DOMAIN ls))

------------------------
(* What a manifest says, whole or cut off by a stop of the machine. *)

\* The manifest may be read whole or, once the machine has stopped, be cut off after any of
\* the edits that were not synced: what it says then are the reports it may give.
First(edits, k) == SubSeq(edits, 1, k)
Said(edits) == [files |-> FilesOf(edits), meta |-> MetaOf(edits)]
MayEnd(f, crash) == {k \in 0 .. Len(f.records) : k = Len(f.records) \/ (crash # "never" /\ f.synced <= k)}
Reports(f, crash) == {Said(First(f.records, k)) : k \in MayEnd(f, crash)}

\* What a recovery finds by a report, and what of that no stop of the machine can take.
FoundBy(tabs, ls, r) == TableBatches(tabs, r.files) \union LogBatches(ls, From(ls, r.meta.log))
KeptBy(tabs, ls, r) == TableBatches(tabs, r.files) \union SyncedBatches(ls, From(ls, r.meta.log))

------------------------
(* Types. *)

\* File numbers, of which there is a greatest.
Bounded(S) == S \subseteq Nat \ {0} /\ \E k \in Nat : \A n \in S : n <= k

Ends == {"whole", "torn", "buried", "bad"}
Metas == [log : Nat, next : Nat \ {0}, last : 0 .. MaxWrites]
Edits == [added : SUBSET (Nat \ {0}), deleted : SUBSET (Nat \ {0}), meta : Metas \union {Nil}]
Merges == [inputs : SUBSET (Nat \ {0}), output : Nat \ {0}]
Writings == [batch : Batches, sync : BOOLEAN]

IsFile(f, S) == f \in [records : Seq(S), synced : Nat, end : Ends] /\ f.synced <= Len(f.records)

DiskTypes ==
  /\ Bounded(DOMAIN logs) /\ Bounded(DOMAIN tables) /\ Bounded(temps)
  /\ DOMAIN manifests \subseteq Nat \ {0} /\ current \in Nat
  /\ \A n \in DOMAIN logs : IsFile(logs[n], Batches)
  /\ \A n \in DOMAIN manifests : IsFile(manifests[n], Edits)
  /\ \A n \in DOMAIN tables : tables[n] \subseteq Batches

CountTypes ==
  /\ setup \in Setups
  /\ writes \in 0 .. MaxWrites /\ opens \in 0 .. MaxOpens /\ merges \in Nat /\ faults \in Nat
  /\ synced \subseteq acked /\ acked \subseteq Batches

ProcessTypes ==
  /\ phase \in {"down", "create", "read", "replay", "commit", "up", "failed", "repair"}
  /\ stage \in {"idle", "building", "append", "sync", "temp", "rename", "clean",
                "logs", "scan", "archive", "manifest", "point"}
  /\ version \subseteq Nat \ {0} /\ pinned \subseteq Nat \ {0} /\ pending \subseteq Nat \ {0}
  /\ toReplay \subseteq Nat \ {0}
  /\ logNumber \in Nat /\ nextFile \in Nat \ {0} /\ last \in 0 .. MaxWrites
  /\ manifestFile \in Nat /\ logFile \in Nat
  /\ descriptor \in BOOLEAN /\ save \in BOOLEAN /\ error \in BOOLEAN
  /\ mem \subseteq Batches /\ imm \subseteq Batches
  /\ edit \in Edits /\ merge \in Merges \union {Nil} /\ writing \in Writings \union {Nil}

------------------------
(* The disk. *)

\* No batch has a higher sequence number.
Upto(bs, n) == \A b \in bs : b[1] <= n

OnDisk == Disk(tables, logs)

\* A sequence number belongs to one batch.
BatchNumbers ==
  /\ Upto(OnDisk, writes)
  /\ \A a, b \in OnDisk : a[1] = b[1] => a = b

\* The batch that is being written has the next sequence number.
WriteNumbers ==
  /\ last <= writes
  /\ writing # Nil => last + 1 <= writes /\ writing.batch = <<last + 1, opens>> /\ phase = "up"
  /\ phase # "down" => opens >= 1

\* CURRENT's manifest may be overwritten in place: there is nothing to lose, or manifests go
\* bad anyway.  Excused: it may come to say nothing at all.
Harmless == IF setup.crash = "never" THEN setup.damage ELSE OnDisk = {}
Excused == setup.damage \/ Harmless

\* What CURRENT's manifest says, and what it may say after a stop of the machine.
Report == Said(manifests[current].records)
Possible == Reports(manifests[current], setup.crash)

\* A report names tables that are there, gives numbers that are not in use, and leads to the
\* same batches as every other report of this manifest, all the synced ones among them.
Sensible(r) ==
  /\ r.files \subseteq DOMAIN tables
  /\ r.meta.log < r.meta.next /\ \A n \in r.files : n < r.meta.next
  /\ Upto(TableBatches(tables, r.files), r.meta.last) /\ r.meta.last <= writes
  /\ current <= r.meta.next /\ (current = r.meta.next => Harmless)
  /\ r.meta.next <= Report.meta.next
  /\ FoundBy(tables, logs, r) = FoundBy(tables, logs, Report)
  /\ setup.crash # "never" => synced \subseteq KeptBy(tables, logs, r)

\* Whatever is read of CURRENT's manifest makes sense, and leads to every synced write.
ManifestInv ==
  Readable(current) =>
    /\ \A r \in Possible : IF r.meta = Nil THEN Excused ELSE Sensible(r)
    /\ synced \subseteq FoundBy(tables, logs, Report)

\* Where CURRENT's manifest cannot be read, what was synced is still in files.
DiskInv ==
  /\ \A n \in DOMAIN manifests : manifests[n].end # "buried"
  /\ ~Readable(current) => synced \subseteq Lasting(tables, logs, setup.crash)
  /\ ~Readable(current) /\ current # 0 => Excused
  /\ current = 0 => OnDisk = {}
  /\ setup.crash = "never" => /\ \A n \in DOMAIN manifests : manifests[n].end \in {"whole", "bad"}
                              /\ \A n \in DOMAIN logs : logs[n].end = "whole"

------------------------
(* A process that has not read a manifest. *)

\* Nothing is known yet, no file is open and nothing is on its way.
Blank ==
  /\ save = FALSE
  /\ version = {} /\ pinned = {} /\ logNumber = 0 /\ last = 0
  /\ manifestFile = 0 /\ descriptor = FALSE /\ mem = {} /\ imm = {} /\ logFile = 0
  /\ pending = {} /\ merge = Nil /\ writing = Nil /\ error = FALSE
NewProcess == Blank /\ nextFile = 2 /\ toReplay = {} /\ edit = NoEdit

\* What NewDB writes.
FirstEdit == [NoEdit EXCEPT !.meta = [log |-> 0, next |-> 2, last |-> 0]]

\* Closed, about to read CURRENT, or failed at it.
StartInv ==
  /\ phase \in {"down", "read", "failed"} => NewProcess /\ stage = "idle"
  /\ phase = "read" => current # 0
  /\ phase = "failed" => ~Readable(current) /\ current # 0

\* NewDB: the first manifest is written before CURRENT names it.
CreateInv ==
  phase = "create" =>
    /\ NewProcess /\ current = 0 /\ stage \in {"idle", "temp", "rename"}
    /\ stage # "idle" => /\ 1 \in DOMAIN manifests /\ manifests[1].end = "whole"
                         /\ manifests[1].records = <<FirstEdit>>

\* RepairDB: it begins only where no manifest can be read; by the end the tables hold all
\* that is on the disk, and its edit names them.
RepairInv ==
  phase = "repair" =>
    /\ Blank /\ current # 0
    /\ stage \in {"logs", "archive", "manifest", "point"}
    /\ Readable(current) => stage = "point" /\ current = 1
    /\ \A n \in DOMAIN tables : n < nextFile
    /\ stage = "logs" => edit = NoEdit /\ toReplay = DOMAIN logs
    /\ stage # "logs" =>
         /\ DOMAIN logs = {} /\ edit.added = DOMAIN tables /\ edit.deleted = {}
         /\ edit.meta # Nil /\ edit.meta.log = 0 /\ edit.meta.next = nextFile
         /\ edit.meta.last <= writes
         /\ Upto(TableBatches(tables, DOMAIN tables), edit.meta.last)
    /\ stage = "point" => /\ 1 \in DOMAIN manifests /\ manifests[1].end = "whole"
                          /\ manifests[1].records = <<edit>>

------------------------
(* A process that has read one. *)

\* Recovering or open; the edit is in a manifest, in the one that CURRENT names.
Working == phase \in {"replay", "commit", "up"}
Written == stage \in {"sync", "temp", "rename"}
Overtaken == manifestFile = current /\ Written
\* The manifest says what the version is; what it says with the edit.
Agrees == Report.files = version /\ Report.meta.log = logNumber
After == [files |-> (version \ edit.deleted) \union edit.added, meta |-> edit.meta]

\* The manifest agrees with the version, or with what the version is about to become; only
\* after a failed LogAndApply may it say either.
AgreeInv ==
  Working =>
    /\ Readable(current)
    /\ manifestFile # 0 /\ manifestFile < nextFile /\ logNumber < nextFile
    /\ Report.meta.next <= nextFile
    /\ Overtaken => Report = After
    /\ ~Overtaken => Agrees \/ (phase = "up" /\ stage = "idle" /\ error)

\* The version's tables are there, and no number of theirs is given again.
TablesInv ==
  Working =>
    /\ version \subseteq DOMAIN tables /\ edit.added \subseteq DOMAIN tables
    /\ edit.added \intersect version = {}
    /\ \A n \in version \union edit.added : n < nextFile
    /\ Upto(TableBatches(tables, version), last)

\* The current log is whole, and the newest of those that count.
LogInv ==
  Working /\ logFile # 0 =>
    /\ logFile \in DOMAIN logs /\ logs[logFile].end = "whole"
    /\ logNumber <= logFile /\ logFile < nextFile
    /\ \A n \in From(logs, logNumber) : n <= logFile

\* An open manifest is CURRENT's; a new one is another file, and holds the version and the edit.
DescriptorInv ==
  Working =>
    /\ descriptor => manifestFile = current /\ manifests[current].end = "whole"
    /\ ~descriptor =>
         /\ phase # "up" /\ (manifestFile # current \/ Harmless)
         /\ Written => /\ manifestFile \in DOMAIN manifests
                       /\ manifests[manifestFile].end = "whole"
                       /\ manifests[manifestFile].records =
                            <<[NoEdit EXCEPT !.added = version], edit>>
         /\ stage \in {"temp", "rename"} => manifests[manifestFile].synced = 2

\* The logs that count besides the current one.
Older == From(logs, logNumber) \ {logFile}

\* The edit can be appended: its numbers are past those in use.
EditReady ==
  /\ edit.meta # Nil
  /\ edit.meta.next <= nextFile /\ edit.meta.log < edit.meta.next
  /\ edit.meta.last <= last
  /\ manifestFile < edit.meta.next
  /\ Report.meta.next <= edit.meta.next
  /\ \A n \in version \union edit.added : n < edit.meta.next
  /\ Upto(TableBatches(tables, version \union edit.added), edit.meta.last)

\* During a recovery there are no readers, no background thread and no failures.
OpenInv ==
  phase \in {"replay", "commit"} =>
    /\ imm = {} /\ pinned = {} /\ pending = {} /\ merge = Nil /\ writing = Nil /\ error = FALSE
    /\ edit.deleted = {}
    /\ save = FALSE => edit.added = {} /\ descriptor
    /\ descriptor => setup.reuse

\* The logs are read from the oldest on; those that have been are tables of the edit.
ReplayInv ==
  phase \in {"replay", "commit"} =>
    /\ toReplay \subseteq From(logs, logNumber)
    /\ \A n \in From(logs, logNumber) \ toReplay : n < nextFile /\ \A m \in toReplay : n < m
    /\ TableBatches(tables, edit.added) = LogBatches(logs, Older \ toReplay)
    /\ Upto(LogBatches(logs, From(logs, logNumber) \ toReplay), last)
    /\ logFile # 0 => toReplay = {} /\ mem = ToSet(logs[logFile].records)
    /\ logFile = 0 => mem = {}
    /\ phase = "replay" => stage = "idle" /\ edit.meta = Nil
    /\ phase = "commit" =>
         /\ stage \in {"append", "sync", "temp", "rename"} /\ toReplay = {} /\ logFile # 0
         /\ EditReady /\ edit.meta.log = logFile
         /\ stage \in {"temp", "rename"} => ~descriptor

\* The batch between its log record and its insert.
W == IF writing = Nil THEN {} ELSE {writing.batch}

\* The current log holds the memtable, the older ones hold the immutable memtable.
UpLogs ==
  phase = "up" =>
    /\ stage \in {"idle", "building", "append", "sync", "clean"}
    /\ logFile # 0 /\ toReplay = {} /\ descriptor
    /\ imm = LogBatches(logs, Older)
    /\ mem \union W \subseteq ToSet(logs[logFile].records)
    /\ ~error => mem \union W = ToSet(logs[logFile].records)

\* No sequence number in memory, in a table that is needed or in a file exceeds the last one.
UpLast ==
  phase = "up" =>
    /\ Upto(mem \union imm, last)
    /\ Upto(TableBatches(tables, pinned \union pending), last)
    /\ ~error /\ stage # "clean" => Upto(OnDisk \ W, last)

\* The tables of readers and those under construction are there.
UpTables ==
  phase = "up" =>
    /\ pinned \union pending \subseteq DOMAIN tables
    /\ \A n \in pinned \union pending : n < nextFile

\* The manifest is synced.
Settled == manifests[current].synced = Len(manifests[current].records)

\* Whatever may be read of the manifest leads to all that is shown; between two edits it is synced.
UpManifest ==
  phase = "up" =>
    /\ \A r \in Possible : /\ r.meta # Nil /\ r.meta.log <= logFile
                           /\ setup.crash # "never" => current < r.meta.next
    /\ setup.crash # "never" /\ (stage \in {"building", "clean"} \/ (stage = "idle" /\ ~error)) =>
         Settled
    /\ mem \union imm \union TableBatches(tables, version) \subseteq FoundBy(tables, logs, Report)

\* A compaction reads tables of the version and writes one that is no one else's.
UpMerge ==
  phase = "up" /\ merge # Nil =>
    /\ merge.inputs \subseteq version /\ merge.inputs # {}
    /\ merge.output \in pending /\ merge.output \notin version \union pinned

\* The edit: none, of a table under construction, of a flush, of a compaction.
IdleEdit == phase = "up" /\ stage \in {"idle", "clean"} => edit = NoEdit

BuildingEdit ==
  phase = "up" /\ stage = "building" =>
    /\ imm # {}
    /\ \E x \in pending : /\ edit = [NoEdit EXCEPT !.added = {x}] /\ x \notin pinned
                          /\ merge # Nil => x # merge.output

FlushEdit ==
  phase = "up" /\ stage \in {"append", "sync"} /\ edit.deleted = {} =>
    /\ imm # {} /\ TableBatches(tables, edit.added) = imm /\ edit.meta.log = logFile
    /\ merge # Nil => merge.output \notin edit.added

MergeEdit ==
  phase = "up" /\ stage \in {"append", "sync"} /\ edit.deleted # {} =>
    /\ merge # Nil /\ edit.deleted = merge.inputs /\ edit.added = {merge.output}
    /\ tables[merge.output] = TableBatches(tables, merge.inputs)
    /\ edit.meta.log = logNumber

UpEdit ==
  /\ IdleEdit /\ BuildingEdit /\ FlushEdit /\ MergeEdit
  /\ phase = "up" /\ stage \in {"append", "sync"} => EditReady

------------------------
(* The invariant. *)

StoredInv == DiskTypes /\ BatchNumbers /\ ManifestInv /\ DiskInv
BeforeInv == StartInv /\ CreateInv /\ RepairInv
WorkInv == AgreeInv /\ TablesInv /\ LogInv /\ DescriptorInv
OpeningInv == OpenInv /\ ReplayInv
UpInv == UpLogs /\ UpLast /\ UpTables /\ UpManifest /\ UpMerge /\ UpEdit

DbInv ==
  /\ CountTypes /\ ProcessTypes /\ WriteNumbers
  /\ StoredInv /\ BeforeInv /\ WorkInv /\ OpeningInv /\ UpInv
=============================================================================
