------------------------------- MODULE Recovery -------------------------------
(***************************************************************************)
(* The files of a database and what DB::Open makes of them.  Batches go to *)
(* a log, memtables become tables, a manifest records which tables and     *)
(* logs count, CURRENT names the manifest.  The process may stop between   *)
(* any two calls to the file system, and the machine may stop and lose     *)
(* what was not synced.  A file system call is a step of its own wherever  *)
(* stopping after it leaves another disk than stopping before it.          *)
(* Names in the directory are taken to survive a crash in the order they   *)
(* were made.                                                              *)
(***************************************************************************)
EXTENDS Integers, Sequences, FiniteSets, SequencesExt, FiniteSetsExt

CONSTANTS
  MaxWrites, MaxOpens, MaxMerges, MaxFaults,  \* bounds
  Setups,           \* the options and file systems to consider, see below
  Nil

\* What a database is opened with and what may happen to its disk.
Setup == [buffer : Nat,       \* a memtable with more batches than this is full
          reuse : BOOLEAN,    \* options_.reuse_logs
          crash : {"never", "created", "always"},  \* the machine stops: never, once the
                              \* first manifest has been synced, at any time
          torn : BOOLEAN,     \* a machine crash may leave part of a record
          partial : BOOLEAN,  \* a failing append may leave part of a record
          damage : BOOLEAN]   \* a manifest goes bad on the disk

ASSUME RecoveryAssumption ==
  /\ {MaxWrites, MaxOpens, MaxMerges, MaxFaults} \subseteq Nat
  /\ Setups \subseteq Setup

\* What is absent is not a counter record, a compaction or a write.
ASSUME NilAssumption ==
  Nil \notin [log : Nat, next : Nat, last : Nat] \union [inputs : SUBSET Nat, output : Nat]
           \union [batch : Nat \X Nat, sync : BOOLEAN]

VARIABLES
  setup,
  logs, manifests,  \* files of records: [records, synced, end]
  tables,           \* files of batches; {} while a table is being written
  current, temps,   \* what CURRENT names (0 when absent), the .dbtmp files
  phase,            \* where DB::Open is, "up", "down" or "failed"
  stage,            \* where LogAndApply or a table under construction is
  version, pinned,  \* the tables of the current version, and of one a reader holds
  logNumber, nextFile, last, manifestFile,  \* the counters of VersionSet
  descriptor,       \* descriptor_log_ # NULL
  save,             \* save_manifest
  mem, imm, logFile,
  pending,          \* pending_outputs_
  toReplay,         \* the logs Recover still has to read
  edit,             \* the VersionEdit on its way
  merge,            \* the running compaction: [inputs, output], or Nil
  writing,          \* the batch that has been logged and not yet inserted
  error,            \* bg_error_
  acked, synced,    \* the writes that returned, see DurableStore
  writes, opens, merges, faults

diskVars == <<logs, manifests, tables, current, temps>>
openVars == <<phase, save, toReplay>>
setVars == <<version, logNumber, last, manifestFile, descriptor>>
memVars == <<mem, imm, logFile>>
counts == <<setup, writes, opens, merges, faults>>
vars == <<diskVars, openVars, setVars, memVars, counts, stage, pinned, nextFile,
          pending, edit, merge, writing, error, acked, synced>>

------------------------
(* Files of records.  A reader stops at a record that is not whole, and    *)
(* what is appended behind one in the same block is lost with it.          *)

EmptyFile == [records |-> << >>, synced |-> 0, end |-> "whole"]

Appended(f, r) ==
  IF f.end = "whole" THEN [f EXCEPT !.records = Append(@, r)]
  ELSE [f EXCEPT !.end = "buried"]

Torn(f) == IF f.end = "whole" THEN [f EXCEPT !.end = "torn"] ELSE f

Synced(f) == [f EXCEPT !.synced = Len(f.records)]

\* What the machine may leave of a file: all that was synced and some of the rest.
Remains(f) ==
  {[f EXCEPT !.synced = Len(f.records)]} \union
  {[records |-> SubSeq(f.records, 1, k), synced |-> k, end |-> e] :
     k \in {n \in f.synced .. Len(f.records) - 1 : f.end # "bad"},
     e \in {"whole"} \union IF setup.torn THEN {"torn"} ELSE {}}

Outcomes(files) ==
  {g \in [DOMAIN files -> UNION {Remains(files[n]) : n \in DOMAIN files}] :
     \A n \in DOMAIN files : g[n] \in Remains(files[n])}

Put(files, n, f) == [m \in DOMAIN files \union {n} |-> IF m = n THEN f ELSE files[m]]
Without(files, n) == [m \in DOMAIN files \ {n} |-> files[m]]

------------------------
(* What a manifest says (VersionSet::Recover and its Builder). *)

NoEdit == [added |-> {}, deleted |-> {}, meta |-> Nil]

\* The files an edit added and no later one deleted.
FilesOf(edits) ==
  {n \in UNION {e.added : e \in ToSet(edits)} :
     \E i \in DOMAIN edits : /\ n \in edits[i].added
                             /\ \A j \in i + 1 .. Len(edits) : n \notin edits[j].deleted}

\* The counters that the last edit to speak of them gives.
MetaOf(edits) ==
  LET speaking == {i \in DOMAIN edits : edits[i].meta # Nil}
  IN IF speaking = {} THEN Nil ELSE edits[Max(speaking)].meta

Readable(m) == m \in DOMAIN manifests /\ manifests[m].end \notin {"buried", "bad"}
               /\ MetaOf(manifests[m].records) # Nil

\* The logs DBImpl::Recover reads.
LogsFrom(n) == {m \in DOMAIN logs : m >= n}

BatchesIn(files) == UNION {tables[n] : n \in files \intersect DOMAIN tables}

\* The batches in the files that a manifest with these edits makes count.
Found(edits) ==
  BatchesIn(FilesOf(edits)) \union
    UNION {ToSet(logs[n].records) : n \in LogsFrom(MetaOf(edits).log)}

\* The batches the next DB::Open would find on this disk.
Recovered == IF Readable(current) THEN Found(manifests[current].records) ELSE {}

------------------------
Init ==
  /\ setup \in Setups
  /\ logs = << >> /\ manifests = << >> /\ tables = << >> /\ current = 0 /\ temps = {}
  /\ phase = "down" /\ stage = "idle" /\ save = FALSE /\ toReplay = {}
  /\ version = {} /\ pinned = {} /\ logNumber = 0 /\ nextFile = 2 /\ last = 0
  /\ manifestFile = 0 /\ descriptor = FALSE
  /\ mem = {} /\ imm = {} /\ logFile = 0 /\ pending = {}
  /\ edit = NoEdit /\ merge = Nil /\ writing = Nil /\ error = FALSE
  /\ acked = {} /\ synced = {}
  /\ writes = 0 /\ opens = 0 /\ merges = 0 /\ faults = 0

\* The objects of the process are gone.
Forget ==
  /\ stage' = "idle" /\ save' = FALSE /\ toReplay' = {}
  /\ version' = {} /\ pinned' = {} /\ logNumber' = 0 /\ nextFile' = 2 /\ last' = 0
  /\ manifestFile' = 0 /\ descriptor' = FALSE
  /\ mem' = {} /\ imm' = {} /\ logFile' = 0 /\ pending' = {}
  /\ edit' = NoEdit /\ merge' = Nil /\ writing' = Nil /\ error' = FALSE

Fault == faults < MaxFaults /\ faults' = faults + 1 /\ UNCHANGED <<setup, writes, opens, merges>>

------------------------
(* DB::Open. *)

\* DBImpl::Recover: the lock, then CURRENT decides.
Open ==
  /\ phase = "down" /\ opens < MaxOpens /\ opens' = opens + 1
  /\ phase' = IF current = 0 THEN "create" ELSE "read"
  /\ UNCHANGED <<diskVars, save, toReplay, setVars, memVars, setup, writes, merges, faults, stage,
                 pinned, nextFile, pending, edit, merge, writing, error, acked, synced>>

\* NewDB writes the first manifest and closes it; it does not sync it.
NewDB ==
  /\ phase = "create" /\ stage = "idle" /\ stage' = "temp"
  /\ manifests' = Put(manifests, 1,
       Appended(EmptyFile, [NoEdit EXCEPT !.meta = [log |-> 0, next |-> 2, last |-> 0]]))
  /\ UNCHANGED <<logs, tables, current, temps, openVars, setVars, memVars, counts, pinned,
                 nextFile, pending, edit, merge, writing, error, acked, synced>>

\* SetCurrentFile: a temporary file, synced, then renamed to CURRENT.
NewCurrent == IF phase = "create" THEN 1 ELSE manifestFile

WriteTemp ==
  /\ stage = "temp" /\ stage' = "rename"
  /\ temps' = temps \union {NewCurrent}
  /\ UNCHANGED <<logs, manifests, tables, current, openVars, setVars, memVars, counts, pinned,
                 nextFile, pending, edit, merge, writing, error, acked, synced>>

\* The edit takes effect: AppendVersion and the log number; the memtable or the
\* compaction it was for is done with, and DeleteObsoleteFiles comes next.
Install ==
  /\ version' = (version \ edit.deleted) \union edit.added
  /\ logNumber' = edit.meta.log
  /\ descriptor' = TRUE
  /\ phase' = "up" /\ stage' = "clean"
  /\ IF edit.deleted = {}
       THEN imm' = {} /\ UNCHANGED <<merge, pending>>
       ELSE merge' = Nil /\ pending' = pending \ {merge.output} /\ UNCHANGED imm
  /\ edit' = NoEdit
  /\ UNCHANGED <<last, manifestFile>>

RenameTemp ==
  /\ stage = "rename"
  /\ temps' = temps \ {NewCurrent} /\ current' = NewCurrent
  /\ \/ /\ phase = "create" /\ phase' = "read" /\ stage' = "idle"
        /\ UNCHANGED <<setVars, imm, merge, pending, edit>>
     \/ phase = "commit" /\ Install
  /\ UNCHANGED <<logs, manifests, tables, save, toReplay, mem, logFile, counts, pinned,
                 nextFile, writing, error, acked, synced>>

\* VersionSet::Recover and the check for missing tables: a file of any kind with
\* the number of a table hides that the table is missing.
ReadManifest ==
  /\ phase = "read"
  /\ LET edits == manifests[current].records
         files == FilesOf(edits)
         meta == MetaOf(edits)
         numbers == DOMAIN tables \union DOMAIN logs \union DOMAIN manifests \union temps
     IN IF ~Readable(current) \/ ~ (files \subseteq numbers)
        THEN phase' = "failed" /\ UNCHANGED <<setVars, nextFile, save, toReplay>>
        ELSE /\ phase' = "replay"
             /\ version' = files /\ logNumber' = meta.log /\ last' = meta.last
             /\ nextFile' = meta.next + 1
             /\ toReplay' = LogsFrom(meta.log)
             /\ \E reuse \in {FALSE, setup.reuse} :   \* ReuseManifest, if it is small enough
                  /\ manifestFile' = IF reuse THEN current ELSE meta.next
                  /\ descriptor' = reuse /\ save' = ~reuse
  /\ UNCHANGED <<diskVars, memVars, counts, stage, pinned, pending, edit, merge, writing,
                 error, acked, synced>>

Seqs(bs) == {b[1] : b \in bs}
\* Mutant: the number of a log that is replayed may be given out again.
MarkFileNumberUsed_Not(next, n) == next

MarkFileNumberUsed(next, n) == Max({next, n + 1})
\* Mutant: the sequence numbers found are not taken over.
HighestOf_Manifest(a, bs) == a

HighestOf(a, bs) == Max({a} \union Seqs(bs))

\* The memtables that reading a log fills, in order; the last need not be full.
MemTables(found) ==
  LET size == setup.buffer + 1
  IN [i \in 1 .. (Len(found) + setup.buffer) \div size |->
        {found[j] : j \in {k \in DOMAIN found : (i - 1) * size < k /\ k <= i * size}}]

\* RecoverLogFile, the oldest log first: the memtables it fills become tables, unless
\* the last log filled none and is used again.
ReplayLog ==
  /\ phase = "replay" /\ toReplay # {}
  /\ \E n \in {Min(toReplay)} :
     LET found == logs[n].records
         reuse == setup.reuse /\ toReplay = {n} /\ Len(found) <= setup.buffer
         parts == IF reuse THEN << >> ELSE MemTables(found)
         new == nextFile .. nextFile + Len(parts) - 1
     IN /\ toReplay' = toReplay \ {n}
        /\ tables' = [m \in DOMAIN tables \union new |->
                        IF m \in new THEN parts[m - nextFile + 1] ELSE tables[m]]
        /\ edit' = [edit EXCEPT !.added = @ \union new]
        /\ save' = (save \/ parts # << >>)
        /\ nextFile' = MarkFileNumberUsed(nextFile + Len(parts), n)
        /\ last' = HighestOf(last, ToSet(found))
        /\ IF reuse THEN logFile' = n /\ mem' = ToSet(found) ELSE UNCHANGED <<logFile, mem>>
  /\ UNCHANGED <<logs, manifests, current, temps, phase, version, logNumber, manifestFile,
                 descriptor, imm, counts, stage, pinned, pending, merge, writing, error,
                 acked, synced>>

\* The rest of DB::Open: a new log unless one is used again, and LogAndApply if
\* anything has to be recorded.
CreateLog ==
  /\ phase = "replay" /\ toReplay = {}
  /\ IF logFile # 0 THEN UNCHANGED <<logs, logFile, nextFile>>
     ELSE /\ logFile' = nextFile /\ nextFile' = nextFile + 1
          /\ logs' = Put(logs, nextFile, EmptyFile)
  /\ phase' = IF save THEN "commit" ELSE "up"
  /\ stage' = IF save THEN "append" ELSE "clean"
  /\ edit' = IF save
             THEN [edit EXCEPT !.meta = [log |-> logFile', next |-> nextFile', last |-> last]]
             ELSE NoEdit
  /\ UNCHANGED <<manifests, tables, current, temps, save, toReplay, setVars, mem, imm, counts,
                 pinned, pending, merge, writing, error, acked, synced>>

\* A call to the file system fails: the database does not open, a manifest that was
\* being made is deleted, and the process carries on without a database.
OpenFails ==
  /\ phase \in {"create", "commit"} /\ Fault /\ phase' = "down"
  /\ manifests' = IF phase = "commit" /\ ~descriptor /\ manifestFile \in DOMAIN manifests
                  THEN Without(manifests, manifestFile) ELSE manifests
  /\ temps' = temps \ {NewCurrent}
  /\ Forget
  /\ UNCHANGED <<logs, tables, current, acked, synced>>

------------------------
(* VersionSet::LogAndApply. *)

Meta(log) == [log |-> log, next |-> nextFile, last |-> last]

\* Mutant: a new manifest begins without the snapshot.
AppendEdit_NoSnapshot ==
  /\ stage = "append" /\ stage' = "sync"
  /\ manifests' = Put(manifests, manifestFile,
       Appended(IF descriptor THEN manifests[manifestFile] ELSE EmptyFile, edit))
  /\ UNCHANGED <<logs, tables, current, temps, openVars, setVars, memVars, counts, pinned,
                 nextFile, pending, edit, merge, writing, error, acked, synced>>

\* The first one after DB::Open makes the new manifest, with a snapshot.
AppendEdit ==
  /\ stage = "append" /\ stage' = "sync"
  /\ manifests' =
       IF descriptor
       THEN [manifests EXCEPT ![manifestFile] = Appended(@, edit)]
       ELSE Put(manifests, manifestFile,
                Appended(Appended(EmptyFile, [NoEdit EXCEPT !.added = version]), edit))
  /\ UNCHANGED <<logs, tables, current, temps, openVars, setVars, memVars, counts, pinned,
                 nextFile, pending, edit, merge, writing, error, acked, synced>>

\* Mutant: the manifest is not synced.
SyncManifest_Not ==
  /\ stage = "sync"
  /\ \/ ~descriptor /\ stage' = "temp" /\ UNCHANGED <<phase, setVars, imm, merge, pending, edit>>
     \/ descriptor /\ Install
  /\ UNCHANGED <<logs, manifests, tables, current, temps, save, toReplay, mem, logFile, counts,
                 pinned, nextFile, writing, error, acked, synced>>

SyncManifest ==
  /\ stage = "sync"
  /\ manifests' = [manifests EXCEPT ![manifestFile] = Synced(@)]
  /\ \/ ~descriptor /\ stage' = "temp" /\ UNCHANGED <<phase, setVars, imm, merge, pending, edit>>
     \/ descriptor /\ Install
  /\ UNCHANGED <<logs, tables, current, temps, save, toReplay, mem, logFile, counts, pinned,
                 nextFile, writing, error, acked, synced>>

\* A failed append or sync while the database is up: whether the edit counts is
\* not known, and a background error stops everything that could find out.
ManifestFails ==
  /\ phase = "up" /\ stage \in {"append", "sync"} /\ Fault
  /\ stage' = "idle" /\ error' = TRUE
  /\ merge' = (IF edit.deleted = {} THEN merge ELSE Nil)
  /\ pending' = (IF edit.deleted = {} THEN pending ELSE pending \ {merge.output})
  /\ edit' = NoEdit
  /\ UNCHANGED <<diskVars, openVars, setVars, memVars, pinned, nextFile, writing, acked, synced>>

\* Mutant: a version that only a reader holds does not count.
Live_Current == pending \union version

\* DeleteObsoleteFiles keeps what a version, a table under construction or a
\* recovery could need; after a background error it deletes nothing.
Live == pending \union version \union pinned

\* Mutant: the log in use is one of them.
ObsoleteLogs_Current == {n \in DOMAIN logs : n <= logNumber}

ObsoleteLogs == {n \in DOMAIN logs : n < logNumber}

DeleteObsoleteFile ==
  /\ stage = "clean" /\ ~error
  /\ \/ /\ \E n \in ObsoleteLogs : logs' = Without(logs, n)
        /\ UNCHANGED <<manifests, tables, temps>>
     \/ /\ \E n \in {m \in DOMAIN manifests : m < manifestFile} :
             manifests' = Without(manifests, n)
        /\ UNCHANGED <<logs, tables, temps>>
     \/ /\ \E n \in DOMAIN tables \ Live : tables' = Without(tables, n)
        /\ UNCHANGED <<logs, manifests, temps>>
     \/ /\ \E n \in temps \ Live : temps' = temps \ {n}
        /\ UNCHANGED <<logs, manifests, tables>>
  /\ UNCHANGED <<current, openVars, setVars, memVars, counts, stage, pinned, nextFile, pending,
                 edit, merge, writing, error, acked, synced>>

Cleaned ==
  /\ stage = "clean" /\ stage' = "idle"
  /\ \/ error
     \/ /\ ObsoleteLogs = {}
        /\ \A n \in DOMAIN manifests : n >= manifestFile
        /\ DOMAIN tables \union temps \subseteq Live
  /\ UNCHANGED <<diskVars, openVars, setVars, memVars, counts, pinned, nextFile, pending, edit,
                 merge, writing, error, acked, synced>>

------------------------
(* DBImpl::Write, as far as files go.  DeleteObsoleteFiles holds the mutex. *)

Running == phase = "up" /\ stage # "clean"

\* Mutant: the batch gets the last number given out.
AddRecord_LastNumber(sync) ==
  /\ Running /\ ~error /\ writing = Nil /\ writes < MaxWrites
  /\ Cardinality(mem) <= setup.buffer
  /\ LET b == <<last, opens>> IN
     /\ logs' = [logs EXCEPT ![logFile] = Appended(@, b)]
     /\ writing' = [batch |-> b, sync |-> sync]
  /\ writes' = writes + 1
  /\ UNCHANGED <<manifests, tables, current, temps, openVars, setVars, memVars, setup, opens, merges,
                 faults, stage, pinned, nextFile, pending, edit, merge, error, acked, synced>>

\* The batch gets the next sequence number and goes to the log.
AddRecord(sync) ==
  /\ Running /\ ~error /\ writing = Nil /\ writes < MaxWrites
  /\ Cardinality(mem) <= setup.buffer
  /\ LET b == <<last + 1, opens>> IN
     /\ logs' = [logs EXCEPT ![logFile] = Appended(@, b)]
     /\ writing' = [batch |-> b, sync |-> sync]
  /\ writes' = writes + 1
  /\ UNCHANGED <<manifests, tables, current, temps, openVars, setVars, memVars, setup, opens, merges,
                 faults, stage, pinned, nextFile, pending, edit, merge, error, acked, synced>>

\* Mutant: a sync is acknowledged and not made.
Insert_NoSync ==
  /\ Running /\ writing # Nil /\ writing' = Nil
  /\ UNCHANGED logs
  /\ mem' = mem \union {writing.batch} /\ last' = last + 1
  /\ acked' = acked \union {writing.batch}
  /\ synced' = IF writing.sync THEN synced \union {writing.batch} ELSE synced
  /\ UNCHANGED <<manifests, tables, current, temps, openVars, version, logNumber, manifestFile,
                 descriptor, imm, logFile, counts, stage, pinned, nextFile, pending, edit,
                 merge, error>>

\* The log is synced if the write asked for it, the memtable gets the batch, and
\* the write returns.
Insert ==
  /\ Running /\ writing # Nil /\ writing' = Nil
  /\ logs' = IF writing.sync THEN [logs EXCEPT ![logFile] = Synced(@)] ELSE logs
  /\ mem' = mem \union {writing.batch} /\ last' = last + 1
  /\ acked' = acked \union {writing.batch}
  /\ synced' = IF writing.sync THEN synced \union {writing.batch} ELSE synced
  /\ UNCHANGED <<manifests, tables, current, temps, openVars, version, logNumber, manifestFile,
                 descriptor, imm, logFile, counts, stage, pinned, nextFile, pending, edit,
                 merge, error>>

\* The append fails: the write returns its error, and the next one goes on.
AppendFails ==
  /\ Running /\ ~error /\ writing = Nil /\ Cardinality(mem) <= setup.buffer /\ Fault
  /\ logs' \in {logs} \union
       IF setup.partial THEN {[logs EXCEPT ![logFile] = Torn(@)]} ELSE {}
  /\ UNCHANGED <<manifests, tables, current, temps, openVars, setVars, memVars, stage, pinned,
                 nextFile, pending, edit, merge, writing, error, acked, synced>>

\* The sync fails: the record may show up again, so all later writes fail.
LogSyncFails ==
  /\ Running /\ writing # Nil /\ writing.sync /\ Fault
  /\ writing' = Nil /\ error' = TRUE
  /\ UNCHANGED <<diskVars, openVars, setVars, memVars, stage, pinned, nextFile, pending, edit,
                 merge, acked, synced>>

\* Mutant: the immutable memtable need not have been flushed.
SwitchMemTable_AnyTime ==
  /\ Running /\ ~error /\ writing = Nil
  /\ Cardinality(mem) > setup.buffer
  /\ logs' = Put(logs, nextFile, EmptyFile)
  /\ logFile' = nextFile /\ nextFile' = nextFile + 1
  /\ imm' = mem /\ mem' = {}
  /\ UNCHANGED <<manifests, tables, current, temps, openVars, setVars, counts, stage, pinned,
                 pending, edit, merge, writing, error, acked, synced>>

\* MakeRoomForWrite: a full memtable becomes the immutable one, with a new log.
SwitchMemTable ==
  /\ Running /\ ~error /\ writing = Nil
  /\ Cardinality(mem) > setup.buffer /\ imm = {}
  /\ logs' = Put(logs, nextFile, EmptyFile)
  /\ logFile' = nextFile /\ nextFile' = nextFile + 1
  /\ imm' = mem /\ mem' = {}
  /\ UNCHANGED <<manifests, tables, current, temps, openVars, setVars, counts, stage, pinned,
                 pending, edit, merge, writing, error, acked, synced>>

\* A reader or an iterator takes a reference to the current version.
Pin ==
  /\ Running /\ pinned = {} /\ pinned' = version
  /\ UNCHANGED <<diskVars, openVars, setVars, memVars, counts, stage, nextFile, pending, edit,
                 merge, writing, error, acked, synced>>

Unpin ==
  /\ Running /\ pinned # {} /\ pinned' = {}
  /\ UNCHANGED <<diskVars, openVars, setVars, memVars, counts, stage, nextFile, pending, edit,
                 merge, writing, error, acked, synced>>

------------------------
(* The background thread. *)

\* WriteLevel0Table, in BackgroundCompaction or in the middle of a merge.
BeginFlush ==
  /\ Running /\ ~error /\ stage = "idle" /\ imm # {}
  /\ stage' = "building" /\ nextFile' = nextFile + 1
  /\ pending' = pending \union {nextFile}
  /\ tables' = Put(tables, nextFile, {})
  /\ edit' = [NoEdit EXCEPT !.added = {nextFile}]
  /\ UNCHANGED <<logs, manifests, current, temps, openVars, setVars, memVars, counts, pinned,
                 merge, writing, error, acked, synced>>

\* BuildTable syncs the table; then CompactMemTable begins LogAndApply.
BuildTable ==
  /\ stage = "building" /\ stage' = "append"
  /\ tables' = [n \in DOMAIN tables |-> IF n \in edit.added THEN imm ELSE tables[n]]
  /\ pending' = pending \ edit.added
  /\ edit' = [edit EXCEPT !.meta = Meta(logFile)]
  /\ UNCHANGED <<logs, manifests, current, temps, openVars, setVars, memVars, counts, pinned,
                 nextFile, merge, writing, error, acked, synced>>

BuildFails ==
  /\ stage = "building" /\ Fault
  /\ stage' = "idle" /\ error' = TRUE
  /\ tables' = [n \in DOMAIN tables \ edit.added |-> tables[n]]
  /\ pending' = pending \ edit.added /\ edit' = NoEdit
  /\ UNCHANGED <<logs, manifests, current, temps, openVars, setVars, memVars, pinned,
                 nextFile, merge, writing, acked, synced>>

\* DoCompactionWork opens its output; the inputs stay where they are.
BeginMerge ==
  /\ Running /\ ~error /\ stage = "idle" /\ imm = {} /\ merge = Nil
  /\ merges < MaxMerges /\ merges' = merges + 1
  /\ \E inputs \in SUBSET version :
       /\ Cardinality(inputs) >= 2
       /\ merge' = [inputs |-> inputs, output |-> nextFile]
  /\ nextFile' = nextFile + 1
  /\ pending' = pending \union {nextFile}
  /\ tables' = Put(tables, nextFile, {})
  /\ UNCHANGED <<logs, manifests, current, temps, openVars, setVars, memVars, setup, writes, opens,
                 faults, stage, pinned, edit, writing, error, acked, synced>>

\* The output is finished and synced; InstallCompactionResults begins LogAndApply.
FinishMerge ==
  /\ Running /\ ~error /\ stage = "idle" /\ merge # Nil
  /\ stage' = "append"
  /\ tables' = [tables EXCEPT ![merge.output] = BatchesIn(merge.inputs)]
  /\ edit' = [added |-> {merge.output}, deleted |-> merge.inputs, meta |-> Meta(logNumber)]
  /\ UNCHANGED <<logs, manifests, current, temps, openVars, setVars, memVars, counts, pinned,
                 nextFile, pending, merge, writing, error, acked, synced>>

------------------------
(* The ends of a process. *)

\* The destructor, or a kill: the operating system has all that was written.
ProcessEnds ==
  /\ phase # "down" /\ phase' = "down" /\ Forget
  /\ UNCHANGED <<diskVars, counts, acked, synced>>

\* The machine stops, with the process or before the next one.
MachineCrash ==
  /\ opens < MaxOpens /\ opens > 0
  /\ \/ setup.crash = "always"
     \/ setup.crash = "created" /\ (current \in DOMAIN manifests => manifests[current].synced > 0)
  /\ logs' \in Outcomes(logs) /\ manifests' \in Outcomes(manifests)
  /\ phase' = "down" /\ Forget
  /\ acked' = synced
  /\ UNCHANGED <<tables, current, temps, counts, synced>>

Next ==
  \/ Open \/ NewDB \/ WriteTemp \/ RenameTemp \/ ReadManifest \/ ReplayLog \/ CreateLog
  \/ OpenFails
  \/ AppendEdit \/ SyncManifest \/ ManifestFails \/ DeleteObsoleteFile \/ Cleaned
  \/ \E sync \in BOOLEAN : AddRecord(sync)
  \/ Insert \/ AppendFails \/ LogSyncFails \/ SwitchMemTable \/ Pin \/ Unpin
  \/ BeginFlush \/ BuildTable \/ BuildFails \/ BeginMerge \/ FinishMerge
  \/ ProcessEnds \/ MachineCrash

Spec == Init /\ [][Next]_vars

------------------------
(* Properties. *)

Batches == (1 .. MaxWrites) \X (1 .. MaxOpens)

TypeOK ==
  /\ \A n \in DOMAIN logs : ToSet(logs[n].records) \subseteq Batches
  /\ \A n \in DOMAIN tables : tables[n] \subseteq Batches
  /\ phase \in {"down", "create", "read", "replay", "commit", "up", "failed", "repair"}
  /\ stage \in {"idle", "building", "append", "sync", "temp", "rename", "clean",
                "logs", "scan", "archive", "manifest", "point"}
  /\ version \union pinned \union pending \subseteq Nat
  /\ mem \union imm \subseteq Batches
  /\ synced \subseteq acked /\ acked \subseteq Batches

\* The files implement the store: what an open would find changes only when a batch
\* is logged and when the machine stops, and never loses what was promised.  (A disk
\* that goes bad is outside of this promise.)
Store == INSTANCE DurableStore WITH
           store <- IF setup.damage THEN {} ELSE Recovered,
           acked <- IF setup.damage THEN {} ELSE acked,
           synced <- IF setup.damage THEN {} ELSE synced
ImplementsStore == Store!Spec

\* A write that was synced is found by every later open, whatever failed in between,
\* as long as the manifest can be read.
SyncedWritesSurvive == Readable(current) => synced \subseteq Recovered

\* An open database shows what the next open would show: readers never see a batch
\* that recovery would not find.
ShownIsRecoverable ==
  phase = "up" => mem \union imm \union BatchesIn(version) \subseteq Recovered

\* ... and the other way round while nothing has failed in this process.
RecoverableIsShown ==
  phase = "up" /\ ~error /\ writing = Nil =>
    Recovered = mem \union imm \union BatchesIn(version)

\* DeleteObsoleteFiles never takes a table that a version in use names, nor one
\* under construction.
LiveFilesExist == phase = "up" => \A n \in version \union pinned \union pending : n \in DOMAIN tables

\* A reader's tables keep their contents: no number is given out a second time
\* while a file that counts bears it.
NumbersAreFresh ==
  phase = "up" => \A n \in version \union pinned \union pending \union {logFile, logNumber} : n < nextFile

\* No two batches that are found have the same sequence number, and an open
\* database never gives out a number again that one of its batches has.
SequencesDiffer ==
  /\ \A a, b \in Recovered : a[1] = b[1] => a = b
  /\ phase = "up" /\ writing = Nil /\ ~error => \A b \in Recovered : b[1] <= last

\* A database that was being created, or was open, can be opened again.
OpensAgain == phase # "failed"
===============================================================================
