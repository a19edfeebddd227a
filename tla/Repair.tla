-------------------------------- MODULE Repair --------------------------------
(***************************************************************************)
(* RepairDB, the way back from a database that does not open: its manifest *)
(* has gone bad, or it names a table that is missing.  Every log becomes a *)
(* table, every table counts, a new manifest says so.  It can be stopped   *)
(* like everything else, and run again.                                    *)
(***************************************************************************)
EXTENDS Recovery

\* Something outside the program spoils the manifest that counts.
Damage ==
  /\ setup.damage /\ phase = "down" /\ Fault
  /\ Readable(current)
  /\ manifests' = [manifests EXCEPT ![current].end = "bad"]
  /\ UNCHANGED <<logs, tables, current, temps, openVars, setVars, memVars, stage, pinned,
                 nextFile, pending, edit, merge, writing, error, acked, synced>>

\* FindFiles: every number but that of a manifest is in use.
FindFiles ==
  /\ phase = "failed" /\ phase' = "repair" /\ stage' = "logs"
  /\ nextFile' = Max({0} \union DOMAIN logs \union DOMAIN tables \union temps) + 1
  /\ toReplay' = DOMAIN logs
  /\ UNCHANGED <<diskVars, save, setVars, memVars, counts, pinned, pending, edit, merge,
                 writing, error, acked, synced>>

\* Mutant: the log goes to the archive and gives no table.
ConvertLog_ArchiveOnly ==
  /\ stage = "logs"
  /\ \E n \in toReplay : logs' = Without(logs, n) /\ toReplay' = toReplay \ {n}
  /\ nextFile' = nextFile + 1
  /\ UNCHANGED <<manifests, tables, current, temps, phase, save, setVars, memVars, counts,
                 stage, pinned, pending, edit, merge, writing, error, acked, synced>>

\* ConvertLogToTable, then the log goes to the archive; FindFiles lists them in any order.
ConvertLog ==
  /\ stage = "logs"
  /\ \E n \in toReplay :
       LET found == ToSet(logs[n].records) IN
       /\ tables' = IF found = {} THEN tables ELSE Put(tables, nextFile, found)
       /\ logs' = Without(logs, n) /\ toReplay' = toReplay \ {n}
  /\ nextFile' = nextFile + 1
  /\ UNCHANGED <<manifests, current, temps, phase, save, setVars, memVars, counts, stage,
                 pinned, pending, edit, merge, writing, error, acked, synced>>

\* ScanTable: a table that is not whole is copied as far as it can be read; here, not at all.
ExtractMetaData ==
  /\ stage = "logs" /\ toReplay = {} /\ stage' = "archive"
  /\ LET whole == {n \in DOMAIN tables : tables[n] # {}} IN
     /\ tables' = [n \in whole |-> tables[n]]
     /\ edit' = [added |-> whole, deleted |-> {},
                 meta |-> [log |-> 0, next |-> nextFile, last |-> HighestOf(0, BatchesIn(whole))]]
  /\ temps' = temps \union {1}
  /\ UNCHANGED <<logs, manifests, current, openVars, setVars, memVars, counts, pinned, nextFile,
                 pending, merge, writing, error, acked, synced>>

\* WriteDescriptor: the old manifests go first, then the new one gets its name, then
\* CURRENT gets the new one's.
ArchiveManifests ==
  /\ stage = "archive" /\ stage' = "manifest"
  /\ manifests' = << >>
  /\ UNCHANGED <<logs, tables, current, temps, openVars, setVars, memVars, counts, pinned,
                 nextFile, pending, edit, merge, writing, error, acked, synced>>

InstallManifest ==
  /\ stage = "manifest" /\ stage' = "point"
  /\ manifests' = Put(manifests, 1, Appended(EmptyFile, edit))
  /\ temps' = temps \ {1}
  /\ UNCHANGED <<logs, tables, current, openVars, setVars, memVars, counts, pinned,
                 nextFile, pending, edit, merge, writing, error, acked, synced>>

PointCurrent ==
  /\ stage = "point" /\ current' = 1
  /\ phase' = "down" /\ Forget
  /\ UNCHANGED <<logs, manifests, tables, temps, counts, acked, synced>>

RepairDB == FindFiles \/ ConvertLog \/ ExtractMetaData \/ ArchiveManifests \/ InstallManifest
            \/ PointCurrent

RepairNext == Next \/ Damage \/ RepairDB

RepairSpec == Init /\ [][RepairNext]_vars

------------------------
(* Properties. *)

\* The setups under which the promises hold: a failing append leaves no part of a record, and
\* a log or manifest is gone on with only where the machine has not stopped meanwhile.
Sound(s) == ~s.partial /\ (s.reuse => s.crash = "never")

\* Whatever happens to the manifest, the logs and the tables on the disk hold every
\* synced write, so that a repair has it to find.
SyncedWritesAreSalvageable ==
  synced \subseteq BatchesIn(DOMAIN tables) \union UNION {ToSet(logs[n].records) : n \in DOMAIN logs}

\* A synced write is found by every later open, and whatever becomes of the manifest the
\* logs and tables on the disk still hold it.
SyncedWritesAreKept == SyncedWritesSurvive /\ SyncedWritesAreSalvageable

\* An open database shows what the next open would find and, while nothing has failed,
\* no less.
ShownIsRecovered == ShownIsRecoverable /\ RecoverableIsShown

\* Nothing in use is deleted or given out again: tables that a version names, numbers of
\* files that count, sequence numbers of batches that are found.
NothingIsReused == LiveFilesExist /\ NumbersAreFresh /\ SequencesDiffer

\* A repair that comes to its end gives back every synced write.
RepairGivesBack == [][PointCurrent => synced \subseteq Recovered']_vars
===============================================================================
