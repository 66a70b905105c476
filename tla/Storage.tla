------------------------------ MODULE Storage ------------------------------
(***************************************************************************)
(* The data directory with its two databases, the process that holds its   *)
(* lock, paired snapshots, migrations, encrypted backups, retention and    *)
(* restore.  system.db is written by requests at any time; data.db only    *)
(* under the projection lock.  The two commit separately, and the process  *)
(* may stop between any two of the steps.  SelfUpdate composes these       *)
(* actions with the executable that runs them.                             *)
(***************************************************************************)
EXTENDS Naturals, Sequences, FiniteSets

CONSTANTS
  Keep,            \* backup_retention_count
  MaxEvents,       \* bound on the events that requests commit
  MaxBackups,      \* bound on the backups that are started
  MaxGenerations,  \* bound on the snapshots that are started
  None

ASSUME StorageAssumption == Keep \in Nat \ {0} /\ {MaxEvents, MaxBackups, MaxGenerations} \subseteq Nat

VARIABLES
  dir,       \* the data directory: databases, master.key and .pre-migration
  proc,      \* the process that holds instance.lock
  lock,      \* Store.projectionMu: its holder, and the cutoff of a retention run
  snap,      \* createSnapshotFromStore: its place, and the copy it publishes
  backup,    \* RunBackup: its place and the name of its archive
  archives,  \* the backup destination
  used       \* generations and archive names that were handed out

storage == <<dir, proc, lock, snap, backup, archives, used>>

\* What the files hold: the rows of the two databases, a snapshot, and the data
\* directory, which a first start that was stopped leaves without data.db.
BackupJob == [name : Nat, state : {"running", "succeeded", "failed"}]
SystemDb == [schema : Nat \ {0}, events : Nat, delivered : Nat, generation : Nat, erased : Nat, jobs : Seq(BackupJob)]
DataDb == [schema : Nat \ {0}, projected : Nat, generation : Nat, detailed : SUBSET Nat, cutoff : Nat]
Snapshot == [system : SystemDb, data : DataDb, key : BOOLEAN, generation : Nat]
DataDir == [system : SystemDb, data : DataDb \cup {None}, key : BOOLEAN, pre : SUBSET Snapshot,
            born : (Nat \ {0}) \X (Nat \ {0})]

ASSUME NoneAssumption ==
  /\ None \notin Nat /\ None \notin {"project", "retention", "snapshot"}
  /\ None \notin DataDb /\ None \notin Snapshot /\ None \notin DataDir

Down == [pc |-> "down", version |-> 0, probe |-> FALSE]
Free == [by |-> None, cutoff |-> 0]
NoSnapshot == [pc |-> "idle", purpose |-> None, generation |-> 0, data |-> None, copy |-> None]
NoBackup == [pc |-> "idle", name |-> 0]

\* Events are numbered in the order of the outbox: the first delivered of them
\* are acknowledged, and data.db holds the first projected of them.
NewSystem(version) == [schema |-> version, events |-> 0, delivered |-> 0, generation |-> 0, erased |-> 0, jobs |-> <<>>]
NewData(version) == [schema |-> version, projected |-> 0, generation |-> 0, detailed |-> {}, cutoff |-> 0]

InitStorage(version) ==
  /\ dir = [system |-> NewSystem(version), data |-> NewData(version), key |-> TRUE, pre |-> {}, born |-> <<version, version>>]
  /\ proc = Down /\ lock = Free /\ snap = NoSnapshot /\ backup = NoBackup
  /\ archives = {} /\ used = [generations |-> 0, names |-> 0]

-----------------------------------------------------------------------------
(* OpenWithVersion and serve. *)

\* Both databases exist and neither is newer than the code.
CanOpen(version, d) ==
  /\ d # None /\ d.data # None
  /\ d.system.schema <= version /\ d.data.schema <= version
Pending(version, d) == d.system.schema < version \/ d.data.schema < version
OpenedBlindly(version, d) == IF Pending(version, d) THEN "migrating_system" ELSE "recovering"
Opened(version, d) == IF Pending(version, d) THEN "opening" ELSE "recovering"

Start(version, probe) ==
  /\ proc.pc = "down"
  /\ \/ /\ dir = None
        /\ dir' = [system |-> NewSystem(version), data |-> None, key |-> FALSE, pre |-> {}, born |-> <<version, version>>]
        /\ proc' = [pc |-> "creating", version |-> version, probe |-> probe]
     \/ /\ CanOpen(version, dir)
        /\ proc' = [pc |-> Opened(version, dir), version |-> version, probe |-> probe]
        /\ UNCHANGED dir
  /\ UNCHANGED <<lock, snap, backup, archives, used>>

CreateData ==
  /\ proc.pc = "creating"
  /\ dir' = [dir EXCEPT !.data = NewData(proc.version)]
  /\ proc' = [proc EXCEPT !.pc = "recovering"]
  /\ UNCHANGED <<lock, snap, backup, archives, used>>
\* The error path of a first start removes both files.
CreateFails ==
  /\ proc.pc = "creating"
  /\ dir' = None /\ proc' = Down
  /\ UNCHANGED <<lock, snap, backup, archives, used>>

MigrateSystem ==
  /\ proc.pc = "migrating_system"
  /\ dir' = [dir EXCEPT !.system.schema = proc.version]
  /\ proc' = [proc EXCEPT !.pc = "migrating_data"]
  /\ UNCHANGED <<lock, snap, backup, archives, used>>
MigrateData ==
  /\ proc.pc = "migrating_data"
  /\ dir' = [dir EXCEPT !.data.schema = proc.version]
  /\ proc' = [proc EXCEPT !.pc = "recovering"]
  /\ UNCHANGED <<lock, snap, backup, archives, used>>

\* LoadOrCreateMasterKey, and operations.Recover on the backup jobs.
RecoveredJobs(jobs) == [i \in DOMAIN jobs |-> [jobs[i] EXCEPT !.state = IF @ = "running" THEN "failed" ELSE @]]
Recover ==
  /\ proc.pc = "recovering"
  /\ dir' = [dir EXCEPT !.key = TRUE, !.system.jobs = RecoveredJobs(@)]
  /\ proc' = [proc EXCEPT !.pc = "serving"]
  /\ UNCHANGED <<lock, snap, backup, archives, used>>

\* The process ends at any point; what it had not published is lost.
StopProcess ==
  /\ proc' = Down /\ lock' = Free /\ snap' = NoSnapshot /\ backup' = NoBackup
  /\ UNCHANGED <<dir, archives, used>>
Stop == proc.pc # "down" /\ StopProcess

-----------------------------------------------------------------------------
(* Requests, the projection and retention. *)

Serving == proc.pc = "serving"

Commit ==
  /\ Serving /\ dir.system.events < MaxEvents
  /\ dir' = [dir EXCEPT !.system.events = @ + 1]
  /\ UNCHANGED <<proc, lock, snap, backup, archives, used>>

\* ProjectOutbox: the next event, with its detail unless it is past the cutoff.
WithEvent(data, event) ==
  IF event <= data.projected THEN data
  ELSE [data EXCEPT !.projected = event, !.detailed = IF event <= data.cutoff THEN @ ELSE @ \cup {event}]
UnlockedAnyway == TRUE
ProjectionIsFree == lock = Free
Project ==
  /\ Serving /\ ProjectionIsFree /\ dir.system.delivered < dir.system.events
  /\ dir' = [dir EXCEPT !.data = WithEvent(@, dir.system.delivered + 1)]
  /\ lock' = [by |-> "project", cutoff |-> 0]
  /\ UNCHANGED <<proc, snap, backup, archives, used>>
Acknowledge ==
  /\ lock.by = "project"
  /\ dir' = [dir EXCEPT !.system.delivered = @ + 1] \/ dir' = dir
  /\ lock' = Free
  /\ UNCHANGED <<proc, snap, backup, archives, used>>

\* RunRetention erases request details in system.db, commits, and then writes
\* the cutoff to data.db and erases what lies before it.
Larger(a, b) == IF a > b THEN a ELSE b
Retain(cutoff) ==
  /\ Serving /\ lock = Free /\ cutoff <= dir.system.events
  /\ dir' = [dir EXCEPT !.system.erased = Larger(@, cutoff)]
  /\ lock' = [by |-> "retention", cutoff |-> cutoff]
  /\ UNCHANGED <<proc, snap, backup, archives, used>>
Trimmed(data, cutoff) ==
  LET effective == Larger(cutoff, data.cutoff)
  IN  [data EXCEPT !.cutoff = effective, !.detailed = {event \in @ : event > effective}]
RetainData ==
  /\ lock.by = "retention"
  /\ lock' = Free
  /\ dir' = [dir EXCEPT !.data = Trimmed(@, lock.cutoff)] \/ dir' = dir
  /\ UNCHANGED <<proc, snap, backup, archives, used>>

-----------------------------------------------------------------------------
(* createSnapshotFromStore, for a migration, a backup or an update. *)

SnapshotWanted(purpose) ==
  \/ purpose = "migration" /\ proc.pc = "opening"
  \/ purpose = "backup" /\ Serving /\ backup.pc = "started"
  \/ purpose = "update" /\ proc.pc = "offline"

RecordSystem(purpose) ==
  /\ SnapshotWanted(purpose) /\ snap.pc = "idle" /\ lock = Free /\ used.generations < MaxGenerations
  /\ used' = [used EXCEPT !.generations = @ + 1]
  /\ snap' = [NoSnapshot EXCEPT !.pc = "record_data", !.purpose = purpose, !.generation = used.generations + 1]
  /\ dir' = [dir EXCEPT !.system.generation = used.generations + 1]
  /\ lock' = [by |-> "snapshot", cutoff |-> 0]
  /\ UNCHANGED <<proc, backup, archives>>
RecordData ==
  /\ snap.pc = "record_data"
  /\ snap' = [snap EXCEPT !.pc = "copy_data"]
  /\ dir' = [dir EXCEPT !.data.generation = snap.generation]
  /\ UNCHANGED <<proc, lock, backup, archives, used>>
CopyData ==
  /\ snap.pc = "copy_data"
  /\ snap' = [snap EXCEPT !.pc = "copy_system", !.data = dir.data]
  /\ UNCHANGED <<dir, proc, lock, backup, archives, used>>
\* The system database and the key are copied, and the directory is renamed.
Copied == [system |-> dir.system, data |-> snap.data, key |-> dir.key, generation |-> snap.generation]
Publish ==
  /\ snap.pc = "copy_system"
  /\ snap' = IF snap.purpose = "migration" THEN NoSnapshot ELSE [snap EXCEPT !.pc = "published", !.copy = Copied]
  /\ dir' = IF snap.purpose = "migration" THEN [dir EXCEPT !.pre = @ \cup {Copied}] ELSE dir
  /\ proc' = IF snap.purpose = "migration" THEN [proc EXCEPT !.pc = "migrating_system"] ELSE proc
  /\ lock' = Free
  /\ UNCHANGED <<backup, archives, used>>

\* readManifest, validateSnapshotFiles and validateSnapshotDatabases.
Valid(copy) == copy.system.generation = copy.generation /\ copy.data.generation = copy.generation
\* RestoreSnapshot opens the staged copy, which migrates it, and renames it.
Restorable(version, copy) == Valid(copy) /\ CanOpen(version, copy)
Restored(version, copy) ==
  [system |-> [copy.system EXCEPT !.schema = version], data |-> [copy.data EXCEPT !.schema = version], key |-> copy.key,
   pre |-> IF Pending(version, copy) THEN {copy} ELSE {}, born |-> <<copy.system.schema, copy.data.schema>>]

-----------------------------------------------------------------------------
(* RunBackup and restore-backup. *)

Settled(jobs, name, state) ==
  [i \in DOMAIN jobs |-> IF jobs[i].name = name /\ jobs[i].state = "running" THEN [jobs[i] EXCEPT !.state = state] ELSE jobs[i]]

StartBackup ==
  /\ Serving /\ backup.pc = "idle" /\ used.names < MaxBackups
  /\ used' = [used EXCEPT !.names = @ + 1]
  /\ backup' = [pc |-> "started", name |-> used.names + 1]
  /\ dir' = [dir EXCEPT !.system.jobs = Append(@, [name |-> used.names + 1, state |-> "running"])]
  /\ UNCHANGED <<proc, lock, snap, archives>>
WriteArchive ==
  /\ snap.pc = "published" /\ snap.purpose = "backup"
  /\ archives' = archives \cup {[name |-> backup.name, copy |-> snap.copy]}
  /\ snap' = NoSnapshot
  /\ backup' = [backup EXCEPT !.pc = "archived"]
  /\ UNCHANGED <<dir, proc, lock, used>>
\* pruneLocalBackups: names start with the time of the backup.
PrunedAscending(all) == {a \in all : Cardinality({b \in all : b.name < a.name}) < Keep}
Pruned(all) == {a \in all : Cardinality({b \in all : b.name > a.name}) < Keep}
PruneArchives ==
  /\ backup.pc = "archived"
  /\ archives' = Pruned(archives)
  /\ backup' = [backup EXCEPT !.pc = "pruned"]
  /\ UNCHANGED <<dir, proc, lock, snap, used>>
\* A backup to S3, and one whose clean-up failed, ends without pruning.
FinishBackup ==
  /\ backup.pc \in {"archived", "pruned"}
  /\ dir' = [dir EXCEPT !.system.jobs = Settled(@, backup.name, "succeeded")]
  /\ backup' = NoBackup
  /\ UNCHANGED <<proc, lock, snap, archives, used>>
FailBackup ==
  /\ backup.pc # "idle"
  /\ dir' = [dir EXCEPT !.system.jobs = Settled(@, backup.name, "failed")]
  /\ backup' = NoBackup /\ snap' = NoSnapshot
  /\ lock' = IF lock.by = "snapshot" THEN Free ELSE lock
  /\ UNCHANGED <<proc, archives, used>>

\* The operator sets the data directory aside and restores an archive.
RestoreBackup(version, archive) ==
  /\ proc.pc = "down" /\ Restorable(version, archive.copy)
  /\ dir' = Restored(version, archive.copy)
  /\ UNCHANGED <<proc, lock, snap, backup, archives, used>>

-----------------------------------------------------------------------------
StorageSteps ==
  \/ CreateData \/ CreateFails \/ MigrateSystem \/ MigrateData
  \/ Commit \/ Project \/ Acknowledge \/ RetainData
  \/ \E cutoff \in 1..MaxEvents : Retain(cutoff)
  \/ \E purpose \in {"migration", "backup", "update"} : RecordSystem(purpose)
  \/ RecordData \/ CopyData \/ Publish
  \/ StartBackup \/ WriteArchive \/ PruneArchives \/ FinishBackup \/ FailBackup

Paired(copy) ==
  /\ Valid(copy)
  /\ copy.system.delivered <= copy.data.projected /\ copy.data.projected <= copy.system.events
  /\ \A event \in copy.data.detailed : event > copy.data.cutoff

\* operations.Recover, RunBackup, pruneLocalBackups: a job that is running
\* belongs to the backup that runs in this process, also after a restart and
\* after a restore of an archive that holds its own job, and when a backup is
\* reported as succeeded the destination holds an archive at least as new.
BackupsAreHonest ==
  dir # None => LET jobs == dir.system.jobs
  IN  /\ Serving => \A i \in DOMAIN jobs : jobs[i].state = "running" => backup.pc # "idle" /\ backup.name = jobs[i].name
      /\ \A i \in DOMAIN jobs : jobs[i].state = "succeeded" => \E a \in archives : a.name >= jobs[i].name

\* OpenWithVersion: before a database of an existing directory is migrated, a
\* snapshot of both from before is in the directory, whatever was interrupted.
PreMigrationIsRestorable ==
  dir # None /\ dir.data # None /\ dir.born # <<dir.system.schema, dir.data.schema>> =>
    \E copy \in dir.pre :
      /\ <<copy.system.schema, copy.data.schema>> = dir.born /\ Paired(copy)
      /\ dir.system.schema # dir.data.schema => copy.system.events = dir.system.events
=============================================================================
