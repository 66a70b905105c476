--------------------------- MODULE SelfUpdateProofs ---------------------------
(***************************************************************************)
(* Proofs about Storage and SelfUpdate for any number of events, backups,  *)
(* snapshots and failing file operations.                                  *)
(*                                                                         *)
(* The inductive invariant says what each place of the process allows the  *)
(* lock, the snapshot and the directory to be (PlacesOK); how the two      *)
(* databases and every copy of them are related, also half-way through a   *)
(* snapshot (PairsOK); which snapshot a migration rests on (MigrationOK);  *)
(* what backup jobs say, in the databases and in every copy that may come  *)
(* back (JobsOK); where the old executable is at each place of an update   *)
(* (UpdateOK).                                                             *)
(***************************************************************************)
EXTENDS SelfUpdate, SequenceTheorems, FiniteSetTheorems, TLAPS

Versions == 1..2
Copying == {"record_data", "copy_data", "copy_system"}
Opening == {"opening", "migrating_system", "migrating_data", "recovering", "serving", "offline"}

UpdatePlaces == {"idle", "resolved", "staged", "snapshot", "swap", "retain", "unswap", "undo", "unswap_rename", "undo_rename",
                 "probe", "rollback", "rollback_rename", "data", "restore", "over", "done", "rolled_back"}

DiskTypeOK ==
  /\ dir \in DataDir \cup {None} /\ failed \in DataDir \cup {None}
  /\ before \in Snapshot \cup {None}
  /\ archives \in SUBSET [name : Nat, copy : Snapshot]
  /\ snap \in [pc : {"idle", "published"} \cup Copying, purpose : {None, "migration", "backup", "update"},
               generation : Nat, data : DataDb \cup {None}, copy : Snapshot \cup {None}]
ProcessTypeOK ==
  /\ proc \in [pc : {"down", "creating"} \cup Opening, version : 0..2, probe : BOOLEAN]
  /\ lock \in [by : {None, "project", "retention", "snapshot"}, cutoff : Nat]
  /\ backup \in [pc : {"idle", "started", "archived", "pruned"}, name : Nat]
  /\ used \in [generations : Nat, names : Nat]
  /\ exe \in {1, 2, None} /\ staged \in {1, 2, None} /\ aside \in SUBSET {1, 2}
  /\ update \in [pc : UpdatePlaces, good : BOOLEAN, faults : Nat]

\* What each place of the process says of the directory, the lock, the snapshot
\* and the backup.
DirPlaces ==
  /\ proc.pc # "down" => proc.version \in Versions /\ dir # None /\ (dir.data = None <=> proc.pc = "creating")
  /\ proc.pc = "creating" => dir.system = NewSystem(proc.version) /\ dir.born = <<proc.version, proc.version>>
  /\ proc.pc \in Opening => dir.system.schema <= proc.version /\ dir.data.schema <= proc.version
  /\ proc.pc = "opening" => Pending(proc.version, dir)
  /\ proc.pc \in {"migrating_data", "recovering", "serving"} => dir.system.schema = proc.version
  /\ proc.pc \in {"recovering", "serving"} => dir.data.schema = proc.version
  /\ proc.pc = "offline" => proc.version = 1
RunPlaces ==
  /\ proc.pc = "down" => proc = Down /\ lock = Free /\ snap = NoSnapshot /\ backup = NoBackup
  /\ lock.by = None => lock = Free
  /\ snap.pc = "idle" => snap = NoSnapshot
  /\ backup.pc = "idle" => backup = NoBackup
  /\ backup.pc # "idle" => Serving
  /\ lock.by \in {"project", "retention"} => Serving
  /\ lock.by = "snapshot" <=> snap.pc \in Copying
  /\ snap.pc # "idle" => \/ snap.purpose = "migration" /\ proc.pc = "opening" /\ snap.pc # "published"
                         \/ snap.purpose = "backup" /\ Serving /\ backup.pc = "started"
                         \/ snap.purpose = "update" /\ proc.pc = "offline"
PlacesOK == DirPlaces /\ RunPlaces

Whole(d) == d # None /\ d.data # None
Linked(d) ==
  /\ d.system.delivered <= d.data.projected /\ d.data.projected <= d.system.events
  /\ \A event \in d.data.detailed : event > d.data.cutoff

\* The databases of a directory are linked, and a snapshot under way keeps what
\* will make its copy a pair.
LinksOK ==
  /\ Whole(dir) => Linked(dir)
  /\ Whole(failed) => Linked(failed)
  /\ lock.by = "project" => dir.system.delivered < dir.data.projected
CopyingOK ==
  /\ snap.pc \in Copying => dir.system.generation = snap.generation
  /\ snap.pc \in {"copy_data", "copy_system"} => dir.data.generation = snap.generation
  /\ snap.pc = "copy_system" => snap.data = dir.data
  /\ snap.pc = "published" => snap.copy # None /\ Paired(snap.copy)
PairsOK == LinksOK /\ CopyingOK /\ SnapshotsArePaired

Schemas(d) == <<d.system.schema, d.data.schema>>
\* A copy of a directory from before its migrations; when it is current, no event
\* was committed since.
Original(copy, d) == Schemas(copy) = d.born /\ Paired(copy)
Current(copy, d) == Original(copy, d) /\ copy.system.events = d.system.events
Explained(d) ==
  /\ d.born[1] <= d.system.schema /\ d.born[2] <= d.data.schema
  /\ d.born # Schemas(d) =>
       \E copy \in d.pre : Original(copy, d) /\ (d.system.schema # d.data.schema => Current(copy, d))
MigrationOK ==
  /\ Whole(dir) => Explained(dir)
  /\ Whole(failed) => Explained(failed)
  /\ proc.pc \in {"migrating_system", "migrating_data"} => \E copy \in dir.pre : Current(copy, dir)

\* A backup that a job reports is at the destination, or a newer one is.
Reported(jobs, names, all) ==
  \A i \in DOMAIN jobs :
    /\ jobs[i].name <= names
    /\ jobs[i].state = "succeeded" => \E a \in all : a.name >= jobs[i].name
ReportsOK ==
  /\ \A d \in {dir, failed, before, snap.copy} : d # None => Reported(d.system.jobs, used.names, archives)
  /\ \A a \in archives : a.name <= used.names /\ Reported(a.copy.system.jobs, used.names, archives)
RunningOK ==
  /\ backup.pc # "idle" => backup.name = used.names
  /\ backup.pc \in {"archived", "pruned"} => \E a \in archives : a.name = backup.name
  /\ Serving => \A i \in DOMAIN dir.system.jobs :
       dir.system.jobs[i].state = "running" => backup.pc # "idle" /\ backup.name = dir.system.jobs[i].name
JobsOK == ReportsOK /\ RunningOK

\* The process that an update allows at each of its places.
ProbeOK ==
  /\ At("snapshot") <=> proc.pc = "offline"
  /\ proc.probe => At("probe")
  /\ At("probe") /\ proc.pc # "down" => proc.probe /\ proc.version = 2
  /\ Updating /\ ~At("snapshot") /\ ~At("probe") => proc.pc = "down"
  /\ update.pc \in {"idle", "resolved", "staged"} /\ proc.pc # "down" => proc.version = exe
  /\ At("idle") /\ exe = 2 => update.good
  /\ Serving => Works(proc.version)

\* The executables at each place of an update.  The old one is lost only when a
\* second file operation fails, in the undoing of the exchange.
Old == {exe, staged} \cup aside
ExecutablesOK ==
  /\ update.pc \in {"resolved", "staged", "snapshot", "swap"} => exe = 1
  /\ update.pc \in {"staged", "snapshot", "swap"} => staged = 2
  /\ update.pc \in {"retain", "unswap", "undo", "probe", "rollback", "done"} => exe = 2
  /\ update.pc \in {"unswap_rename", "undo_rename", "rollback_rename"} => exe = None
  /\ update.pc \in {"retain", "unswap", "unswap_rename"} => staged = 1
  /\ update.pc \in {"probe", "rollback", "rollback_rename", "done"} => 1 \in aside
  /\ update.pc \in {"undo", "undo_rename", "data", "restore"} => 1 \in Old
  /\ update.pc \in {"unswap", "unswap_rename"} => update.faults >= 1
  /\ update.pc \in {"data", "restore"} => exe \in {1, 2} /\ (update.faults = 0 => exe = 1)
  /\ before # None /\ update.faults <= 1 => 1 \in Old

\* The pre-update snapshot, and the data beside it until rollback moves it away.
BeforeOK ==
  /\ update.pc \in {"idle", "resolved", "staged", "snapshot"} => before = None
  /\ Updating /\ ~At("snapshot") => before # None
  /\ before # None => CanOpen(1, before)
  /\ Updating /\ ~At("snapshot") /\ ~At("restore") => Whole(dir) /\ dir.system.events >= before.system.events
  /\ proc.pc = "offline" /\ snap.pc = "published" => CanOpen(1, snap.copy) /\ snap.copy.system.events = dir.system.events

UpdateOK == ProbeOK /\ ExecutablesOK /\ BeforeOK
TypesOK == DiskTypeOK /\ ProcessTypeOK
StorageInv == TypesOK /\ PlacesOK /\ PairsOK /\ MigrationOK /\ JobsOK
UpdateInv == StorageInv /\ UpdateOK

-----------------------------------------------------------------------------
(* Types. *)

LEMMA NotNone ==
  /\ \A d \in DataDir : d # None
  /\ \A x \in DataDb : x # None
  /\ \A copy \in Snapshot : copy # None
  BY NoneAssumption

\* What recovery makes of the job rows.
LEMMA RecoveredRows ==
  ASSUME NEW jobs \in Seq(BackupJob)
  PROVE  /\ RecoveredJobs(jobs) \in Seq(BackupJob) /\ DOMAIN RecoveredJobs(jobs) = DOMAIN jobs
         /\ \A i \in DOMAIN jobs : /\ RecoveredJobs(jobs)[i].name = jobs[i].name
                                   /\ RecoveredJobs(jobs)[i].state = IF jobs[i].state = "running" THEN "failed" ELSE jobs[i].state
<1>1. Len(jobs) \in Nat /\ DOMAIN jobs = 1..Len(jobs) /\ \A i \in 1..Len(jobs) : jobs[i] \in BackupJob
  BY LenProperties, ElementOfSeq
<1>2. RecoveredJobs(jobs) \in [1..Len(jobs) -> BackupJob]
  BY <1>1 DEF RecoveredJobs, BackupJob
<1>3. RecoveredJobs(jobs) \in Seq(BackupJob)
  BY <1>1, <1>2, SeqDef
<1>4. \A i \in DOMAIN jobs : /\ RecoveredJobs(jobs)[i].name = jobs[i].name
                             /\ RecoveredJobs(jobs)[i].state = IF jobs[i].state = "running" THEN "failed" ELSE jobs[i].state
  BY <1>1 DEF RecoveredJobs, BackupJob
<1> QED BY <1>1, <1>3, <1>4 DEF RecoveredJobs

\* What the end of a backup makes of them.
LEMMA SettledRows ==
  ASSUME NEW jobs \in Seq(BackupJob), NEW name, NEW state \in {"succeeded", "failed"}
  PROVE  /\ Settled(jobs, name, state) \in Seq(BackupJob) /\ DOMAIN Settled(jobs, name, state) = DOMAIN jobs
         /\ \A i \in DOMAIN jobs :
              /\ Settled(jobs, name, state)[i].name = jobs[i].name
              /\ Settled(jobs, name, state)[i].state =
                   IF jobs[i].name = name /\ jobs[i].state = "running" THEN state ELSE jobs[i].state
<1>1. Len(jobs) \in Nat /\ DOMAIN jobs = 1..Len(jobs) /\ \A i \in 1..Len(jobs) : jobs[i] \in BackupJob
  BY LenProperties, ElementOfSeq
<1>2. Settled(jobs, name, state) \in [1..Len(jobs) -> BackupJob]
  BY <1>1 DEF Settled, BackupJob
<1>3. Settled(jobs, name, state) \in Seq(BackupJob)
  BY <1>1, <1>2, SeqDef
<1>4. \A i \in DOMAIN jobs :
        /\ Settled(jobs, name, state)[i].name = jobs[i].name
        /\ Settled(jobs, name, state)[i].state = IF jobs[i].name = name /\ jobs[i].state = "running" THEN state ELSE jobs[i].state
  BY <1>1 DEF Settled, BackupJob
<1> QED BY <1>1, <1>3, <1>4 DEF Settled

LEMMA NewFiles ==
  ASSUME NEW version \in Nat \ {0}
  PROVE  NewSystem(version) \in SystemDb /\ NewData(version) \in DataDb
  BY EmptySeq DEF NewSystem, NewData, SystemDb, DataDb

\* What the writes to one database change: one field of it, and nothing else.
OnlySystem(e, d) == e \in DataDir /\ e.data = d.data /\ e.key = d.key /\ e.pre = d.pre /\ e.born = d.born
OnlyData(e, d) == e \in DataDir /\ e.system = d.system /\ e.key = d.key /\ e.pre = d.pre /\ e.born = d.born

\* Neither schema changes.
SameShape(e, d) ==
  /\ e # None /\ (e.data = None <=> d.data = None)
  /\ e.system.schema = d.system.schema /\ (d.data # None => e.data.schema = d.data.schema)

LEMMA DirWithSystem ==
  ASSUME NEW d \in DataDir, NEW s \in SystemDb
  PROVE  LET e == [d EXCEPT !.system = s] IN OnlySystem(e, d) /\ e.system = s
  BY DEF DataDir, OnlySystem
LEMMA DirWithData ==
  ASSUME NEW d \in DataDir, NEW x \in DataDb
  PROVE  LET e == [d EXCEPT !.data = x] IN OnlyData(e, d) /\ e.data = x
  BY DEF DataDir, OnlyData

LEMMA SystemWrites ==
  ASSUME NEW d \in DataDir
  PROVE  /\ \A v \in Nat \ {0} : LET e == [d EXCEPT !.system.schema = v] IN OnlySystem(e, d) /\ e.system = [d.system EXCEPT !.schema = v]
         /\ \A n \in Nat : LET e == [d EXCEPT !.system.events = n] IN OnlySystem(e, d) /\ e.system = [d.system EXCEPT !.events = n]
         /\ \A n \in Nat : LET e == [d EXCEPT !.system.delivered = n] IN OnlySystem(e, d) /\ e.system = [d.system EXCEPT !.delivered = n]
         /\ \A n \in Nat : LET e == [d EXCEPT !.system.generation = n] IN OnlySystem(e, d) /\ e.system = [d.system EXCEPT !.generation = n]
         /\ \A n \in Nat : LET e == [d EXCEPT !.system.erased = n] IN OnlySystem(e, d) /\ e.system = [d.system EXCEPT !.erased = n]
         /\ \A jobs \in Seq(BackupJob) : LET e == [d EXCEPT !.system.jobs = jobs] IN OnlySystem(e, d) /\ e.system = [d.system EXCEPT !.jobs = jobs]
<1>0. d.system \in SystemDb
  BY DEF DataDir
<1>1. ASSUME NEW v \in Nat \ {0}
      PROVE  LET e == [d EXCEPT !.system.schema = v] IN OnlySystem(e, d) /\ e.system = [d.system EXCEPT !.schema = v]
  <2>1. [d.system EXCEPT !.schema = v] \in SystemDb
    BY <1>0 DEF SystemDb
  <2> QED BY <2>1, DirWithSystem
<1>2. ASSUME NEW n \in Nat
      PROVE  LET e == [d EXCEPT !.system.events = n] IN OnlySystem(e, d) /\ e.system = [d.system EXCEPT !.events = n]
  <2>1. [d.system EXCEPT !.events = n] \in SystemDb
    BY <1>0 DEF SystemDb
  <2> QED BY <2>1, DirWithSystem
<1>3. ASSUME NEW n \in Nat
      PROVE  LET e == [d EXCEPT !.system.delivered = n] IN OnlySystem(e, d) /\ e.system = [d.system EXCEPT !.delivered = n]
  <2>1. [d.system EXCEPT !.delivered = n] \in SystemDb
    BY <1>0 DEF SystemDb
  <2> QED BY <2>1, DirWithSystem
<1>4. ASSUME NEW n \in Nat
      PROVE  LET e == [d EXCEPT !.system.generation = n] IN OnlySystem(e, d) /\ e.system = [d.system EXCEPT !.generation = n]
  <2>1. [d.system EXCEPT !.generation = n] \in SystemDb
    BY <1>0 DEF SystemDb
  <2> QED BY <2>1, DirWithSystem
<1>5. ASSUME NEW n \in Nat
      PROVE  LET e == [d EXCEPT !.system.erased = n] IN OnlySystem(e, d) /\ e.system = [d.system EXCEPT !.erased = n]
  <2>1. [d.system EXCEPT !.erased = n] \in SystemDb
    BY <1>0 DEF SystemDb
  <2> QED BY <2>1, DirWithSystem
<1>6. ASSUME NEW jobs \in Seq(BackupJob)
      PROVE  LET e == [d EXCEPT !.system.jobs = jobs] IN OnlySystem(e, d) /\ e.system = [d.system EXCEPT !.jobs = jobs]
  <2>1. [d.system EXCEPT !.jobs = jobs] \in SystemDb
    BY <1>0 DEF SystemDb
  <2> QED BY <2>1, DirWithSystem
<1> QED BY <1>1, <1>2, <1>3, <1>4, <1>5, <1>6

LEMMA DataWrites ==
  ASSUME NEW d \in DataDir, d.data \in DataDb
  PROVE  /\ \A v \in Nat \ {0} : LET e == [d EXCEPT !.data.schema = v] IN OnlyData(e, d) /\ e.data = [d.data EXCEPT !.schema = v]
         /\ \A n \in Nat : LET e == [d EXCEPT !.data.generation = n] IN OnlyData(e, d) /\ e.data = [d.data EXCEPT !.generation = n]
<1>1. ASSUME NEW v \in Nat \ {0}
      PROVE  LET e == [d EXCEPT !.data.schema = v] IN OnlyData(e, d) /\ e.data = [d.data EXCEPT !.schema = v]
  <2>1. [d.data EXCEPT !.schema = v] \in DataDb
    BY DEF DataDb
  <2> QED BY <2>1, DirWithData
<1>2. ASSUME NEW n \in Nat
      PROVE  LET e == [d EXCEPT !.data.generation = n] IN OnlyData(e, d) /\ e.data = [d.data EXCEPT !.generation = n]
  <2>1. [d.data EXCEPT !.generation = n] \in DataDb
    BY DEF DataDb
  <2> QED BY <2>1, DirWithData
<1> QED BY <1>1, <1>2

LEMMA CopyTypes ==
  ASSUME NEW copy \in Snapshot, NEW version \in Nat \ {0}
  PROVE  Restored(version, copy) \in DataDir
  BY DEF Restored, Snapshot, DataDir, SystemDb, DataDb

\* What the projection and the retention write to data.db.
LEMMA EventWrite ==
  ASSUME NEW x \in DataDb, NEW n \in Nat
  PROVE  LET y == WithEvent(x, n)
         IN  /\ y \in DataDb /\ y.schema = x.schema /\ y.generation = x.generation /\ y.cutoff = x.cutoff
             /\ y.projected = IF n <= x.projected THEN x.projected ELSE n
             /\ \A event \in y.detailed : event \in x.detailed \/ event > y.cutoff
<1>1. CASE n <= x.projected
  BY <1>1 DEF WithEvent
<1>2. CASE ~(n <= x.projected)
  <2> DEFINE D == IF n <= x.cutoff THEN x.detailed ELSE x.detailed \cup {n}
  <2>1. D \in SUBSET Nat /\ \A event \in D : event \in x.detailed \/ event > x.cutoff
    BY DEF DataDb
  <2>2. WithEvent(x, n) = [x EXCEPT !.projected = n, !.detailed = D]
    BY <1>2 DEF WithEvent
  <2> HIDE DEF D
  <2>3. LET y == [x EXCEPT !.projected = n, !.detailed = D]
        IN  y \in DataDb /\ y.schema = x.schema /\ y.generation = x.generation /\ y.cutoff = x.cutoff /\ y.projected = n /\ y.detailed = D
    BY <2>1 DEF DataDb
  <2> QED BY <1>2, <2>1, <2>2, <2>3
<1> QED BY <1>1, <1>2
LEMMA TrimWrite ==
  ASSUME NEW x \in DataDb, NEW n \in Nat
  PROVE  LET y == Trimmed(x, n)
         IN  /\ y \in DataDb /\ y.schema = x.schema /\ y.generation = x.generation /\ y.projected = x.projected
             /\ \A event \in y.detailed : event > y.cutoff
<1> DEFINE c == Larger(n, x.cutoff)
<1>1. c \in Nat
  BY DEF Larger, DataDb
<1> DEFINE D == {event \in x.detailed : event > c}
<1>2. D \in SUBSET Nat /\ \A event \in D : event > c
  BY DEF DataDb
<1>3. Trimmed(x, n) = [x EXCEPT !.cutoff = c, !.detailed = D]
  BY DEF Trimmed
<1> HIDE DEF c, D
<1>4. LET y == [x EXCEPT !.cutoff = c, !.detailed = D]
      IN  y \in DataDb /\ y.schema = x.schema /\ y.generation = x.generation /\ y.projected = x.projected /\ y.cutoff = c /\ y.detailed = D
  BY <1>1, <1>2 DEF DataDb
<1> QED BY <1>2, <1>3, <1>4

\* What is copied is a snapshot.
LEMMA CopiedType ==
  ASSUME TypesOK, PlacesOK, PairsOK, snap.pc = "copy_system"
  PROVE  Copied \in Snapshot /\ dir \in DataDir /\ dir.data \in DataDb /\ Whole(dir)
<1>1. proc.pc # "down" /\ proc.pc # "creating"
  BY DEF PlacesOK, DirPlaces, RunPlaces, NoSnapshot, Serving
<1>2. dir \in DataDir /\ Whole(dir)
  BY <1>1 DEF TypesOK, DiskTypeOK, PlacesOK, DirPlaces, RunPlaces, Whole
<1>3. dir.data \in DataDb /\ snap.data = dir.data
  BY <1>2 DEF DataDir, Whole, PairsOK, CopyingOK
<1>4. snap.generation \in Nat
  BY DEF TypesOK, DiskTypeOK
<1> QED BY <1>2, <1>3, <1>4 DEF Copied, Snapshot, DataDir

\* An open directory has both databases.
LEMMA OpenDir ==
  ASSUME TypesOK, PlacesOK, proc.pc # "down"
  PROVE  /\ dir \in DataDir /\ dir # None /\ dir.system \in SystemDb /\ proc.version \in Nat \ {0}
         /\ proc.pc # "creating" => dir.data \in DataDb /\ dir.data # None /\ Whole(dir)
  BY NoneAssumption DEF TypesOK, DiskTypeOK, PlacesOK, DirPlaces, RunPlaces, Whole, Versions, DataDir

\* A write to one database keeps the other; the schema changes only by migration.
LEMMA SystemShape ==
  ASSUME NEW e, NEW d \in DataDir, d.data \in DataDb, OnlySystem(e, d), e.system.schema = d.system.schema
  PROVE  SameShape(e, d)
  BY NotNone DEF OnlySystem, SameShape
LEMMA DataShape ==
  ASSUME NEW e, NEW d \in DataDir, d.data \in DataDb, OnlyData(e, d), e.data \in DataDb, e.data.schema = d.data.schema
  PROVE  SameShape(e, d)
  BY NotNone DEF OnlyData, SameShape

\* What each write of the server does to the directory.
LEMMA CreateWrite ==
  ASSUME TypesOK, PlacesOK, CreateData
  PROVE  OnlyData(dir', dir) /\ dir'.data = NewData(proc.version)
  BY OpenDir, NewFiles, DirWithData DEF CreateData
LEMMA MigrateWrite ==
  ASSUME TypesOK, PlacesOK
  PROVE  /\ MigrateSystem => OnlySystem(dir', dir) /\ dir'.system = [dir.system EXCEPT !.schema = proc.version]
         /\ MigrateData => OnlyData(dir', dir) /\ dir'.data = [dir.data EXCEPT !.schema = proc.version]
<1>1. ASSUME MigrateSystem PROVE OnlySystem(dir', dir) /\ dir'.system = [dir.system EXCEPT !.schema = proc.version]
  BY <1>1, OpenDir, SystemWrites DEF MigrateSystem
<1>2. ASSUME MigrateData PROVE OnlyData(dir', dir) /\ dir'.data = [dir.data EXCEPT !.schema = proc.version]
  BY <1>2, OpenDir, DataWrites DEF MigrateData
<1> QED BY <1>1, <1>2
LEMMA CommitWrite ==
  ASSUME TypesOK, PlacesOK, Commit
  PROVE  OnlySystem(dir', dir) /\ dir'.system = [dir.system EXCEPT !.events = dir.system.events + 1]
<1>1. proc.pc # "down" /\ dir.system \in SystemDb /\ dir \in DataDir
  BY OpenDir DEF Commit, Serving
<1>2. dir.system.events + 1 \in Nat
  BY <1>1 DEF SystemDb
<1>3. dir' = [dir EXCEPT !.system.events = dir.system.events + 1]
  BY DEF Commit
<1> QED BY <1>1, <1>2, <1>3, SystemWrites
LEMMA ProjectWrite ==
  ASSUME TypesOK, PlacesOK, Project
  PROVE  OnlyData(dir', dir) /\ dir'.data = WithEvent(dir.data, dir.system.delivered + 1)
<1>1. dir.system \in SystemDb /\ dir \in DataDir /\ dir.data \in DataDb
  BY OpenDir DEF Project, Serving
<1>2. dir.system.delivered + 1 \in Nat
  BY <1>1 DEF SystemDb
<1>3. dir' = [dir EXCEPT !.data = WithEvent(dir.data, dir.system.delivered + 1)]
  BY DEF Project
<1> QED BY <1>1, <1>2, <1>3, EventWrite, DirWithData
LEMMA AcknowledgeWrite ==
  ASSUME TypesOK, PlacesOK, Acknowledge
  PROVE  dir' = dir \/ (OnlySystem(dir', dir) /\ dir'.system = [dir.system EXCEPT !.delivered = dir.system.delivered + 1])
<1>1. dir.system \in SystemDb /\ dir \in DataDir
  BY OpenDir DEF Acknowledge, Serving, PlacesOK, DirPlaces, RunPlaces
<1>2. dir.system.delivered + 1 \in Nat
  BY <1>1 DEF SystemDb
<1>3. CASE dir' = [dir EXCEPT !.system.delivered = dir.system.delivered + 1]
  BY <1>1, <1>2, <1>3, SystemWrites
<1> QED BY <1>3 DEF Acknowledge
LEMMA RetainWrite ==
  ASSUME TypesOK, PlacesOK
  PROVE  /\ \A cutoff \in 1..MaxEvents : Retain(cutoff) =>
              OnlySystem(dir', dir) /\ dir'.system = [dir.system EXCEPT !.erased = Larger(dir.system.erased, cutoff)]
         /\ RetainData => dir' = dir \/ (OnlyData(dir', dir) /\ dir'.data = Trimmed(dir.data, lock.cutoff))
<1>1. ASSUME NEW cutoff \in 1..MaxEvents, Retain(cutoff)
      PROVE  OnlySystem(dir', dir) /\ dir'.system = [dir.system EXCEPT !.erased = Larger(dir.system.erased, cutoff)]
  <2>1. dir.system \in SystemDb /\ dir \in DataDir
    BY <1>1, OpenDir DEF Retain, Serving
  <2>2. Larger(dir.system.erased, cutoff) \in Nat
    BY <2>1, StorageAssumption DEF SystemDb, Larger
  <2>3. dir' = [dir EXCEPT !.system.erased = Larger(dir.system.erased, cutoff)]
    BY <1>1 DEF Retain
  <2> QED BY <2>1, <2>2, <2>3, SystemWrites
<1>2. ASSUME RetainData PROVE dir' = dir \/ (OnlyData(dir', dir) /\ dir'.data = Trimmed(dir.data, lock.cutoff))
  <2>1. dir \in DataDir /\ dir.data \in DataDb
    BY <1>2, OpenDir DEF RetainData, Serving, PlacesOK, DirPlaces, RunPlaces
  <2>2. Trimmed(dir.data, lock.cutoff) \in DataDb
    BY <2>1, TrimWrite DEF TypesOK, ProcessTypeOK
  <2>3. dir' = dir \/ dir' = [dir EXCEPT !.data = Trimmed(dir.data, lock.cutoff)]
    BY <1>2 DEF RetainData
  <2> QED BY <2>1, <2>2, <2>3, DirWithData
<1> QED BY <1>1, <1>2
LEMMA RecordWrite ==
  ASSUME TypesOK, PlacesOK
  PROVE  /\ \A purpose : RecordSystem(purpose) =>
              OnlySystem(dir', dir) /\ dir'.system = [dir.system EXCEPT !.generation = used.generations + 1]
         /\ RecordData => OnlyData(dir', dir) /\ dir'.data = [dir.data EXCEPT !.generation = snap.generation]
<1>1. ASSUME NEW purpose, RecordSystem(purpose)
      PROVE  OnlySystem(dir', dir) /\ dir'.system = [dir.system EXCEPT !.generation = used.generations + 1]
  <2>1. dir.system \in SystemDb /\ dir \in DataDir
    BY <1>1, OpenDir DEF RecordSystem, SnapshotWanted, Serving
  <2>2. used.generations + 1 \in Nat
    BY DEF TypesOK, ProcessTypeOK
  <2>3. dir' = [dir EXCEPT !.system.generation = used.generations + 1]
    BY <1>1 DEF RecordSystem
  <2> QED BY <2>1, <2>2, <2>3, SystemWrites
<1>2. ASSUME RecordData PROVE OnlyData(dir', dir) /\ dir'.data = [dir.data EXCEPT !.generation = snap.generation]
  <2>1. dir \in DataDir /\ dir.data \in DataDb
    BY <1>2, OpenDir DEF RecordData, Serving, PlacesOK, DirPlaces, RunPlaces, NoSnapshot
  <2>2. snap.generation \in Nat
    BY DEF TypesOK, DiskTypeOK
  <2> QED BY <1>2, <2>1, <2>2, DataWrites DEF RecordData
<1> QED BY <1>1, <1>2
LEMMA PublishWrite ==
  ASSUME TypesOK, PlacesOK, PairsOK, Publish
  PROVE  \/ snap.purpose # "migration" /\ dir' = dir
         \/ /\ snap.purpose = "migration" /\ dir' \in DataDir
            /\ dir'.system = dir.system /\ dir'.data = dir.data /\ dir'.key = dir.key /\ dir'.born = dir.born
            /\ dir'.pre = dir.pre \cup {Copied}
<1>1. Copied \in Snapshot /\ dir \in DataDir
  BY CopiedType DEF Publish
<1>2. CASE snap.purpose = "migration"
  BY <1>1, <1>2 DEF Publish, DataDir
<1>3. CASE snap.purpose # "migration"
  BY <1>3 DEF Publish
<1> QED BY <1>2, <1>3
LEMMA BackupWrite ==
  ASSUME TypesOK, PlacesOK
  PROVE  /\ StartBackup => /\ OnlySystem(dir', dir)
                           /\ dir'.system = [dir.system EXCEPT !.jobs = Append(dir.system.jobs, [name |-> used.names + 1, state |-> "running"])]
         /\ FinishBackup => /\ OnlySystem(dir', dir)
                            /\ dir'.system = [dir.system EXCEPT !.jobs = Settled(dir.system.jobs, backup.name, "succeeded")]
         /\ FailBackup => /\ OnlySystem(dir', dir)
                          /\ dir'.system = [dir.system EXCEPT !.jobs = Settled(dir.system.jobs, backup.name, "failed")]
<1>0. ASSUME proc.pc # "down" PROVE dir \in DataDir /\ dir.system.jobs \in Seq(BackupJob)
  BY <1>0, OpenDir DEF SystemDb
<1>1. ASSUME StartBackup
      PROVE  OnlySystem(dir', dir) /\ dir'.system = [dir.system EXCEPT !.jobs = Append(dir.system.jobs, [name |-> used.names + 1, state |-> "running"])]
  <2>1. [name |-> used.names + 1, state |-> "running"] \in BackupJob
    BY DEF TypesOK, ProcessTypeOK, BackupJob
  <2>2. dir \in DataDir /\ dir.system.jobs \in Seq(BackupJob)
    BY <1>0, <1>1 DEF StartBackup, Serving
  <2>3. Append(dir.system.jobs, [name |-> used.names + 1, state |-> "running"]) \in Seq(BackupJob)
    BY <2>1, <2>2, AppendProperties
  <2>4. dir' = [dir EXCEPT !.system.jobs = Append(dir.system.jobs, [name |-> used.names + 1, state |-> "running"])]
    BY <1>1 DEF StartBackup
  <2> QED BY <2>2, <2>3, <2>4, SystemWrites
<1>2. ASSUME FinishBackup
      PROVE  OnlySystem(dir', dir) /\ dir'.system = [dir.system EXCEPT !.jobs = Settled(dir.system.jobs, backup.name, "succeeded")]
  <2>1. dir \in DataDir /\ dir.system.jobs \in Seq(BackupJob)
    BY <1>0, <1>2 DEF FinishBackup, PlacesOK, DirPlaces, RunPlaces, NoBackup
  <2>2. Settled(dir.system.jobs, backup.name, "succeeded") \in Seq(BackupJob)
    BY <2>1, SettledRows
  <2>3. dir' = [dir EXCEPT !.system.jobs = Settled(dir.system.jobs, backup.name, "succeeded")]
    BY <1>2 DEF FinishBackup
  <2> QED BY <2>1, <2>2, <2>3, SystemWrites
<1>3. ASSUME FailBackup
      PROVE  OnlySystem(dir', dir) /\ dir'.system = [dir.system EXCEPT !.jobs = Settled(dir.system.jobs, backup.name, "failed")]
  <2>1. dir \in DataDir /\ dir.system.jobs \in Seq(BackupJob)
    BY <1>0, <1>3 DEF FailBackup, PlacesOK, DirPlaces, RunPlaces, NoBackup
  <2>2. Settled(dir.system.jobs, backup.name, "failed") \in Seq(BackupJob)
    BY <2>1, SettledRows
  <2>3. dir' = [dir EXCEPT !.system.jobs = Settled(dir.system.jobs, backup.name, "failed")]
    BY <1>3 DEF FailBackup
  <2> QED BY <2>1, <2>2, <2>3, SystemWrites
<1> QED BY <1>1, <1>2, <1>3
LEMMA RecoverWrite ==
  ASSUME TypesOK, PlacesOK, Recover
  PROVE  /\ dir' \in DataDir /\ dir'.data = dir.data /\ dir'.pre = dir.pre /\ dir'.born = dir.born
         /\ dir'.system = [dir.system EXCEPT !.jobs = RecoveredJobs(dir.system.jobs)]
<1>1. dir \in DataDir /\ dir.system \in SystemDb
  BY OpenDir DEF Recover
<1>2. RecoveredJobs(dir.system.jobs) \in Seq(BackupJob)
  BY <1>1, RecoveredRows DEF SystemDb
<1>3. [dir.system EXCEPT !.jobs = RecoveredJobs(dir.system.jobs)] \in SystemDb
  BY <1>1, <1>2 DEF SystemDb
<1>4. dir' = [dir EXCEPT !.key = TRUE, !.system = [dir.system EXCEPT !.jobs = RecoveredJobs(dir.system.jobs)]]
  BY <1>1 DEF Recover, DataDir
<1> QED BY <1>1, <1>3, <1>4 DEF DataDir


LEMMA StartTypes ==
  ASSUME TypesOK, NEW probe \in BOOLEAN, Start(exe, probe), exe # None
  PROVE  dir' \in DataDir \cup {None} /\ UNCHANGED <<lock, snap, backup, archives, used>>
         /\ proc'.version = exe /\ proc' \in [pc : {"down", "creating"} \cup Opening, version : 0..2, probe : BOOLEAN]
<1>1. exe \in Nat \ {0} /\ exe \in 1..2
  BY DEF TypesOK, ProcessTypeOK
<1>2. [system |-> NewSystem(exe), data |-> None, key |-> FALSE, pre |-> {}, born |-> <<exe, exe>>] \in DataDir
  BY <1>1, NewFiles DEF DataDir
<1>3. dir' \in DataDir \cup {None}
  BY <1>2 DEF Start, TypesOK, DiskTypeOK
<1> QED BY <1>1, <1>3 DEF Start, Opened, Opening

LEMMA RestorableBefore ==
  ASSUME TypesOK, Restorable(1, before)
  PROVE  before \in Snapshot
  BY DEF TypesOK, DiskTypeOK, Restorable, CanOpen

LEMMA UpdateMoves ==
  ASSUME TypesOK, NEW pc \in UpdatePlaces, Goto(pc) \/ Fault(pc)
  PROVE  /\ update' \in [pc : UpdatePlaces, good : BOOLEAN, faults : Nat]
         /\ update'.pc = pc /\ update'.good = update.good
         /\ Goto(pc) => update'.faults = update.faults
         /\ Fault(pc) => update'.faults = update.faults + 1
<1>1. update \in [pc : UpdatePlaces, good : BOOLEAN, faults : Nat]
  BY DEF TypesOK, ProcessTypeOK
<1>2. CASE Goto(pc)
  BY <1>1, <1>2 DEF Goto, Fault
<1>3. CASE Fault(pc)
  <2>1. update' = [update EXCEPT !.pc = pc, !.faults = update.faults + 1]
    BY <1>3 DEF Fault
  <2>2. update'.faults = update.faults + 1 /\ update'.pc = pc /\ update'.good = update.good
    BY <1>1, <2>1
  <2>3. update' \in [pc : UpdatePlaces, good : BOOLEAN, faults : Nat]
    <3> DEFINE n == update.faults + 1
    <3>1. n \in Nat
      BY <1>1
    <3>2. update' = [update EXCEPT !.pc = pc, !.faults = n]
      BY <2>1
    <3> HIDE DEF n
    <3> QED BY <1>1, <3>1, <3>2
  <2>4. ~Goto(pc)
    BY <1>1, <2>2 DEF Goto
  <2> QED BY <2>2, <2>3, <2>4
<1> QED BY <1>2, <1>3

\* The types of what is on disk and of the copies on their way to it.
LEMMA TypesOfDisk ==
  ASSUME TypesOK, PlacesOK, PairsOK, ExecutablesOK, [Next]_vars
  PROVE  DiskTypeOK'
<1> USE  DEF TypesOK, DiskTypeOK, ProcessTypeOK, NoSnapshot, Copying
<1>1. CASE Serve
  <2>1. Start(exe, FALSE)
    BY <1>1 DEF Serve
  <2> QED BY <1>1, <2>1, StartTypes DEF Serve, files
<1>2. CASE RunServer
  <2>0. UNCHANGED <<exe, staged, aside, before, failed, update>>
    BY <1>2 DEF RunServer, files
  <2>1. CASE CreateData
    BY <2>0, <2>1, CreateWrite DEF CreateData, OnlySystem, OnlyData
  <2>2. CASE CreateFails
    BY <2>0, <2>2 DEF CreateFails
  <2>3. CASE MigrateSystem
    BY <2>0, <2>3, MigrateWrite DEF MigrateSystem, OnlySystem, OnlyData
  <2>4. CASE MigrateData
    BY <2>0, <2>4, MigrateWrite DEF MigrateData, OnlySystem, OnlyData
  <2>5. CASE Commit
    BY <2>0, <2>5, CommitWrite DEF Commit, Serving, OnlySystem, OnlyData
  <2>6. CASE Project
    BY <2>0, <2>6, ProjectWrite DEF Project, ProjectionIsFree, OnlySystem, OnlyData
  <2>7. CASE Acknowledge
    BY <2>0, <2>7, AcknowledgeWrite DEF Acknowledge, OnlySystem, OnlyData
  <2>8. CASE RetainData
    BY <2>0, <2>8, RetainWrite DEF RetainData, OnlySystem, OnlyData
  <2>9. CASE \E cutoff \in 1..MaxEvents : Retain(cutoff)
    BY <2>0, <2>9, RetainWrite DEF Retain, Serving, OnlySystem, OnlyData
  <2>10. CASE \E purpose \in {"migration", "backup", "update"} : RecordSystem(purpose)
    <3>1. PICK purpose \in {"migration", "backup", "update"} : RecordSystem(purpose)
      BY <2>10
    <3>2. snap' \in [pc : {"idle", "published"} \cup Copying, purpose : {None, "migration", "backup", "update"},
                   generation : Nat, data : DataDb \cup {None}, copy : Snapshot \cup {None}]
      <4>1. snap' = [NoSnapshot EXCEPT !.pc = "record_data", !.purpose = purpose, !.generation = used.generations + 1]
        BY <3>1 DEF RecordSystem
      <4>2. used.generations + 1 \in Nat
        OBVIOUS
      <4> QED BY <4>1, <4>2
    <3> QED BY <2>0, <3>1, <3>2, RecordWrite DEF RecordSystem, OnlySystem
  <2>11. CASE RecordData
    BY <2>0, <2>11, RecordWrite DEF RecordData, OnlySystem, OnlyData
  <2>12. CASE CopyData
    <3>1. dir.data \in DataDb
      BY <2>12, OpenDir DEF CopyData, PlacesOK, DirPlaces, RunPlaces, NoSnapshot, Serving
    <3> QED BY <2>0, <2>12, <3>1 DEF CopyData
  <2>13. CASE Publish
    BY <2>0, <2>13, PublishWrite, CopiedType DEF Publish, Copied, OnlySystem, OnlyData
  <2>14. CASE StartBackup
    BY <2>0, <2>14, BackupWrite DEF StartBackup, Serving, OnlySystem, OnlyData
  <2>15. CASE WriteArchive
    <3>1. snap.copy \in Snapshot /\ backup.name \in Nat
      BY <2>15 DEF WriteArchive, PairsOK, CopyingOK
    <3> QED BY <2>0, <2>15, <3>1 DEF WriteArchive
  <2>16. CASE PruneArchives
    BY <2>0, <2>16 DEF PruneArchives, Pruned
  <2>17. CASE FinishBackup
    BY <2>0, <2>17, BackupWrite DEF FinishBackup, OnlySystem, OnlyData
  <2>18. CASE FailBackup
    BY <2>0, <2>18, BackupWrite DEF FailBackup, OnlySystem, OnlyData
  <2>19. CASE Recover
    BY <2>0, <2>19, RecoverWrite DEF Recover, OnlySystem, OnlyData
  <2>20. CASE Stop
    BY <2>0, <2>20 DEF Stop, StopProcess
  <2> QED BY <1>2, <2>1, <2>2, <2>3, <2>4, <2>5, <2>6, <2>7, <2>8, <2>9, <2>10, <2>11, <2>12, <2>13, <2>14, <2>15, <2>16, <2>17, <2>18, <2>19, <2>20 DEF RunServer, StorageSteps
<1>3. CASE RestoreArchive
  <2>1. PICK archive \in archives : RestoreBackup(exe, archive)
    BY <1>3 DEF RestoreArchive
  <2>2. archive.copy \in Snapshot /\ exe \in Nat \ {0}
    BY <1>3 DEF RestoreArchive
  <2>3. dir' \in DataDir
    BY <2>1, <2>2, CopyTypes DEF RestoreBackup
  <2> QED BY <1>3, <2>1, <2>3 DEF RestoreArchive, RestoreBackup, files
<1>4. CASE \E good \in BOOLEAN : Resolve(good)
  BY <1>4 DEF Resolve, At, Newer, files, storage
<1>5. CASE Stage
  BY <1>5 DEF Stage, At, Goto, storage
<1>6. CASE Discard
  BY <1>6 DEF Discard, StopProcess, Goto, At, storage
<1>7. CASE OpenForSnapshot
  BY <1>7 DEF OpenForSnapshot, Goto, At, files
<1>8. CASE TakeSnapshot
  BY <1>8 DEF TakeSnapshot, StopProcess, Goto, At
<1>9. CASE SwapIn
  BY <1>9 DEF SwapIn, At, Goto, Fault, storage
<1>10. CASE RetainPrevious
  BY <1>10 DEF RetainPrevious, At, Goto, Fault, Kept, storage
<1>11. CASE Probe
  <2>1. Start(exe, TRUE) /\ exe = 2
    BY <1>11 DEF Probe, At, ExecutablesOK
  <2>2. exe # None
    BY <2>1, NoneAssumption
  <2> QED BY <1>11, <2>1, <2>2, StartTypes DEF Probe, files
<1>12. CASE ProbeReady
  BY <1>12 DEF ProbeReady, At, Goto, StopProcess, Serving, files
<1>13. CASE ProbeFails
  BY <1>13 DEF ProbeFails, At, Goto, StopProcess, files
<1>14. CASE MoveExecutable
  BY <1>14 DEF MoveExecutable, At, Goto, Fault, Renaming, AfterRestore, RemoveStaged, storage
<1>15. CASE RenamePrevious
  BY <1>15 DEF RenamePrevious, At, Goto, Fault, AfterRestore, RemoveStaged, storage
<1>16. CASE MoveData
  BY <1>16 DEF MoveData, At, Goto, Fault
<1>17. CASE RestoreData
  BY <1>17, CopyTypes, RestorableBefore DEF RestoreData, At, Goto, Fault, RestoredData, KeptData
<1>18. CASE Crash
  BY <1>18 DEF Crash, Goto, Updating, StopProcess, files
<1>19. CASE UNCHANGED vars
  BY <1>19 DEF vars, storage, files
<1> QED BY <1>1, <1>2, <1>3, <1>4, <1>5, <1>6, <1>7, <1>8, <1>9, <1>10, <1>11, <1>12, <1>13, <1>14, <1>15, <1>16, <1>17, <1>18, <1>19 DEF Next, Update

\* The types of the running process and of the update.
LEMMA TypesOfProcess ==
  ASSUME TypesOK, PlacesOK, ExecutablesOK, [Next]_vars
  PROVE  ProcessTypeOK'
<1> USE  DEF TypesOK, ProcessTypeOK
<1>1. CASE Serve
  <2>1. Start(exe, FALSE)
    BY <1>1 DEF Serve
  <2> QED BY <1>1, <2>1, StartTypes DEF Serve, files
<1>2. CASE RunServer
  <2>0. UNCHANGED <<exe, staged, aside, before, failed, update>>
    BY <1>2 DEF RunServer, files
  <2>1. CASE CreateData
    BY <2>0, <2>1 DEF CreateData, Opening, Down, Free, NoBackup
  <2>2. CASE CreateFails
    BY <2>0, <2>2 DEF CreateFails, Opening, Down, Free, NoBackup
  <2>3. CASE MigrateSystem
    BY <2>0, <2>3 DEF MigrateSystem, Opening, Down, Free, NoBackup
  <2>4. CASE MigrateData
    BY <2>0, <2>4 DEF MigrateData, Opening, Down, Free, NoBackup
  <2>5. CASE Commit
    BY <2>0, <2>5 DEF Commit, Serving, Opening, Down, Free, NoBackup
  <2>6. CASE Project
    BY <2>0, <2>6 DEF Project, ProjectionIsFree, Opening, Down, Free, NoBackup
  <2>7. CASE Acknowledge
    BY <2>0, <2>7 DEF Acknowledge, Opening, Down, Free, NoBackup
  <2>8. CASE RetainData
    BY <2>0, <2>8 DEF RetainData, Opening, Down, Free, NoBackup
  <2>9. CASE \E cutoff \in 1..MaxEvents : Retain(cutoff)
    BY <2>0, <2>9 DEF Retain, Serving, Opening, Down, Free, NoBackup
  <2>10. CASE \E purpose \in {"migration", "backup", "update"} : RecordSystem(purpose)
    BY <2>0, <2>10 DEF RecordSystem, SnapshotWanted, Serving, Opening, Down, Free, NoBackup, DiskTypeOK
  <2>11. CASE RecordData
    BY <2>0, <2>11 DEF RecordData, Opening, Down, Free, NoBackup
  <2>12. CASE CopyData
    BY <2>0, <2>12 DEF CopyData, Opening, Down, Free, NoBackup
  <2>13. CASE Publish
    BY <2>0, <2>13 DEF Publish, Copied, Opening, Down, Free, NoBackup
  <2>14. CASE StartBackup
    BY <2>0, <2>14 DEF StartBackup, Serving, Opening, Down, Free, NoBackup
  <2>15. CASE WriteArchive
    BY <2>0, <2>15 DEF WriteArchive, Opening, Down, Free, NoBackup
  <2>16. CASE PruneArchives
    BY <2>0, <2>16 DEF PruneArchives, Opening, Down, Free, NoBackup
  <2>17. CASE FinishBackup
    BY <2>0, <2>17 DEF FinishBackup, Opening, Down, Free, NoBackup
  <2>18. CASE FailBackup
    BY <2>0, <2>18 DEF FailBackup, Opening, Down, Free, NoBackup
  <2>19. CASE Recover
    BY <2>0, <2>19 DEF Recover, Opening, Down, Free, NoBackup
  <2>20. CASE Stop
    BY <2>0, <2>20 DEF Stop, StopProcess, Opening, Down, Free, NoBackup
  <2> QED BY <1>2, <2>1, <2>2, <2>3, <2>4, <2>5, <2>6, <2>7, <2>8, <2>9, <2>10, <2>11, <2>12, <2>13, <2>14, <2>15, <2>16, <2>17, <2>18, <2>19, <2>20 DEF RunServer, StorageSteps
<1>3. CASE RestoreArchive
  BY <1>3 DEF RestoreArchive, RestoreBackup, files
<1>4. CASE \E good \in BOOLEAN : Resolve(good)
  BY <1>4 DEF Resolve, At, Newer, UpdatePlaces, files, storage
<1>5. CASE Stage
  <2>1. \E pc \in {"staged"} : Goto(pc) \/ Fault(pc)
    BY <1>5 DEF Stage
  <2>2. update' \in [pc : UpdatePlaces, good : BOOLEAN, faults : Nat]
    BY <2>1, UpdateMoves DEF UpdatePlaces
  <2> QED BY <1>5, <2>2 DEF Stage, storage
<1>6. CASE Discard
  <2>1. \E pc \in {"over"} : Goto(pc) \/ Fault(pc)
    BY <1>6 DEF Discard
  <2>2. update' \in [pc : UpdatePlaces, good : BOOLEAN, faults : Nat]
    BY <2>1, UpdateMoves DEF UpdatePlaces
  <2>3. CASE StopProcess
    BY <1>6, <2>2, <2>3 DEF Discard, StopProcess, Down, Free, NoBackup, Opening
  <2>4. CASE UNCHANGED storage
    BY <1>6, <2>2, <2>4 DEF Discard, storage
  <2> QED BY <1>6, <2>2, <2>3, <2>4 DEF Discard
<1>7. CASE OpenForSnapshot
  <2>1. \E pc \in {"snapshot"} : Goto(pc) \/ Fault(pc)
    BY <1>7 DEF OpenForSnapshot
  <2>2. update' \in [pc : UpdatePlaces, good : BOOLEAN, faults : Nat]
    BY <2>1, UpdateMoves DEF UpdatePlaces
  <2> QED BY <1>7, <2>2 DEF OpenForSnapshot, files, Opening
<1>8. CASE TakeSnapshot
  <2>1. \E pc \in {"swap"} : Goto(pc) \/ Fault(pc)
    BY <1>8 DEF TakeSnapshot
  <2>2. update' \in [pc : UpdatePlaces, good : BOOLEAN, faults : Nat]
    BY <2>1, UpdateMoves DEF UpdatePlaces
  <2> QED BY <1>8, <2>2 DEF TakeSnapshot, StopProcess, Down, Free, NoBackup
<1>9. CASE SwapIn
  <2>1. \E pc \in {"retain", "unswap"} : Goto(pc) \/ Fault(pc)
    BY <1>9 DEF SwapIn
  <2>2. update' \in [pc : UpdatePlaces, good : BOOLEAN, faults : Nat]
    BY <2>1, UpdateMoves DEF UpdatePlaces
  <2> QED BY <1>9, <2>2 DEF SwapIn, storage
<1>10. CASE RetainPrevious
  <2>1. \E pc \in {"probe", "undo"} : Goto(pc) \/ Fault(pc)
    BY <1>10 DEF RetainPrevious
  <2>2. update' \in [pc : UpdatePlaces, good : BOOLEAN, faults : Nat]
    BY <2>1, UpdateMoves DEF UpdatePlaces
  <2>3. CASE Kept
    <3>1. staged = 1
      BY <1>10 DEF RetainPrevious, At, ExecutablesOK
    <3> QED BY <1>10, <2>2, <2>3, <3>1 DEF RetainPrevious, Kept, storage
  <2>4. CASE ~Kept
    BY <1>10, <2>2, <2>4 DEF RetainPrevious, storage
  <2> QED BY <1>10, <2>2, <2>3, <2>4 DEF RetainPrevious
<1>11. CASE Probe
  <2>1. Start(exe, TRUE) /\ exe = 2
    BY <1>11 DEF Probe, At, ExecutablesOK
  <2>2. exe # None
    BY <2>1, NoneAssumption
  <2> QED BY <1>11, <2>1, <2>2, StartTypes DEF Probe, files
<1>12. CASE ProbeReady
  <2>1. \E pc \in {"done"} : Goto(pc) \/ Fault(pc)
    BY <1>12 DEF ProbeReady
  <2>2. update' \in [pc : UpdatePlaces, good : BOOLEAN, faults : Nat]
    BY <2>1, UpdateMoves DEF UpdatePlaces
  <2> QED BY <1>12, <2>2 DEF ProbeReady, StopProcess, files, Down, Free, NoBackup
<1>13. CASE ProbeFails
  <2>1. \E pc \in {"rollback"} : Goto(pc) \/ Fault(pc)
    BY <1>13 DEF ProbeFails
  <2>2. update' \in [pc : UpdatePlaces, good : BOOLEAN, faults : Nat]
    BY <2>1, UpdateMoves DEF UpdatePlaces
  <2> QED BY <1>13, <2>2 DEF ProbeFails, StopProcess, files, Down, Free, NoBackup
<1>14. CASE MoveExecutable
  <2>1. \E pc \in {"unswap_rename", "undo_rename", "rollback_rename", "data", "over"} : Goto(pc) \/ Fault(pc)
    BY <1>14 DEF MoveExecutable, Renaming, AfterRestore, At
  <2>2. update' \in [pc : UpdatePlaces, good : BOOLEAN, faults : Nat]
    BY <2>1, UpdateMoves DEF UpdatePlaces
  <2>3. exe # None
    <3>1. exe = 2
      BY <1>14 DEF MoveExecutable, ExecutablesOK
    <3> QED BY <3>1, NoneAssumption
  <2> QED BY <1>14, <2>2, <2>3 DEF MoveExecutable, RemoveStaged, storage
<1>15. CASE RenamePrevious
  <2>1. \E pc \in {"data", "over"} : Goto(pc) \/ Fault(pc)
    BY <1>15 DEF RenamePrevious, AfterRestore
  <2>2. update' \in [pc : UpdatePlaces, good : BOOLEAN, faults : Nat]
    BY <2>1, UpdateMoves DEF UpdatePlaces
  <2> QED BY <1>15, <2>2 DEF RenamePrevious, RemoveStaged, storage
<1>16. CASE MoveData
  <2>1. \E pc \in {"restore", "over"} : Goto(pc) \/ Fault(pc)
    BY <1>16 DEF MoveData
  <2>2. update' \in [pc : UpdatePlaces, good : BOOLEAN, faults : Nat]
    BY <2>1, UpdateMoves DEF UpdatePlaces
  <2> QED BY <1>16, <2>2 DEF MoveData
<1>17. CASE RestoreData
  <2>1. \E pc \in {"rolled_back", "over"} : Goto(pc) \/ Fault(pc)
    BY <1>17 DEF RestoreData
  <2>2. update' \in [pc : UpdatePlaces, good : BOOLEAN, faults : Nat]
    BY <2>1, UpdateMoves DEF UpdatePlaces
  <2> QED BY <1>17, <2>2 DEF RestoreData
<1>18. CASE Crash
  <2>1. \E pc \in {"over"} : Goto(pc) \/ Fault(pc)
    BY <1>18 DEF Crash
  <2>2. update' \in [pc : UpdatePlaces, good : BOOLEAN, faults : Nat]
    BY <2>1, UpdateMoves DEF UpdatePlaces
  <2>3. CASE StopProcess
    BY <1>18, <2>2, <2>3 DEF Crash, StopProcess, files, Down, Free, NoBackup, Opening
  <2>4. CASE ~StopProcess
    BY <1>18, <2>2, <2>4 DEF Crash, files
  <2> QED BY <1>18, <2>2, <2>3, <2>4 DEF Crash
<1>19. CASE UNCHANGED vars
  BY <1>19 DEF vars, storage, files
<1> QED BY <1>1, <1>2, <1>3, <1>4, <1>5, <1>6, <1>7, <1>8, <1>9, <1>10, <1>11, <1>12, <1>13, <1>14, <1>15, <1>16, <1>17, <1>18, <1>19 DEF Next, Update

-----------------------------------------------------------------------------
(* The places of the process. *)

\* The steps that leave the schemas of both databases alone.
ShapeSteps ==
  \/ Commit
  \/ Project
  \/ Acknowledge
  \/ RetainData
  \/ \E cutoff \in 1..MaxEvents : Retain(cutoff)
  \/ \E purpose \in {"migration", "backup", "update"} : RecordSystem(purpose)
  \/ RecordData
  \/ Publish
  \/ StartBackup
  \/ FinishBackup
  \/ FailBackup

LEMMA ShapeKept ==
  ASSUME TypesOK, PlacesOK, PairsOK, ShapeSteps
  PROVE  proc.pc \in Opening /\ SameShape(dir', dir)
<1>1. proc.pc \in Opening
  BY NoneAssumption DEF ShapeSteps, Commit, Project, Acknowledge, RetainData, Retain, RecordSystem, RecordData, Publish, StartBackup,
    FinishBackup, FailBackup, Serving, SnapshotWanted, PlacesOK, RunPlaces, Opening
<1>2. dir \in DataDir /\ dir # None /\ dir.system \in SystemDb /\ dir.data \in DataDb /\ dir.data # None
  BY <1>1, OpenDir DEF Opening
<1>3. CASE Commit
  <2>1. (OnlySystem(dir', dir) /\ \E x : dir'.system = [dir.system EXCEPT !.events = x])
    BY <1>3, CommitWrite
  <2>2. dir'.system.schema = dir.system.schema
    BY <1>2, <2>1 DEF SystemDb
  <2> QED BY <1>1, <1>2, <2>1, <2>2, SystemShape
<1>4. CASE Project
  <2>0. dir.system.delivered + 1 \in Nat
    BY <1>2 DEF SystemDb
  <2>1. (OnlyData(dir', dir) /\ dir'.data = WithEvent(dir.data, dir.system.delivered + 1))
    BY <1>4, ProjectWrite
  <2>2. (dir'.data.schema = dir.data.schema /\ dir'.data \in DataDb)
    BY <1>2, <2>1, <2>0, EventWrite
  <2> QED BY <1>1, <1>2, <2>1, <2>2, DataShape
<1>5. CASE Acknowledge
  <2>1. dir' = dir \/ (OnlySystem(dir', dir) /\ \E x : dir'.system = [dir.system EXCEPT !.delivered = x])
    BY <1>5, AcknowledgeWrite
  <2>2. dir'.system.schema = dir.system.schema
    BY <1>2, <2>1 DEF SystemDb
  <2> QED BY <1>1, <1>2, <2>1, <2>2, SystemShape DEF SameShape
<1>6. CASE RetainData
  <2>0. lock.cutoff \in Nat
    BY DEF TypesOK, ProcessTypeOK
  <2>1. dir' = dir \/ (OnlyData(dir', dir) /\ dir'.data = Trimmed(dir.data, lock.cutoff))
    BY <1>6, RetainWrite
  <2>2. dir' = dir \/ (dir'.data.schema = dir.data.schema /\ dir'.data \in DataDb)
    BY <1>2, <2>1, <2>0, TrimWrite
  <2> QED BY <1>1, <1>2, <2>1, <2>2, DataShape DEF SameShape
<1>7. CASE \E cutoff \in 1..MaxEvents : Retain(cutoff)
  <2>1. (OnlySystem(dir', dir) /\ \E x : dir'.system = [dir.system EXCEPT !.erased = x])
    BY <1>7, RetainWrite
  <2>2. dir'.system.schema = dir.system.schema
    BY <1>2, <2>1 DEF SystemDb
  <2> QED BY <1>1, <1>2, <2>1, <2>2, SystemShape
<1>8. CASE \E purpose \in {"migration", "backup", "update"} : RecordSystem(purpose)
  <2>1. (OnlySystem(dir', dir) /\ \E x : dir'.system = [dir.system EXCEPT !.generation = x])
    BY <1>8, RecordWrite
  <2>2. dir'.system.schema = dir.system.schema
    BY <1>2, <2>1 DEF SystemDb
  <2> QED BY <1>1, <1>2, <2>1, <2>2, SystemShape
<1>9. CASE RecordData
  <2>0. snap.generation \in Nat
    BY DEF TypesOK, DiskTypeOK
  <2>1. (OnlyData(dir', dir) /\ dir'.data = [dir.data EXCEPT !.generation = snap.generation])
    BY <1>9, RecordWrite
  <2>2. (dir'.data.schema = dir.data.schema /\ dir'.data \in DataDb)
    BY <1>2, <2>1, <2>0 DEF DataDb
  <2> QED BY <1>1, <1>2, <2>1, <2>2, DataShape
<1>10. CASE Publish
  BY <1>1, <1>2, <1>10, NotNone, PublishWrite DEF SameShape
<1>11. CASE StartBackup
  <2>1. (OnlySystem(dir', dir) /\ \E x : dir'.system = [dir.system EXCEPT !.jobs = x])
    BY <1>11, BackupWrite
  <2>2. dir'.system.schema = dir.system.schema
    BY <1>2, <2>1 DEF SystemDb
  <2> QED BY <1>1, <1>2, <2>1, <2>2, SystemShape
<1>12. CASE FinishBackup
  <2>1. (OnlySystem(dir', dir) /\ \E x : dir'.system = [dir.system EXCEPT !.jobs = x])
    BY <1>12, BackupWrite
  <2>2. dir'.system.schema = dir.system.schema
    BY <1>2, <2>1 DEF SystemDb
  <2> QED BY <1>1, <1>2, <2>1, <2>2, SystemShape
<1>13. CASE FailBackup
  <2>1. (OnlySystem(dir', dir) /\ \E x : dir'.system = [dir.system EXCEPT !.jobs = x])
    BY <1>13, BackupWrite
  <2>2. dir'.system.schema = dir.system.schema
    BY <1>2, <2>1 DEF SystemDb
  <2> QED BY <1>1, <1>2, <2>1, <2>2, SystemShape
<1> QED BY <1>1, <1>3, <1>4, <1>5, <1>6, <1>7, <1>8, <1>9, <1>10, <1>11, <1>12, <1>13 DEF ShapeSteps

LEMMA StartPlaces ==
  ASSUME TypesOK, DirPlaces, NEW probe, Start(exe, probe), exe # None
  PROVE  DirPlaces'
<1>1. exe \in Versions
  BY DEF TypesOK, ProcessTypeOK, Versions
<1>2. proc'.version = exe /\ proc'.pc \in {"creating", "opening", "recovering"}
  BY DEF Start, Opened
<1>3. CASE dir = None
  <2>1. dir' # None /\ dir'.data = None /\ dir'.system = NewSystem(exe) /\ dir'.born = <<exe, exe>> /\ proc'.pc = "creating"
    <3>1. [system |-> NewSystem(exe), data |-> None, key |-> FALSE, pre |-> {}, born |-> <<exe, exe>>] \in DataDir
      BY <1>1, NewFiles DEF DataDir, Versions
    <3>2. dir' = [system |-> NewSystem(exe), data |-> None, key |-> FALSE, pre |-> {}, born |-> <<exe, exe>>]
      BY <1>3 DEF Start, CanOpen
    <3>3. proc'.pc = "creating"
      BY <1>3 DEF Start, CanOpen
    <3> QED BY <3>1, <3>2, <3>3, NotNone
  <2> QED BY <1>1, <1>2, <2>1 DEF DirPlaces, Opening
<1>4. CASE dir # None
  <2>1. dir' = dir /\ CanOpen(exe, dir) /\ proc'.pc = Opened(exe, dir)
    BY <1>4 DEF Start
  <2>2. dir \in DataDir /\ dir.data \in DataDb
    BY <1>4, <2>1 DEF TypesOK, DiskTypeOK, CanOpen, DataDir
  <2> QED BY <1>1, <1>2, <2>1, <2>2 DEF DirPlaces, Opening, CanOpen, Opened, Pending, DataDir, SystemDb, DataDb, Versions
<1> QED BY <1>3, <1>4

\* Every step leaves the process at a place that fits the directory.
LEMMA DirPlacesStep ==
  ASSUME TypesOK, PlacesOK, PairsOK, ProbeOK, ExecutablesOK, [Next]_vars
  PROVE  DirPlaces'
<1> USE  DEF PlacesOK, DirPlaces, Opening, Versions
<1>1. CASE Serve
  <2>1. exe # None /\ Start(exe, FALSE)
    BY <1>1 DEF Serve
  <2> QED BY <2>1, StartPlaces
<1>2. CASE RunServer
  <2>0. UNCHANGED <<exe, staged, aside, before, failed, update>>
    BY <1>2 DEF RunServer, files
  <2>1. CASE CreateData
    <3>1. proc'.pc = "recovering" /\ proc'.version = proc.version /\ proc.pc \notin {"down", "serving"}
      BY <2>1 DEF CreateData, TypesOK, ProcessTypeOK
    <3>2. dir \in DataDir /\ dir.system \in SystemDb /\ (proc.pc # "creating" => dir.data \in DataDb /\ dir.data # None)
            /\ proc.version \in Nat \ {0}
      BY <3>1, OpenDir
    <3>3. OnlyData(dir', dir) /\ dir'.data = NewData(proc.version) /\ dir.system = NewSystem(proc.version)
      BY <2>1, CreateWrite DEF CreateData
    <3>4. dir' # None /\ dir'.data # None
      BY <3>2, <3>3, NotNone, NewFiles DEF OnlyData
    <3> QED BY <2>1, <3>1, <3>2, <3>3, <3>4 DEF CreateData, OnlyData, NewSystem, NewData
  <2>2. CASE CreateFails
    BY <2>0, <2>2 DEF CreateFails, Down
  <2>3. CASE MigrateSystem
    <3>1. proc'.pc = "migrating_data" /\ proc'.version = proc.version /\ proc.pc \notin {"down", "serving"}
      BY <2>3 DEF MigrateSystem, TypesOK, ProcessTypeOK
    <3>2. dir \in DataDir /\ dir.system \in SystemDb /\ (proc.pc # "creating" => dir.data \in DataDb /\ dir.data # None)
            /\ proc.version \in Nat \ {0}
      BY <3>1, OpenDir
    <3>3. OnlySystem(dir', dir) /\ dir'.system = [dir.system EXCEPT !.schema = proc.version]
      BY <2>3, MigrateWrite
    <3>4. dir' # None /\ dir'.data = dir.data /\ dir'.system.schema = proc.version
      BY <3>2, <3>3, NotNone DEF OnlySystem, SystemDb
    <3> QED BY <2>3, <3>1, <3>2, <3>4 DEF MigrateSystem
  <2>4. CASE MigrateData
    <3>1. proc'.pc = "recovering" /\ proc'.version = proc.version /\ proc.pc \notin {"down", "serving"}
      BY <2>4 DEF MigrateData, TypesOK, ProcessTypeOK
    <3>2. dir \in DataDir /\ dir.system \in SystemDb /\ (proc.pc # "creating" => dir.data \in DataDb /\ dir.data # None)
            /\ proc.version \in Nat \ {0}
      BY <3>1, OpenDir
    <3>3. OnlyData(dir', dir) /\ dir'.data = [dir.data EXCEPT !.schema = proc.version]
      BY <2>4, MigrateWrite
    <3>4. proc.version \in Nat \ {0}
      BY <3>1
    <3>5. dir'.data \in DataDb /\ dir'.data.schema = proc.version
      BY <2>4, <3>2, <3>3, <3>4 DEF MigrateData, DataDb
    <3>6. dir' # None /\ dir'.data # None /\ dir'.system = dir.system
      BY <3>3, <3>5, NotNone DEF OnlyData
    <3> QED BY <2>4, <3>1, <3>2, <3>5, <3>6 DEF MigrateData
  <2>5. CASE Commit
    <3>1. proc.pc \in Opening /\ SameShape(dir', dir)
      BY <2>5, ShapeKept DEF ShapeSteps
    <3> QED BY <2>5, <3>1 DEF Commit, SameShape, Pending
  <2>6. CASE Project
    <3>1. proc.pc \in Opening /\ SameShape(dir', dir)
      BY <2>6, ShapeKept DEF ShapeSteps
    <3> QED BY <2>6, <3>1 DEF Project, SameShape, Pending
  <2>7. CASE Acknowledge
    <3>1. proc.pc \in Opening /\ SameShape(dir', dir)
      BY <2>7, ShapeKept DEF ShapeSteps
    <3> QED BY <2>7, <3>1 DEF Acknowledge, SameShape, Pending
  <2>8. CASE RetainData
    <3>1. proc.pc \in Opening /\ SameShape(dir', dir)
      BY <2>8, ShapeKept DEF ShapeSteps
    <3> QED BY <2>8, <3>1 DEF RetainData, SameShape, Pending
  <2>9. CASE \E cutoff \in 1..MaxEvents : Retain(cutoff)
    <3>1. proc.pc \in Opening /\ SameShape(dir', dir)
      BY <2>9, ShapeKept DEF ShapeSteps
    <3> QED BY <2>9, <3>1 DEF Retain, SameShape, Pending
  <2>10. CASE \E purpose \in {"migration", "backup", "update"} : RecordSystem(purpose)
    <3>1. proc.pc \in Opening /\ SameShape(dir', dir)
      BY <2>10, ShapeKept DEF ShapeSteps
    <3> QED BY <2>10, <3>1 DEF RecordSystem, SameShape, Pending
  <2>11. CASE RecordData
    <3>1. proc.pc \in Opening /\ SameShape(dir', dir)
      BY <2>11, ShapeKept DEF ShapeSteps
    <3> QED BY <2>11, <3>1 DEF RecordData, SameShape, Pending
  <2>12. CASE CopyData
    BY <2>0, <2>12 DEF CopyData
  <2>13. CASE Publish
    <3>1. proc.pc \in Opening /\ SameShape(dir', dir)
      BY <2>13, ShapeKept DEF ShapeSteps
    <3>2. proc' = proc \/ proc' = [proc EXCEPT !.pc = "migrating_system"]
      BY <2>13 DEF Publish
    <3>3. proc'.version = proc.version /\ (proc'.pc = proc.pc \/ proc'.pc = "migrating_system")
      BY <3>2 DEF TypesOK, ProcessTypeOK
    <3> QED BY <3>1, <3>3 DEF SameShape, Pending
  <2>14. CASE StartBackup
    <3>1. proc.pc \in Opening /\ SameShape(dir', dir)
      BY <2>14, ShapeKept DEF ShapeSteps
    <3> QED BY <2>14, <3>1 DEF StartBackup, SameShape, Pending
  <2>15. CASE WriteArchive
    BY <2>0, <2>15 DEF WriteArchive
  <2>16. CASE PruneArchives
    BY <2>0, <2>16 DEF PruneArchives
  <2>17. CASE FinishBackup
    <3>1. proc.pc \in Opening /\ SameShape(dir', dir)
      BY <2>17, ShapeKept DEF ShapeSteps
    <3> QED BY <2>17, <3>1 DEF FinishBackup, SameShape, Pending
  <2>18. CASE FailBackup
    <3>1. proc.pc \in Opening /\ SameShape(dir', dir)
      BY <2>18, ShapeKept DEF ShapeSteps
    <3> QED BY <2>18, <3>1 DEF FailBackup, SameShape, Pending
  <2>19. CASE Recover
    <3>1. proc'.pc = "serving" /\ proc'.version = proc.version /\ proc.pc \notin {"down", "serving"}
      BY <2>19 DEF Recover, TypesOK, ProcessTypeOK
    <3>2. dir \in DataDir /\ dir.system \in SystemDb /\ (proc.pc # "creating" => dir.data \in DataDb /\ dir.data # None)
            /\ proc.version \in Nat \ {0}
      BY <3>1, OpenDir
    <3>3. dir' # None /\ dir'.data = dir.data
      BY <2>19, RecoverWrite, NotNone
    <3>4. dir'.system.schema = dir.system.schema
      BY <2>19, <3>2, RecoverWrite DEF SystemDb
    <3> QED BY <2>19, <3>1, <3>2, <3>3, <3>4 DEF Recover
  <2>20. CASE Stop
    BY <2>0, <2>20 DEF Stop, StopProcess, Down
  <2> QED BY <1>2, <2>1, <2>2, <2>3, <2>4, <2>5, <2>6, <2>7, <2>8, <2>9, <2>10, <2>11, <2>12, <2>13, <2>14, <2>15, <2>16, <2>17, <2>18, <2>19, <2>20 DEF RunServer, StorageSteps
<1>3. CASE RestoreArchive
  BY <1>3 DEF RestoreArchive, RestoreBackup, files
<1>4. CASE \E good \in BOOLEAN : Resolve(good)
  BY <1>4 DEF Resolve, At, Newer, files, storage
<1>5. CASE Stage
  BY <1>5 DEF Stage, At, Goto, storage
<1>6. CASE Discard
  BY <1>6 DEF Discard, StopProcess, Goto, At, Down, storage
<1>7. CASE OpenForSnapshot
  <2>1. dir' = dir /\ CanOpen(1, dir) /\ proc'.pc = "offline" /\ proc'.version = 1
    BY <1>7 DEF OpenForSnapshot
  <2> QED BY <2>1 DEF CanOpen
<1>8. CASE TakeSnapshot
  BY <1>8 DEF TakeSnapshot, StopProcess, Goto, At, Down
<1>9. CASE SwapIn
  BY <1>9 DEF SwapIn, At, Goto, Fault, storage
<1>10. CASE RetainPrevious
  BY <1>10 DEF RetainPrevious, At, Goto, Fault, Kept, storage
<1>11. CASE Probe
  <2>1. exe = 2 /\ Start(exe, TRUE)
    BY <1>11 DEF Probe, At, ExecutablesOK
  <2>2. exe # None
    BY <2>1, NoneAssumption
  <2> QED BY <2>1, <2>2, StartPlaces
<1>12. CASE ProbeReady
  BY <1>12 DEF ProbeReady, At, Goto, StopProcess, Serving, Down, files
<1>13. CASE ProbeFails
  BY <1>13 DEF ProbeFails, At, Goto, StopProcess, Down, files
<1>14. CASE MoveExecutable
  BY <1>14 DEF MoveExecutable, At, Goto, Fault, Renaming, AfterRestore, RemoveStaged, storage
<1>15. CASE RenamePrevious
  BY <1>15 DEF RenamePrevious, At, Goto, Fault, AfterRestore, RemoveStaged, storage
<1>16. CASE MoveData
  BY <1>16 DEF MoveData, At, Goto, Fault, Updating, ProbeOK, TypesOK, ProcessTypeOK
<1>17. CASE RestoreData
  BY <1>17 DEF RestoreData, At, Goto, Fault, RestoredData, KeptData, Updating, ProbeOK, At
<1>18. CASE Crash
  <2>1. CASE StopProcess
    BY <2>1 DEF StopProcess, Down
  <2>2. CASE ~StopProcess
    <3>1. dir' = dir /\ proc' = [proc EXCEPT !.probe = FALSE]
      BY <1>18, <2>2 DEF Crash
    <3>2. proc'.pc = proc.pc /\ proc'.version = proc.version
      BY <3>1 DEF TypesOK, ProcessTypeOK
    <3> QED BY <3>1, <3>2
  <2> QED BY <2>1, <2>2
<1>19. CASE UNCHANGED vars
  BY <1>19 DEF vars, storage, files
<1> QED BY <1>1, <1>2, <1>3, <1>4, <1>5, <1>6, <1>7, <1>8, <1>9, <1>10, <1>11, <1>12, <1>13, <1>14, <1>15, <1>16, <1>17, <1>18, <1>19 DEF Next, Update

\* Every step leaves the lock, the snapshot and the backup in a state that fits the
\* place of the process.
LEMMA RunPlacesStep ==
  ASSUME TypesOK, PlacesOK, [Next]_vars
  PROVE  RunPlaces'
<1> USE NoneAssumption DEF PlacesOK, RunPlaces, TypesOK, DiskTypeOK, ProcessTypeOK, Serving, Copying
<1>1. CASE Serve
  BY <1>1 DEF Serve, Start, Down, Free, NoSnapshot, NoBackup, Opened, files
<1>2. CASE RunServer
  <2>0. UNCHANGED <<exe, staged, aside, before, failed, update>>
    BY <1>2 DEF RunServer, files
  <2>1. CASE CreateData
    BY <2>0, <2>1 DEF CreateData
  <2>2. CASE CreateFails
    BY <2>0, <2>2 DEF CreateFails, Down, Free, NoSnapshot, NoBackup
  <2>3. CASE MigrateSystem
    BY <2>0, <2>3 DEF MigrateSystem
  <2>4. CASE MigrateData
    BY <2>0, <2>4 DEF MigrateData
  <2>5. CASE Commit
    BY <2>0, <2>5 DEF Commit, Serving
  <2>6. CASE Project
    BY <2>0, <2>6 DEF Project, ProjectionIsFree, Down, Free, NoSnapshot, NoBackup
  <2>7. CASE Acknowledge
    BY <2>0, <2>7 DEF Acknowledge, Down, Free, NoSnapshot, NoBackup
  <2>8. CASE RetainData
    BY <2>0, <2>8 DEF RetainData, Down, Free, NoSnapshot, NoBackup
  <2>9. CASE \E cutoff \in 1..MaxEvents : Retain(cutoff)
    BY <2>0, <2>9 DEF Retain, Serving, Down, Free, NoSnapshot, NoBackup
  <2>10. CASE \E purpose \in {"migration", "backup", "update"} : RecordSystem(purpose)
    BY <2>0, <2>10 DEF RecordSystem, SnapshotWanted, Serving, Down, Free, NoSnapshot, NoBackup
  <2>11. CASE RecordData
    BY <2>0, <2>11 DEF RecordData
  <2>12. CASE CopyData
    BY <2>0, <2>12 DEF CopyData
  <2>13. CASE Publish
    BY <2>0, <2>13 DEF Publish, Copied, Down, Free, NoSnapshot, NoBackup
  <2>14. CASE StartBackup
    BY <2>0, <2>14 DEF StartBackup, Serving, Down, Free, NoSnapshot, NoBackup
  <2>15. CASE WriteArchive
    BY <2>0, <2>15 DEF WriteArchive, Down, Free, NoSnapshot, NoBackup
  <2>16. CASE PruneArchives
    BY <2>0, <2>16 DEF PruneArchives
  <2>17. CASE FinishBackup
    BY <2>0, <2>17 DEF FinishBackup, Down, Free, NoSnapshot, NoBackup
  <2>18. CASE FailBackup
    BY <2>0, <2>18 DEF FailBackup, Down, Free, NoSnapshot, NoBackup
  <2>19. CASE Recover
    BY <2>0, <2>19 DEF Recover
  <2>20. CASE Stop
    BY <2>0, <2>20 DEF Stop, StopProcess, Down, Free, NoSnapshot, NoBackup
  <2> QED BY <1>2, <2>1, <2>2, <2>3, <2>4, <2>5, <2>6, <2>7, <2>8, <2>9, <2>10, <2>11, <2>12, <2>13, <2>14, <2>15, <2>16, <2>17, <2>18, <2>19, <2>20 DEF RunServer, StorageSteps
<1>3. CASE RestoreArchive
  BY <1>3 DEF RestoreArchive, RestoreBackup, files
<1>4. CASE \E good \in BOOLEAN : Resolve(good)
  BY <1>4 DEF Resolve, At, Newer, files, storage
<1>5. CASE Stage
  BY <1>5 DEF Stage, At, Goto, storage
<1>6. CASE Discard
  BY <1>6 DEF Discard, StopProcess, Goto, At, Down, Free, NoSnapshot, NoBackup, storage
<1>7. CASE OpenForSnapshot
  BY <1>7 DEF OpenForSnapshot, Goto, At, Down, Free, NoSnapshot, NoBackup, files
<1>8. CASE TakeSnapshot
  BY <1>8 DEF TakeSnapshot, StopProcess, Goto, At, Down, Free, NoSnapshot, NoBackup
<1>9. CASE SwapIn
  BY <1>9 DEF SwapIn, At, Goto, Fault, storage
<1>10. CASE RetainPrevious
  BY <1>10 DEF RetainPrevious, At, Goto, Fault, Kept, storage
<1>11. CASE Probe
  BY <1>11 DEF Probe, At, Start, Down, Free, NoSnapshot, NoBackup, Opened, files
<1>12. CASE ProbeReady
  BY <1>12 DEF ProbeReady, At, Goto, StopProcess, Serving, Down, Free, NoSnapshot, NoBackup, files
<1>13. CASE ProbeFails
  BY <1>13 DEF ProbeFails, At, Goto, StopProcess, Down, Free, NoSnapshot, NoBackup, files
<1>14. CASE MoveExecutable
  BY <1>14 DEF MoveExecutable, At, Goto, Fault, Renaming, AfterRestore, RemoveStaged, storage
<1>15. CASE RenamePrevious
  BY <1>15 DEF RenamePrevious, At, Goto, Fault, AfterRestore, RemoveStaged, storage
<1>16. CASE MoveData
  BY <1>16 DEF MoveData, At, Goto, Fault
<1>17. CASE RestoreData
  BY <1>17 DEF RestoreData, At, Goto, Fault, RestoredData, KeptData
<1>18. CASE Crash
  <2>1. CASE StopProcess
    BY <2>1 DEF StopProcess, Down, Free, NoSnapshot, NoBackup
  <2>2. CASE ~StopProcess
    <3>1. UNCHANGED <<lock, snap, backup>> /\ proc' = [proc EXCEPT !.probe = FALSE] /\ proc.probe
      BY <1>18, <2>2 DEF Crash
    <3> QED BY <3>1 DEF Down
  <2> QED BY <2>1, <2>2
<1>19. CASE UNCHANGED vars
  BY <1>19 DEF vars, storage, files
<1> QED BY <1>1, <1>2, <1>3, <1>4, <1>5, <1>6, <1>7, <1>8, <1>9, <1>10, <1>11, <1>12, <1>13, <1>14, <1>15, <1>16, <1>17, <1>18, <1>19 DEF Next, Update

-----------------------------------------------------------------------------
(* The two databases and their copies. *)

\* Who may act at which place.
LEMMA Placed ==
  ASSUME TypesOK, PlacesOK, ProbeOK
  PROVE  /\ RestoreArchive \/ MoveData \/ RestoreData \/ Serve => proc.pc = "down"
         /\ proc.pc = "down" => lock = Free /\ snap = NoSnapshot /\ backup = NoBackup /\ lock.by # "project" /\ snap.pc = "idle"
<1>1. ASSUME RestoreArchive \/ MoveData \/ RestoreData \/ Serve PROVE proc.pc = "down"
  BY <1>1 DEF RestoreArchive, RestoreBackup, MoveData, RestoreData, Serve, Start, ProbeOK, Updating, At
<1>2. ASSUME proc.pc = "down" PROVE lock = Free /\ snap = NoSnapshot /\ backup = NoBackup
  BY <1>2 DEF PlacesOK, RunPlaces
<1>3. Free.by # "project" /\ NoSnapshot.pc = "idle"
  BY NoneAssumption DEF Free, NoSnapshot
<1> QED BY <1>1, <1>2, <1>3

LEMMA RestoredLinks ==
  ASSUME NEW copy \in Snapshot, NEW version, Paired(copy)
  PROVE  Linked(Restored(version, copy))
<1>1. Restored(version, copy).system = [copy.system EXCEPT !.schema = version] /\ Restored(version, copy).data = [copy.data EXCEPT !.schema = version]
  BY DEF Restored
<1>2. copy.system \in SystemDb /\ copy.data \in DataDb
  BY DEF Snapshot
<1>3. Restored(version, copy).system.delivered = copy.system.delivered /\ Restored(version, copy).system.events = copy.system.events
  BY <1>1, <1>2 DEF SystemDb
<1>4. /\ Restored(version, copy).data.projected = copy.data.projected /\ Restored(version, copy).data.detailed = copy.data.detailed
      /\ Restored(version, copy).data.cutoff = copy.data.cutoff
  BY <1>1, <1>2 DEF DataDb
<1> QED BY <1>3, <1>4 DEF Linked, Paired

\* The paired copies, by the place where they are kept.
LEMMA CopiesByPlace ==
  SnapshotsArePaired <=> /\ \A a \in archives : Paired(a.copy)
                         /\ before # None => Paired(before)
                         /\ \A d \in {dir, failed} : d # None => \A copy \in d.pre : Paired(copy)
  BY DEF SnapshotsArePaired, Copies

\* What system.db counts as delivered is in data.db, which is not ahead of it.
LEMMA LinksStep ==
  ASSUME TypesOK, PlacesOK, PairsOK, ProbeOK, [Next]_vars
  PROVE  LinksOK'
<1> USE  DEF PairsOK, LinksOK
<1>1. CASE Serve
  <2>1. dir' = dir \/ (dir'.data = None)
    BY <1>1 DEF Serve, Start
  <2>2. lock' = lock /\ lock.by # "project" /\ failed' = failed
    BY <1>1, NoneAssumption DEF Serve, Start, PlacesOK, RunPlaces, Serving, files
  <2> QED BY <2>1, <2>2 DEF Whole
<1>2. CASE RunServer
  <2>0. UNCHANGED <<exe, staged, aside, before, failed, update>>
    BY <1>2 DEF RunServer, files
  <2>1. CASE CreateData
    <3>1. dir'.data = NewData(proc.version) /\ dir'.system = NewSystem(proc.version)
      BY <2>1, CreateWrite DEF CreateData, PlacesOK, DirPlaces, OnlyData
    <3>2. Linked(dir')
      BY <3>1 DEF Linked, NewData, NewSystem
    <3>3. lock' = lock /\ lock.by # "project"
      BY <2>1 DEF CreateData, PlacesOK, RunPlaces, Serving
    <3> QED BY <2>0, <3>2, <3>3
  <2>2. CASE CreateFails
    <3>1. lock' = lock /\ lock.by # "project" /\ dir' = None
      BY <2>2 DEF CreateFails, PlacesOK, RunPlaces, Serving
    <3> QED BY <2>0, <3>1 DEF Whole
  <2>3. CASE MigrateSystem
    <3>1. dir.data \in DataDb /\ dir.system \in SystemDb /\ dir \in DataDir /\ Whole(dir)
      BY <2>3, OpenDir, NoneAssumption DEF MigrateSystem
    <3>2. OnlySystem(dir', dir) /\ \E x : dir'.system = [dir.system EXCEPT !.schema = x]
      BY <2>3, MigrateWrite
    <3>3. dir'.system.delivered = dir.system.delivered /\ dir'.system.events = dir.system.events /\ dir'.data = dir.data
      BY <3>1, <3>2 DEF SystemDb, OnlySystem
    <3>4. lock' = lock \/ lock'.by # "project"
      BY <2>3, NoneAssumption DEF MigrateSystem, Free
    <3> QED BY <2>0, <3>1, <3>3, <3>4 DEF Whole, Linked
  <2>4. CASE MigrateData
    <3>1. dir.data \in DataDb /\ dir.system \in SystemDb /\ dir \in DataDir /\ Whole(dir)
      BY <2>4, OpenDir, NoneAssumption DEF MigrateData
    <3>2. OnlyData(dir', dir) /\ \E x : dir'.data = [dir.data EXCEPT !.schema = x]
      BY <2>4, MigrateWrite
    <3>3. /\ dir'.data.projected = dir.data.projected /\ dir'.data.detailed = dir.data.detailed /\ dir'.data.cutoff = dir.data.cutoff
          /\ dir'.system = dir.system
      BY <3>1, <3>2 DEF DataDb, OnlyData
    <3> QED BY <2>0, <2>4, <3>1, <3>3 DEF MigrateData, Linked
  <2>5. CASE Commit
    <3>1. dir.data \in DataDb /\ dir.system \in SystemDb /\ dir \in DataDir /\ Whole(dir)
      BY <2>5, OpenDir, NoneAssumption DEF Commit, Serving
    <3>2. OnlySystem(dir', dir) /\ dir'.system = [dir.system EXCEPT !.events = dir.system.events + 1]
      BY <2>5, CommitWrite
    <3>3. dir'.system.delivered = dir.system.delivered /\ dir'.system.events = dir.system.events + 1 /\ dir'.data = dir.data
      BY <3>1, <3>2 DEF SystemDb, OnlySystem
    <3>4. dir.data.projected <= dir'.system.events
      BY <3>1, <3>3 DEF Linked, SystemDb, DataDb
    <3> QED BY <2>0, <2>5, <3>1, <3>3, <3>4 DEF Commit, Whole, Linked
  <2>6. CASE Project
    <3>1. dir.data \in DataDb /\ dir.system \in SystemDb /\ dir \in DataDir /\ Whole(dir)
      BY <2>6, OpenDir, NoneAssumption DEF Project, Serving
    <3>2. dir.system.delivered \in Nat /\ dir.system.delivered + 1 \in Nat /\ dir.system.delivered + 1 <= dir.system.events
      BY <2>6, <3>1 DEF Project, SystemDb
    <3>3. OnlyData(dir', dir) /\ dir'.data = WithEvent(dir.data, dir.system.delivered + 1)
      BY <2>6, ProjectWrite
    <3>4. /\ dir'.data.projected = IF dir.system.delivered + 1 <= dir.data.projected THEN dir.data.projected ELSE dir.system.delivered + 1
          /\ dir'.data.cutoff = dir.data.cutoff
          /\ \A event \in dir'.data.detailed : event \in dir.data.detailed \/ event > dir'.data.cutoff
      <4> DEFINE n == dir.system.delivered + 1
      <4>1. n \in Nat /\ dir'.data = WithEvent(dir.data, n)
        BY <3>2, <3>3
      <4> HIDE DEF n
      <4>2. /\ dir'.data.projected = IF n <= dir.data.projected THEN dir.data.projected ELSE n
            /\ dir'.data.cutoff = dir.data.cutoff
            /\ \A event \in dir'.data.detailed : event \in dir.data.detailed \/ event > dir'.data.cutoff
        BY <3>1, <4>1, EventWrite
      <4> QED BY <4>2 DEF n
    <3>5. dir.data.projected \in Nat /\ dir.system.events \in Nat /\ dir'.system = dir.system
      BY <3>1, <3>3 DEF DataDb, SystemDb, OnlyData
    <3>6. dir'.data.projected <= dir.system.events /\ dir.system.delivered < dir'.data.projected /\ dir.system.delivered <= dir'.data.projected
      BY <3>1, <3>2, <3>4, <3>5 DEF Linked
    <3> QED BY <2>0, <3>1, <3>4, <3>5, <3>6 DEF Linked
  <2>7. CASE Acknowledge
    <3>1. dir.data \in DataDb /\ dir.system \in SystemDb /\ dir \in DataDir /\ Whole(dir)
      BY <2>7, OpenDir, NoneAssumption DEF Acknowledge, PlacesOK, RunPlaces, Serving
    <3>2. lock'.by # "project"
      BY <2>7, NoneAssumption DEF Acknowledge, Free
    <3>3. CASE dir' = dir
      BY <2>0, <3>2, <3>3
    <3>4. CASE OnlySystem(dir', dir) /\ dir'.system = [dir.system EXCEPT !.delivered = dir.system.delivered + 1]
      <4>1. dir'.system.delivered = dir.system.delivered + 1 /\ dir'.system.events = dir.system.events /\ dir'.data = dir.data
        BY <3>1, <3>4 DEF SystemDb, OnlySystem
      <4>2. dir'.system.delivered <= dir.data.projected
        BY <2>7, <3>1, <4>1 DEF Acknowledge, SystemDb, DataDb
      <4> QED BY <2>0, <3>1, <3>2, <4>1, <4>2 DEF Whole, Linked
    <3> QED BY <2>7, <3>3, <3>4, AcknowledgeWrite
  <2>8. CASE RetainData
    <3>1. dir.data \in DataDb /\ dir.system \in SystemDb /\ dir \in DataDir /\ Whole(dir)
      BY <2>8, OpenDir, NoneAssumption DEF RetainData, PlacesOK, RunPlaces, Serving
    <3>2. lock'.by # "project"
      BY <2>8, NoneAssumption DEF RetainData, Free
    <3>3. CASE dir' = dir
      BY <2>0, <3>2, <3>3
    <3>4. CASE OnlyData(dir', dir) /\ dir'.data = Trimmed(dir.data, lock.cutoff)
      <4>1. lock.cutoff \in Nat
        BY DEF TypesOK, ProcessTypeOK
      <4>2. dir'.data.projected = dir.data.projected /\ \A event \in dir'.data.detailed : event > dir'.data.cutoff
        BY <3>1, <3>4, <4>1, TrimWrite
      <4> QED BY <2>0, <3>1, <3>2, <3>4, <4>2 DEF OnlyData, Linked
    <3> QED BY <2>8, <3>3, <3>4, RetainWrite
  <2>9. CASE \E cutoff \in 1..MaxEvents : Retain(cutoff)
    <3>1. dir.data \in DataDb /\ dir.system \in SystemDb /\ dir \in DataDir /\ Whole(dir)
      BY <2>9, OpenDir, NoneAssumption DEF Retain, Serving
    <3>2. OnlySystem(dir', dir) /\ \E x : dir'.system = [dir.system EXCEPT !.erased = x]
      BY <2>9, RetainWrite
    <3>3. dir'.system.delivered = dir.system.delivered /\ dir'.system.events = dir.system.events /\ dir'.data = dir.data
      BY <3>1, <3>2 DEF SystemDb, OnlySystem
    <3>4. lock' = lock \/ lock'.by # "project"
      BY <2>9, NoneAssumption DEF Retain, Free
    <3> QED BY <2>0, <3>1, <3>3, <3>4 DEF Whole, Linked
  <2>10. CASE \E purpose \in {"migration", "backup", "update"} : RecordSystem(purpose)
    <3>1. dir.data \in DataDb /\ dir.system \in SystemDb /\ dir \in DataDir /\ Whole(dir)
      BY <2>10, OpenDir, NoneAssumption DEF RecordSystem, SnapshotWanted, Serving
    <3>2. OnlySystem(dir', dir) /\ \E x : dir'.system = [dir.system EXCEPT !.generation = x]
      BY <2>10, RecordWrite
    <3>3. dir'.system.delivered = dir.system.delivered /\ dir'.system.events = dir.system.events /\ dir'.data = dir.data
      BY <3>1, <3>2 DEF SystemDb, OnlySystem
    <3>4. lock' = lock \/ lock'.by # "project"
      BY <2>10, NoneAssumption DEF RecordSystem, Free
    <3> QED BY <2>0, <3>1, <3>3, <3>4 DEF Whole, Linked
  <2>11. CASE RecordData
    <3>1. dir.data \in DataDb /\ dir.system \in SystemDb /\ dir \in DataDir /\ Whole(dir)
      BY <2>11, OpenDir, NoneAssumption DEF RecordData, PlacesOK, RunPlaces, Serving
    <3>2. OnlyData(dir', dir) /\ \E x : dir'.data = [dir.data EXCEPT !.generation = x]
      BY <2>11, RecordWrite
    <3>3. /\ dir'.data.projected = dir.data.projected /\ dir'.data.detailed = dir.data.detailed /\ dir'.data.cutoff = dir.data.cutoff
          /\ dir'.system = dir.system
      BY <3>1, <3>2 DEF DataDb, OnlyData
    <3> QED BY <2>0, <2>11, <3>1, <3>3 DEF RecordData, Linked
  <2>12. CASE CopyData
    BY <2>0, <2>12 DEF CopyData
  <2>13. CASE Publish
    <3>1. dir.data \in DataDb /\ dir.system \in SystemDb /\ dir \in DataDir /\ Whole(dir)
      BY <2>13, OpenDir, NoneAssumption DEF Publish, PlacesOK, RunPlaces, Serving
    <3>2. dir'.system = dir.system /\ dir'.data = dir.data
      BY <2>13, PublishWrite
    <3>3. lock'.by # "project"
      BY <2>13, NoneAssumption DEF Publish, Free
    <3> QED BY <2>0, <3>1, <3>2, <3>3 DEF Linked
  <2>14. CASE StartBackup
    <3>1. dir.data \in DataDb /\ dir.system \in SystemDb /\ dir \in DataDir /\ Whole(dir)
      BY <2>14, OpenDir, NoneAssumption DEF StartBackup, Serving
    <3>2. OnlySystem(dir', dir) /\ \E x : dir'.system = [dir.system EXCEPT !.jobs = x]
      BY <2>14, BackupWrite
    <3>3. dir'.system.delivered = dir.system.delivered /\ dir'.system.events = dir.system.events /\ dir'.data = dir.data
      BY <3>1, <3>2 DEF SystemDb, OnlySystem
    <3>4. lock' = lock \/ lock'.by # "project"
      BY <2>14, NoneAssumption DEF StartBackup, Free
    <3> QED BY <2>0, <3>1, <3>3, <3>4 DEF Whole, Linked
  <2>15. CASE WriteArchive
    BY <2>0, <2>15 DEF WriteArchive
  <2>16. CASE PruneArchives
    BY <2>0, <2>16 DEF PruneArchives
  <2>17. CASE FinishBackup
    <3>1. dir.data \in DataDb /\ dir.system \in SystemDb /\ dir \in DataDir /\ Whole(dir)
      BY <2>17, OpenDir, NoneAssumption DEF FinishBackup, PlacesOK, RunPlaces, Serving
    <3>2. OnlySystem(dir', dir) /\ \E x : dir'.system = [dir.system EXCEPT !.jobs = x]
      BY <2>17, BackupWrite
    <3>3. dir'.system.delivered = dir.system.delivered /\ dir'.system.events = dir.system.events /\ dir'.data = dir.data
      BY <3>1, <3>2 DEF SystemDb, OnlySystem
    <3>4. lock' = lock \/ lock'.by # "project"
      BY <2>17, NoneAssumption DEF FinishBackup, Free
    <3> QED BY <2>0, <3>1, <3>3, <3>4 DEF Whole, Linked
  <2>18. CASE FailBackup
    <3>1. dir.data \in DataDb /\ dir.system \in SystemDb /\ dir \in DataDir /\ Whole(dir)
      BY <2>18, OpenDir, NoneAssumption DEF FailBackup, PlacesOK, RunPlaces, Serving
    <3>2. OnlySystem(dir', dir) /\ \E x : dir'.system = [dir.system EXCEPT !.jobs = x]
      BY <2>18, BackupWrite
    <3>3. dir'.system.delivered = dir.system.delivered /\ dir'.system.events = dir.system.events /\ dir'.data = dir.data
      BY <3>1, <3>2 DEF SystemDb, OnlySystem
    <3>4. lock' = lock \/ lock'.by # "project"
      BY <2>18, NoneAssumption DEF FailBackup, Free
    <3> QED BY <2>0, <3>1, <3>3, <3>4 DEF Whole, Linked
  <2>19. CASE Recover
    <3>1. dir.data \in DataDb /\ dir.system \in SystemDb /\ dir \in DataDir /\ Whole(dir)
      BY <2>19, OpenDir, NoneAssumption DEF Recover
    <3>2. dir'.system = [dir.system EXCEPT !.jobs = RecoveredJobs(dir.system.jobs)] /\ dir'.data = dir.data
      BY <2>19, RecoverWrite
    <3>3. dir'.system.delivered = dir.system.delivered /\ dir'.system.events = dir.system.events
      BY <3>1, <3>2 DEF SystemDb
    <3> QED BY <2>0, <2>19, <3>1, <3>2, <3>3 DEF Recover, Whole, Linked
  <2>20. CASE Stop
    BY <2>0, <2>20, NoneAssumption DEF Stop, StopProcess, Free
  <2> QED BY <1>2, <2>1, <2>2, <2>3, <2>4, <2>5, <2>6, <2>7, <2>8, <2>9, <2>10, <2>11, <2>12, <2>13, <2>14, <2>15, <2>16, <2>17, <2>18, <2>19, <2>20 DEF RunServer, StorageSteps
<1>3. CASE RestoreArchive
  <2>1. PICK archive \in archives : dir' = Restored(exe, archive.copy)
    BY <1>3 DEF RestoreArchive, RestoreBackup
  <2>2. archive.copy \in Snapshot /\ Paired(archive.copy)
    BY CopiesByPlace DEF TypesOK, DiskTypeOK
  <2>3. Linked(dir')
    BY <2>1, <2>2, RestoredLinks
  <2>4. lock' = lock /\ failed' = failed /\ lock.by # "project"
    BY <1>3, Placed DEF RestoreArchive, RestoreBackup, files
  <2> QED BY <2>3, <2>4
<1>4. CASE \E good \in BOOLEAN : Resolve(good)
  BY <1>4 DEF Resolve, At, Newer, files, storage
<1>5. CASE Stage
  BY <1>5 DEF Stage, At, Goto, storage
<1>6. CASE Discard
  BY <1>6, NoneAssumption DEF Discard, StopProcess, Goto, At, Free, storage
<1>7. CASE OpenForSnapshot
  BY <1>7 DEF OpenForSnapshot, Goto, At, files
<1>8. CASE TakeSnapshot
  BY <1>8, NoneAssumption DEF TakeSnapshot, StopProcess, Goto, At, Free
<1>9. CASE SwapIn
  BY <1>9 DEF SwapIn, At, Goto, Fault, storage
<1>10. CASE RetainPrevious
  BY <1>10 DEF RetainPrevious, At, Goto, Fault, Kept, storage
<1>11. CASE Probe
  <2>1. dir' = dir \/ (dir'.data = None)
    BY <1>11 DEF Probe, Start
  <2>2. lock' = lock /\ lock.by # "project" /\ failed' = failed
    BY <1>11, NoneAssumption DEF Probe, Start, PlacesOK, RunPlaces, Serving, files
  <2> QED BY <2>1, <2>2 DEF Whole
<1>12. CASE ProbeReady
  BY <1>12, NoneAssumption DEF ProbeReady, At, Goto, StopProcess, Serving, Free, files
<1>13. CASE ProbeFails
  BY <1>13, NoneAssumption DEF ProbeFails, At, Goto, StopProcess, Free, files
<1>14. CASE MoveExecutable
  BY <1>14 DEF MoveExecutable, At, Goto, Fault, Renaming, AfterRestore, RemoveStaged, storage
<1>15. CASE RenamePrevious
  BY <1>15 DEF RenamePrevious, At, Goto, Fault, AfterRestore, RemoveStaged, storage
<1>16. CASE MoveData
  <2>1. lock' = lock /\ lock.by # "project"
    BY <1>16, Placed DEF MoveData
  <2> QED BY <1>16, <2>1 DEF MoveData, Whole
<1>17. CASE RestoreData
  <2>1. lock' = lock /\ lock.by # "project"
    BY <1>17, Placed DEF RestoreData
  <2>2. CASE KeptData
    BY <2>1, <2>2 DEF KeptData, Whole
  <2>3. CASE RestoredData
    <3>1. before \in Snapshot /\ Paired(before)
      BY <1>17, RestorableBefore, CopiesByPlace, NotNone DEF RestoreData
    <3> QED BY <2>1, <2>3, <3>1, RestoredLinks DEF RestoredData
  <2> QED BY <1>17, <2>2, <2>3 DEF RestoreData
<1>18. CASE Crash
  <2>1. dir' = dir /\ failed' = failed /\ (lock' = lock \/ lock' = Free)
    BY <1>18 DEF Crash, StopProcess, files
  <2>2. Free.by # "project"
    BY NoneAssumption DEF Free
  <2> QED BY <2>1, <2>2
<1>19. CASE UNCHANGED vars
  BY <1>19 DEF vars, storage, files
<1> QED BY <1>1, <1>2, <1>3, <1>4, <1>5, <1>6, <1>7, <1>8, <1>9, <1>10, <1>11, <1>12, <1>13, <1>14, <1>15, <1>16, <1>17, <1>18, <1>19 DEF Next, Update

LEMMA CopiedIsPaired ==
  ASSUME TypesOK, PlacesOK, PairsOK, snap.pc = "copy_system"
  PROVE  Paired(Copied)
<1>1. Linked(dir) /\ snap.data = dir.data /\ dir.system.generation = snap.generation /\ dir.data.generation = snap.generation
  BY CopiedType DEF PairsOK, LinksOK, CopyingOK, Copying
<1>2. Copied.system = dir.system /\ Copied.data = dir.data /\ Copied.generation = snap.generation
  BY <1>1 DEF Copied
<1> QED BY <1>1, <1>2 DEF Paired, Valid, Linked

\* While a snapshot is made, both databases keep its generation and data.db stands
\* still.
LEMMA CopyingStep ==
  ASSUME TypesOK, PlacesOK, PairsOK, ProbeOK, [Next]_vars
  PROVE  CopyingOK'
<1> USE  DEF PairsOK, CopyingOK
<1>1. CASE Serve
  <2>1. snap' = snap /\ snap.pc = "idle"
    BY <1>1, Placed DEF Serve, Start
  <2> QED BY <2>1 DEF Copying
<1>2. CASE RunServer
  <2>0. UNCHANGED <<exe, staged, aside, before, failed, update>>
    BY <1>2 DEF RunServer, files
  <2>1. CASE CreateData
    <3>1. snap' = snap /\ snap.pc \notin Copying
      BY <2>1, NoneAssumption DEF CreateData, PlacesOK, RunPlaces, Serving, Copying
    <3> QED BY <3>1 DEF Copying
  <2>2. CASE CreateFails
    <3>1. snap' = snap /\ snap.pc \notin Copying
      BY <2>2, NoneAssumption DEF CreateFails, PlacesOK, RunPlaces, Serving, Copying
    <3> QED BY <3>1 DEF Copying
  <2>3. CASE MigrateSystem
    <3>1. snap' = snap /\ snap.pc \notin Copying
      BY <2>3, NoneAssumption DEF MigrateSystem, PlacesOK, RunPlaces, Serving, Copying
    <3> QED BY <3>1 DEF Copying
  <2>4. CASE MigrateData
    <3>1. snap' = snap /\ snap.pc \notin Copying
      BY <2>4, NoneAssumption DEF MigrateData, PlacesOK, RunPlaces, Serving, Copying
    <3> QED BY <3>1 DEF Copying
  <2>5. CASE Commit
    <3>1. dir.data \in DataDb /\ dir.system \in SystemDb /\ dir \in DataDir /\ Whole(dir)
      BY <2>5, OpenDir, NoneAssumption DEF Commit, Serving
    <3>2. OnlySystem(dir', dir) /\ \E x : dir'.system = [dir.system EXCEPT !.events = x]
      BY <2>5, CommitWrite
    <3>3. dir'.system.generation = dir.system.generation /\ dir'.data = dir.data
      BY <3>1, <3>2 DEF SystemDb, OnlySystem
    <3> QED BY <2>5, <3>3 DEF Commit
  <2>6. CASE Project
    <3>1. snap' = snap /\ snap.pc \notin Copying
      BY <2>6, NoneAssumption DEF Project, ProjectionIsFree, Free, PlacesOK, RunPlaces
    <3> QED BY <3>1 DEF Copying
  <2>7. CASE Acknowledge
    <3>1. snap' = snap /\ snap.pc \notin Copying
      BY <2>7, NoneAssumption DEF Acknowledge, PlacesOK, RunPlaces
    <3> QED BY <3>1 DEF Copying
  <2>8. CASE RetainData
    <3>1. snap' = snap /\ snap.pc \notin Copying
      BY <2>8, NoneAssumption DEF RetainData, PlacesOK, RunPlaces
    <3> QED BY <3>1 DEF Copying
  <2>9. CASE \E cutoff \in 1..MaxEvents : Retain(cutoff)
    <3>1. snap' = snap /\ snap.pc \notin Copying
      BY <2>9, NoneAssumption DEF Retain, Free, PlacesOK, RunPlaces
    <3> QED BY <3>1 DEF Copying
  <2>10. CASE \E purpose \in {"migration", "backup", "update"} : RecordSystem(purpose)
    <3>1. dir.data \in DataDb /\ dir.system \in SystemDb /\ dir \in DataDir /\ Whole(dir)
      BY <2>10, OpenDir, NoneAssumption DEF RecordSystem, SnapshotWanted, Serving
    <3>2. dir'.system = [dir.system EXCEPT !.generation = used.generations + 1]
      BY <2>10, RecordWrite
    <3>3. dir'.system.generation = used.generations + 1
      BY <3>1, <3>2 DEF SystemDb
    <3>4. snap'.pc = "record_data" /\ snap'.generation = used.generations + 1
      BY <2>10 DEF RecordSystem, NoSnapshot
    <3> QED BY <3>3, <3>4
  <2>11. CASE RecordData
    <3>1. dir.data \in DataDb /\ dir.system \in SystemDb /\ dir \in DataDir /\ Whole(dir)
      BY <2>11, OpenDir, NoneAssumption DEF RecordData, PlacesOK, RunPlaces, Serving
    <3>2. OnlyData(dir', dir) /\ dir'.data = [dir.data EXCEPT !.generation = snap.generation]
      BY <2>11, RecordWrite
    <3>3. dir'.data.generation = snap.generation /\ dir'.system = dir.system
      BY <3>1, <3>2 DEF DataDb, OnlyData
    <3>4. snap'.pc = "copy_data" /\ snap'.generation = snap.generation /\ snap.pc = "record_data"
      BY <2>11 DEF RecordData, TypesOK, DiskTypeOK
    <3> QED BY <3>3, <3>4 DEF Copying
  <2>12. CASE CopyData
    <3>1. snap' = [snap EXCEPT !.pc = "copy_system", !.data = dir.data] /\ dir' = dir /\ snap.pc = "copy_data"
      BY <2>12 DEF CopyData
    <3>2. snap'.pc = "copy_system" /\ snap'.generation = snap.generation /\ snap'.data = dir.data
      BY <3>1 DEF TypesOK, DiskTypeOK
    <3> QED BY <3>1, <3>2 DEF Copying
  <2>13. CASE Publish
    <3>1. Copied \in Snapshot /\ Paired(Copied)
      BY <2>13, CopiedIsPaired, CopiedType DEF Publish
    <3>2. CASE snap.purpose = "migration"
      BY <2>13, <3>2 DEF Publish, NoSnapshot, Copying
    <3>3. CASE snap.purpose # "migration"
      <4>1. snap' = [snap EXCEPT !.pc = "published", !.copy = Copied]
        BY <2>13, <3>3 DEF Publish
      <4>2. snap'.pc = "published" /\ snap'.copy = Copied
        BY <4>1 DEF TypesOK, DiskTypeOK
      <4> QED BY <3>1, <4>2, NotNone DEF Copying
    <3> QED BY <3>2, <3>3
  <2>14. CASE StartBackup
    <3>1. dir.data \in DataDb /\ dir.system \in SystemDb /\ dir \in DataDir /\ Whole(dir)
      BY <2>14, OpenDir, NoneAssumption DEF StartBackup, Serving
    <3>2. OnlySystem(dir', dir) /\ \E x : dir'.system = [dir.system EXCEPT !.jobs = x]
      BY <2>14, BackupWrite
    <3>3. dir'.system.generation = dir.system.generation /\ dir'.data = dir.data
      BY <3>1, <3>2 DEF SystemDb, OnlySystem
    <3> QED BY <2>14, <3>3 DEF StartBackup
  <2>15. CASE WriteArchive
    <3>1. snap'.pc = "idle"
      BY <2>15 DEF WriteArchive, NoSnapshot
    <3> QED BY <3>1 DEF Copying
  <2>16. CASE PruneArchives
    BY <2>0, <2>16 DEF PruneArchives
  <2>17. CASE FinishBackup
    <3>1. dir.data \in DataDb /\ dir.system \in SystemDb /\ dir \in DataDir /\ Whole(dir)
      BY <2>17, OpenDir, NoneAssumption DEF FinishBackup, PlacesOK, RunPlaces, Serving
    <3>2. OnlySystem(dir', dir) /\ \E x : dir'.system = [dir.system EXCEPT !.jobs = x]
      BY <2>17, BackupWrite
    <3>3. dir'.system.generation = dir.system.generation /\ dir'.data = dir.data
      BY <3>1, <3>2 DEF SystemDb, OnlySystem
    <3> QED BY <2>17, <3>3 DEF FinishBackup
  <2>18. CASE FailBackup
    <3>1. snap'.pc = "idle"
      BY <2>18 DEF FailBackup, NoSnapshot
    <3> QED BY <3>1 DEF Copying
  <2>19. CASE Recover
    <3>1. snap' = snap /\ snap.pc \notin Copying
      BY <2>19, NoneAssumption DEF Recover, PlacesOK, RunPlaces, Serving, Copying
    <3> QED BY <3>1 DEF Copying
  <2>20. CASE Stop
    <3>1. snap'.pc = "idle"
      BY <2>20 DEF Stop, StopProcess, NoSnapshot
    <3> QED BY <3>1 DEF Copying
  <2> QED BY <1>2, <2>1, <2>2, <2>3, <2>4, <2>5, <2>6, <2>7, <2>8, <2>9, <2>10, <2>11, <2>12, <2>13, <2>14, <2>15, <2>16, <2>17, <2>18, <2>19, <2>20 DEF RunServer, StorageSteps
<1>3. CASE RestoreArchive
  <2>1. snap' = snap /\ snap.pc = "idle"
    BY <1>3, Placed DEF RestoreArchive, RestoreBackup
  <2> QED BY <2>1 DEF Copying
<1>4. CASE \E good \in BOOLEAN : Resolve(good)
  BY <1>4 DEF Resolve, At, Newer, files, storage
<1>5. CASE Stage
  BY <1>5 DEF Stage, At, Goto, storage
<1>6. CASE Discard
  <2>1. dir' = dir /\ (snap' = snap \/ snap' = NoSnapshot)
    BY <1>6 DEF Discard, StopProcess, storage
  <2> QED BY <2>1 DEF NoSnapshot, Copying
<1>7. CASE OpenForSnapshot
  BY <1>7 DEF OpenForSnapshot, Goto, At, files
<1>8. CASE TakeSnapshot
  <2>1. snap'.pc = "idle"
    BY <1>8 DEF TakeSnapshot, StopProcess, NoSnapshot
  <2> QED BY <2>1 DEF Copying
<1>9. CASE SwapIn
  BY <1>9 DEF SwapIn, At, Goto, Fault, storage
<1>10. CASE RetainPrevious
  BY <1>10 DEF RetainPrevious, At, Goto, Fault, Kept, storage
<1>11. CASE Probe
  <2>1. snap' = snap /\ proc.pc = "down"
    BY <1>11 DEF Probe, Start
  <2> QED BY <2>1, Placed DEF Copying
<1>12. CASE ProbeReady
  <2>1. snap'.pc = "idle"
    BY <1>12 DEF ProbeReady, StopProcess, NoSnapshot
  <2> QED BY <2>1 DEF Copying
<1>13. CASE ProbeFails
  <2>1. snap'.pc = "idle"
    BY <1>13 DEF ProbeFails, StopProcess, NoSnapshot
  <2> QED BY <2>1 DEF Copying
<1>14. CASE MoveExecutable
  BY <1>14 DEF MoveExecutable, At, Goto, Fault, Renaming, AfterRestore, RemoveStaged, storage
<1>15. CASE RenamePrevious
  BY <1>15 DEF RenamePrevious, At, Goto, Fault, AfterRestore, RemoveStaged, storage
<1>16. CASE MoveData
  <2>1. snap' = snap /\ snap.pc = "idle"
    BY <1>16, Placed DEF MoveData
  <2> QED BY <2>1 DEF Copying
<1>17. CASE RestoreData
  <2>1. snap' = snap /\ snap.pc = "idle"
    BY <1>17, Placed DEF RestoreData
  <2> QED BY <2>1 DEF Copying
<1>18. CASE Crash
  <2>1. dir' = dir /\ (snap' = snap \/ snap' = NoSnapshot)
    BY <1>18 DEF Crash, StopProcess
  <2> QED BY <2>1 DEF NoSnapshot, Copying
<1>19. CASE UNCHANGED vars
  BY <1>19 DEF vars, storage, files
<1> QED BY <1>1, <1>2, <1>3, <1>4, <1>5, <1>6, <1>7, <1>8, <1>9, <1>10, <1>11, <1>12, <1>13, <1>14, <1>15, <1>16, <1>17, <1>18, <1>19 DEF Next, Update

\* Every snapshot that is kept is a pair.
LEMMA PairedStep ==
  ASSUME TypesOK, PlacesOK, PairsOK, ProbeOK, [Next]_vars
  PROVE  SnapshotsArePaired'
<1> DEFINE ByPlace == /\ \A a \in archives : Paired(a.copy)
                      /\ before # None => Paired(before)
                      /\ \A d \in {dir, failed} : d # None => \A copy \in d.pre : Paired(copy)
<1>a. ByPlace
  BY CopiesByPlace DEF PairsOK
<1>b. ByPlace' => SnapshotsArePaired'
  BY CopiesByPlace, PTL
<1> SUFFICES ByPlace'
  BY <1>b
<1> USE <1>a
<1>1. CASE Serve
  <2>1. dir' = dir \/ dir'.pre = {}
    BY <1>1 DEF Serve, Start
  <2> QED BY <1>1, <2>1 DEF Serve, Start, files
<1>2. CASE RunServer
  <2>0. UNCHANGED <<exe, staged, aside, before, failed, update>>
    BY <1>2 DEF RunServer, files
  <2>1. CASE CreateData
    <3>1. dir' # None /\ dir'.pre = dir.pre /\ dir # None
      BY <2>1, CreateWrite, NotNone, OpenDir, NoneAssumption DEF OnlySystem, OnlyData, CreateData
    <3> QED BY <2>0, <2>1, <3>1 DEF CreateData
  <2>2. CASE CreateFails
    <3> QED BY <2>0, <2>2 DEF CreateFails
  <2>3. CASE MigrateSystem
    <3>1. dir' # None /\ dir'.pre = dir.pre /\ dir # None
      BY <2>3, MigrateWrite, NotNone, OpenDir, NoneAssumption DEF OnlySystem, OnlyData, MigrateSystem
    <3> QED BY <2>0, <2>3, <3>1 DEF MigrateSystem
  <2>4. CASE MigrateData
    <3>1. dir' # None /\ dir'.pre = dir.pre /\ dir # None
      BY <2>4, MigrateWrite, NotNone, OpenDir, NoneAssumption DEF OnlySystem, OnlyData, MigrateData
    <3> QED BY <2>0, <2>4, <3>1 DEF MigrateData
  <2>5. CASE Commit
    <3>1. dir' # None /\ dir'.pre = dir.pre /\ dir # None
      BY <2>5, CommitWrite, NotNone, OpenDir, NoneAssumption DEF OnlySystem, OnlyData, Commit, Serving
    <3> QED BY <2>0, <2>5, <3>1 DEF Commit
  <2>6. CASE Project
    <3>1. dir' # None /\ dir'.pre = dir.pre /\ dir # None
      BY <2>6, ProjectWrite, NotNone, OpenDir, NoneAssumption DEF OnlySystem, OnlyData, Project, Serving
    <3> QED BY <2>0, <2>6, <3>1 DEF Project
  <2>7. CASE Acknowledge
    <3>1. dir' # None /\ dir'.pre = dir.pre /\ dir # None
      BY <2>7, AcknowledgeWrite, NotNone, OpenDir, NoneAssumption DEF OnlySystem, OnlyData, Acknowledge, PlacesOK, RunPlaces, Serving
    <3> QED BY <2>0, <2>7, <3>1 DEF Acknowledge
  <2>8. CASE RetainData
    <3>1. dir' # None /\ dir'.pre = dir.pre /\ dir # None
      BY <2>8, RetainWrite, NotNone, OpenDir, NoneAssumption DEF OnlySystem, OnlyData, RetainData, PlacesOK, RunPlaces, Serving
    <3> QED BY <2>0, <2>8, <3>1 DEF RetainData
  <2>9. CASE \E cutoff \in 1..MaxEvents : Retain(cutoff)
    <3>1. dir' # None /\ dir'.pre = dir.pre /\ dir # None
      BY <2>9, RetainWrite, NotNone, OpenDir, NoneAssumption DEF OnlySystem, OnlyData, Retain, Serving
    <3> QED BY <2>0, <2>9, <3>1 DEF Retain
  <2>10. CASE \E purpose \in {"migration", "backup", "update"} : RecordSystem(purpose)
    <3>1. dir' # None /\ dir'.pre = dir.pre /\ dir # None
      BY <2>10, RecordWrite, NotNone, OpenDir, NoneAssumption DEF OnlySystem, OnlyData, RecordSystem, SnapshotWanted, Serving
    <3> QED BY <2>0, <2>10, <3>1 DEF RecordSystem
  <2>11. CASE RecordData
    <3>1. dir' # None /\ dir'.pre = dir.pre /\ dir # None
      BY <2>11, RecordWrite, NotNone, OpenDir, NoneAssumption DEF OnlySystem, OnlyData, RecordData, PlacesOK, RunPlaces, Serving
    <3> QED BY <2>0, <2>11, <3>1 DEF RecordData
  <2>12. CASE CopyData
    BY <2>0, <2>12 DEF CopyData
  <2>13. CASE Publish
    <3>1. Paired(Copied) /\ dir # None
      BY <2>13, CopiedIsPaired, CopiedType, NotNone DEF Publish
    <3>2. dir' = dir \/ dir'.pre = dir.pre \cup {Copied}
      BY <2>13, PublishWrite
    <3> QED BY <2>0, <2>13, <3>1, <3>2 DEF Publish
  <2>14. CASE StartBackup
    <3>1. dir' # None /\ dir'.pre = dir.pre /\ dir # None
      BY <2>14, BackupWrite, NotNone, OpenDir, NoneAssumption DEF OnlySystem, OnlyData, StartBackup, Serving
    <3> QED BY <2>0, <2>14, <3>1 DEF StartBackup
  <2>15. CASE WriteArchive
    <3>1. Paired(snap.copy)
      BY <2>15 DEF WriteArchive, PairsOK, CopyingOK
    <3>2. archives' = archives \cup {[name |-> backup.name, copy |-> snap.copy]} /\ dir' = dir
      BY <2>15 DEF WriteArchive
    <3> QED BY <2>0, <3>1, <3>2
  <2>16. CASE PruneArchives
    BY <2>0, <2>16 DEF PruneArchives, Pruned
  <2>17. CASE FinishBackup
    <3>1. dir' # None /\ dir'.pre = dir.pre /\ dir # None
      BY <2>17, BackupWrite, NotNone, OpenDir, NoneAssumption DEF OnlySystem, OnlyData, FinishBackup, PlacesOK, RunPlaces, Serving
    <3> QED BY <2>0, <2>17, <3>1 DEF FinishBackup
  <2>18. CASE FailBackup
    <3>1. dir' # None /\ dir'.pre = dir.pre /\ dir # None
      BY <2>18, BackupWrite, NotNone, OpenDir, NoneAssumption DEF OnlySystem, OnlyData, FailBackup, PlacesOK, RunPlaces, Serving
    <3> QED BY <2>0, <2>18, <3>1 DEF FailBackup
  <2>19. CASE Recover
    <3>1. dir' # None /\ dir'.pre = dir.pre /\ dir # None
      BY <2>19, RecoverWrite, NotNone, OpenDir, NoneAssumption DEF OnlySystem, OnlyData, Recover
    <3> QED BY <2>0, <2>19, <3>1 DEF Recover
  <2>20. CASE Stop
    BY <2>0, <2>20 DEF Stop, StopProcess
  <2> QED BY <1>2, <2>1, <2>2, <2>3, <2>4, <2>5, <2>6, <2>7, <2>8, <2>9, <2>10, <2>11, <2>12, <2>13, <2>14, <2>15, <2>16, <2>17, <2>18, <2>19, <2>20 DEF RunServer, StorageSteps
<1>3. CASE RestoreArchive
  <2>1. PICK archive \in archives : dir' = Restored(exe, archive.copy)
    BY <1>3 DEF RestoreArchive, RestoreBackup
  <2>2. \A copy \in dir'.pre : Paired(copy)
    BY <2>1 DEF Restored
  <2> QED BY <1>3, <2>2 DEF RestoreArchive, RestoreBackup, files
<1>4. CASE \E good \in BOOLEAN : Resolve(good)
  BY <1>4 DEF Resolve, At, Newer, files, storage
<1>5. CASE Stage
  BY <1>5 DEF Stage, At, Goto, storage
<1>6. CASE Discard
  BY <1>6 DEF Discard, StopProcess, Goto, At, storage
<1>7. CASE OpenForSnapshot
  BY <1>7 DEF OpenForSnapshot, Goto, At, files
<1>8. CASE TakeSnapshot
  <2>1. Paired(snap.copy)
    BY <1>8 DEF TakeSnapshot, PairsOK, CopyingOK
  <2> QED BY <1>8, <2>1 DEF TakeSnapshot, StopProcess
<1>9. CASE SwapIn
  BY <1>9 DEF SwapIn, At, Goto, Fault, storage
<1>10. CASE RetainPrevious
  BY <1>10 DEF RetainPrevious, At, Goto, Fault, Kept, storage
<1>11. CASE Probe
  <2>1. dir' = dir \/ dir'.pre = {}
    BY <1>11 DEF Probe, Start
  <2> QED BY <1>11, <2>1 DEF Probe, Start, files
<1>12. CASE ProbeReady
  BY <1>12 DEF ProbeReady, At, Goto, StopProcess, Serving, files
<1>13. CASE ProbeFails
  BY <1>13 DEF ProbeFails, At, Goto, StopProcess, files
<1>14. CASE MoveExecutable
  BY <1>14 DEF MoveExecutable, At, Goto, Fault, Renaming, AfterRestore, RemoveStaged, storage
<1>15. CASE RenamePrevious
  BY <1>15 DEF RenamePrevious, At, Goto, Fault, AfterRestore, RemoveStaged, storage
<1>16. CASE MoveData
  BY <1>16 DEF MoveData, At, Goto, Fault
<1>17. CASE RestoreData
  <2>1. CASE KeptData
    BY <1>17, <2>1 DEF RestoreData, KeptData
  <2>2. CASE RestoredData
    <3>1. before # None
      BY <1>17, RestorableBefore, NotNone DEF RestoreData
    <3>2. \A copy \in dir'.pre : Paired(copy)
      BY <2>2, <3>1 DEF RestoredData, Restored
    <3> QED BY <1>17, <2>2, <3>2 DEF RestoreData, RestoredData
  <2> QED BY <1>17, <2>1, <2>2 DEF RestoreData
<1>18. CASE Crash
  BY <1>18 DEF Crash, StopProcess, files
<1>19. CASE UNCHANGED vars
  BY <1>19 DEF vars, storage, files
<1> QED BY <1>1, <1>2, <1>3, <1>4, <1>5, <1>6, <1>7, <1>8, <1>9, <1>10, <1>11, <1>12, <1>13, <1>14, <1>15, <1>16, <1>17, <1>18, <1>19 DEF Next, Update

-----------------------------------------------------------------------------
(* Migrations. *)

\* A step that changes neither the schemas, the events nor the kept snapshots.
SameHistory(e, d) ==
  /\ e.born = d.born /\ e.pre = d.pre /\ e.system.events = d.system.events
  /\ e.system.schema = d.system.schema /\ e.data.schema = d.data.schema

LEMMA HistoryKept ==
  ASSUME NEW e, NEW d, SameHistory(e, d)
  PROVE  Explained(d) => Explained(e)
  BY DEF Explained, Original, Current, Schemas, SameHistory

LEMMA RestoredExplained ==
  ASSUME NEW copy \in Snapshot, NEW version \in Nat \ {0}, CanOpen(version, copy), Paired(copy)
  PROVE  Explained(Restored(version, copy))
<1> DEFINE d == Restored(version, copy)
<1>1. copy.system \in SystemDb /\ copy.data \in DataDb
  BY DEF Snapshot
<1>2. /\ d.system = [copy.system EXCEPT !.schema = version] /\ d.data = [copy.data EXCEPT !.schema = version]
      /\ d.born = <<copy.system.schema, copy.data.schema>> /\ d.pre = IF Pending(version, copy) THEN {copy} ELSE {}
  BY DEF Restored
<1> SUFFICES Explained(d)
  OBVIOUS
<1> HIDE DEF d
<1>3. d.system.schema = version /\ d.data.schema = version
  BY <1>1, <1>2 DEF SystemDb, DataDb
<1>4. copy.system.schema \in Nat /\ copy.data.schema \in Nat /\ copy.system.schema <= version /\ copy.data.schema <= version
  BY <1>1 DEF SystemDb, DataDb, CanOpen
<1>5. CASE Pending(version, copy)
  <2>1. copy \in d.pre /\ Original(copy, d)
    BY <1>2, <1>5 DEF Original, Schemas
  <2> QED BY <1>2, <1>3, <1>4, <2>1 DEF Explained
<1>6. CASE ~Pending(version, copy)
  BY <1>2, <1>3, <1>4, <1>6 DEF Explained, Schemas, Pending
<1> QED BY <1>5, <1>6

\* A directory that waits for its migration has a current snapshot as soon as the
\* one under way is published: schemas that were interrupted half-way differ, and
\* schemas that agree and are too old are those the directory was born with.
LEMMA PublishedIsCurrent ==
  ASSUME TypesOK, PlacesOK, PairsOK, MigrationOK, Publish, snap.purpose = "migration", Pending(proc.version, dir)
  PROVE  \E copy \in dir'.pre : Current(copy, dir)
<1>1. Copied \in Snapshot /\ Paired(Copied) /\ dir \in DataDir /\ dir.data \in DataDb /\ Whole(dir)
  BY CopiedType, CopiedIsPaired DEF Publish
<1>2. dir'.pre = dir.pre \cup {Copied}
  BY PublishWrite
<1>3. Copied.system = dir.system /\ Copied.data = dir.data
  BY DEF Copied, Publish, PairsOK, CopyingOK
<1>4. CASE dir.born = Schemas(dir)
  <2>1. Current(Copied, dir)
    BY <1>1, <1>3, <1>4 DEF Current, Original, Schemas
  <2> QED BY <1>2, <2>1
<1>5. CASE dir.born # Schemas(dir)
  <2>1. PICK copy \in dir.pre : Original(copy, dir) /\ (dir.system.schema # dir.data.schema => Current(copy, dir))
    BY <1>1, <1>5 DEF MigrationOK, Explained
  <2>2. dir.system.schema # dir.data.schema
    <3>1. proc.version \in 1..2 /\ proc.pc = "opening" /\ dir.system.schema <= proc.version /\ dir.data.schema <= proc.version
      BY NoneAssumption DEF Publish, PlacesOK, DirPlaces, RunPlaces, Versions, Serving, Opening
    <3>2. dir.born[1] <= dir.system.schema /\ dir.born[2] <= dir.data.schema
      BY <1>1 DEF MigrationOK, Explained
    <3>3. dir.born \in (Nat \ {0}) \X (Nat \ {0}) /\ dir.system.schema \in Nat /\ dir.data.schema \in Nat
      BY <1>1 DEF DataDir, SystemDb, DataDb
    <3>4. dir.system.schema < proc.version \/ dir.data.schema < proc.version
      BY DEF Pending
    <3>5. ASSUME dir.system.schema = dir.data.schema PROVE FALSE
      <4>1. dir.system.schema = 1 /\ dir.data.schema = 1
        BY <3>1, <3>2, <3>3, <3>4, <3>5
      <4>2. dir.born[1] = 1 /\ dir.born[2] = 1
        BY <3>2, <3>3, <4>1
      <4>3. dir.born = <<1, 1>>
        BY <3>3, <4>2
      <4> QED BY <1>5, <4>1, <4>3 DEF Schemas
    <3> QED BY <3>5
  <2> QED BY <1>2, <2>1, <2>2
<1> QED BY <1>4, <1>5

\* The snapshot from before a migration stays with the directory.
LEMMA MigrationStep ==
  ASSUME TypesOK, PlacesOK, PairsOK, MigrationOK, ProbeOK, [Next]_vars
  PROVE  MigrationOK'
<1> USE  DEF MigrationOK
<1>1. CASE Serve
  <2>1. dir' = dir \/ (dir'.data = None)
    BY <1>1 DEF Serve, Start
  <2>2. failed' = failed /\ proc'.pc \notin {"migrating_system", "migrating_data"}
    BY <1>1 DEF Serve, Start, Opened, files
  <2> QED BY <2>1, <2>2 DEF Whole
<1>2. CASE RunServer
  <2>0. UNCHANGED <<exe, staged, aside, before, failed, update>>
    BY <1>2 DEF RunServer, files
  <2>1. CASE CreateData
    <3>1. /\ dir'.data = NewData(proc.version) /\ dir'.system = NewSystem(proc.version) /\ dir'.born = <<proc.version, proc.version>>
          /\ proc.version \in Nat
      BY <2>1, CreateWrite DEF CreateData, PlacesOK, DirPlaces, OnlyData, Versions
    <3>2. Explained(dir')
      BY <3>1 DEF Explained, Schemas, NewData, NewSystem
    <3>3. proc'.pc = "recovering"
      BY <2>1 DEF CreateData, TypesOK, ProcessTypeOK
    <3> QED BY <2>0, <3>2, <3>3
  <2>2. CASE CreateFails
    <3> QED BY <2>0, <2>2 DEF CreateFails, Whole, Down
  <2>3. CASE MigrateSystem
    <3>1. dir.data \in DataDb /\ dir.system \in SystemDb /\ dir \in DataDir /\ Whole(dir)
      BY <2>3, OpenDir, NoneAssumption DEF MigrateSystem
    <3>2. OnlySystem(dir', dir) /\ dir'.system = [dir.system EXCEPT !.schema = proc.version]
      BY <2>3, MigrateWrite
    <3>3. /\ dir'.born = dir.born /\ dir'.pre = dir.pre /\ dir'.data = dir.data
          /\ dir'.system.schema = proc.version /\ dir'.system.events = dir.system.events
      BY <3>1, <3>2 DEF SystemDb, OnlySystem
    <3>4. PICK copy \in dir.pre : Current(copy, dir)
      BY <2>3 DEF MigrateSystem
    <3>5. Current(copy, dir')
      BY <3>3, <3>4 DEF Current, Original
    <3>6. dir'.born[1] <= dir'.system.schema /\ dir'.born[2] <= dir'.data.schema
      <4>1. dir.system.schema <= proc.version /\ proc.version \in Nat
        BY <2>3 DEF MigrateSystem, PlacesOK, DirPlaces, Opening, Versions
      <4>2. dir.born[1] \in Nat /\ dir.system.schema \in Nat
        BY <3>1 DEF DataDir, SystemDb
      <4>3. dir.born[1] <= dir.system.schema /\ dir.born[2] <= dir.data.schema
        BY <3>1 DEF Explained
      <4> QED BY <3>3, <4>1, <4>2, <4>3
    <3>7. Explained(dir')
      BY <3>3, <3>4, <3>5, <3>6 DEF Explained, Current
    <3> QED BY <2>0, <3>3, <3>4, <3>5, <3>7
  <2>4. CASE MigrateData
    <3>1. dir.data \in DataDb /\ dir.system \in SystemDb /\ dir \in DataDir /\ Whole(dir)
      BY <2>4, OpenDir, NoneAssumption DEF MigrateData
    <3>2. OnlyData(dir', dir) /\ dir'.data = [dir.data EXCEPT !.schema = proc.version]
      BY <2>4, MigrateWrite
    <3>3. /\ dir'.born = dir.born /\ dir'.pre = dir.pre /\ dir'.system = dir.system
          /\ dir'.data.schema = proc.version
      BY <3>1, <3>2 DEF DataDb, OnlyData
    <3>4. PICK copy \in dir.pre : Current(copy, dir)
      BY <2>4 DEF MigrateData
    <3>5. Current(copy, dir')
      BY <3>3, <3>4 DEF Current, Original
    <3>6. dir'.born[1] <= dir'.system.schema /\ dir'.born[2] <= dir'.data.schema
      <4>1. dir.data.schema <= proc.version /\ proc.version \in Nat
        BY <2>4 DEF MigrateData, PlacesOK, DirPlaces, Opening, Versions
      <4>2. dir.born[2] \in Nat /\ dir.data.schema \in Nat
        BY <3>1 DEF DataDir, DataDb
      <4>3. dir.born[1] <= dir.system.schema /\ dir.born[2] <= dir.data.schema
        BY <3>1 DEF Explained
      <4> QED BY <3>3, <4>1, <4>2, <4>3
    <3>7. Explained(dir')
      BY <3>3, <3>4, <3>5, <3>6 DEF Explained, Current
    <3> QED BY <2>0, <3>3, <3>4, <3>5, <3>7
  <2>5. CASE Commit
    <3>1. dir.data \in DataDb /\ dir.system \in SystemDb /\ dir \in DataDir /\ Whole(dir)
      BY <2>5, OpenDir, NoneAssumption DEF Commit, Serving
    <3>2. OnlySystem(dir', dir) /\ dir'.system = [dir.system EXCEPT !.events = dir.system.events + 1]
      BY <2>5, CommitWrite
    <3>3. /\ dir'.born = dir.born /\ dir'.pre = dir.pre /\ dir'.system.schema = dir.system.schema /\ dir'.data = dir.data
          /\ dir.system.schema = dir.data.schema
      BY <2>5, <3>1, <3>2 DEF SystemDb, OnlySystem, Commit, Serving, PlacesOK, DirPlaces
    <3>4. Explained(dir')
      BY <3>1, <3>3 DEF Explained, Original, Schemas
    <3>5. proc'.pc \notin {"migrating_system", "migrating_data"}
      BY <2>5 DEF Commit, Serving
    <3> QED BY <2>0, <3>4, <3>5
  <2>6. CASE Project
    <3>1. dir.data \in DataDb /\ dir.system \in SystemDb /\ dir \in DataDir /\ Whole(dir)
      BY <2>6, OpenDir, NoneAssumption DEF Project, Serving
    <3>2. OnlyData(dir', dir) /\ dir'.data.schema = dir.data.schema
      <4> DEFINE n == dir.system.delivered + 1
      <4>1. n \in Nat
        BY <3>1 DEF SystemDb
      <4>2. OnlyData(dir', dir) /\ dir'.data = WithEvent(dir.data, n)
        BY <2>6, ProjectWrite
      <4> HIDE DEF n
      <4> QED BY <3>1, <4>1, <4>2, EventWrite
    <3>3. SameHistory(dir', dir)
      BY <3>2 DEF OnlyData, SameHistory
    <3>4. Explained(dir')
      BY <3>1, <3>3, HistoryKept
    <3>5. proc'.pc \notin {"migrating_system", "migrating_data"}
      BY <2>6, NoneAssumption DEF Project, Serving, TypesOK, ProcessTypeOK, PlacesOK, RunPlaces, Serving
    <3> QED BY <2>0, <3>4, <3>5
  <2>7. CASE Acknowledge
    <3>1. dir.data \in DataDb /\ dir.system \in SystemDb /\ dir \in DataDir /\ Whole(dir)
      BY <2>7, OpenDir, NoneAssumption DEF Acknowledge, PlacesOK, RunPlaces, Serving
    <3>2. dir' = dir \/ (OnlySystem(dir', dir) /\ \E x : dir'.system = [dir.system EXCEPT !.delivered = x])
      BY <2>7, AcknowledgeWrite
    <3>3. SameHistory(dir', dir)
      BY <3>1, <3>2 DEF OnlySystem, SystemDb, SameHistory
    <3>4. Explained(dir')
      BY <3>1, <3>3, HistoryKept
    <3>5. proc'.pc \notin {"migrating_system", "migrating_data"}
      BY <2>7, NoneAssumption DEF Acknowledge, PlacesOK, RunPlaces, Serving, TypesOK, ProcessTypeOK, PlacesOK, RunPlaces, Serving
    <3> QED BY <2>0, <3>4, <3>5
  <2>8. CASE RetainData
    <3>1. dir.data \in DataDb /\ dir.system \in SystemDb /\ dir \in DataDir /\ Whole(dir)
      BY <2>8, OpenDir, NoneAssumption DEF RetainData, PlacesOK, RunPlaces, Serving
    <3>2. lock.cutoff \in Nat
      BY DEF TypesOK, ProcessTypeOK
    <3>3. SameHistory(dir', dir)
      BY <2>8, <3>1, <3>2, RetainWrite, TrimWrite DEF OnlyData, SameHistory
    <3>4. Explained(dir')
      BY <3>1, <3>3, HistoryKept
    <3>5. proc'.pc \notin {"migrating_system", "migrating_data"}
      BY <2>8, NoneAssumption DEF RetainData, PlacesOK, RunPlaces, Serving, TypesOK, ProcessTypeOK, PlacesOK, RunPlaces, Serving
    <3> QED BY <2>0, <3>4, <3>5
  <2>9. CASE \E cutoff \in 1..MaxEvents : Retain(cutoff)
    <3>1. dir.data \in DataDb /\ dir.system \in SystemDb /\ dir \in DataDir /\ Whole(dir)
      BY <2>9, OpenDir, NoneAssumption DEF Retain, Serving
    <3>2. (OnlySystem(dir', dir) /\ \E x : dir'.system = [dir.system EXCEPT !.erased = x])
      BY <2>9, RetainWrite
    <3>3. SameHistory(dir', dir)
      BY <3>1, <3>2 DEF OnlySystem, SystemDb, SameHistory
    <3>4. Explained(dir')
      BY <3>1, <3>3, HistoryKept
    <3>5. proc'.pc \notin {"migrating_system", "migrating_data"}
      BY <2>9, NoneAssumption DEF Retain, Serving, TypesOK, ProcessTypeOK, PlacesOK, RunPlaces, Serving
    <3> QED BY <2>0, <3>4, <3>5
  <2>10. CASE \E purpose \in {"migration", "backup", "update"} : RecordSystem(purpose)
    <3>1. dir.data \in DataDb /\ dir.system \in SystemDb /\ dir \in DataDir /\ Whole(dir)
      BY <2>10, OpenDir, NoneAssumption DEF RecordSystem, SnapshotWanted, Serving
    <3>2. (OnlySystem(dir', dir) /\ \E x : dir'.system = [dir.system EXCEPT !.generation = x])
      BY <2>10, RecordWrite
    <3>3. SameHistory(dir', dir)
      BY <3>1, <3>2 DEF OnlySystem, SystemDb, SameHistory
    <3>4. Explained(dir')
      BY <3>1, <3>3, HistoryKept
    <3>5. proc'.pc \notin {"migrating_system", "migrating_data"}
      BY <2>10, NoneAssumption DEF RecordSystem, SnapshotWanted, Serving, TypesOK, ProcessTypeOK, PlacesOK, RunPlaces, Serving
    <3> QED BY <2>0, <3>4, <3>5
  <2>11. CASE RecordData
    <3>1. dir.data \in DataDb /\ dir.system \in SystemDb /\ dir \in DataDir /\ Whole(dir)
      BY <2>11, OpenDir, NoneAssumption DEF RecordData, PlacesOK, RunPlaces, Serving
    <3>2. OnlyData(dir', dir) /\ \E x : dir'.data = [dir.data EXCEPT !.generation = x]
      BY <2>11, RecordWrite
    <3>3. SameHistory(dir', dir)
      BY <3>1, <3>2 DEF OnlyData, DataDb, SameHistory
    <3>4. Explained(dir')
      BY <3>1, <3>3, HistoryKept
    <3>5. proc'.pc \notin {"migrating_system", "migrating_data"}
      BY <2>11, NoneAssumption DEF RecordData, PlacesOK, RunPlaces, Serving, TypesOK, ProcessTypeOK, PlacesOK, RunPlaces, Serving
    <3> QED BY <2>0, <3>4, <3>5
  <2>12. CASE CopyData
    <3> QED BY <2>0, <2>12 DEF CopyData
  <2>13. CASE Publish
    <3>1. dir.data \in DataDb /\ dir.system \in SystemDb /\ dir \in DataDir /\ Whole(dir)
      BY <2>13, OpenDir, NoneAssumption DEF Publish, PlacesOK, RunPlaces, Serving
    <3>2. CASE snap.purpose # "migration"
      <4>1. dir' = dir /\ proc' = proc
        BY <2>13, <3>2 DEF Publish
      <4> QED BY <2>0, <4>1
    <3>3. CASE snap.purpose = "migration"
      <4>1. Pending(proc.version, dir)
        BY <2>13, <3>3, NoneAssumption DEF Publish, PlacesOK, DirPlaces, RunPlaces, Serving
      <4>2. PICK copy \in dir'.pre : Current(copy, dir)
        BY <2>13, <3>3, <4>1, PublishedIsCurrent DEF MigrationOK
      <4>3. dir'.system = dir.system /\ dir'.data = dir.data /\ dir'.born = dir.born /\ dir.pre \subseteq dir'.pre
        BY <2>13, PublishWrite
      <4>4. Current(copy, dir')
        BY <4>2, <4>3 DEF Current, Original
      <4>5. Explained(dir')
        BY <3>1, <4>2, <4>3, <4>4 DEF Explained, Current
      <4> QED BY <2>0, <4>2, <4>4, <4>5
    <3> QED BY <3>2, <3>3
  <2>14. CASE StartBackup
    <3>1. dir.data \in DataDb /\ dir.system \in SystemDb /\ dir \in DataDir /\ Whole(dir)
      BY <2>14, OpenDir, NoneAssumption DEF StartBackup, Serving
    <3>2. (OnlySystem(dir', dir) /\ \E x : dir'.system = [dir.system EXCEPT !.jobs = x])
      BY <2>14, BackupWrite
    <3>3. SameHistory(dir', dir)
      BY <3>1, <3>2 DEF OnlySystem, SystemDb, SameHistory
    <3>4. Explained(dir')
      BY <3>1, <3>3, HistoryKept
    <3>5. proc'.pc \notin {"migrating_system", "migrating_data"}
      BY <2>14, NoneAssumption DEF StartBackup, Serving, TypesOK, ProcessTypeOK, PlacesOK, RunPlaces, Serving
    <3> QED BY <2>0, <3>4, <3>5
  <2>15. CASE WriteArchive
    BY <2>0, <2>15 DEF WriteArchive
  <2>16. CASE PruneArchives
    BY <2>0, <2>16 DEF PruneArchives
  <2>17. CASE FinishBackup
    <3>1. dir.data \in DataDb /\ dir.system \in SystemDb /\ dir \in DataDir /\ Whole(dir)
      BY <2>17, OpenDir, NoneAssumption DEF FinishBackup, PlacesOK, RunPlaces, Serving
    <3>2. (OnlySystem(dir', dir) /\ \E x : dir'.system = [dir.system EXCEPT !.jobs = x])
      BY <2>17, BackupWrite
    <3>3. SameHistory(dir', dir)
      BY <3>1, <3>2 DEF OnlySystem, SystemDb, SameHistory
    <3>4. Explained(dir')
      BY <3>1, <3>3, HistoryKept
    <3>5. proc'.pc \notin {"migrating_system", "migrating_data"}
      BY <2>17, NoneAssumption DEF FinishBackup, PlacesOK, RunPlaces, Serving, TypesOK, ProcessTypeOK, PlacesOK, RunPlaces, Serving
    <3> QED BY <2>0, <3>4, <3>5
  <2>18. CASE FailBackup
    <3>1. dir.data \in DataDb /\ dir.system \in SystemDb /\ dir \in DataDir /\ Whole(dir)
      BY <2>18, OpenDir, NoneAssumption DEF FailBackup, PlacesOK, RunPlaces, Serving
    <3>2. (OnlySystem(dir', dir) /\ \E x : dir'.system = [dir.system EXCEPT !.jobs = x])
      BY <2>18, BackupWrite
    <3>3. SameHistory(dir', dir)
      BY <3>1, <3>2 DEF OnlySystem, SystemDb, SameHistory
    <3>4. Explained(dir')
      BY <3>1, <3>3, HistoryKept
    <3>5. proc'.pc \notin {"migrating_system", "migrating_data"}
      BY <2>18, NoneAssumption DEF FailBackup, PlacesOK, RunPlaces, Serving, TypesOK, ProcessTypeOK, PlacesOK, RunPlaces, Serving
    <3> QED BY <2>0, <3>4, <3>5
  <2>19. CASE Recover
    <3>1. dir.data \in DataDb /\ dir.system \in SystemDb /\ dir \in DataDir /\ Whole(dir)
      BY <2>19, OpenDir, NoneAssumption DEF Recover
    <3>2. dir'.system = [dir.system EXCEPT !.jobs = RecoveredJobs(dir.system.jobs)]
      BY <2>19, RecoverWrite
    <3>3. SameHistory(dir', dir)
      BY <2>19, <3>1, <3>2, RecoverWrite DEF SystemDb, SameHistory
    <3>4. Explained(dir')
      BY <3>1, <3>3, HistoryKept
    <3>5. proc'.pc \notin {"migrating_system", "migrating_data"}
      BY <2>19, NoneAssumption DEF Recover, TypesOK, ProcessTypeOK, PlacesOK, RunPlaces, Serving
    <3> QED BY <2>0, <3>4, <3>5
  <2>20. CASE Stop
    BY <2>0, <2>20 DEF Stop, StopProcess, Down
  <2> QED BY <1>2, <2>1, <2>2, <2>3, <2>4, <2>5, <2>6, <2>7, <2>8, <2>9, <2>10, <2>11, <2>12, <2>13, <2>14, <2>15, <2>16, <2>17, <2>18, <2>19, <2>20 DEF RunServer, StorageSteps
<1>3. CASE RestoreArchive
  <2>1. PICK archive \in archives : RestoreBackup(exe, archive)
    BY <1>3 DEF RestoreArchive
  <2>2. archive.copy \in Snapshot /\ Paired(archive.copy) /\ CanOpen(exe, archive.copy) /\ exe \in Nat \ {0}
    BY <1>3, <2>1, CopiesByPlace DEF TypesOK, DiskTypeOK, ProcessTypeOK, PairsOK, RestoreArchive, RestoreBackup, Restorable
  <2>3. Explained(dir')
    BY <2>1, <2>2, RestoredExplained DEF RestoreBackup
  <2>4. proc' = proc /\ failed' = failed /\ proc.pc = "down"
    BY <1>3, <2>1 DEF RestoreArchive, RestoreBackup, files
  <2> QED BY <2>3, <2>4
<1>4. CASE \E good \in BOOLEAN : Resolve(good)
  BY <1>4 DEF Resolve, At, Newer, files, storage
<1>5. CASE Stage
  BY <1>5 DEF Stage, At, Goto, storage
<1>6. CASE Discard
  <2>1. dir' = dir /\ failed' = failed /\ (proc' = proc \/ proc' = Down)
    BY <1>6 DEF Discard, StopProcess, storage
  <2> QED BY <2>1 DEF Down
<1>7. CASE OpenForSnapshot
  BY <1>7 DEF OpenForSnapshot, files
<1>8. CASE TakeSnapshot
  BY <1>8 DEF TakeSnapshot, StopProcess, Goto, At, Down
<1>9. CASE SwapIn
  BY <1>9 DEF SwapIn, At, Goto, Fault, storage
<1>10. CASE RetainPrevious
  BY <1>10 DEF RetainPrevious, At, Goto, Fault, Kept, storage
<1>11. CASE Probe
  <2>1. dir' = dir \/ (dir'.data = None)
    BY <1>11 DEF Probe, Start
  <2>2. failed' = failed /\ proc'.pc \notin {"migrating_system", "migrating_data"}
    BY <1>11 DEF Probe, Start, Opened, files
  <2> QED BY <2>1, <2>2 DEF Whole
<1>12. CASE ProbeReady
  BY <1>12 DEF ProbeReady, At, Goto, StopProcess, Serving, Down, files
<1>13. CASE ProbeFails
  BY <1>13 DEF ProbeFails, At, Goto, StopProcess, Down, files
<1>14. CASE MoveExecutable
  BY <1>14 DEF MoveExecutable, At, Goto, Fault, Renaming, AfterRestore, RemoveStaged, storage
<1>15. CASE RenamePrevious
  BY <1>15 DEF RenamePrevious, At, Goto, Fault, AfterRestore, RemoveStaged, storage
<1>16. CASE MoveData
  <2>1. proc' = proc /\ proc.pc = "down"
    BY <1>16, Placed DEF MoveData
  <2> QED BY <1>16, <2>1 DEF MoveData, Whole
<1>17. CASE RestoreData
  <2>1. proc' = proc /\ proc.pc = "down"
    BY <1>17, Placed DEF RestoreData
  <2>2. CASE KeptData
    BY <2>1, <2>2 DEF KeptData, Whole
  <2>3. CASE RestoredData
    <3>1. before \in Snapshot /\ Paired(before) /\ CanOpen(1, before)
      BY <1>17, RestorableBefore, CopiesByPlace, NotNone DEF RestoreData, PairsOK, Restorable
    <3>2. Explained(dir')
      BY <2>3, <3>1, RestoredExplained DEF RestoredData
    <3> QED BY <2>1, <2>3, <3>2 DEF RestoredData
  <2> QED BY <1>17, <2>2, <2>3 DEF RestoreData
<1>18. CASE Crash
  <2>1. dir' = dir /\ failed' = failed /\ (proc' = [proc EXCEPT !.probe = FALSE] \/ proc' = Down)
    BY <1>18 DEF Crash, StopProcess, files
  <2>2. proc'.pc \in {proc.pc, "down"}
    BY <2>1 DEF Down, TypesOK, ProcessTypeOK
  <2> QED BY <2>1, <2>2
<1>19. CASE UNCHANGED vars
  BY <1>19 DEF vars, storage, files
<1> QED BY <1>1, <1>2, <1>3, <1>4, <1>5, <1>6, <1>7, <1>8, <1>9, <1>10, <1>11, <1>12, <1>13, <1>14, <1>15, <1>16, <1>17, <1>18, <1>19 DEF Next, Update

-----------------------------------------------------------------------------
(* Backup jobs. *)

LEMMA ReportedMonotone ==
  ASSUME NEW jobs \in Seq(BackupJob), NEW n \in Nat, NEW m \in Nat, n <= m,
         NEW A \in SUBSET [name : Nat, copy : Snapshot], NEW B \in SUBSET [name : Nat, copy : Snapshot],
         \A a \in A : \E b \in B : b.name >= a.name, Reported(jobs, n, A)
  PROVE  Reported(jobs, m, B)
<1> SUFFICES ASSUME NEW i \in DOMAIN jobs
             PROVE  jobs[i].name <= m /\ (jobs[i].state = "succeeded" => \E b \in B : b.name >= jobs[i].name)
  BY DEF Reported
<1>1. jobs[i].name \in Nat
  <2>1. jobs[i] \in BackupJob
    BY LenProperties, ElementOfSeq
  <2> QED BY <2>1 DEF BackupJob
<1>2. jobs[i].name <= n /\ (jobs[i].state = "succeeded" => \E a \in A : a.name >= jobs[i].name)
  BY DEF Reported
<1>3. ASSUME jobs[i].state = "succeeded" PROVE \E b \in B : b.name >= jobs[i].name
  <2>1. PICK a \in A : a.name >= jobs[i].name
    BY <1>2, <1>3
  <2>2. PICK b \in B : b.name >= a.name
    OBVIOUS
  <2>3. a.name \in Nat /\ b.name \in Nat
    OBVIOUS
  <2> QED BY <1>1, <2>1, <2>2, <2>3
<1> QED BY <1>1, <1>2, <1>3

LEMMA ReportedEmpty ==
  ASSUME NEW n, NEW A
  PROVE  Reported(<<>>, n, A)
  BY DEF Reported

\* pruneLocalBackups keeps the newest archive.
LEMMA NewestIsKept ==
  ASSUME TypesOK, JobsOK, NEW new \in archives, new.name = used.names
  PROVE  new \in Pruned(archives)
<1>1. \A a \in archives : a.name \in Nat /\ a.name <= used.names
  BY DEF TypesOK, DiskTypeOK, JobsOK, ReportsOK
<1>2. {b \in archives : b.name > new.name} = {}
  BY <1>1
<1>3. Cardinality({}) = 0
  BY FS_EmptySet
<1> QED BY <1>2, <1>3, StorageAssumption DEF Pruned

\* A directory or a copy whose jobs come from one that was there before.
FromBefore(d) == d = None \/ d.system.jobs = <<>> \/ \E e \in {dir, failed, before, snap.copy} : e # None /\ d.system.jobs = e.system.jobs
FromArchive(d) == \E a \in archives : d.system.jobs = a.copy.system.jobs

\* Steps that neither add nor remove archives or job names.
LEMMA ReportsFrame ==
  ASSUME ReportsOK, used'.names = used.names, archives' = archives,
         FromBefore(dir') \/ FromArchive(dir'), FromBefore(failed'), FromBefore(before'), FromBefore(snap'.copy)
  PROVE  ReportsOK'
<1>1. ASSUME NEW d, FromBefore(d) \/ FromArchive(d) PROVE d # None => Reported(d.system.jobs, used.names, archives)
  BY <1>1, ReportedEmpty DEF FromBefore, FromArchive, ReportsOK
<1>2. \A d \in {dir', failed', before', snap'.copy} : d # None => Reported(d.system.jobs, used.names, archives)
  BY <1>1
<1> QED BY <1>2 DEF ReportsOK

\* Steps that only add archives and names, or replace archives by newer ones.
LEMMA ReportsGrow ==
  ASSUME TypesOK, ReportsOK, DiskTypeOK', used'.names \in Nat, used.names <= used'.names,
         \A a \in archives : \E b \in archives' : b.name >= a.name,
         \A b \in archives' : b.name <= used'.names /\ (b \in archives \/ b.copy = snap.copy),
         UNCHANGED <<failed, before>>, snap'.copy \in {None, snap.copy},
         dir' = None \/ Reported(dir'.system.jobs, used'.names, archives')
  PROVE  ReportsOK'
<1>1. archives \in SUBSET [name : Nat, copy : Snapshot] /\ archives' \in SUBSET [name : Nat, copy : Snapshot] /\ used.names \in Nat
  BY DEF TypesOK, DiskTypeOK, ProcessTypeOK
<1>2. ASSUME NEW jobs \in Seq(BackupJob), Reported(jobs, used.names, archives) PROVE Reported(jobs, used'.names, archives')
  BY <1>1, <1>2, ReportedMonotone
<1>3. \A copy \in Snapshot : copy.system.jobs \in Seq(BackupJob)
  BY DEF Snapshot, SystemDb
<1>4. \A d \in DataDir : d.system.jobs \in Seq(BackupJob)
  BY DEF DataDir, SystemDb
<1>5. \A d \in {failed, before, snap.copy} : d # None => d.system.jobs \in Seq(BackupJob)
  BY <1>3, <1>4 DEF TypesOK, DiskTypeOK
<1>6. \A d \in {failed, before, snap.copy} : d # None => Reported(d.system.jobs, used'.names, archives')
  BY <1>2, <1>5 DEF ReportsOK
<1>7. \A b \in archives' : Reported(b.copy.system.jobs, used'.names, archives')
  <2> SUFFICES ASSUME NEW b \in archives' PROVE Reported(b.copy.system.jobs, used'.names, archives')
    OBVIOUS
  <2>1. b.copy \in Snapshot
    BY <1>1
  <2>2. CASE b \in archives
    BY <1>2, <1>3, <2>1, <2>2 DEF ReportsOK
  <2>3. CASE b.copy = snap.copy
    BY <1>6, <2>1, <2>3, NotNone
  <2> QED BY <2>2, <2>3
<1> QED BY <1>6, <1>7 DEF ReportsOK

LEMMA RestoredJobs ==
  ASSUME NEW copy \in Snapshot, NEW version
  PROVE  Restored(version, copy).system.jobs = copy.system.jobs
<1>1. copy.system \in SystemDb
  BY DEF Snapshot
<1> QED BY <1>1 DEF Restored, SystemDb

\* The reports of backups stay true in every database and in every copy that may be
\* restored.
LEMMA ReportsStep ==
  ASSUME TypesOK, DiskTypeOK', PlacesOK, PairsOK, JobsOK, [Next]_vars
  PROVE  ReportsOK'
<1>1. CASE Serve
  <2>1. dir' = dir \/ dir'.system.jobs = <<>>
    BY <1>1 DEF Serve, Start, NewSystem
  <2>2. UNCHANGED <<failed, before, snap, used, archives>>
    BY <1>1 DEF Serve, Start, files
  <2> QED BY <2>1, <2>2, ReportsFrame DEF JobsOK, FromBefore
<1>2. CASE RunServer
  <2>0. UNCHANGED <<exe, staged, aside, before, failed, update>>
    BY <1>2 DEF RunServer, files
  <2>1. CASE CreateData
    <3>1. dir.system \in SystemDb /\ dir # None
      BY <2>1, OpenDir, NoneAssumption DEF CreateData
    <3>3. dir'.system.jobs = dir.system.jobs
      BY <2>1, CreateWrite DEF OnlyData
    <3>4. FromBefore(dir') /\ FromBefore(failed') /\ FromBefore(before')
      BY <2>0, <3>1, <3>3 DEF FromBefore
    <3>5. FromBefore(snap'.copy)
      BY <2>1 DEF CreateData, FromBefore, TypesOK, DiskTypeOK, NoSnapshot
    <3>6. used'.names = used.names /\ archives' = archives
      BY <2>1 DEF CreateData, TypesOK, ProcessTypeOK
    <3> QED BY <3>4, <3>5, <3>6, ReportsFrame DEF JobsOK
  <2>2. CASE CreateFails
    <3>1. UNCHANGED <<snap, used, archives>> /\ dir' = None
      BY <2>2 DEF CreateFails
    <3> QED BY <2>0, <3>1, ReportsFrame DEF JobsOK, FromBefore
  <2>3. CASE MigrateSystem
    <3>1. dir.system \in SystemDb /\ dir # None
      BY <2>3, OpenDir, NoneAssumption DEF MigrateSystem
    <3>2. (OnlySystem(dir', dir) /\ \E x : dir'.system = [dir.system EXCEPT !.schema = x])
      BY <2>3, MigrateWrite
    <3>3. dir'.system.jobs = dir.system.jobs
      BY <3>1, <3>2 DEF SystemDb
    <3>4. FromBefore(dir') /\ FromBefore(failed') /\ FromBefore(before')
      BY <2>0, <3>1, <3>3 DEF FromBefore
    <3>5. FromBefore(snap'.copy)
      BY <2>3 DEF MigrateSystem, FromBefore, TypesOK, DiskTypeOK, NoSnapshot
    <3>6. used'.names = used.names /\ archives' = archives
      BY <2>3 DEF MigrateSystem, TypesOK, ProcessTypeOK
    <3> QED BY <3>4, <3>5, <3>6, ReportsFrame DEF JobsOK
  <2>4. CASE MigrateData
    <3>1. dir.system \in SystemDb /\ dir # None
      BY <2>4, OpenDir, NoneAssumption DEF MigrateData
    <3>3. dir'.system.jobs = dir.system.jobs
      BY <2>4, MigrateWrite DEF OnlyData
    <3>4. FromBefore(dir') /\ FromBefore(failed') /\ FromBefore(before')
      BY <2>0, <3>1, <3>3 DEF FromBefore
    <3>5. FromBefore(snap'.copy)
      BY <2>4 DEF MigrateData, FromBefore, TypesOK, DiskTypeOK, NoSnapshot
    <3>6. used'.names = used.names /\ archives' = archives
      BY <2>4 DEF MigrateData, TypesOK, ProcessTypeOK
    <3> QED BY <3>4, <3>5, <3>6, ReportsFrame DEF JobsOK
  <2>5. CASE Commit
    <3>1. dir.system \in SystemDb /\ dir # None
      BY <2>5, OpenDir, NoneAssumption DEF Commit, Serving
    <3>2. (OnlySystem(dir', dir) /\ \E x : dir'.system = [dir.system EXCEPT !.events = x])
      BY <2>5, CommitWrite
    <3>3. dir'.system.jobs = dir.system.jobs
      BY <3>1, <3>2 DEF SystemDb
    <3>4. FromBefore(dir') /\ FromBefore(failed') /\ FromBefore(before')
      BY <2>0, <3>1, <3>3 DEF FromBefore
    <3>5. FromBefore(snap'.copy)
      BY <2>5 DEF Commit, FromBefore, TypesOK, DiskTypeOK, NoSnapshot
    <3>6. used'.names = used.names /\ archives' = archives
      BY <2>5 DEF Commit, TypesOK, ProcessTypeOK
    <3> QED BY <3>4, <3>5, <3>6, ReportsFrame DEF JobsOK
  <2>6. CASE Project
    <3>1. dir.system \in SystemDb /\ dir # None
      BY <2>6, OpenDir, NoneAssumption DEF Project, Serving
    <3>3. dir'.system.jobs = dir.system.jobs
      BY <2>6, ProjectWrite DEF OnlyData
    <3>4. FromBefore(dir') /\ FromBefore(failed') /\ FromBefore(before')
      BY <2>0, <3>1, <3>3 DEF FromBefore
    <3>5. FromBefore(snap'.copy)
      BY <2>6 DEF Project, FromBefore, TypesOK, DiskTypeOK, NoSnapshot
    <3>6. used'.names = used.names /\ archives' = archives
      BY <2>6 DEF Project, TypesOK, ProcessTypeOK
    <3> QED BY <3>4, <3>5, <3>6, ReportsFrame DEF JobsOK
  <2>7. CASE Acknowledge
    <3>1. dir.system \in SystemDb /\ dir # None
      BY <2>7, OpenDir, NoneAssumption DEF Acknowledge, PlacesOK, RunPlaces, Serving
    <3>2. dir' = dir \/ (OnlySystem(dir', dir) /\ \E x : dir'.system = [dir.system EXCEPT !.delivered = x])
      BY <2>7, AcknowledgeWrite
    <3>3. dir'.system.jobs = dir.system.jobs
      BY <3>1, <3>2 DEF SystemDb
    <3>4. FromBefore(dir') /\ FromBefore(failed') /\ FromBefore(before')
      BY <2>0, <3>1, <3>3 DEF FromBefore
    <3>5. FromBefore(snap'.copy)
      BY <2>7 DEF Acknowledge, FromBefore, TypesOK, DiskTypeOK, NoSnapshot
    <3>6. used'.names = used.names /\ archives' = archives
      BY <2>7 DEF Acknowledge, TypesOK, ProcessTypeOK
    <3> QED BY <3>4, <3>5, <3>6, ReportsFrame DEF JobsOK
  <2>8. CASE RetainData
    <3>1. dir.system \in SystemDb /\ dir # None
      BY <2>8, OpenDir, NoneAssumption DEF RetainData, PlacesOK, RunPlaces, Serving
    <3>3. dir'.system.jobs = dir.system.jobs
      BY <2>8, RetainWrite DEF OnlyData
    <3>4. FromBefore(dir') /\ FromBefore(failed') /\ FromBefore(before')
      BY <2>0, <3>1, <3>3 DEF FromBefore
    <3>5. FromBefore(snap'.copy)
      BY <2>8 DEF RetainData, FromBefore, TypesOK, DiskTypeOK, NoSnapshot
    <3>6. used'.names = used.names /\ archives' = archives
      BY <2>8 DEF RetainData, TypesOK, ProcessTypeOK
    <3> QED BY <3>4, <3>5, <3>6, ReportsFrame DEF JobsOK
  <2>9. CASE \E cutoff \in 1..MaxEvents : Retain(cutoff)
    <3>1. dir.system \in SystemDb /\ dir # None
      BY <2>9, OpenDir, NoneAssumption DEF Retain, Serving
    <3>2. (OnlySystem(dir', dir) /\ \E x : dir'.system = [dir.system EXCEPT !.erased = x])
      BY <2>9, RetainWrite
    <3>3. dir'.system.jobs = dir.system.jobs
      BY <3>1, <3>2 DEF SystemDb
    <3>4. FromBefore(dir') /\ FromBefore(failed') /\ FromBefore(before')
      BY <2>0, <3>1, <3>3 DEF FromBefore
    <3>5. FromBefore(snap'.copy)
      BY <2>9 DEF Retain, FromBefore, TypesOK, DiskTypeOK, NoSnapshot
    <3>6. used'.names = used.names /\ archives' = archives
      BY <2>9 DEF Retain, TypesOK, ProcessTypeOK
    <3> QED BY <3>4, <3>5, <3>6, ReportsFrame DEF JobsOK
  <2>10. CASE \E purpose \in {"migration", "backup", "update"} : RecordSystem(purpose)
    <3>1. dir.system \in SystemDb /\ dir # None
      BY <2>10, OpenDir, NoneAssumption DEF RecordSystem, SnapshotWanted, Serving
    <3>2. (OnlySystem(dir', dir) /\ \E x : dir'.system = [dir.system EXCEPT !.generation = x])
      BY <2>10, RecordWrite
    <3>3. dir'.system.jobs = dir.system.jobs
      BY <3>1, <3>2 DEF SystemDb
    <3>4. FromBefore(dir') /\ FromBefore(failed') /\ FromBefore(before')
      BY <2>0, <3>1, <3>3 DEF FromBefore
    <3>5. FromBefore(snap'.copy)
      BY <2>10 DEF RecordSystem, FromBefore, TypesOK, DiskTypeOK, NoSnapshot
    <3>6. used'.names = used.names /\ archives' = archives
      BY <2>10 DEF RecordSystem, TypesOK, ProcessTypeOK
    <3> QED BY <3>4, <3>5, <3>6, ReportsFrame DEF JobsOK
  <2>11. CASE RecordData
    <3>1. dir.system \in SystemDb /\ dir # None
      BY <2>11, OpenDir, NoneAssumption DEF RecordData, PlacesOK, RunPlaces, Serving
    <3>3. dir'.system.jobs = dir.system.jobs
      BY <2>11, RecordWrite DEF OnlyData
    <3>4. FromBefore(dir') /\ FromBefore(failed') /\ FromBefore(before')
      BY <2>0, <3>1, <3>3 DEF FromBefore
    <3>5. FromBefore(snap'.copy)
      BY <2>11 DEF RecordData, FromBefore, TypesOK, DiskTypeOK, NoSnapshot
    <3>6. used'.names = used.names /\ archives' = archives
      BY <2>11 DEF RecordData, TypesOK, ProcessTypeOK
    <3> QED BY <3>4, <3>5, <3>6, ReportsFrame DEF JobsOK
  <2>12. CASE CopyData
    <3>1. UNCHANGED <<dir, used, archives>> /\ snap'.copy = snap.copy
      BY <2>12 DEF CopyData, TypesOK, DiskTypeOK
    <3> QED BY <2>0, <3>1, ReportsFrame DEF JobsOK, FromBefore
  <2>13. CASE Publish
    <3>1. dir # None /\ dir'.system = dir.system
      BY <2>13, CopiedType, PublishWrite, NotNone DEF Publish
    <3>2. snap'.copy = None \/ snap'.copy.system = dir.system
      <4>1. Copied.system = dir.system
        BY DEF Copied
      <4> QED BY <2>13, <4>1 DEF Publish, NoSnapshot, TypesOK, DiskTypeOK
    <3>3. UNCHANGED <<used, archives>>
      BY <2>13 DEF Publish
    <3> QED BY <2>0, <3>1, <3>2, <3>3, ReportsFrame DEF JobsOK, FromBefore
  <2>14. CASE StartBackup
    <3>1. dir \in DataDir /\ dir.system \in SystemDb /\ dir.system.jobs \in Seq(BackupJob) /\ dir # None
      BY <2>14, OpenDir DEF StartBackup, Serving, SystemDb
    <3> DEFINE new == [name |-> used.names + 1, state |-> "running"]
    <3>2. used.names \in Nat /\ used'.names = used.names + 1 /\ UNCHANGED <<archives, snap>>
      BY <2>14 DEF StartBackup, TypesOK, ProcessTypeOK
    <3>3. dir'.system.jobs = Append(dir.system.jobs, new)
      BY <2>14, <3>1, BackupWrite DEF SystemDb
    <3>4. Reported(dir.system.jobs, used'.names, archives)
      <4>1. Reported(dir.system.jobs, used.names, archives)
        BY <3>1 DEF JobsOK, ReportsOK
      <4>2. archives \in SUBSET [name : Nat, copy : Snapshot]
        BY DEF TypesOK, DiskTypeOK
      <4>3. \A a \in archives : a.name >= a.name
        BY <4>2
      <4>4. used'.names \in Nat /\ used.names <= used'.names
        BY <3>2
      <4> QED BY <3>1, <3>2, <4>1, <4>2, <4>3, <4>4, ReportedMonotone
    <3>5. new \in BackupJob /\ new.state # "succeeded" /\ new.name <= used'.names
      BY <3>2 DEF BackupJob
    <3> HIDE DEF new
    <3>6. Reported(dir'.system.jobs, used'.names, archives')
      <4>1. /\ DOMAIN dir.system.jobs = 1..Len(dir.system.jobs) /\ Len(dir.system.jobs) \in Nat
            /\ DOMAIN dir'.system.jobs = 1..(Len(dir.system.jobs) + 1)
            /\ \A i \in 1..Len(dir.system.jobs) : dir'.system.jobs[i] = dir.system.jobs[i]
            /\ dir'.system.jobs[Len(dir.system.jobs) + 1] = new
        BY <3>1, <3>3, <3>5, AppendProperties, LenProperties
      <4>2. \A i \in DOMAIN dir'.system.jobs : i \in DOMAIN dir.system.jobs \/ i = Len(dir.system.jobs) + 1
        BY <4>1
      <4> QED BY <3>2, <3>4, <3>5, <4>1, <4>2 DEF Reported
    <3>7. \A a \in archives : a.name \in Nat /\ a.name <= used.names
      BY DEF TypesOK, DiskTypeOK, JobsOK, ReportsOK
    <3>8. /\ \A a \in archives : \E b \in archives' : b.name >= a.name
          /\ \A b \in archives' : b.name <= used'.names /\ b \in archives
          /\ used'.names \in Nat /\ used.names <= used'.names
      BY <3>2, <3>7
    <3> QED BY <2>0, <3>2, <3>6, <3>8, ReportsGrow DEF JobsOK
  <2>15. CASE WriteArchive
    <3> DEFINE new == [name |-> backup.name, copy |-> snap.copy]
    <3>1. archives' = archives \cup {new} /\ UNCHANGED <<dir, used>> /\ snap'.copy = None
      BY <2>15 DEF WriteArchive, NoSnapshot
    <3>2. used.names \in Nat /\ new.name = used.names /\ new.copy = snap.copy
      <4>1. backup.pc # "idle"
        BY <2>15, NoneAssumption DEF WriteArchive, PlacesOK, RunPlaces
      <4> QED BY <4>1 DEF TypesOK, ProcessTypeOK, JobsOK, RunningOK
    <3> HIDE DEF new
    <3>3. \A a \in archives : a.name \in Nat /\ a.name <= used.names
      BY DEF TypesOK, DiskTypeOK, JobsOK, ReportsOK
    <3>4. /\ \A a \in archives : \E b \in archives' : b.name >= a.name
          /\ \A b \in archives' : b.name <= used'.names /\ (b \in archives \/ b.copy = snap.copy)
          /\ used'.names \in Nat /\ used.names <= used'.names
      BY <3>1, <3>2, <3>3
    <3>5. dir' = None \/ Reported(dir'.system.jobs, used'.names, archives')
      <4>1. CASE dir # None
        <5>1. dir.system.jobs \in Seq(BackupJob)
          BY <4>1 DEF TypesOK, DiskTypeOK, DataDir, SystemDb
        <5>2. archives \in SUBSET [name : Nat, copy : Snapshot] /\ archives' \in SUBSET [name : Nat, copy : Snapshot]
          BY DEF TypesOK, DiskTypeOK
        <5>3. Reported(dir.system.jobs, used.names, archives)
          BY <4>1 DEF JobsOK, ReportsOK
        <5> QED BY <3>1, <3>2, <3>4, <5>1, <5>2, <5>3, ReportedMonotone
      <4> QED BY <3>1, <4>1
    <3> QED BY <2>0, <3>1, <3>4, <3>5, ReportsGrow DEF JobsOK
  <2>16. CASE PruneArchives
    <3>1. archives' = Pruned(archives) /\ UNCHANGED <<dir, used, snap>>
      BY <2>16 DEF PruneArchives
    <3>2. PICK new \in archives : new.name = used.names
      BY <2>16 DEF PruneArchives, JobsOK, RunningOK
    <3>3. \A a \in archives : a.name \in Nat /\ a.name <= used.names
      BY DEF TypesOK, DiskTypeOK, JobsOK, ReportsOK
    <3>4. new \in archives'
      BY <3>1, <3>2, NewestIsKept
    <3>5. /\ \A a \in archives : \E b \in archives' : b.name >= a.name
          /\ \A b \in archives' : b.name <= used'.names /\ b \in archives
          /\ used'.names \in Nat /\ used.names <= used'.names
      BY <3>1, <3>2, <3>3, <3>4 DEF Pruned
    <3>6. dir' = None \/ Reported(dir'.system.jobs, used'.names, archives')
      <4>1. CASE dir # None
        <5>1. dir.system.jobs \in Seq(BackupJob)
          BY <4>1 DEF TypesOK, DiskTypeOK, DataDir, SystemDb
        <5>2. archives \in SUBSET [name : Nat, copy : Snapshot] /\ archives' \in SUBSET [name : Nat, copy : Snapshot]
          BY DEF TypesOK, DiskTypeOK
        <5>3. Reported(dir.system.jobs, used.names, archives)
          BY <4>1 DEF JobsOK, ReportsOK
        <5> QED BY <3>1, <3>2, <3>3, <3>5, <5>1, <5>2, <5>3, ReportedMonotone
      <4> QED BY <3>1, <4>1
    <3> QED BY <2>0, <3>1, <3>5, <3>6, ReportsGrow DEF JobsOK
  <2>17. CASE FinishBackup
    <3>1. dir \in DataDir /\ dir.system \in SystemDb /\ dir.system.jobs \in Seq(BackupJob) /\ dir # None
      BY <2>17, OpenDir DEF FinishBackup, PlacesOK, RunPlaces, Serving, SystemDb
    <3>2. dir'.system.jobs = Settled(dir.system.jobs, backup.name, "succeeded")
      BY <2>17, <3>1, BackupWrite DEF SystemDb
    <3>3. Reported(dir'.system.jobs, used.names, archives)
      <4>1. Reported(dir.system.jobs, used.names, archives)
        BY <3>1 DEF JobsOK, ReportsOK
      <4>2. PICK a \in archives : a.name = backup.name
        BY <2>17 DEF FinishBackup, JobsOK, RunningOK
      <4>3. backup.name \in Nat
        BY DEF TypesOK, ProcessTypeOK
      <4>4. \A i \in DOMAIN dir.system.jobs :
              /\ dir'.system.jobs[i].name = dir.system.jobs[i].name
              /\ dir'.system.jobs[i].state = IF dir.system.jobs[i].name = backup.name /\ dir.system.jobs[i].state = "running"
                                             THEN "succeeded" ELSE dir.system.jobs[i].state
        BY <3>1, <3>2, SettledRows
      <4>5. DOMAIN dir'.system.jobs = DOMAIN dir.system.jobs
        BY <3>1, <3>2, SettledRows
      <4> QED BY <4>1, <4>2, <4>3, <4>4, <4>5 DEF Reported
    <3>4. UNCHANGED <<used, archives>> /\ snap'.copy \in {snap.copy, None}
      BY <2>17 DEF FinishBackup, NoSnapshot
    <3> QED BY <2>0, <3>3, <3>4 DEF JobsOK, ReportsOK
  <2>18. CASE FailBackup
    <3>1. dir \in DataDir /\ dir.system \in SystemDb /\ dir.system.jobs \in Seq(BackupJob) /\ dir # None
      BY <2>18, OpenDir DEF FailBackup, PlacesOK, RunPlaces, Serving, SystemDb
    <3>2. dir'.system.jobs = Settled(dir.system.jobs, backup.name, "failed")
      BY <2>18, <3>1, BackupWrite DEF SystemDb
    <3>3. Reported(dir'.system.jobs, used.names, archives)
      <4>1. Reported(dir.system.jobs, used.names, archives)
        BY <3>1 DEF JobsOK, ReportsOK
      <4>2. DOMAIN dir'.system.jobs = DOMAIN dir.system.jobs
        BY <3>1, <3>2, SettledRows
      <4>3. \A i \in DOMAIN dir.system.jobs :
              /\ dir'.system.jobs[i].name = dir.system.jobs[i].name
              /\ dir'.system.jobs[i].state = "succeeded" => dir.system.jobs[i].state = "succeeded"
        BY <3>1, <3>2, SettledRows
      <4> QED BY <4>1, <4>2, <4>3 DEF Reported
    <3>4. UNCHANGED <<used, archives>> /\ snap'.copy \in {snap.copy, None}
      BY <2>18 DEF FailBackup, NoSnapshot
    <3> QED BY <2>0, <3>3, <3>4 DEF JobsOK, ReportsOK
  <2>19. CASE Recover
    <3>1. dir \in DataDir /\ dir.system \in SystemDb /\ dir.system.jobs \in Seq(BackupJob) /\ dir # None
      BY <2>19, OpenDir DEF Recover, SystemDb
    <3>2. dir'.system.jobs = RecoveredJobs(dir.system.jobs)
      BY <2>19, <3>1, RecoverWrite DEF SystemDb
    <3>3. Reported(dir'.system.jobs, used.names, archives)
      <4>1. Reported(dir.system.jobs, used.names, archives)
        BY <3>1 DEF JobsOK, ReportsOK
      <4>2. /\ DOMAIN dir'.system.jobs = DOMAIN dir.system.jobs
            /\ \A i \in DOMAIN dir.system.jobs :
                 /\ dir'.system.jobs[i].name = dir.system.jobs[i].name
                 /\ dir'.system.jobs[i].state = "succeeded" => dir.system.jobs[i].state = "succeeded"
        BY <3>1, <3>2, RecoveredRows
      <4> QED BY <4>1, <4>2 DEF Reported
    <3> QED BY <2>0, <2>19, <3>3 DEF Recover, JobsOK, ReportsOK
  <2>20. CASE Stop
    <3> QED BY <2>20, <2>0, ReportsFrame DEF Stop, StopProcess, NoSnapshot, JobsOK, FromBefore
  <2> QED BY <1>2, <2>1, <2>2, <2>3, <2>4, <2>5, <2>6, <2>7, <2>8, <2>9, <2>10, <2>11, <2>12, <2>13, <2>14, <2>15, <2>16, <2>17, <2>18, <2>19, <2>20 DEF RunServer, StorageSteps
<1>3. CASE RestoreArchive
  <2>1. PICK archive \in archives : dir' = Restored(exe, archive.copy)
    BY <1>3 DEF RestoreArchive, RestoreBackup
  <2>2. archive.copy \in Snapshot
    BY DEF TypesOK, DiskTypeOK
  <2>3. FromArchive(dir')
    BY <2>1, <2>2, RestoredJobs DEF FromArchive
  <2>4. UNCHANGED <<failed, before, snap, used, archives>>
    BY <1>3 DEF RestoreArchive, RestoreBackup, files
  <2> QED BY <2>3, <2>4, ReportsFrame DEF JobsOK, FromBefore
<1>4. CASE \E good \in BOOLEAN : Resolve(good)
  <2> QED BY <1>4, ReportsFrame DEF Resolve, storage, files, JobsOK, FromBefore
<1>5. CASE Stage
  <2> QED BY <1>5, ReportsFrame DEF Stage, storage, JobsOK, FromBefore
<1>6. CASE Discard
  <2> QED BY <1>6, ReportsFrame DEF Discard, storage, StopProcess, NoSnapshot, JobsOK, FromBefore
<1>7. CASE OpenForSnapshot
  <2> QED BY <1>7, ReportsFrame DEF OpenForSnapshot, files, JobsOK, FromBefore
<1>8. CASE TakeSnapshot
  <2> QED BY <1>8, ReportsFrame DEF TakeSnapshot, StopProcess, NoSnapshot, JobsOK, FromBefore
<1>9. CASE SwapIn
  <2> QED BY <1>9, ReportsFrame DEF SwapIn, storage, JobsOK, FromBefore
<1>10. CASE RetainPrevious
  <2> QED BY <1>10, ReportsFrame DEF RetainPrevious, storage, JobsOK, FromBefore
<1>11. CASE Probe
  <2>1. dir' = dir \/ dir'.system.jobs = <<>>
    BY <1>11 DEF Probe, Start, NewSystem
  <2>2. UNCHANGED <<failed, before, snap, used, archives>>
    BY <1>11 DEF Probe, Start, files
  <2> QED BY <2>1, <2>2, ReportsFrame DEF JobsOK, FromBefore
<1>12. CASE ProbeReady
  <2> QED BY <1>12, ReportsFrame DEF ProbeReady, files, StopProcess, NoSnapshot, JobsOK, FromBefore
<1>13. CASE ProbeFails
  <2> QED BY <1>13, ReportsFrame DEF ProbeFails, files, StopProcess, NoSnapshot, JobsOK, FromBefore
<1>14. CASE MoveExecutable
  <2> QED BY <1>14, ReportsFrame DEF MoveExecutable, storage, JobsOK, FromBefore
<1>15. CASE RenamePrevious
  <2> QED BY <1>15, ReportsFrame DEF RenamePrevious, storage, JobsOK, FromBefore
<1>16. CASE MoveData
  <2> QED BY <1>16, ReportsFrame DEF MoveData, JobsOK, FromBefore
<1>17. CASE RestoreData
  <2>1. UNCHANGED <<before, snap, used, archives>>
    BY <1>17 DEF RestoreData
  <2>2. CASE KeptData
    BY <2>1, <2>2, ReportsFrame DEF KeptData, JobsOK, FromBefore
  <2>3. CASE RestoredData
    <3>1. before \in Snapshot /\ before # None
      BY <1>17, RestorableBefore, NotNone DEF RestoreData
    <3>2. dir'.system.jobs = before.system.jobs
      BY <2>3, <3>1, RestoredJobs DEF RestoredData
    <3> QED BY <2>1, <2>3, <3>1, <3>2, ReportsFrame DEF RestoredData, JobsOK, FromBefore
  <2> QED BY <1>17, <2>2, <2>3 DEF RestoreData
<1>18. CASE Crash
  <2> QED BY <1>18, ReportsFrame DEF Crash, files, StopProcess, NoSnapshot, JobsOK, FromBefore
<1>19. CASE UNCHANGED vars
  BY <1>19 DEF vars, storage, files, JobsOK, ReportsOK
<1> QED BY <1>1, <1>2, <1>3, <1>4, <1>5, <1>6, <1>7, <1>8, <1>9, <1>10, <1>11, <1>12, <1>13, <1>14, <1>15, <1>16, <1>17, <1>18, <1>19 DEF Next, Update

\* Steps that change neither the rows of the jobs nor the backup under way.
LEMMA RunningFrame ==
  ASSUME RunningOK, used'.names = used.names, archives' = archives, backup' = backup,
         Serving' => Serving /\ dir'.system.jobs = dir.system.jobs
  PROVE  RunningOK'
  BY DEF RunningOK

\* Steps that end with no server and no backup.
LEMMA RunningStopped ==
  ASSUME proc'.pc # "serving", backup'.pc = "idle"
  PROVE  RunningOK'
  BY DEF RunningOK, Serving

\* A job that runs belongs to the backup under way, whose archive is kept.
LEMMA RunningStep ==
  ASSUME TypesOK, PlacesOK, PairsOK, JobsOK, ProbeOK, [Next]_vars
  PROVE  RunningOK'
<1>1. CASE Serve
  <2>1. proc'.pc # "serving" /\ backup' = backup /\ proc.pc = "down"
    BY <1>1 DEF Serve, Start, Opened
  <2> QED BY <2>1, RunningStopped DEF PlacesOK, RunPlaces, Serving
<1>2. CASE RunServer
  <2>0. UNCHANGED <<exe, staged, aside, before, failed, update>>
    BY <1>2 DEF RunServer, files
  <2>1. CASE CreateData
    <3>1. proc'.pc # "serving" /\ backup' = backup /\ backup.pc = "idle"
      BY <2>1 DEF CreateData, TypesOK, ProcessTypeOK, PlacesOK, RunPlaces, Serving
    <3> QED BY <3>1, RunningStopped
  <2>2. CASE CreateFails
    <3>1. proc'.pc # "serving" /\ backup' = backup /\ backup.pc = "idle"
      BY <2>2 DEF CreateFails, Down, PlacesOK, RunPlaces, Serving
    <3> QED BY <3>1, RunningStopped
  <2>3. CASE MigrateSystem
    <3>1. proc'.pc # "serving" /\ backup' = backup /\ backup.pc = "idle"
      BY <2>3 DEF MigrateSystem, TypesOK, ProcessTypeOK, PlacesOK, RunPlaces, Serving
    <3> QED BY <3>1, RunningStopped
  <2>4. CASE MigrateData
    <3>1. proc'.pc # "serving" /\ backup' = backup /\ backup.pc = "idle"
      BY <2>4 DEF MigrateData, TypesOK, ProcessTypeOK, PlacesOK, RunPlaces, Serving
    <3> QED BY <3>1, RunningStopped
  <2>5. CASE Commit
    <3>1. dir.system \in SystemDb
      BY <2>5, OpenDir, NoneAssumption DEF Commit, Serving
    <3>2. (OnlySystem(dir', dir) /\ \E x : dir'.system = [dir.system EXCEPT !.events = x])
      BY <2>5, CommitWrite
    <3>3. dir'.system.jobs = dir.system.jobs
      BY <3>1, <3>2 DEF SystemDb
    <3>4. used'.names = used.names /\ UNCHANGED <<archives, backup, proc>>
      BY <2>5 DEF Commit, TypesOK, ProcessTypeOK
    <3> QED BY <3>3, <3>4, RunningFrame DEF JobsOK, Serving
  <2>6. CASE Project
    <3>3. dir'.system.jobs = dir.system.jobs
      BY <2>6, ProjectWrite DEF OnlyData
    <3>4. used'.names = used.names /\ UNCHANGED <<archives, backup, proc>>
      BY <2>6 DEF Project, TypesOK, ProcessTypeOK
    <3> QED BY <3>3, <3>4, RunningFrame DEF JobsOK, Serving
  <2>7. CASE Acknowledge
    <3>1. dir.system \in SystemDb
      BY <2>7, OpenDir, NoneAssumption DEF Acknowledge, PlacesOK, RunPlaces, Serving
    <3>2. dir' = dir \/ (OnlySystem(dir', dir) /\ \E x : dir'.system = [dir.system EXCEPT !.delivered = x])
      BY <2>7, AcknowledgeWrite
    <3>3. dir'.system.jobs = dir.system.jobs
      BY <3>1, <3>2 DEF SystemDb
    <3>4. used'.names = used.names /\ UNCHANGED <<archives, backup, proc>>
      BY <2>7 DEF Acknowledge, TypesOK, ProcessTypeOK
    <3> QED BY <3>3, <3>4, RunningFrame DEF JobsOK, Serving
  <2>8. CASE RetainData
    <3>3. dir'.system.jobs = dir.system.jobs
      BY <2>8, RetainWrite DEF OnlyData
    <3>4. used'.names = used.names /\ UNCHANGED <<archives, backup, proc>>
      BY <2>8 DEF RetainData, TypesOK, ProcessTypeOK
    <3> QED BY <3>3, <3>4, RunningFrame DEF JobsOK, Serving
  <2>9. CASE \E cutoff \in 1..MaxEvents : Retain(cutoff)
    <3>1. dir.system \in SystemDb
      BY <2>9, OpenDir, NoneAssumption DEF Retain, Serving
    <3>2. (OnlySystem(dir', dir) /\ \E x : dir'.system = [dir.system EXCEPT !.erased = x])
      BY <2>9, RetainWrite
    <3>3. dir'.system.jobs = dir.system.jobs
      BY <3>1, <3>2 DEF SystemDb
    <3>4. used'.names = used.names /\ UNCHANGED <<archives, backup, proc>>
      BY <2>9 DEF Retain, TypesOK, ProcessTypeOK
    <3> QED BY <3>3, <3>4, RunningFrame DEF JobsOK, Serving
  <2>10. CASE \E purpose \in {"migration", "backup", "update"} : RecordSystem(purpose)
    <3>1. dir.system \in SystemDb
      BY <2>10, OpenDir, NoneAssumption DEF RecordSystem, SnapshotWanted, Serving
    <3>2. (OnlySystem(dir', dir) /\ \E x : dir'.system = [dir.system EXCEPT !.generation = x])
      BY <2>10, RecordWrite
    <3>3. dir'.system.jobs = dir.system.jobs
      BY <3>1, <3>2 DEF SystemDb
    <3>4. used'.names = used.names /\ UNCHANGED <<archives, backup, proc>>
      BY <2>10 DEF RecordSystem, TypesOK, ProcessTypeOK
    <3> QED BY <3>3, <3>4, RunningFrame DEF JobsOK, Serving
  <2>11. CASE RecordData
    <3>3. dir'.system.jobs = dir.system.jobs
      BY <2>11, RecordWrite DEF OnlyData
    <3>4. used'.names = used.names /\ UNCHANGED <<archives, backup, proc>>
      BY <2>11 DEF RecordData, TypesOK, ProcessTypeOK
    <3> QED BY <3>3, <3>4, RunningFrame DEF JobsOK, Serving
  <2>12. CASE CopyData
    <3> QED BY <2>0, <2>12, RunningFrame DEF CopyData, JobsOK, Serving
  <2>13. CASE Publish
    <3>1. dir'.system = dir.system
      BY <2>13, PublishWrite
    <3>2. UNCHANGED <<used, archives, backup>> /\ (proc' = proc \/ proc'.pc = "migrating_system")
      BY <2>13 DEF Publish, TypesOK, ProcessTypeOK
    <3> QED BY <3>1, <3>2, RunningFrame DEF JobsOK, Serving
  <2>14. CASE StartBackup
    <3>1. dir.system \in SystemDb /\ dir.system.jobs \in Seq(BackupJob) /\ Serving
      BY <2>14, OpenDir DEF StartBackup, Serving, SystemDb
    <3> DEFINE new == [name |-> used.names + 1, state |-> "running"]
    <3>2. /\ used'.names = used.names + 1 /\ backup'.name = used.names + 1 /\ backup'.pc = "started"
          /\ backup.pc = "idle" /\ new \in BackupJob /\ new.name = used.names + 1
      BY <2>14 DEF StartBackup, TypesOK, ProcessTypeOK, BackupJob
    <3>3. dir'.system.jobs = Append(dir.system.jobs, new)
      BY <2>14, <3>1, BackupWrite DEF SystemDb
    <3> HIDE DEF new
    <3>4. /\ DOMAIN dir.system.jobs = 1..Len(dir.system.jobs) /\ Len(dir.system.jobs) \in Nat
          /\ DOMAIN dir'.system.jobs = 1..(Len(dir.system.jobs) + 1)
          /\ \A i \in 1..Len(dir.system.jobs) : dir'.system.jobs[i] = dir.system.jobs[i]
          /\ dir'.system.jobs[Len(dir.system.jobs) + 1] = new
      BY <3>1, <3>2, <3>3, AppendProperties, LenProperties
    <3>5. \A i \in DOMAIN dir'.system.jobs : i \in DOMAIN dir.system.jobs \/ i = Len(dir.system.jobs) + 1
      BY <3>4
    <3>6. \A i \in DOMAIN dir.system.jobs : dir.system.jobs[i].state # "running"
      BY <3>1, <3>2 DEF JobsOK, RunningOK
    <3>7. \A i \in DOMAIN dir'.system.jobs : dir'.system.jobs[i].state = "running" => dir'.system.jobs[i].name = used.names + 1
      BY <3>2, <3>4, <3>5, <3>6
    <3> QED BY <3>2, <3>7 DEF RunningOK
  <2>15. CASE WriteArchive
    <3>1. backup.pc = "started" /\ backup' = [backup EXCEPT !.pc = "archived"] /\ UNCHANGED <<dir, proc, used>>
      BY <2>15, NoneAssumption DEF WriteArchive, PlacesOK, RunPlaces
    <3>2. backup'.pc = "archived" /\ backup'.name = backup.name
      BY <3>1 DEF TypesOK, ProcessTypeOK
    <3>3. \E a \in archives' : a.name = backup.name
      <4>1. [name |-> backup.name, copy |-> snap.copy] \in archives'
        BY <2>15 DEF WriteArchive
      <4> QED BY <4>1
    <3> QED BY <3>1, <3>2, <3>3 DEF JobsOK, RunningOK, Serving
  <2>16. CASE PruneArchives
    <3>1. backup.pc = "archived" /\ backup' = [backup EXCEPT !.pc = "pruned"] /\ UNCHANGED <<dir, proc, used>> /\ archives' = Pruned(archives)
      BY <2>16 DEF PruneArchives
    <3>2. backup'.pc = "pruned" /\ backup'.name = backup.name
      BY <3>1 DEF TypesOK, ProcessTypeOK
    <3>3. PICK new \in archives : new.name = backup.name /\ backup.name = used.names
      BY <3>1 DEF JobsOK, RunningOK
    <3>4. new \in archives'
      BY <3>1, <3>3, NewestIsKept
    <3> QED BY <3>1, <3>2, <3>3, <3>4 DEF JobsOK, RunningOK, Serving
  <2>17. CASE FinishBackup
    <3>1. dir.system \in SystemDb /\ dir.system.jobs \in Seq(BackupJob) /\ Serving
      BY <2>17, OpenDir DEF FinishBackup, PlacesOK, RunPlaces, Serving, SystemDb
    <3>2. dir'.system.jobs = Settled(dir.system.jobs, backup.name, "succeeded")
      BY <2>17, <3>1, BackupWrite DEF SystemDb
    <3>3. \A i \in DOMAIN dir'.system.jobs : dir'.system.jobs[i].state # "running"
      <4>1. DOMAIN dir'.system.jobs = DOMAIN dir.system.jobs
        BY <3>1, <3>2, SettledRows
      <4>2. \A i \in DOMAIN dir.system.jobs :
              dir'.system.jobs[i].state = IF dir.system.jobs[i].name = backup.name /\ dir.system.jobs[i].state = "running"
                                          THEN "succeeded" ELSE dir.system.jobs[i].state
        BY <3>1, <3>2, SettledRows
      <4>3. \A i \in DOMAIN dir.system.jobs : dir.system.jobs[i].state = "running" => dir.system.jobs[i].name = backup.name
        BY <3>1 DEF JobsOK, RunningOK
      <4> QED BY <4>1, <4>2, <4>3
    <3>4. backup'.pc = "idle"
      BY <2>17 DEF FinishBackup, NoBackup
    <3> QED BY <3>3, <3>4 DEF RunningOK
  <2>18. CASE FailBackup
    <3>1. dir.system \in SystemDb /\ dir.system.jobs \in Seq(BackupJob) /\ Serving
      BY <2>18, OpenDir DEF FailBackup, PlacesOK, RunPlaces, Serving, SystemDb
    <3>2. dir'.system.jobs = Settled(dir.system.jobs, backup.name, "failed")
      BY <2>18, <3>1, BackupWrite DEF SystemDb
    <3>3. \A i \in DOMAIN dir'.system.jobs : dir'.system.jobs[i].state # "running"
      <4>1. DOMAIN dir'.system.jobs = DOMAIN dir.system.jobs
        BY <3>1, <3>2, SettledRows
      <4>2. \A i \in DOMAIN dir.system.jobs :
              dir'.system.jobs[i].state = IF dir.system.jobs[i].name = backup.name /\ dir.system.jobs[i].state = "running"
                                          THEN "failed" ELSE dir.system.jobs[i].state
        BY <3>1, <3>2, SettledRows
      <4>3. \A i \in DOMAIN dir.system.jobs : dir.system.jobs[i].state = "running" => dir.system.jobs[i].name = backup.name
        BY <3>1 DEF JobsOK, RunningOK
      <4> QED BY <4>1, <4>2, <4>3
    <3>4. backup'.pc = "idle"
      BY <2>18 DEF FailBackup, NoBackup
    <3> QED BY <3>3, <3>4 DEF RunningOK
  <2>19. CASE Recover
    <3>1. dir.system \in SystemDb /\ dir.system.jobs \in Seq(BackupJob)
      BY <2>19, OpenDir DEF Recover, SystemDb
    <3>2. dir'.system.jobs = RecoveredJobs(dir.system.jobs)
      BY <2>19, <3>1, RecoverWrite DEF SystemDb
    <3>3. \A i \in DOMAIN dir'.system.jobs : dir'.system.jobs[i].state # "running"
      BY <3>1, <3>2, RecoveredRows
    <3>4. UNCHANGED <<used, archives, backup>>
      BY <2>19 DEF Recover
    <3> QED BY <3>3, <3>4 DEF JobsOK, RunningOK
  <2>20. CASE Stop
    <3> QED BY <2>20, RunningStopped DEF Stop, StopProcess, Down, NoBackup
  <2> QED BY <1>2, <2>1, <2>2, <2>3, <2>4, <2>5, <2>6, <2>7, <2>8, <2>9, <2>10, <2>11, <2>12, <2>13, <2>14, <2>15, <2>16, <2>17, <2>18, <2>19, <2>20 DEF RunServer, StorageSteps
<1>3. CASE RestoreArchive
  <2>1. proc' = proc /\ backup' = backup /\ proc.pc = "down"
    BY <1>3, Placed DEF RestoreArchive, RestoreBackup
  <2> QED BY <2>1, RunningStopped DEF PlacesOK, RunPlaces, Serving
<1>4. CASE \E good \in BOOLEAN : Resolve(good)
  <2> QED BY <1>4, RunningFrame DEF Resolve, storage, JobsOK, Serving
<1>5. CASE Stage
  <2> QED BY <1>5, RunningFrame DEF Stage, storage, JobsOK, Serving
<1>6. CASE Discard
  <2>1. CASE StopProcess
    BY <2>1, RunningStopped DEF StopProcess, Down, NoBackup
  <2>2. CASE UNCHANGED storage
    BY <2>2, RunningFrame DEF JobsOK, storage, Serving
  <2> QED BY <1>6, <2>1, <2>2 DEF Discard
<1>7. CASE OpenForSnapshot
  <2> QED BY <1>7, RunningFrame DEF OpenForSnapshot, JobsOK, Serving
<1>8. CASE TakeSnapshot
  <2> QED BY <1>8, RunningStopped DEF TakeSnapshot, StopProcess, Down, NoBackup
<1>9. CASE SwapIn
  <2> QED BY <1>9, RunningFrame DEF SwapIn, storage, JobsOK, Serving
<1>10. CASE RetainPrevious
  <2> QED BY <1>10, RunningFrame DEF RetainPrevious, storage, JobsOK, Serving
<1>11. CASE Probe
  <2>1. proc'.pc # "serving" /\ backup' = backup /\ proc.pc = "down"
    BY <1>11 DEF Probe, Start, Opened
  <2> QED BY <2>1, RunningStopped DEF PlacesOK, RunPlaces, Serving
<1>12. CASE ProbeReady
  <2> QED BY <1>12, RunningStopped DEF ProbeReady, StopProcess, Down, NoBackup
<1>13. CASE ProbeFails
  <2> QED BY <1>13, RunningStopped DEF ProbeFails, StopProcess, Down, NoBackup
<1>14. CASE MoveExecutable
  <2> QED BY <1>14, RunningFrame DEF MoveExecutable, storage, JobsOK, Serving
<1>15. CASE RenamePrevious
  <2> QED BY <1>15, RunningFrame DEF RenamePrevious, storage, JobsOK, Serving
<1>16. CASE MoveData
  <2>1. proc' = proc /\ backup' = backup /\ proc.pc = "down"
    BY <1>16, Placed DEF MoveData
  <2> QED BY <2>1, RunningStopped DEF PlacesOK, RunPlaces, Serving
<1>17. CASE RestoreData
  <2>1. proc' = proc /\ backup' = backup /\ proc.pc = "down"
    BY <1>17, Placed DEF RestoreData
  <2> QED BY <2>1, RunningStopped DEF PlacesOK, RunPlaces, Serving
<1>18. CASE Crash
  <2>1. CASE StopProcess
    BY <2>1, RunningStopped DEF StopProcess, Down, NoBackup
  <2>2. CASE proc' = [proc EXCEPT !.probe = FALSE] /\ UNCHANGED <<dir, lock, snap, backup, archives, used>>
    BY <2>2, RunningFrame DEF JobsOK, Serving, TypesOK, ProcessTypeOK
  <2> QED BY <1>18, <2>1, <2>2 DEF Crash
<1>19. CASE UNCHANGED vars
  BY <1>19 DEF vars, storage, files, JobsOK, RunningOK, Serving
<1> QED BY <1>1, <1>2, <1>3, <1>4, <1>5, <1>6, <1>7, <1>8, <1>9, <1>10, <1>11, <1>12, <1>13, <1>14, <1>15, <1>16, <1>17, <1>18, <1>19 DEF Next, Update

-----------------------------------------------------------------------------
(* The update. *)

\* What the server does to its own place.
LEMMA ServerProc ==
  ASSUME TypesOK, PlacesOK, RunServer
  PROVE  \/ proc' = Down /\ proc.pc # "offline" /\ proc.pc # "down"
         \/ /\ proc'.probe = proc.probe /\ proc'.version = proc.version
            /\ proc'.pc = "offline" <=> proc.pc = "offline"
            /\ proc'.pc # "down" /\ proc.pc # "down"
            /\ proc'.pc = "serving" => Serving \/ Works(proc.version)
         \/ proc' = proc
<1> USE DEF TypesOK, ProcessTypeOK
<1>1. CASE Commit \/ Project \/ Acknowledge \/ RetainData \/ RecordData \/ CopyData \/ StartBackup \/ WriteArchive \/ PruneArchives \/ FinishBackup \/ FailBackup
  BY <1>1 DEF Commit, Project, Acknowledge, RetainData, RecordData, CopyData, StartBackup, WriteArchive, PruneArchives, FinishBackup, FailBackup
<1>2. CASE (\E cutoff \in 1..MaxEvents : Retain(cutoff)) \/ (\E purpose \in {"migration", "backup", "update"} : RecordSystem(purpose))
  BY <1>2 DEF Retain, RecordSystem
<1>3. CASE CreateData
  BY <1>3 DEF CreateData, Opening
<1>4. CASE MigrateSystem
  BY <1>4 DEF MigrateSystem, Opening
<1>5. CASE MigrateData
  BY <1>5 DEF MigrateData, Opening
<1>6. CASE CreateFails
  BY <1>6 DEF CreateFails
<1>7. CASE Publish
  BY <1>7, NoneAssumption DEF Publish, Opening, PlacesOK, RunPlaces, Serving
<1>8. CASE Works(proc.version) /\ Recover
  BY <1>8 DEF Recover, Opening
<1>9. CASE ~proc.probe /\ proc.pc # "offline" /\ Stop
  BY <1>9 DEF Stop, StopProcess
<1> QED BY <1>1, <1>2, <1>3, <1>4, <1>5, <1>6, <1>7, <1>8, <1>9 DEF RunServer, StorageSteps

\* What the server does to a directory with both databases: it keeps both and
\* every event; and while a snapshot is taken offline, nothing is committed.
LEMMA ServerDir ==
  ASSUME TypesOK, PlacesOK, PairsOK, RunServer, Whole(dir)
  PROVE  /\ Whole(dir') /\ dir'.system.events >= dir.system.events
         /\ proc.pc = "offline" => dir'.system.events = dir.system.events
<1>0. dir \in DataDir /\ dir.data \in DataDb /\ dir.system \in SystemDb /\ dir.system.events \in Nat
  BY DEF TypesOK, DiskTypeOK, Whole, DataDir, SystemDb
<1>a. ASSUME NEW d \in DataDir, d.data \in DataDb PROVE Whole(d)
  BY <1>a, NotNone DEF Whole
<1> DEFINE SameEvents == Whole(dir') /\ dir'.system.events = dir.system.events
<1>b. ASSUME dir' = dir PROVE SameEvents
  BY <1>b
<1>c. ASSUME SameEvents
      PROVE  /\ Whole(dir') /\ dir'.system.events >= dir.system.events
             /\ proc.pc = "offline" => dir'.system.events = dir.system.events
  BY <1>0, <1>c
<1>1. CASE Acknowledge
  <2>1. dir' = dir \/ (OnlySystem(dir', dir) /\ \E x : dir'.system = [dir.system EXCEPT !.delivered = x])
    BY <1>1, AcknowledgeWrite
  <2>2. SameEvents
    BY <1>0, <1>a, <2>1 DEF OnlySystem, SystemDb
  <2> QED BY <1>c, <2>2
<1>2. CASE \E cutoff \in 1..MaxEvents : Retain(cutoff)
  <2>1. (OnlySystem(dir', dir) /\ \E x : dir'.system = [dir.system EXCEPT !.erased = x])
    BY <1>2, RetainWrite
  <2>2. SameEvents
    BY <1>0, <1>a, <2>1 DEF OnlySystem, SystemDb
  <2> QED BY <1>c, <2>2
<1>3. CASE \E purpose \in {"migration", "backup", "update"} : RecordSystem(purpose)
  <2>1. (OnlySystem(dir', dir) /\ \E x : dir'.system = [dir.system EXCEPT !.generation = x])
    BY <1>3, RecordWrite
  <2>2. SameEvents
    BY <1>0, <1>a, <2>1 DEF OnlySystem, SystemDb
  <2> QED BY <1>c, <2>2
<1>4. CASE StartBackup
  <2>1. (OnlySystem(dir', dir) /\ \E x : dir'.system = [dir.system EXCEPT !.jobs = x])
    BY <1>4, BackupWrite
  <2>2. SameEvents
    BY <1>0, <1>a, <2>1 DEF OnlySystem, SystemDb
  <2> QED BY <1>c, <2>2
<1>5. CASE FinishBackup
  <2>1. (OnlySystem(dir', dir) /\ \E x : dir'.system = [dir.system EXCEPT !.jobs = x])
    BY <1>5, BackupWrite
  <2>2. SameEvents
    BY <1>0, <1>a, <2>1 DEF OnlySystem, SystemDb
  <2> QED BY <1>c, <2>2
<1>6. CASE FailBackup
  <2>1. (OnlySystem(dir', dir) /\ \E x : dir'.system = [dir.system EXCEPT !.jobs = x])
    BY <1>6, BackupWrite
  <2>2. SameEvents
    BY <1>0, <1>a, <2>1 DEF OnlySystem, SystemDb
  <2> QED BY <1>c, <2>2
<1>7. CASE MigrateSystem
  <2>1. (OnlySystem(dir', dir) /\ \E x : dir'.system = [dir.system EXCEPT !.schema = x])
    BY <1>7, MigrateWrite
  <2>2. SameEvents
    BY <1>0, <1>a, <2>1 DEF OnlySystem, SystemDb
  <2> QED BY <1>c, <2>2
<1>8. CASE MigrateData
  <2>0. proc.version \in Nat \ {0}
    BY <1>8, OpenDir DEF MigrateData
  <2>1. OnlyData(dir', dir) /\ dir'.data = [dir.data EXCEPT !.schema = proc.version]
    BY <1>8, MigrateWrite
  <2>2. dir'.data \in DataDb
    BY <1>0, <2>0, <2>1 DEF DataDb
  <2>3. SameEvents
    BY <1>a, <2>1, <2>2 DEF OnlyData
  <2> QED BY <1>c, <2>3
<1>9. CASE RecordData
  <2>0. snap.generation \in Nat
    BY DEF TypesOK, DiskTypeOK
  <2>1. OnlyData(dir', dir) /\ dir'.data = [dir.data EXCEPT !.generation = snap.generation]
    BY <1>9, RecordWrite
  <2>2. dir'.data \in DataDb
    BY <1>0, <2>0, <2>1 DEF DataDb
  <2>3. SameEvents
    BY <1>a, <2>1, <2>2 DEF OnlyData
  <2> QED BY <1>c, <2>3
<1>10. CASE Project
  <2> DEFINE n == dir.system.delivered + 1
  <2>1. n \in Nat
    BY <1>0 DEF SystemDb
  <2>2. OnlyData(dir', dir) /\ dir'.data = WithEvent(dir.data, n)
    BY <1>10, ProjectWrite
  <2> HIDE DEF n
  <2>3. dir'.data \in DataDb
    BY <1>0, <2>1, <2>2, EventWrite
  <2>4. SameEvents
    BY <1>a, <2>2, <2>3 DEF OnlyData
  <2> QED BY <1>c, <2>4
<1>11. CASE RetainData
  <2>1. lock.cutoff \in Nat
    BY DEF TypesOK, ProcessTypeOK
  <2>2. dir' = dir \/ (OnlyData(dir', dir) /\ dir'.data = Trimmed(dir.data, lock.cutoff))
    BY <1>11, RetainWrite
  <2>3. dir' = dir \/ dir'.data \in DataDb
    BY <1>0, <2>1, <2>2, TrimWrite
  <2>4. SameEvents
    BY <1>a, <2>2, <2>3 DEF OnlyData
  <2> QED BY <1>c, <2>4
<1>12. CASE Commit
  <2>1. OnlySystem(dir', dir) /\ dir'.system = [dir.system EXCEPT !.events = dir.system.events + 1]
    BY <1>12, CommitWrite
  <2>2. Whole(dir') /\ dir'.system.events = dir.system.events + 1
    BY <1>0, <1>a, <2>1 DEF OnlySystem, SystemDb
  <2>3. proc.pc # "offline"
    BY <1>12 DEF Commit, Serving
  <2> QED BY <1>0, <2>2, <2>3
<1>13. CASE CreateData \/ CreateFails
  <2>1. proc.pc = "creating"
    BY <1>13 DEF CreateData, CreateFails
  <2>2. dir.data = None
    BY <2>1 DEF PlacesOK, DirPlaces
  <2> QED BY <2>2 DEF Whole
<1>14. CASE Publish
  <2>1. dir' # None /\ dir'.system = dir.system /\ dir'.data = dir.data
    BY <1>0, <1>14, PublishWrite, NotNone
  <2>2. SameEvents
    BY <2>1 DEF Whole
  <2> QED BY <1>c, <2>2
<1>15. CASE Recover
  <2>1. dir' \in DataDir /\ dir'.data = dir.data /\ dir'.system = [dir.system EXCEPT !.jobs = RecoveredJobs(dir.system.jobs)]
    BY <1>15, RecoverWrite
  <2>2. SameEvents
    BY <1>0, <1>a, <2>1 DEF SystemDb
  <2> QED BY <1>c, <2>2
<1>16. CASE CopyData \/ WriteArchive \/ PruneArchives \/ Stop
  <2>1. dir' = dir
    BY <1>16 DEF CopyData, WriteArchive, PruneArchives, Stop, StopProcess
  <2> QED BY <1>b, <1>c, <2>1
<1> QED BY <1>1, <1>2, <1>3, <1>4, <1>5, <1>6, <1>7, <1>8, <1>9, <1>10, <1>11, <1>12, <1>13, <1>14, <1>15, <1>16 DEF RunServer, StorageSteps


\* The process that runs is the one the update allows.
LEMMA ProbeStep ==
  ASSUME TypesOK, PlacesOK, ProbeOK, ExecutablesOK, [Next]_vars
  PROVE  ProbeOK'
<1> USE DEF TypesOK, ProcessTypeOK, ProbeOK, At, Updating, Works, Serving
<1>1. CASE Serve
  BY <1>1 DEF Serve, Start, files, Opened, Works
<1>2. CASE RunServer
  <2>1. UNCHANGED <<exe, update>>
    BY <1>2 DEF RunServer, files
  <2>2. CASE proc' = Down /\ proc.pc # "offline" /\ proc.pc # "down"
    BY <2>1, <2>2 DEF Down
  <2>3. CASE proc' = proc
    BY <2>1, <2>3
  <2>4. CASE /\ proc'.probe = proc.probe /\ proc'.version = proc.version
             /\ proc'.pc = "offline" <=> proc.pc = "offline"
             /\ proc'.pc # "down" /\ proc.pc # "down"
             /\ proc'.pc = "serving" => Serving \/ Works(proc.version)
    BY <2>1, <2>4
  <2> QED BY <1>2, <2>2, <2>3, <2>4, ServerProc
<1>3. CASE RestoreArchive
  BY <1>3 DEF RestoreArchive, RestoreBackup, files
<1>4. CASE \E good \in BOOLEAN : Resolve(good)
  BY <1>4 DEF Resolve, At, Newer, files, storage
<1>5. CASE Stage
  BY <1>5 DEF Stage, At, Goto, storage
<1>6. CASE Discard
  BY <1>6 DEF Discard, StopProcess, Goto, At, storage, Down
<1>7. CASE OpenForSnapshot
  BY <1>7 DEF OpenForSnapshot, Goto, At, files, Works, PlacesOK
<1>8. CASE TakeSnapshot
  BY <1>8 DEF TakeSnapshot, StopProcess, Goto, At, Down
<1>9. CASE SwapIn
  BY <1>9 DEF SwapIn, At, Goto, Fault, storage
<1>10. CASE RetainPrevious
  BY <1>10 DEF RetainPrevious, At, Goto, Fault, Kept, storage
<1>11. CASE Probe
  <2>1. exe = 2 /\ Start(exe, TRUE)
    BY <1>11 DEF Probe, ExecutablesOK
  <2>2. proc'.probe /\ proc'.version = 2 /\ proc'.pc \in {"creating", "opening", "recovering"}
    BY <2>1 DEF Start, Opened
  <2>3. At("probe") /\ UNCHANGED <<exe, update>>
    BY <1>11 DEF Probe, files
  <2> QED BY <2>2, <2>3
<1>12. CASE ProbeReady
  BY <1>12 DEF ProbeReady, At, Goto, StopProcess, Serving, files, Down
<1>13. CASE ProbeFails
  BY <1>13 DEF ProbeFails, At, Goto, StopProcess, files, Down
<1>14. CASE MoveExecutable
  BY <1>14 DEF MoveExecutable, At, Goto, Fault, Renaming, AfterRestore, RemoveStaged, storage
<1>15. CASE RenamePrevious
  BY <1>15 DEF RenamePrevious, At, Goto, Fault, AfterRestore, RemoveStaged, storage
<1>16. CASE MoveData
  BY <1>16 DEF MoveData, At, Goto, Fault
<1>17. CASE RestoreData
  BY <1>17 DEF RestoreData, At, Goto, Fault, RestoredData, KeptData
<1>18. CASE Crash
  <2>1. update'.pc = "over" /\ update'.good = update.good /\ exe' = exe
    BY <1>18 DEF Crash, Goto, files
  <2>2. CASE StopProcess
    BY <2>1, <2>2 DEF StopProcess, Down
  <2>3. CASE proc' = [proc EXCEPT !.probe = FALSE]
    <3>1. proc'.pc = proc.pc /\ proc'.version = proc.version /\ ~proc'.probe
      BY <2>3
    <3>2. proc.probe \/ proc.pc = "down"
      BY <1>18, <2>3 DEF Crash, StopProcess, Down
    <3>3. proc.pc # "offline"
      BY <3>2
    <3> QED BY <2>1, <3>1, <3>3
  <2> QED BY <1>18, <2>2, <2>3 DEF Crash
<1>19. CASE UNCHANGED vars
  BY <1>19 DEF vars, storage, files
<1> QED BY <1>1, <1>2, <1>3, <1>4, <1>5, <1>6, <1>7, <1>8, <1>9, <1>10, <1>11, <1>12, <1>13, <1>14, <1>15, <1>16, <1>17, <1>18, <1>19 DEF Next, Update

\* The old executable stays on disk until a second file operation fails.
LEMMA ExecutablesStep ==
  ASSUME TypesOK, ProbeOK, ExecutablesOK, BeforeOK, [Next]_vars
  PROVE  ExecutablesOK'
<1>0. /\ exe \in {1, 2, None} /\ staged \in {1, 2, None} /\ aside \in SUBSET {1, 2}
      /\ update.faults \in Nat /\ update \in [pc : UpdatePlaces, good : BOOLEAN, faults : Nat]
  BY DEF TypesOK, ProcessTypeOK
<1> USE <1>0 DEF ExecutablesOK, Old
<1>1. CASE Serve
  BY <1>1 DEF Serve, Start, files
<1>2. CASE RunServer
  BY <1>2 DEF RunServer, files
<1>3. CASE RestoreArchive
  BY <1>3 DEF RestoreArchive, RestoreBackup, files
<1>4. CASE \E good \in BOOLEAN : Resolve(good)
  BY <1>4 DEF Resolve, At, Newer, files, storage
<1>5. CASE Stage
  BY <1>5 DEF Stage, At, Goto, storage
<1>6. CASE Discard
  BY <1>6 DEF Discard, StopProcess, Goto, At, storage
<1>7. CASE OpenForSnapshot
  BY <1>7 DEF OpenForSnapshot, Goto, At, files
<1>8. CASE TakeSnapshot
  BY <1>8 DEF TakeSnapshot, StopProcess, Goto, At, BeforeOK
<1>9. CASE SwapIn
  <2>1. exe' = 2 /\ staged' = 1 /\ aside' = aside /\ before' = before
    BY <1>9 DEF SwapIn, At
  <2>2. \/ update'.pc = "retain" /\ update'.faults = update.faults
        \/ update'.pc = "unswap" /\ update'.faults = update.faults + 1
    BY <1>9, UpdateMoves DEF SwapIn, UpdatePlaces
  <2> QED BY <2>1, <2>2
<1>10. CASE RetainPrevious
  <2>1. exe' = 2 /\ before' = before /\ 1 \in aside' \cup {staged'}
    BY <1>10 DEF RetainPrevious, At, Kept
  <2>2. \/ update'.pc = "probe" /\ update'.faults = update.faults /\ 1 \in aside'
        \/ update'.pc = "undo" /\ update'.faults = update.faults + 1
    BY <1>10, UpdateMoves DEF RetainPrevious, At, Kept, UpdatePlaces
  <2> QED BY <2>1, <2>2
<1>11. CASE Probe
  BY <1>11 DEF Probe, At, Start, files
<1>12. CASE ProbeReady
  BY <1>12 DEF ProbeReady, At, Goto, StopProcess, Serving, files
<1>13. CASE ProbeFails
  BY <1>13 DEF ProbeFails, At, Goto, StopProcess, files
<1>14. CASE MoveExecutable
  <2>0. before' = before /\ exe = 2
    BY <1>14 DEF MoveExecutable
  <2>1. CASE aside' = aside \cup {exe} /\ exe' = None /\ Goto(Renaming) /\ UNCHANGED staged
    <3>1. /\ Renaming \in UpdatePlaces /\ (Renaming = "unswap_rename" => At("unswap"))
          /\ (Renaming = "undo_rename" => At("undo")) /\ (Renaming = "rollback_rename" => At("rollback"))
          /\ Renaming \in {"unswap_rename", "undo_rename", "rollback_rename"}
      BY <1>14 DEF MoveExecutable, Renaming, At, UpdatePlaces
    <3>2. update'.pc = Renaming /\ update'.faults = update.faults
      BY <2>1, <3>1, UpdateMoves
    <3> HIDE DEF Renaming
    <3> QED BY <2>0, <2>1, <3>1, <3>2 DEF At
  <2>2. CASE Fault(AfterRestore) /\ RemoveStaged /\ UNCHANGED <<exe, aside>>
    <3>1. \/ AfterRestore = "data" /\ At("rollback")
          \/ AfterRestore = "over" /\ (At("undo") \/ At("unswap"))
      BY <1>14 DEF MoveExecutable, AfterRestore, At
    <3>2. AfterRestore \in UpdatePlaces
      BY <3>1 DEF UpdatePlaces
    <3>3. update'.pc = AfterRestore /\ update'.faults = update.faults + 1
      BY <2>2, <3>2, UpdateMoves
    <3>4. staged' = staged \/ At("unswap")
      BY <1>14, <2>2 DEF RemoveStaged, MoveExecutable, At
    <3> QED BY <2>0, <2>2, <3>1, <3>3, <3>4 DEF At
  <2> QED BY <1>14, <2>1, <2>2 DEF MoveExecutable
<1>15. CASE RenamePrevious
  <2>0. before' = before /\ exe = None /\ exe' \in {1, 2}
    BY <1>15 DEF RenamePrevious
  <2>1. \/ AfterRestore = "data" /\ At("rollback_rename")
        \/ AfterRestore = "over" /\ (At("undo_rename") \/ At("unswap_rename"))
    BY <1>15 DEF RenamePrevious, AfterRestore, At
  <2>2. AfterRestore \in UpdatePlaces
    BY <2>1 DEF UpdatePlaces
  <2>3. CASE exe' = 1 /\ Goto(AfterRestore)
    <3>1. update'.pc = AfterRestore
      BY <2>2, <2>3, UpdateMoves
    <3> QED BY <2>0, <2>1, <2>3, <3>1
  <2>4. CASE exe' = 2 /\ RemoveStaged /\ aside' = aside \ {2} /\ Fault(AfterRestore)
    <3>1. update'.pc = AfterRestore /\ update'.faults = update.faults + 1
      BY <2>2, <2>4, UpdateMoves
    <3>2. staged' = staged \/ At("unswap_rename")
      BY <1>15, <2>4 DEF RemoveStaged, RenamePrevious, At
    <3>3. 1 \in aside' \cup {staged'} \/ At("unswap_rename")
      BY <2>0, <2>1, <2>4, <3>2, NoneAssumption DEF At
    <3> QED BY <2>0, <2>1, <2>4, <3>1, <3>3 DEF At
  <2> QED BY <1>15, <2>3, <2>4 DEF RenamePrevious
<1>16. CASE MoveData
  <2>1. UNCHANGED <<exe, staged, aside, before>> /\ At("data")
    BY <1>16 DEF MoveData
  <2>2. \/ update'.pc = "restore" /\ update'.faults = update.faults
        \/ update'.pc = "over" /\ update'.faults = update.faults + 1
    BY <1>16, UpdateMoves DEF MoveData, UpdatePlaces
  <2> QED BY <2>1, <2>2 DEF At
<1>17. CASE RestoreData
  <2>1. UNCHANGED <<exe, staged, aside, before>> /\ At("restore")
    BY <1>17 DEF RestoreData
  <2>2. \/ update'.pc = "rolled_back" /\ update'.faults = update.faults
        \/ update'.pc = "over" /\ update'.faults = update.faults + 1
    BY <1>17, UpdateMoves DEF RestoreData, UpdatePlaces
  <2> QED BY <2>1, <2>2 DEF At
<1>18. CASE Crash
  BY <1>18 DEF Crash, Goto, Updating, StopProcess, files, ProbeOK, At
<1>19. CASE UNCHANGED vars
  BY <1>19 DEF vars, storage, files
<1> QED BY <1>1, <1>2, <1>3, <1>4, <1>5, <1>6, <1>7, <1>8, <1>9, <1>10, <1>11, <1>12, <1>13, <1>14, <1>15, <1>16, <1>17, <1>18, <1>19 DEF Next, Update

\* While the updater moves executables, the snapshot and the data beside it stay.
LEMMA BeforeFrame ==
  ASSUME BeforeOK, UNCHANGED <<dir, proc, snap, before>>, Updating, ~At("snapshot"), ~At("restore"),
         update'.pc \notin {"idle", "resolved", "staged", "snapshot"}
  PROVE  BeforeOK'
  BY DEF BeforeOK, Updating, At, Whole, CanOpen

\* What the server makes of a snapshot for an update.
LEMMA OfflineSnapshot ==
  ASSUME TypesOK, PlacesOK, PairsOK, RunServer, proc.pc = "offline", snap'.pc = "published"
  PROVE  \/ snap.pc = "published" /\ snap'.copy = snap.copy
         \/ CanOpen(1, snap'.copy) /\ snap'.copy.system.events = dir.system.events
<1>1. CASE Publish
  <2>1. snap' = [snap EXCEPT !.pc = "published", !.copy = Copied] /\ snap.pc = "copy_system"
    BY <1>1 DEF Publish, NoSnapshot
  <2>2. snap'.copy = Copied
    BY <2>1 DEF TypesOK, DiskTypeOK
  <2>3. Copied # None /\ Copied.system = dir.system /\ Copied.data = dir.data /\ dir.data # None
    BY <2>1, CopiedType, NotNone DEF Copied, Whole, PairsOK, CopyingOK
  <2>4. dir.system.schema <= 1 /\ dir.data.schema <= 1
    BY DEF PlacesOK, DirPlaces, Opening
  <2> HIDE DEF Copied
  <2> QED BY <2>2, <2>3, <2>4 DEF CanOpen
<1>2. CASE (\E cutoff \in 1..MaxEvents : Retain(cutoff)) \/ (\E purpose \in {"migration", "backup", "update"} : RecordSystem(purpose))
  BY <1>2 DEF Retain, RecordSystem, NoSnapshot
<1>3. CASE RecordData \/ CopyData
  <2>1. snap'.pc \in {"copy_data", "copy_system"}
    BY <1>3 DEF RecordData, CopyData, TypesOK, DiskTypeOK
  <2> QED BY <2>1
<1>5. CASE WriteArchive \/ FailBackup \/ Stop
  BY <1>5 DEF WriteArchive, FailBackup, Stop, StopProcess, NoSnapshot
<1>4. CASE \/ CreateData \/ CreateFails \/ MigrateSystem \/ MigrateData \/ Commit \/ Project \/ Acknowledge \/ RetainData
           \/ StartBackup \/ PruneArchives \/ FinishBackup \/ Recover
  BY <1>4 DEF CreateData, CreateFails, MigrateSystem, MigrateData, Commit, Project, Acknowledge, RetainData, StartBackup, PruneArchives,
    FinishBackup, Recover
<1> QED BY <1>1, <1>2, <1>3, <1>4, <1>5 DEF RunServer, StorageSteps

\* The data beside the snapshot keeps what the snapshot holds until it is moved away.
LEMMA BeforeStep ==
  ASSUME TypesOK, PlacesOK, PairsOK, ProbeOK, ExecutablesOK, BeforeOK, [Next]_vars
  PROVE  BeforeOK'
<1>1. CASE Serve
  <2>1. UNCHANGED <<before, update>> /\ ~Updating /\ proc'.pc # "offline"
    BY <1>1 DEF Serve, files, Start, Opened
  <2> QED BY <2>1 DEF BeforeOK, Updating, At
<1>2. CASE RunServer
  <2>1. UNCHANGED <<before, update>>
    BY <1>2 DEF RunServer, files
  <2>2. ASSUME Updating, ~At("snapshot"), ~At("restore")
        PROVE  Whole(dir') /\ dir'.system.events >= before.system.events
    <3>1. Whole(dir) /\ dir.system.events >= before.system.events /\ before # None
      BY <2>2 DEF BeforeOK
    <3>2. Whole(dir') /\ dir'.system.events >= dir.system.events
      BY <1>2, <3>1, ServerDir
    <3>3. dir.system.events \in Nat /\ before.system.events \in Nat
      BY <3>1 DEF TypesOK, DiskTypeOK, Whole, DataDir, Snapshot, SystemDb
    <3>4. dir'.system.events \in Nat
      BY <1>2, <3>2, TypesOfDisk DEF DiskTypeOK, Whole, DataDir, SystemDb, Next
    <3> QED BY <3>1, <3>2, <3>3, <3>4
  <2>3. ASSUME proc'.pc = "offline", snap'.pc = "published"
        PROVE  CanOpen(1, snap'.copy) /\ snap'.copy.system.events = dir'.system.events
    <3>1. proc.pc = "offline"
      BY <1>2, <2>3, ServerProc DEF Down
    <3>2. dir'.system.events = dir.system.events
      BY <1>2, <3>1, OpenDir, ServerDir
    <3> QED BY <1>2, <2>3, <3>1, <3>2, OfflineSnapshot DEF BeforeOK
  <2> QED BY <2>1, <2>2, <2>3 DEF BeforeOK, Updating, At
<1>3. CASE RestoreArchive
  <2>1. UNCHANGED <<before, update, proc>> /\ ~Updating /\ proc.pc = "down"
    BY <1>3 DEF RestoreArchive, RestoreBackup, files
  <2> QED BY <2>1 DEF BeforeOK, Updating, At
<1>4. CASE \E good \in BOOLEAN : Resolve(good)
  <2>1. UNCHANGED <<before, dir, proc, snap>> /\ At("idle") /\ update'.pc = "resolved"
    BY <1>4 DEF Resolve, files, storage, TypesOK, ProcessTypeOK
  <2> QED BY <2>1 DEF BeforeOK, Updating, At
<1>5. CASE Stage
  <2>1. UNCHANGED <<before, dir, proc, snap>> /\ At("resolved") /\ update'.pc = "staged"
    BY <1>5, UpdateMoves DEF Stage, storage, UpdatePlaces
  <2> QED BY <2>1 DEF BeforeOK, Updating, At
<1>6. CASE Discard
  <2>1. before' = before /\ before = None /\ update'.pc = "over"
    BY <1>6, UpdateMoves DEF Discard, UpdatePlaces, BeforeOK, At
  <2>2. proc' = Down \/ UNCHANGED <<dir, proc, snap>>
    BY <1>6 DEF Discard, StopProcess, storage
  <2>3. proc'.pc # "offline" \/ UNCHANGED <<dir, proc, snap>>
    BY <2>2 DEF Down
  <2> QED BY <2>1, <2>3 DEF BeforeOK, Updating, At
<1>7. CASE OpenForSnapshot
  <2>1. before' = before /\ At("staged") /\ update'.pc = "snapshot" /\ snap' = snap /\ proc.pc = "down"
    BY <1>7, UpdateMoves DEF OpenForSnapshot, UpdatePlaces, files
  <2>2. snap'.pc # "published"
    BY <2>1, Placed
  <2> QED BY <2>1, <2>2 DEF BeforeOK, Updating, At
<1>8. CASE TakeSnapshot
  <2>1. before' = snap.copy /\ snap.pc = "published" /\ dir' = dir /\ proc' = Down
    BY <1>8 DEF TakeSnapshot, StopProcess
  <2>2. update'.pc = "swap"
    BY <1>8, UpdateMoves DEF TakeSnapshot, UpdatePlaces
  <2>3. proc.pc = "offline"
    BY <1>8 DEF TakeSnapshot, ProbeOK
  <2>4. CanOpen(1, snap.copy) /\ snap.copy.system.events = dir.system.events
    BY <2>1, <2>3 DEF BeforeOK
  <2>5. Whole(dir) /\ dir.system.events \in Nat
    BY <2>3, OpenDir DEF SystemDb
  <2>6. snap.copy # None
    BY <2>4 DEF CanOpen
  <2> QED BY <2>1, <2>2, <2>4, <2>5, <2>6 DEF BeforeOK, Updating, At, Down
<1>9. CASE SwapIn
  <2>1. UNCHANGED <<dir, proc, snap, before>> /\ Updating /\ ~At("snapshot") /\ ~At("restore")
    BY <1>9 DEF SwapIn, storage, Updating, At
  <2>2. update'.pc \notin {"idle", "resolved", "staged", "snapshot"}
    BY <1>9, UpdateMoves DEF SwapIn, At, UpdatePlaces
  <2> QED BY <2>1, <2>2, BeforeFrame
<1>10. CASE RetainPrevious
  <2>1. UNCHANGED <<dir, proc, snap, before>> /\ Updating /\ ~At("snapshot") /\ ~At("restore")
    BY <1>10 DEF RetainPrevious, storage, Updating, At
  <2>2. update'.pc \notin {"idle", "resolved", "staged", "snapshot"}
    BY <1>10, UpdateMoves DEF RetainPrevious, At, UpdatePlaces
  <2> QED BY <2>1, <2>2, BeforeFrame
<1>11. CASE Probe
  <2>1. UNCHANGED <<before, update>> /\ At("probe") /\ Start(exe, TRUE)
    BY <1>11 DEF Probe, files
  <2>2. Whole(dir) /\ before # None
    BY <2>1 DEF BeforeOK, Updating, At
  <2>3. dir' = dir /\ proc'.pc # "offline"
    BY <2>1, <2>2 DEF Start, Opened, Whole
  <2> QED BY <2>1, <2>2, <2>3 DEF BeforeOK, Updating, At, Whole
<1>12. CASE ProbeReady
  <2>1. UNCHANGED <<before, dir>> /\ At("probe") /\ proc' = Down
    BY <1>12 DEF ProbeReady, StopProcess, files
  <2>2. update'.pc = "done"
    BY <1>12, UpdateMoves DEF ProbeReady, UpdatePlaces
  <2> QED BY <2>1, <2>2 DEF BeforeOK, Updating, At, Whole, Down
<1>13. CASE ProbeFails
  <2>1. UNCHANGED <<before, dir>> /\ At("probe") /\ proc' = Down
    BY <1>13 DEF ProbeFails, StopProcess, files
  <2>2. update'.pc = "rollback"
    BY <1>13, UpdateMoves DEF ProbeFails, UpdatePlaces
  <2> QED BY <2>1, <2>2 DEF BeforeOK, Updating, At, Whole, Down
<1>14. CASE MoveExecutable
  <2>1. UNCHANGED <<dir, proc, snap, before>> /\ Updating /\ ~At("snapshot") /\ ~At("restore")
    BY <1>14 DEF MoveExecutable, storage, Updating, At
  <2>2. Renaming \in {"unswap_rename", "undo_rename", "rollback_rename"} /\ AfterRestore \in {"data", "over"}
    BY <1>14 DEF MoveExecutable, Renaming, AfterRestore, At
  <2>3. update'.pc \notin {"idle", "resolved", "staged", "snapshot"}
    BY <1>14, <2>2, UpdateMoves DEF MoveExecutable, UpdatePlaces
  <2> QED BY <2>1, <2>3, BeforeFrame
<1>15. CASE RenamePrevious
  <2>1. UNCHANGED <<dir, proc, snap, before>> /\ Updating /\ ~At("snapshot") /\ ~At("restore")
    BY <1>15 DEF RenamePrevious, storage, Updating, At
  <2>2. AfterRestore \in {"data", "over"}
    BY <1>15 DEF AfterRestore
  <2>3. update'.pc \notin {"idle", "resolved", "staged", "snapshot"}
    BY <1>15, <2>2, UpdateMoves DEF RenamePrevious, UpdatePlaces
  <2> QED BY <2>1, <2>3, BeforeFrame
<1>16. CASE MoveData
  <2>1. before' = before /\ proc' = proc /\ proc.pc = "down" /\ before # None
    BY <1>16, Placed DEF MoveData, BeforeOK, Updating, At
  <2>2. update'.pc \in {"restore", "over"}
    BY <1>16, UpdateMoves DEF MoveData, UpdatePlaces
  <2> QED BY <2>1, <2>2 DEF BeforeOK, Updating, At
<1>17. CASE RestoreData
  <2>1. before' = before /\ proc' = proc /\ proc.pc = "down" /\ before # None
    BY <1>17, Placed DEF RestoreData, BeforeOK, Updating, At
  <2>2. update'.pc \in {"rolled_back", "over"}
    BY <1>17, UpdateMoves DEF RestoreData, UpdatePlaces
  <2> QED BY <2>1, <2>2 DEF BeforeOK, Updating, At
<1>18. CASE Crash
  <2>1. before' = before /\ (proc'.pc # "offline" \/ (proc'.pc = proc.pc /\ UNCHANGED <<dir, snap>>))
    BY <1>18 DEF Crash, files, StopProcess, Down, TypesOK, ProcessTypeOK
  <2>2. update'.pc = "over"
    BY <1>18, UpdateMoves DEF Crash, UpdatePlaces
  <2> QED BY <2>1, <2>2 DEF BeforeOK, Updating, At
<1>19. CASE UNCHANGED vars
  BY <1>19 DEF vars, storage, files, BeforeOK, CanOpen, Whole, Updating, At
<1> QED BY <1>1, <1>2, <1>3, <1>4, <1>5, <1>6, <1>7, <1>8, <1>9, <1>10, <1>11, <1>12, <1>13, <1>14, <1>15, <1>16, <1>17, <1>18, <1>19 DEF Next, Update

-----------------------------------------------------------------------------
(* The theorems. *)

\* A first directory, and the executable beside it.
LEMMA InitiallyUpdate == Init => UpdateInv
<1> SUFFICES ASSUME Init PROVE UpdateInv
  OBVIOUS
<1> USE NoneAssumption DEF Init, InitStorage
<1> DEFINE d == [system |-> NewSystem(1), data |-> NewData(1), key |-> TRUE, pre |-> {}, born |-> <<1, 1>>]
<1>0. d \in DataDir /\ dir = d /\ NewSystem(1) \in SystemDb /\ NewData(1) \in DataDb
  BY NewFiles DEF DataDir
<1>a. dir.system = NewSystem(1) /\ dir.data = NewData(1) /\ dir.pre = {} /\ dir.born = <<1, 1>>
  BY <1>0
<1>b. dir \in DataDir /\ dir # None /\ NewData(1) # None
  BY <1>0, NotNone
<1>1. /\ dir \in DataDir /\ dir.system = NewSystem(1) /\ dir.data = NewData(1) /\ dir.pre = {} /\ dir.born = <<1, 1>>
      /\ dir.data # None /\ dir # None
  BY <1>a, <1>b
<1>2. proc.pc = "down" /\ lock = Free /\ snap = NoSnapshot /\ snap.pc = "idle" /\ snap.copy = None /\ backup.pc = "idle" /\ ~proc.probe
  BY DEF Down, NoSnapshot, NoBackup
<1>3. update.pc = "idle" /\ update.good = (exe = 2) /\ update.faults = 0 /\ before = None /\ failed = None
  OBVIOUS
<1>4. DiskTypeOK
  BY <1>1, <1>2, <1>3 DEF DiskTypeOK, NoSnapshot
<1>5. ProcessTypeOK
  BY <1>3 DEF ProcessTypeOK, Down, Free, NoBackup, UpdatePlaces
<1>6. PlacesOK
  BY <1>1, <1>2 DEF PlacesOK, DirPlaces, RunPlaces, Down, Opening, Copying, Free, Serving
<1>7. Linked(dir) /\ Explained(dir)
  BY <1>1 DEF Linked, Explained, Schemas, NewSystem, NewData
<1>8. PairsOK
  <2>1. lock.by # "project"
    BY <1>2 DEF Free
  <2>2. LinksOK
    BY <1>3, <1>7, <2>1 DEF LinksOK, Whole
  <2>3. CopyingOK
    BY <1>2 DEF CopyingOK, Copying
  <2>4. SnapshotsArePaired
    BY <1>1, <1>3, CopiesByPlace
  <2> QED BY <2>2, <2>3, <2>4 DEF PairsOK
<1>9. MigrationOK
  BY <1>2, <1>3, <1>7 DEF MigrationOK, Whole
<1>10. JobsOK
  <2>1. dir.system.jobs = <<>> /\ archives = {}
    BY <1>1 DEF NewSystem
  <2> QED BY <1>2, <1>3, <2>1, ReportedEmpty DEF JobsOK, ReportsOK, RunningOK, Serving
<1>11. UpdateOK
  BY <1>1, <1>2, <1>3 DEF UpdateOK, ProbeOK, ExecutablesOK, BeforeOK, At, Updating, Works, Serving, Whole
<1> QED BY <1>4, <1>5, <1>6, <1>8, <1>9, <1>10, <1>11 DEF UpdateInv, StorageInv, TypesOK

LEMMA UpdateStep == UpdateInv /\ [Next]_vars => UpdateInv'
<1> SUFFICES ASSUME UpdateInv, [Next]_vars PROVE UpdateInv'
  OBVIOUS
<1>1. TypesOK /\ PlacesOK /\ PairsOK /\ MigrationOK /\ JobsOK /\ ProbeOK /\ ExecutablesOK /\ BeforeOK
  BY DEF UpdateInv, StorageInv, UpdateOK
<1>2. DiskTypeOK' /\ ProcessTypeOK'
  BY <1>1, TypesOfDisk, TypesOfProcess
<1>3. DirPlaces' /\ RunPlaces'
  BY <1>1, DirPlacesStep, RunPlacesStep
<1>4. LinksOK' /\ CopyingOK' /\ SnapshotsArePaired'
  BY <1>1, LinksStep, CopyingStep, PairedStep
<1>5. MigrationOK'
  BY <1>1, MigrationStep
<1>6. ReportsOK' /\ RunningOK'
  BY <1>1, <1>2, ReportsStep, RunningStep
<1>7. ProbeOK' /\ ExecutablesOK' /\ BeforeOK'
  BY <1>1, ProbeStep, ExecutablesStep, BeforeStep
<1> QED BY <1>2, <1>3, <1>4, <1>5, <1>6, <1>7 DEF UpdateInv, StorageInv, TypesOK, PlacesOK, PairsOK, JobsOK, UpdateOK

\* OpenWithVersion, createSnapshotFromStore, RunBackup and selfupdate.Run keep the
\* directory, its copies, the backup rows and the executables in the states that the
\* invariant describes, whatever crashes.
THEOREM UpdateSafe == Spec => []UpdateInv
<1>1. Init => UpdateInv
  BY InitiallyUpdate
<1>2. UpdateInv /\ [Next]_vars => UpdateInv'
  BY UpdateStep
<1> QED BY <1>1, <1>2, PTL DEF Spec

\* createSnapshotFromStore: every archive, pre-migration copy and pre-update snapshot
\* pairs the two databases, although they commit separately and requests go on.
THEOREM SnapshotsStayPaired == Spec => []SnapshotsArePaired
<1>1. UpdateInv => SnapshotsArePaired
  BY DEF UpdateInv, StorageInv, PairsOK
<1> QED BY <1>1, UpdateSafe, PTL

\* OpenWithVersion: a directory with a migrated database holds a paired snapshot from
\* before, also when the migration was interrupted between the two databases.
THEOREM MigrationsStayRestorable == Spec => []PreMigrationIsRestorable
<1>1. UpdateInv => PreMigrationIsRestorable
  BY DEF UpdateInv, StorageInv, MigrationOK, Explained, Original, Current, Schemas, Whole, PreMigrationIsRestorable
<1> QED BY <1>1, UpdateSafe, PTL

\* operations.Recover, RunBackup: no backup row is left running by a crash or a
\* restore, and none reports a backup that the destination does not hold.
THEOREM BackupsStayHonest == Spec => []BackupsAreHonest
<1>1. UpdateInv => BackupsAreHonest
  <2> SUFFICES ASSUME UpdateInv PROVE BackupsAreHonest
    OBVIOUS
  <2>1. dir # None => Reported(dir.system.jobs, used.names, archives)
    BY DEF UpdateInv, StorageInv, JobsOK, ReportsOK
  <2> QED BY <2>1 DEF UpdateInv, StorageInv, JobsOK, RunningOK, Reported, BackupsAreHonest
<1> QED BY <1>1, UpdateSafe, PTL

\* Run, rollback, restoreExecutable: when at most one file operation fails, the old
\* executable and data it can open are on disk after every step and crash.
THEOREM UpdatesStayRecoverable == Spec => [](update.faults <= 1 => StaysRecoverable)
<1>1. UpdateInv => (update.faults <= 1 => StaysRecoverable)
  <2> SUFFICES ASSUME UpdateInv, update.faults <= 1, before # None
               PROVE  \E version \in ({exe, staged} \cup aside) \ {None}, d \in {dir, failed, before} :
                        Works(version) /\ CanOpen(version, d) /\ d.system.events >= before.system.events
    BY DEF StaysRecoverable
  <2>1. 1 \in ({exe, staged} \cup aside) \ {None}
    BY NoneAssumption DEF UpdateInv, UpdateOK, ExecutablesOK, Old
  <2>2. Works(1) /\ CanOpen(1, before)
    BY DEF UpdateInv, UpdateOK, BeforeOK, Works
  <2>3. before.system.events >= before.system.events
    BY DEF UpdateInv, StorageInv, TypesOK, DiskTypeOK, Snapshot, SystemDb
  <2> QED BY <2>1, <2>2, <2>3
<1> QED BY <1>1, UpdateSafe, PTL

\* Run, rollback: an update that ends without a fault leaves an executable that works
\* beside data that it can open, with everything that the snapshot holds.
THEOREM UpdatesEndMatched == Spec => UpdateEndsMatched
<1> DEFINE Ends == update'.pc # update.pc /\ update'.pc \in {"done", "rolled_back"} /\ update'.faults = 0
           Matched == /\ exe' # None /\ (exe' = 1 \/ update'.good) /\ CanOpen(exe', dir')
                      /\ dir'.system.events >= before'.system.events
<1>1. UpdateInv /\ [Next]_vars => [Ends => Matched]_vars
  <2> SUFFICES ASSUME UpdateInv, Next, Ends PROVE Matched
    OBVIOUS
  <2>0. TypesOK /\ PlacesOK /\ PairsOK /\ ProbeOK /\ ExecutablesOK /\ BeforeOK
    BY DEF UpdateInv, StorageInv, UpdateOK
  <2>1. CASE ProbeReady
    <3>1. UNCHANGED <<exe, before, dir>> /\ At("probe") /\ Serving /\ Goto("done")
      BY <2>1 DEF ProbeReady, StopProcess, files
    <3>2. update'.good = update.good
      BY <2>0, <3>1, UpdateMoves DEF UpdatePlaces
    <3>3. exe = 2 /\ proc.version = 2 /\ update.good
      BY <2>0, <3>1 DEF ExecutablesOK, ProbeOK, At, Serving, Works
    <3>4. CanOpen(2, dir)
      BY <2>0, <3>1, <3>3, OpenDir DEF PlacesOK, DirPlaces, Opening, CanOpen, Serving
    <3>5. dir.system.events >= before.system.events
      BY <2>0, <3>1 DEF BeforeOK, Updating, At
    <3> QED BY <3>1, <3>2, <3>3, <3>4, <3>5, NoneAssumption
  <2>2. CASE RestoreData
    <3>1. UNCHANGED <<exe, before>> /\ At("restore") /\ Restorable(1, before)
      BY <2>2 DEF RestoreData
    <3>2. dir' = Restored(1, before) /\ update'.faults = update.faults
      BY <2>0, <2>2, UpdateMoves DEF RestoreData, RestoredData, UpdatePlaces
    <3>3. exe = 1
      BY <2>0, <3>1, <3>2 DEF ExecutablesOK, At
    <3>4. before \in Snapshot
      BY <2>0, <3>1, RestorableBefore
    <3>5. /\ Restored(1, before).system = [before.system EXCEPT !.schema = 1]
          /\ Restored(1, before).data = [before.data EXCEPT !.schema = 1]
      BY DEF Restored
    <3>6. /\ before.system \in SystemDb /\ before.data \in DataDb
          /\ Restored(1, before) \in DataDir
      BY <3>4, CopyTypes DEF Snapshot
    <3>7. Restored(1, before).system.schema = 1 /\ Restored(1, before).system.events = before.system.events /\ before.system.events \in Nat
      BY <3>5, <3>6 DEF SystemDb
    <3>8. Restored(1, before).data.schema = 1 /\ Restored(1, before).data \in DataDb
      BY <3>5, <3>6 DEF DataDb
    <3>9. CanOpen(1, Restored(1, before))
      BY <3>6, <3>7, <3>8, NotNone DEF CanOpen
    <3> QED BY <3>1, <3>2, <3>3, <3>7, <3>9, NoneAssumption
  <2>3. CASE Serve \/ RunServer \/ RestoreArchive \/ Probe
    BY <2>3 DEF Serve, RunServer, RestoreArchive, Probe
  <2>4. CASE \E good \in BOOLEAN : Resolve(good)
    BY <2>0, <2>4 DEF Resolve, TypesOK, ProcessTypeOK
  <2>5. CASE Stage \/ Discard \/ OpenForSnapshot \/ TakeSnapshot \/ ProbeFails \/ Crash
    <3>1. \E pc \in {"staged", "over", "snapshot", "swap", "rollback"} : Goto(pc)
      BY <2>5 DEF Stage, Discard, OpenForSnapshot, TakeSnapshot, ProbeFails, Crash
    <3> QED BY <2>0, <3>1, UpdateMoves DEF UpdatePlaces
  <2>6. CASE SwapIn \/ RetainPrevious \/ MoveData
    <3>1. \E pc \in {"retain", "unswap", "probe", "undo", "restore", "over"} : Goto(pc) \/ Fault(pc)
      BY <2>6 DEF SwapIn, RetainPrevious, MoveData
    <3> QED BY <2>0, <3>1, UpdateMoves DEF UpdatePlaces
  <2>7. CASE MoveExecutable \/ RenamePrevious
    <3>1. /\ MoveExecutable => Renaming \in {"unswap_rename", "undo_rename", "rollback_rename"}
          /\ AfterRestore \in {"data", "over"}
      BY DEF MoveExecutable, Renaming, AfterRestore, At
    <3>2. \E pc \in {"unswap_rename", "undo_rename", "rollback_rename", "data", "over"} : Goto(pc) \/ Fault(pc)
      BY <2>7, <3>1 DEF MoveExecutable, RenamePrevious
    <3> QED BY <2>0, <3>2, UpdateMoves DEF UpdatePlaces
  <2> QED BY <2>1, <2>2, <2>3, <2>4, <2>5, <2>6, <2>7 DEF Next, Update
<1> QED BY <1>1, UpdateSafe, PTL DEF Spec, UpdateEndsMatched
=============================================================================
