----------------------------- MODULE SelfUpdate -----------------------------
(***************************************************************************)
(* The update command on top of Storage: it stages and verifies a signed   *)
(* release, takes a paired snapshot of the stopped data directory,         *)
(* exchanges the executables, lets the new one serve on loopback until it  *)
(* is ready, and otherwise puts the old executable and the snapshot back.  *)
(* The machine may stop between any two steps, and a bounded number of     *)
(* file operations fail.  The executables are known by their version: 1    *)
(* is the one that runs the update, 2 the release.                         *)
(***************************************************************************)
EXTENDS Storage

CONSTANT MaxFaults  \* bound on the file operations that fail in an update

ASSUME FaultsAssumption == MaxFaults \in Nat

VARIABLES
  exe,     \* the executable at its path
  staged,  \* the temporary file beside it
  aside,   \* executables kept as .previous-* and .failed-update-*
  update,  \* selfupdate.Run: its place, and whether the release works
  before,  \* the published pre-update snapshot
  failed   \* the data directory that rollback moved away

files == <<exe, staged, aside, before, failed>>
vars == <<storage, files, update>>

\* The directory was last used by version 1; an operator may have replaced the
\* executable by hand.
Init ==
  /\ InitStorage(1)
  /\ exe \in {1, 2} /\ staged = None /\ aside = {}
  /\ update = [pc |-> "idle", good |-> exe = 2, faults |-> 0]
  /\ before = None /\ failed = None

Works(version) == version = 2 => update.good
At(pc) == update.pc = pc
Goto(pc) == update' = [update EXCEPT !.pc = pc]
Fault(pc) == update.faults < MaxFaults /\ update' = [update EXCEPT !.pc = pc, !.faults = @ + 1]

-----------------------------------------------------------------------------
(* The server, started by the operator or by the probe.  The operator leaves
   the data directory alone from the snapshot of an update to its end. *)

Updating == update.pc \notin {"idle", "resolved", "staged", "over", "done", "rolled_back"}
Serve == ~Updating /\ exe # None /\ Start(exe, FALSE) /\ UNCHANGED <<files, update>>
\* A release that does not work may still migrate before it fails.
RunServer ==
  /\ StorageSteps \/ (Works(proc.version) /\ Recover) \/ (~proc.probe /\ proc.pc # "offline" /\ Stop)
  /\ UNCHANGED <<files, update>>
RestoreArchive ==
  /\ ~Updating /\ exe # None
  /\ \E archive \in archives : RestoreBackup(exe, archive)
  /\ UNCHANGED <<files, update>>

-----------------------------------------------------------------------------
(* selfupdate.Run. *)

\* resolve: a signed release, newer than the executable that runs the update.
\* Whether it will serve is not known yet.
Newer(release) == exe # None /\ release > exe
Resolve(good) ==
  /\ At("idle") /\ Newer(2)
  /\ update' = [update EXCEPT !.pc = "resolved", !.good = good]
  /\ UNCHANGED <<storage, files>>
\* stageArtifact and validateBinary: the file is the one the manifest names and
\* reports its version.
Stage ==
  /\ At("resolved")
  /\ staged' = 2 /\ Goto("staged")
  /\ UNCHANGED <<storage, exe, aside, before, failed>>
\* A dry run, or an error before the exchange: the staged file is removed.
Discard ==
  /\ At("resolved") \/ At("staged") \/ At("snapshot")
  /\ Goto("over") /\ staged' = None
  /\ IF At("snapshot") THEN StopProcess ELSE UNCHANGED storage
  /\ UNCHANGED <<exe, aside, before, failed>>
\* CreateSnapshot takes the instance lock and needs both databases.
OpenForSnapshot ==
  /\ At("staged") /\ proc.pc = "down" /\ CanOpen(1, dir)
  /\ proc' = [pc |-> "offline", version |-> 1, probe |-> FALSE]
  /\ Goto("snapshot")
  /\ UNCHANGED <<files, dir, lock, snap, backup, archives, used>>
TakeSnapshot ==
  /\ At("snapshot") /\ snap.pc = "published"
  /\ before' = snap.copy
  /\ StopProcess /\ Goto("swap")
  /\ UNCHANGED <<exe, staged, aside, failed>>

SwapIn ==
  /\ At("swap")
  /\ exe' = staged /\ staged' = exe
  /\ Goto("retain") \/ Fault("unswap")
  /\ UNCHANGED <<storage, aside, before, failed>>
\* The old executable becomes .previous-*.
KeptNothing == UNCHANGED aside /\ staged' = None
Kept == aside' = aside \cup {staged} /\ staged' = None
RetainPrevious ==
  /\ At("retain")
  /\ \/ Kept /\ (Goto("probe") \/ Fault("undo"))
     \/ Fault("undo") /\ UNCHANGED <<aside, staged>>
  /\ UNCHANGED <<storage, exe, before, failed>>

\* restoreExecutable: two renames, the first undone when the second fails.
\* "unswap" and "undo" precede the probe; "rollback" follows it and goes on with
\* the data.
Renaming == CASE At("unswap") -> "unswap_rename" [] At("undo") -> "undo_rename" [] At("rollback") -> "rollback_rename"
AfterRestore == IF update.pc \in {"rollback", "rollback_rename"} THEN "data" ELSE "over"
\* The deferred removal of the staged path, which Run forgets once swapIn returned.
RemoveStaged == staged' = IF update.pc \in {"unswap", "unswap_rename"} THEN None ELSE staged
MoveExecutable ==
  /\ update.pc \in {"unswap", "undo", "rollback"}
  /\ \/ aside' = aside \cup {exe} /\ exe' = None /\ Goto(Renaming) /\ UNCHANGED staged
     \/ Fault(AfterRestore) /\ RemoveStaged /\ UNCHANGED <<exe, aside>>
  /\ UNCHANGED <<storage, before, failed>>
RenamePrevious ==
  /\ update.pc \in {"unswap_rename", "undo_rename", "rollback_rename"}
  /\ \/ /\ exe' = 1 /\ staged' = None
        /\ aside' = IF staged = 1 THEN aside ELSE aside \ {1}
        /\ Goto(AfterRestore)
     \/ /\ exe' = 2 /\ RemoveStaged
        /\ aside' = aside \ {2}
        /\ Fault(AfterRestore)
  /\ UNCHANGED <<storage, before, failed>>

\* probeReady: a server that answers is interrupted and must stop cleanly; one
\* that does not answer in time, exits or hangs is killed.
Probe == At("probe") /\ Start(exe, TRUE) /\ UNCHANGED <<files, update>>
ProbeReady ==
  /\ At("probe") /\ proc.probe /\ Serving
  /\ StopProcess /\ Goto("done")
  /\ UNCHANGED files
ProbeFails ==
  /\ At("probe")
  /\ StopProcess /\ Goto("rollback")
  /\ UNCHANGED files

\* rollback: the data directory is moved away and the snapshot restored.
MoveData ==
  /\ At("data")
  /\ \/ failed' = dir /\ dir' = None /\ Goto("restore")
     \/ Fault("over") /\ UNCHANGED <<failed, dir>>
  /\ UNCHANGED <<exe, staged, aside, before, proc, lock, snap, backup, archives, used>>
KeptData == dir' = failed /\ failed' = None
RestoredData == dir' = Restored(1, before) /\ UNCHANGED failed
RestoreData ==
  /\ At("restore") /\ dir = None /\ Restorable(1, before)
  /\ \/ RestoredData /\ Goto("rolled_back")
     \/ KeptData /\ Fault("over")
  /\ UNCHANGED <<exe, staged, aside, before, proc, lock, snap, backup, archives, used>>

\* The machine stops; or only the updater, and a probed server goes on.
Crash ==
  /\ Updating
  /\ Goto("over")
  /\ StopProcess \/ (proc.probe /\ proc' = [proc EXCEPT !.probe = FALSE] /\ UNCHANGED <<dir, lock, snap, backup, archives, used>>)
  /\ UNCHANGED files

-----------------------------------------------------------------------------
Update ==
  \/ \E good \in BOOLEAN : Resolve(good)
  \/ Stage \/ Discard \/ OpenForSnapshot \/ TakeSnapshot \/ SwapIn \/ RetainPrevious \/ Probe \/ ProbeReady \/ ProbeFails
  \/ MoveExecutable \/ RenamePrevious \/ MoveData \/ RestoreData \/ Crash

Next == Serve \/ RunServer \/ RestoreArchive \/ Update

Spec == Init /\ [][Next]_vars

-----------------------------------------------------------------------------
Copies == {a.copy : a \in archives} \cup ({before} \ {None})
            \cup UNION {d.pre : d \in {dir, failed} \ {None}}

\* createSnapshotFromStore, ProjectOutbox, RunRetention: a snapshot holds both
\* databases of one generation; an event that its system database counts as
\* delivered is in its data database, which knows no event from later, and
\* retention has left no detail behind the cutoff.
SnapshotsArePaired == \A copy \in Copies : Paired(copy)

\* Run, rollback, restoreExecutable: from the exchange on, whichever single file
\* operation fails and wherever the update stops, the disk holds an executable
\* that works and data it can open with everything the snapshot was taken of.
\* Two failing operations may lose the old executable (apply.go:54, apply.go:206).
StaysRecoverable ==
  before # None =>
    \E version \in ({exe, staged} \cup aside) \ {None}, d \in {dir, failed, before} :
      Works(version) /\ CanOpen(version, d) /\ d.system.events >= before.system.events

\* Run, rollback: an update that ends without a fault leaves an executable that
\* works beside a data directory it can open, with nothing of the snapshot lost.
UpdateEndsMatched ==
  [][update'.pc # update.pc /\ update'.pc \in {"done", "rolled_back"} /\ update'.faults = 0 =>
       /\ exe' # None /\ (exe' = 1 \/ update'.good) /\ CanOpen(exe', dir')
       /\ dir'.system.events >= before'.system.events]_vars
=============================================================================
