--------------------------- MODULE RegistryInstall ---------------------------
(***************************************************************************)
(* The journaled install of a datapan-registry snapshot                    *)
(* (internal/cli/cli.go: commitRegistryInstall and the functions it        *)
(* calls) together with the recovery that every non-help command runs      *)
(* before it loads anything (Run, recoverRegistryInstallTransaction).      *)
(*                                                                         *)
(* One invocation of the CLI runs at a time; it may be killed between any  *)
(* two file-system calls, and any rename, removal or creation may fail.    *)
(* RegistryInstallRace drops the first of these two assumptions.           *)
(*                                                                         *)
(* File contents are snapshots: target[t] is the snapshot the target t was *)
(* written from, Absent when the path does not exist, and Torn when it is  *)
(* neither: a directory removed or written in part, or the empty file that *)
(* reserves a backup's name.  The staged and backup files have random      *)
(* names (os.CreateTemp), so the model keeps one pair per target, for the  *)
(* last transaction; what is left of it is followed until the next install *)
(* draws new names.  The journal's own staged copy is not followed.        *)
(***************************************************************************)
EXTENDS Naturals

CONSTANTS
    Snapshots,  \* the registry snapshots a download can deliver
    Bare,       \* those without release evidence: their release directory is empty
    Absent,     \* no file at the path
    Torn,       \* neither absent nor a snapshot
    MaxFaults   \* bound on the crashes and failing calls of a behavior

ASSUME ConstantsAssumption ==
    /\ Bare \subseteq Snapshots
    /\ Absent \notin Snapshots
    /\ Torn \notin Snapshots \cup {Absent}
    /\ MaxFaults \in Nat

\* The order of `targets` in commitRegistryInstall and in the journal.
Release == 1
Registry == 2
Provenance == 3
Target == 1..3

\* commitRegistryInstall stages the registry file before the release directory.
StageOrder == <<Registry, Release, Provenance>>

Content == Snapshots \cup {Absent, Torn}

VARIABLES
    target, staged, backup,  \* the files, by target
    journal,                 \* registry-install.transaction.json: on disk? its had_target
    pc, i,                   \* where the running invocation is; "idle" when none runs
    new,                     \* the snapshot being installed
    had, backedUp, committed, \* HadTarget, BackedUp, Committed of registryInstallTarget
    failed,                  \* rollbackErrors or recoveryErrors is not empty
    view,                    \* the three targets as the last command loaded them
    excused,                 \* files that stay because their own removal failed, or
                             \* because a kill struck where no journal names them
    faults                   \* crashes and failing calls still to come

disk == <<target, staged, backup, journal>>
memory == <<new, had, backedUp, committed, failed>>
auxiliary == <<view, excused>>
vars == <<disk, memory, pc, i, auxiliary, faults>>

NoFiles == [t \in Target |-> Absent]
NoJournal == [open |-> FALSE, had |-> {}]

\* The staged and backup files of the last transaction, and those on disk.
TransactionFile == {"staged", "backup"} \X Target
OnDisk == {f \in TransactionFile :
              IF f[1] = "staged" THEN staged[f[2]] # Absent ELSE backup[f[2]] # Absent}

Locations ==
    {"idle", "ready", "staging", "reserving", "journaling", "backingUp",
     "committing", "commitPoint", "discarding", "undoing", "restoring",
     "rolledBack", "unstaging", "recovering", "reinstating", "dropping",
     "recovered"}

TypeOK ==
    /\ target \in [Target -> Content]
    /\ staged \in [Target -> Content]
    /\ backup \in [Target -> Content]
    /\ journal \in [open : BOOLEAN, had : SUBSET Target]
    /\ pc \in Locations
    /\ i \in Target
    /\ new \in Snapshots \cup {Absent}
    /\ had \in SUBSET Target
    /\ backedUp \in SUBSET Target
    /\ committed \in SUBSET Target
    /\ failed \in BOOLEAN
    /\ view \in [Target -> Content]
    /\ excused \subseteq TransactionFile
    /\ faults \in 0..MaxFaults

Init ==
    /\ target \in [Target -> Snapshots \cup {Absent}]
    /\ staged = NoFiles
    /\ backup = NoFiles
    /\ journal = NoJournal
    /\ pc = "idle"
    /\ i = 1
    /\ new = Absent
    /\ had = {} /\ backedUp = {} /\ committed = {}
    /\ failed = FALSE
    /\ view = target
    /\ excused = {}
    /\ faults = MaxFaults

-----------------------------------------------------------------------------
(* Control *)

Goto(location, index) == pc' = location /\ i' = index

\* The loops over `targets`: upwards while installing, downwards while
\* rolling back and recovering.
UpFromPastTheEnd(location, after) ==   \* mutant: one target too many
    IF i <= 3 THEN Goto(location, i + 1) ELSE Goto(after, 1)

UpFrom(location, after) ==
    IF i < 3 THEN Goto(location, i + 1) ELSE Goto(after, 1)

DownFrom(location, after) ==
    IF i > 1 THEN Goto(location, i - 1) ELSE Goto(after, 1)

NoFault == UNCHANGED faults
Fault == faults > 0 /\ faults' = faults - 1

\* The process ends: what it held in memory is gone.
Forget ==
    /\ new' = Absent
    /\ had' = {} /\ backedUp' = {} /\ committed' = {}
    /\ failed' = FALSE

\* os.RemoveAll(target[t]) that reports an error: a directory may have lost
\* some of its files.
RemoveAllFails(t) ==
    target' \in {target} \cup (IF t = Release THEN {[target EXCEPT ![t] = Torn]} ELSE {})

\* os.Rename onto an existing path replaces a file and an empty directory,
\* and fails on a directory that has entries.
Replaceable(t) == t # Release \/ target[t] \in {Absent, Torn} \cup Bare

-----------------------------------------------------------------------------
(* Run: recovery before anything is loaded, then one command *)

StartCommandReady ==   \* mutant: an open journal stops nobody
    /\ pc = "idle"
    /\ Goto("ready", 1)
    /\ UNCHANGED <<disk, memory, auxiliary>>
    /\ NoFault

\* A recovery answers for everything its journal names.
StartCommand ==
    /\ pc = "idle"
    /\ IF journal.open THEN Goto("recovering", 3) /\ excused' = {}
                       ELSE Goto("ready", 1) /\ UNCHANGED excused
    /\ UNCHANGED <<disk, memory, view>>
    /\ NoFault

LoadRegistry ==
    /\ pc = "ready"
    /\ view' = target
    /\ Goto("idle", 1)
    /\ UNCHANGED <<disk, memory, excused>>
    /\ NoFault

\* New names: no later call reaches what an earlier install left behind.
BeginInstall(s) ==
    /\ pc = "ready"
    /\ new' = s
    /\ staged' = NoFiles
    /\ backup' = NoFiles
    /\ excused' = {}
    /\ Goto("staging", 1)
    /\ UNCHANGED <<target, journal, had, backedUp, committed, failed, view>>
    /\ NoFault

-----------------------------------------------------------------------------
(* commitRegistryInstall *)

Stage ==
    /\ pc = "staging"
    /\ staged' = [staged EXCEPT ![StageOrder[i]] = new]
    /\ UpFrom("staging", "reserving")
    /\ UNCHANGED <<target, backup, journal, memory, auxiliary>>
    /\ NoFault

StageFailsDirty ==   \* mutant: the files staged before it stay
    /\ pc = "staging"
    /\ Forget
    /\ Goto("idle", 1)
    /\ UNCHANGED <<disk, auxiliary>>
    /\ Fault

\* A failing stage may have made part of its own file.  The removals of that
\* and of what was staged before it are those of Unstage, each of which may
\* fail; the code makes them in the order of staging.
StageFails ==
    /\ pc = "staging"
    /\ staged' \in {staged, [staged EXCEPT ![StageOrder[i]] = Torn]}
    /\ Goto("unstaging", 1)
    /\ UNCHANGED <<target, backup, journal, memory, auxiliary>>
    /\ Fault

ReserveThenBackUp ==   \* mutant: the journal is written too late
    /\ pc = "reserving"
    /\ had' = IF target[i] # Absent THEN had \cup {i} ELSE had
    /\ UpFrom("reserving", "backingUp")
    /\ UNCHANGED <<disk, new, backedUp, committed, failed, auxiliary>>
    /\ NoFault

\* os.Lstat(target) and registryInstallBackupPath.
Reserve ==
    /\ pc = "reserving"
    /\ had' = IF target[i] # Absent THEN had \cup {i} ELSE had
    /\ UpFrom("reserving", "journaling")
    /\ UNCHANGED <<disk, new, backedUp, committed, failed, auxiliary>>
    /\ NoFault

\* rollbackRegistryInstallTargets finds nothing to undo before the journal.
\* When the call that fails is the removal of the empty file that reserved
\* the backup's name, that file stays.
ReserveFails ==
    /\ pc = "reserving"
    /\ \/ UNCHANGED <<backup, excused>>
       \/ /\ target[i] # Absent
          /\ backup' = [backup EXCEPT ![i] = Torn]
          /\ excused' = excused \cup {<<"backup", i>>}
    /\ Goto("unstaging", 1)
    /\ UNCHANGED <<target, staged, journal, memory, view>>
    /\ Fault

WriteJournal ==
    /\ pc = "journaling"
    /\ journal' = [open |-> TRUE, had |-> had]
    /\ Goto("backingUp", 1)
    /\ UNCHANGED <<target, staged, backup, memory, auxiliary>>
    /\ NoFault

WriteJournalFails ==
    /\ pc = "journaling"
    /\ Goto("unstaging", 1)
    /\ UNCHANGED <<disk, memory, auxiliary>>
    /\ Fault

BackUp ==
    /\ pc = "backingUp"
    /\ IF i \in had
       THEN /\ backup' = [backup EXCEPT ![i] = target[i]]
            /\ target' = [target EXCEPT ![i] = Absent]
            /\ backedUp' = backedUp \cup {i}
       ELSE UNCHANGED <<backup, target, backedUp>>
    /\ UpFrom("backingUp", "committing")
    /\ UNCHANGED <<staged, journal, new, had, committed, failed, auxiliary>>
    /\ NoFault

BackUpFails ==
    /\ pc = "backingUp"
    /\ i \in had
    /\ Goto("undoing", 3)
    /\ UNCHANGED <<disk, memory, auxiliary>>
    /\ Fault

Commit ==
    /\ pc = "committing"
    /\ target' = [target EXCEPT ![i] = staged[i]]
    /\ staged' = [staged EXCEPT ![i] = Absent]
    /\ committed' = committed \cup {i}
    /\ UpFrom("committing", "commitPoint")
    /\ UNCHANGED <<backup, journal, new, had, backedUp, failed, auxiliary>>
    /\ NoFault

CommitFails ==
    /\ pc = "committing"
    /\ Goto("undoing", 3)
    /\ UNCHANGED <<disk, memory, auxiliary>>
    /\ Fault

\* os.Remove(journal): the commit point.
CommitPoint ==
    /\ pc = "commitPoint"
    /\ journal' = NoJournal
    /\ Goto("discarding", 1)
    /\ UNCHANGED <<target, staged, backup, memory, auxiliary>>
    /\ NoFault

CommitPointFails ==
    /\ pc = "commitPoint"
    /\ Goto("undoing", 3)
    /\ UNCHANGED <<disk, memory, auxiliary>>
    /\ Fault

\* The backups of a committed install.
DiscardBackup ==
    /\ pc = "discarding"
    /\ backup' = [backup EXCEPT ![i] = Absent]
    /\ UpFrom("discarding", "unstaging")
    /\ UNCHANGED <<target, staged, journal, memory, auxiliary>>
    /\ NoFault

\* os.RemoveAll of a backup fails: it stays, perhaps in part, and the install
\* has succeeded all the same.
DiscardBackupFails ==
    /\ pc = "discarding"
    /\ backup[i] # Absent
    /\ backup' \in {backup} \cup
                   (IF i = Release THEN {[backup EXCEPT ![i] = Torn]} ELSE {})
    /\ excused' = excused \cup {<<"backup", i>>}
    /\ UpFrom("discarding", "unstaging")
    /\ UNCHANGED <<target, staged, journal, memory, view>>
    /\ Fault

\* The deferred removal of the staged files, on every return.
NextUnstage ==
    /\ pc = "unstaging"
    /\ UpFrom("unstaging", "idle")
    /\ IF i = 3 THEN Forget ELSE UNCHANGED memory
    /\ UNCHANGED <<target, backup, journal, view>>

Unstage ==
    /\ NextUnstage
    /\ staged' = [staged EXCEPT ![i] = Absent]
    /\ UNCHANGED excused
    /\ NoFault

\* Its errors are ignored.
UnstageFails ==
    /\ NextUnstage
    /\ staged[i] # Absent
    /\ excused' = excused \cup {<<"staged", i>>}
    /\ UNCHANGED staged
    /\ Fault

-----------------------------------------------------------------------------
(* rollbackRegistryInstallTargets, rollbackRegistryInstallWithJournal *)

Undo ==
    /\ pc = "undoing"
    /\ IF i \in committed
       THEN /\ target' = [target EXCEPT ![i] = Absent]
            /\ committed' = committed \ {i}
       ELSE UNCHANGED <<target, committed>>
    /\ Goto("restoring", i)
    /\ UNCHANGED <<staged, backup, journal, new, had, backedUp, failed, auxiliary>>
    /\ NoFault

UndoFails ==
    /\ pc = "undoing"
    /\ i \in committed
    /\ RemoveAllFails(i)
    /\ failed' = TRUE
    /\ Goto("restoring", i)
    /\ UNCHANGED <<staged, backup, journal, new, had, backedUp, committed, auxiliary>>
    /\ Fault

Restore ==
    /\ pc = "restoring"
    /\ IF i \in backedUp
       THEN /\ Replaceable(i)
            /\ target' = [target EXCEPT ![i] = backup[i]]
            /\ backup' = [backup EXCEPT ![i] = Absent]
            /\ backedUp' = backedUp \ {i}
       ELSE UNCHANGED <<target, backup, backedUp>>
    /\ DownFrom("undoing", "rolledBack")
    /\ UNCHANGED <<staged, journal, new, had, committed, failed, auxiliary>>
    /\ NoFault

\* The rename back fails: by a fault, or because a directory is in the way.
RestoreFails ==
    /\ pc = "restoring"
    /\ i \in backedUp
    /\ failed' = TRUE
    /\ DownFrom("undoing", "rolledBack")
    /\ UNCHANGED <<disk, new, had, backedUp, committed, auxiliary>>
    /\ IF Replaceable(i) /\ target[i] # Torn THEN Fault ELSE NoFault

CloseRollbackAlways ==   \* mutant: the journal goes after a partial rollback
    /\ pc = "rolledBack"
    /\ journal' = NoJournal
    /\ Goto("unstaging", 1)
    /\ UNCHANGED <<target, staged, backup, memory, auxiliary>>
    /\ NoFault

\* The journal goes only when no target is left committed or backed up.
CloseRollback ==
    /\ pc = "rolledBack"
    /\ journal' = IF committed \cup backedUp = {} THEN NoJournal ELSE journal
    /\ Goto("unstaging", 1)
    /\ UNCHANGED <<target, staged, backup, memory, auxiliary>>
    /\ NoFault

CloseRollbackFails ==
    /\ pc = "rolledBack"
    /\ committed \cup backedUp = {}
    /\ Goto("unstaging", 1)
    /\ UNCHANGED <<disk, memory, auxiliary>>
    /\ Fault

-----------------------------------------------------------------------------
(* recoverRegistryInstallTransaction *)

\* What recovery does first with target i: remove an interrupted target that
\* has a backup, or a new target that had no predecessor; leave the others.
Interrupted == backup[i] # Absent
NewTarget == /\ backup[i] = Absent
             /\ i \notin journal.had
             /\ staged[i] = Absent
             /\ target[i] # Absent

RecoverTargetKeepingNew ==   \* mutant: new targets without predecessor survive
    /\ pc = "recovering"
    /\ target' = IF Interrupted THEN [target EXCEPT ![i] = Absent] ELSE target
    /\ Goto(IF Interrupted THEN "reinstating" ELSE "dropping", i)
    /\ UNCHANGED <<staged, backup, journal, memory, auxiliary>>
    /\ NoFault

RecoverTargetInPlace ==   \* mutant: the backup is renamed onto the interrupted target
    /\ pc = "recovering"
    /\ target' = IF NewTarget THEN [target EXCEPT ![i] = Absent] ELSE target
    /\ Goto(IF Interrupted THEN "reinstating" ELSE "dropping", i)
    /\ UNCHANGED <<staged, backup, journal, memory, auxiliary>>
    /\ NoFault

RecoverTarget ==
    /\ pc = "recovering"
    /\ target' = IF Interrupted \/ NewTarget THEN [target EXCEPT ![i] = Absent] ELSE target
    /\ Goto(IF Interrupted THEN "reinstating" ELSE "dropping", i)
    /\ UNCHANGED <<staged, backup, journal, memory, auxiliary>>
    /\ NoFault

\* The removal fails: an interrupted target is given up for this time
\* (`continue`), a new target goes on to the removal of its staged file.
RecoverTargetFails ==
    /\ pc = "recovering"
    /\ Interrupted \/ NewTarget
    /\ RemoveAllFails(i)
    /\ failed' = TRUE
    /\ IF Interrupted THEN DownFrom("recovering", "recovered") ELSE Goto("dropping", i)
    /\ UNCHANGED <<staged, backup, journal, new, had, backedUp, committed, auxiliary>>
    /\ Fault

Reinstate ==
    /\ pc = "reinstating"
    /\ Replaceable(i)
    /\ target' = [target EXCEPT ![i] = backup[i]]
    /\ backup' = [backup EXCEPT ![i] = Absent]
    /\ Goto("dropping", i)
    /\ UNCHANGED <<staged, journal, memory, auxiliary>>
    /\ NoFault

ReinstateFails ==
    /\ pc = "reinstating"
    /\ failed' = TRUE
    /\ DownFrom("recovering", "recovered")
    /\ UNCHANGED <<disk, new, had, backedUp, committed, auxiliary>>
    /\ IF Replaceable(i) THEN Fault ELSE NoFault

DropStaged ==
    /\ pc = "dropping"
    /\ staged' = [staged EXCEPT ![i] = Absent]
    /\ DownFrom("recovering", "recovered")
    /\ UNCHANGED <<target, backup, journal, memory, auxiliary>>
    /\ NoFault

DropStagedFails ==
    /\ pc = "dropping"
    /\ staged[i] # Absent
    /\ failed' = TRUE
    /\ DownFrom("recovering", "recovered")
    /\ UNCHANGED <<disk, new, had, backedUp, committed, auxiliary>>
    /\ Fault

\* No error: the journal is removed and the command goes on.
CloseRecovery ==
    /\ pc = "recovered"
    /\ ~failed
    /\ journal' = NoJournal
    /\ Goto("ready", 1)
    /\ UNCHANGED <<target, staged, backup, memory, auxiliary>>
    /\ NoFault

\* Errors, or a journal that cannot be removed: the command stops with
\* registry_install_recovery_failed and the journal stays.
RecoveryFails ==
    /\ pc = "recovered"
    /\ IF failed THEN NoFault ELSE Fault
    /\ Forget
    /\ Goto("idle", 1)
    /\ UNCHANGED <<disk, auxiliary>>

-----------------------------------------------------------------------------
\* The process is killed.  Without a journal nobody looks for its staged and
\* backup files again.
Crash ==
    /\ pc # "idle"
    /\ Forget
    /\ Goto("idle", 1)
    /\ excused' = IF journal.open THEN excused ELSE excused \cup OnDisk
    /\ UNCHANGED <<disk, view>>
    /\ Fault

Install ==
    \/ Stage \/ StageFails
    \/ Reserve \/ ReserveFails
    \/ WriteJournal \/ WriteJournalFails
    \/ BackUp \/ BackUpFails
    \/ Commit \/ CommitFails
    \/ CommitPoint \/ CommitPointFails
    \/ DiscardBackup \/ DiscardBackupFails
    \/ Unstage \/ UnstageFails

Rollback ==
    \/ Undo \/ UndoFails
    \/ Restore \/ RestoreFails
    \/ CloseRollback \/ CloseRollbackFails

Recover ==
    \/ RecoverTarget \/ RecoverTargetFails
    \/ Reinstate \/ ReinstateFails
    \/ DropStaged \/ DropStagedFails
    \/ CloseRecovery \/ RecoveryFails

Run ==
    \/ StartCommand
    \/ LoadRegistry
    \/ \E s \in Snapshots : BeginInstall(s)
    \/ Install
    \/ Rollback
    \/ Recover

Next == Run \/ Crash

Spec == Init /\ [][Next]_vars

\* A started command runs to its end unless it crashes, and the user goes on
\* issuing commands; the faults of a behavior are finitely many.
FairSpec == Spec /\ WF_vars(Run)

-----------------------------------------------------------------------------
(* The same for users who write --health-plan-index=VALUE                    *)

\* hasAnyArg finds --health-plan-index in both of its forms, and Run then
\* leaves the journal alone.  With the form `--health-plan-index VALUE` the
\* command loads its own plan; healthOperationPlanInvocation does not know the
\* form `--health-plan-index=VALUE`, so that the default Registry is loaded.
LoadUnrecovered ==
    /\ pc = "idle"
    /\ view' = target
    /\ UNCHANGED <<disk, memory, pc, i, excused>>
    /\ NoFault

SpecWithPlanFlag == Init /\ [][Next \/ LoadUnrecovered]_vars

-----------------------------------------------------------------------------
(* Properties *)

\* What recovery would make of the disk as it is: the installed set, as far
\* as any later command can tell.
Restorable ==
    [t \in Target |->
        CASE ~journal.open -> target[t]
          [] journal.open /\ backup[t] # Absent -> backup[t]
          [] journal.open /\ backup[t] = Absent /\ t \in journal.had -> target[t]
          [] OTHER -> Absent]

Promise == INSTANCE AtomicInstall WITH set <- Restorable

\* Whatever crashes or fails, an install is all or nothing: what the disk can
\* be recovered to changes only at the commit point, to one complete
\* snapshot, and no command ever loads anything else.
ImplementsPromise == Promise!Spec

\* An install takes effect on all three targets in one step, the removal of
\* the journal, and nothing else does: no failing call, rollback, crash or
\* recovery changes what the disk can be recovered to.
InstallsWholeSet ==
    [][\/ Restorable' = Restorable
       \/ \E s \in Snapshots : Restorable' = [t \in Target |-> s]]_vars

\* A command never loads a mixture that an interrupted install left behind:
\* what it reads is what recovery would have made of the disk.
LoadsWholeSet == [][view' # view => view' = Restorable]_vars

\* Write-ahead: the old content of a target sits in its backup only while a
\* journal that names it as a target to restore is on disk, or when the
\* install is committed: then the targets are one whole snapshot and the
\* backup waits to be deleted, or stays because it could not be.
WriteAhead ==
    \A t \in Target :
        backup[t] \in Snapshots =>
            \/ journal.open /\ t \in journal.had
            \/ ~journal.open /\ \E s \in Snapshots : target = [u \in Target |-> s]

\* No path out of an install or a recovery leaves a staged or backup file
\* behind, except one that keeps the journal for the next command: a file
\* that is there all the same is one whose own removal failed, or that a
\* kill left before the journal was written or after it was gone.
ReturnsClean ==
    pc \in {"idle", "ready"} /\ ~journal.open => OnDisk \subseteq excused

\* An interrupted install never locks the user out: once faults cease, a
\* command gets past the recovery and finds its Registry.
RecoveryConverges == []<>(pc = "ready")
=============================================================================
