------------------------- MODULE RegistryInstallRace -------------------------
(***************************************************************************)
(* Several invocations of the CLI on the same .datapan directory.  Nothing *)
(* excludes them from one another: there is no lock, and the journal of a  *)
(* running install looks to another command exactly like the journal of a  *)
(* killed one.                                                             *)
(*                                                                         *)
(* The same functions as in RegistryInstall (internal/cli/cli.go: Run,     *)
(* commitRegistryInstall, recoverRegistryInstallTransaction), one          *)
(* file-system call per step, with every process on its own copy of the    *)
(* control state.  No call fails unless another process makes it fail: a   *)
(* rename whose source is gone, a rename onto a directory with entries,    *)
(* the removal of a journal that is no longer there.                       *)
(*                                                                         *)
(* Staging and the reading of a target's backup and staged paths are one   *)
(* step each: nobody can see a staged file before a journal names it.      *)
(***************************************************************************)
EXTENDS Naturals

CONSTANTS
    Process,    \* the invocations
    Installers, \* those that run `catalog install`; the others load the Registry
    Killed,     \* an earlier installer, killed half-way
    Old,        \* the snapshot installed before; an installer's own name is its snapshot
    Absent      \* no file at the path, no journal, nothing loaded

Release == 1
Target == 1..3
Owner == Process \cup {Killed}      \* whose staged and backup files they are
Content == Owner \cup {Old, Absent}

ConstantsAssumption ==
    /\ Killed \notin Process
    /\ {Old, Absent} \cap Owner = {}
    /\ Old # Absent

VARIABLES
    target,          \* the installed targets
    staged, backup,  \* per owner and target: does the staged file exist, what the backup holds
    journal,         \* owner and had_target of the journal on disk
    pc, i,           \* per process: control
    txn,             \* per process: the journal it wrote or read
    looked,          \* per process: backupExists and stagedExists of recovery's loop
    backedUp, committed, \* per process: BackedUp, Committed
    failed,          \* per process: recoveryErrors is not empty
    view             \* per process: the targets it loaded

disk == <<target, staged, backup, journal>>
local == <<pc, i, txn, looked, backedUp, committed, failed, view>>
vars == <<disk, local>>

NoJournal == [owner |-> Absent, had |-> {}]
NotLooked == [backup |-> FALSE, staged |-> FALSE]
Nothing == [t \in Target |-> Absent]

Finished == {"loaded", "installed", "failed"}

TypeOK ==
    /\ target \in [Target -> Content]
    /\ staged \in [Owner -> [Target -> BOOLEAN]]
    /\ backup \in [Owner -> [Target -> Content]]
    /\ journal \in [owner : Owner \cup {Absent}, had : SUBSET Target]
    /\ pc \in [Process -> Finished \cup
                 {"start", "ready", "reserving", "journaling", "backingUp",
                  "committing", "commitPoint", "discarding", "undoing",
                  "restoring", "rolledBack", "unstaging", "recovering",
                  "removing", "reinstating", "dropping", "recovered"}]
    /\ i \in [Process -> Target]
    /\ txn \in [Process -> [owner : Owner \cup {Absent}, had : SUBSET Target]]
    /\ looked \in [Process -> [backup : BOOLEAN, staged : BOOLEAN]]
    /\ backedUp \in [Process -> SUBSET Target]
    /\ committed \in [Process -> SUBSET Target]
    /\ failed \in [Process -> BOOLEAN]
    /\ view \in [Process -> [Target -> Content]]

\* The disk as the killed installer left it: `had` existed before, the first
\* b targets were backed up, the first c committed.
LeftBehind(had, b, c) ==
    /\ target = [t \in Target |->
                    CASE t <= c -> Killed
                      [] t > c /\ t \in had /\ t > b -> Old
                      [] OTHER -> Absent]
    /\ staged = [o \in Owner |-> [t \in Target |-> o = Killed /\ t > c]]
    /\ backup = [o \in Owner |-> [t \in Target |->
                    IF o = Killed /\ t \in had /\ t <= b THEN Old ELSE Absent]]
    /\ journal = [owner |-> Killed, had |-> had]

Clean(had) ==
    /\ target = [t \in Target |-> IF t \in had THEN Old ELSE Absent]
    /\ staged = [o \in Owner |-> [t \in Target |-> FALSE]]
    /\ backup = [o \in Owner |-> Nothing]
    /\ journal = NoJournal

ProcessesStart ==
    /\ pc = [p \in Process |-> "start"]
    /\ i = [p \in Process |-> 1]
    /\ txn = [p \in Process |-> NoJournal]
    /\ looked = [p \in Process |-> NotLooked]
    /\ backedUp = [p \in Process |-> {}]
    /\ committed = [p \in Process |-> {}]
    /\ failed = [p \in Process |-> FALSE]
    /\ view = [p \in Process |-> Nothing]

\* Every target had a predecessor, or none had.
InitClean == ProcessesStart /\ \E had \in {{}, Target} : Clean(had)
InitInterrupted ==
    /\ ProcessesStart
    /\ \E had \in {{}, Target}, b, c \in 0..3 :
          /\ c > 0 => b = 3
          /\ LeftBehind(had, b, c)

Init == InitClean \/ InitInterrupted

-----------------------------------------------------------------------------
Goto(p, location, index) ==
    /\ pc' = [pc EXCEPT ![p] = location]
    /\ i' = [i EXCEPT ![p] = index]

UpFromPastTheEnd(p, location, after) ==   \* mutant: one target too many
    IF i[p] <= 3 THEN Goto(p, location, i[p] + 1) ELSE Goto(p, after, 1)

UpFrom(p, location, after) ==
    IF i[p] < 3 THEN Goto(p, location, i[p] + 1) ELSE Goto(p, after, 1)

DownFrom(p, location, after) ==
    IF i[p] > 1 THEN Goto(p, location, i[p] - 1) ELSE Goto(p, after, 1)

SetTarget(t, content) == target' = [target EXCEPT ![t] = content]
SetBackup(o, t, content) == backup' = [backup EXCEPT ![o][t] = content]

\* Renaming onto the release directory fails when it has entries.
Replaceable(t) == t # Release \/ target[t] = Absent

-----------------------------------------------------------------------------
(* Run *)

Start(p) ==
    /\ pc[p] = "start"
    /\ txn' = [txn EXCEPT ![p] = journal]
    /\ IF journal.owner = Absent THEN Goto(p, "ready", 1) ELSE Goto(p, "recovering", 3)
    /\ UNCHANGED <<disk, looked, backedUp, committed, failed, view>>

LoadRegistry(p) ==
    /\ pc[p] = "ready"
    /\ p \notin Installers
    /\ view' = [view EXCEPT ![p] = target]
    /\ Goto(p, "loaded", 1)
    /\ UNCHANGED <<disk, txn, looked, backedUp, committed, failed>>

-----------------------------------------------------------------------------
(* commitRegistryInstall and its rollback *)

StageAll(p) ==
    /\ pc[p] = "ready"
    /\ p \in Installers
    /\ staged' = [staged EXCEPT ![p] = [t \in Target |-> TRUE]]
    /\ txn' = [txn EXCEPT ![p] = [owner |-> p, had |-> {}]]
    /\ Goto(p, "reserving", 1)
    /\ UNCHANGED <<target, backup, journal, looked, backedUp, committed, failed, view>>

Reserve(p) ==
    /\ pc[p] = "reserving"
    /\ txn' = IF target[i[p]] # Absent
              THEN [txn EXCEPT ![p].had = @ \cup {i[p]}]
              ELSE txn
    /\ UpFrom(p, "reserving", "journaling")
    /\ UNCHANGED <<disk, looked, backedUp, committed, failed, view>>

\* The rename replaces whatever journal is there.
WriteJournal(p) ==
    /\ pc[p] = "journaling"
    /\ journal' = txn[p]
    /\ Goto(p, "backingUp", 1)
    /\ UNCHANGED <<target, staged, backup, txn, looked, backedUp, committed, failed, view>>

BackUp(p) ==
    /\ pc[p] = "backingUp"
    /\ IF i[p] \in txn[p].had
       THEN /\ target[i[p]] # Absent
            /\ SetBackup(p, i[p], target[i[p]])
            /\ SetTarget(i[p], Absent)
            /\ backedUp' = [backedUp EXCEPT ![p] = @ \cup {i[p]}]
       ELSE UNCHANGED <<backup, target, backedUp>>
    /\ UpFrom(p, "backingUp", "committing")
    /\ UNCHANGED <<staged, journal, txn, looked, committed, failed, view>>

Commit(p) ==
    /\ pc[p] = "committing"
    /\ staged[p][i[p]] /\ Replaceable(i[p])
    /\ SetTarget(i[p], p)
    /\ staged' = [staged EXCEPT ![p][i[p]] = FALSE]
    /\ committed' = [committed EXCEPT ![p] = @ \cup {i[p]}]
    /\ UpFrom(p, "committing", "commitPoint")
    /\ UNCHANGED <<backup, journal, txn, looked, backedUp, failed, view>>

CommitPoint(p) ==
    /\ pc[p] = "commitPoint"
    /\ journal.owner # Absent
    /\ journal' = NoJournal
    /\ Goto(p, "discarding", 1)
    /\ UNCHANGED <<target, staged, backup, txn, looked, backedUp, committed, failed, view>>

BackOutOfCommits(p) ==   \* mutant: a backup whose source is gone is tried for ever
    /\ \/ pc[p] = "committing" /\ ~(staged[p][i[p]] /\ Replaceable(i[p]))
       \/ pc[p] = "commitPoint" /\ journal.owner = Absent
    /\ Goto(p, "undoing", 3)
    /\ UNCHANGED <<disk, txn, looked, backedUp, committed, failed, view>>

\* The target, the staged file or the journal is gone, or a directory is in
\* the way: back out.
BackOut(p) ==
    /\ \/ pc[p] = "backingUp" /\ i[p] \in txn[p].had /\ target[i[p]] = Absent
       \/ pc[p] = "committing" /\ ~(staged[p][i[p]] /\ Replaceable(i[p]))
       \/ pc[p] = "commitPoint" /\ journal.owner = Absent
    /\ Goto(p, "undoing", 3)
    /\ UNCHANGED <<disk, txn, looked, backedUp, committed, failed, view>>

DiscardBackup(p) ==
    /\ pc[p] = "discarding"
    /\ SetBackup(p, i[p], Absent)
    /\ UpFrom(p, "discarding", "installed")
    /\ UNCHANGED <<target, staged, journal, txn, looked, backedUp, committed, failed, view>>

Undo(p) ==
    /\ pc[p] = "undoing"
    /\ IF i[p] \in committed[p] THEN SetTarget(i[p], Absent) ELSE UNCHANGED target
    /\ committed' = [committed EXCEPT ![p] = @ \ {i[p]}]
    /\ Goto(p, "restoring", i[p])
    /\ UNCHANGED <<staged, backup, journal, txn, looked, backedUp, failed, view>>

Restore(p) ==
    /\ pc[p] = "restoring"
    /\ IF i[p] \in backedUp[p] /\ backup[p][i[p]] # Absent /\ Replaceable(i[p])
       THEN /\ SetTarget(i[p], backup[p][i[p]])
            /\ SetBackup(p, i[p], Absent)
            /\ backedUp' = [backedUp EXCEPT ![p] = @ \ {i[p]}]
       ELSE UNCHANGED <<target, backup, backedUp>>
    /\ DownFrom(p, "undoing", "rolledBack")
    /\ UNCHANGED <<staged, journal, txn, looked, committed, failed, view>>

CloseRollback(p) ==
    /\ pc[p] = "rolledBack"
    /\ journal' = IF committed[p] \cup backedUp[p] = {} THEN NoJournal ELSE journal
    /\ Goto(p, "unstaging", 1)
    /\ UNCHANGED <<target, staged, backup, txn, looked, backedUp, committed, failed, view>>

Unstage(p) ==
    /\ pc[p] = "unstaging"
    /\ staged' = [staged EXCEPT ![p][i[p]] = FALSE]
    /\ UpFrom(p, "unstaging", "failed")
    /\ UNCHANGED <<target, backup, journal, txn, looked, backedUp, committed, failed, view>>

-----------------------------------------------------------------------------
(* recoverRegistryInstallTransaction *)

Look(p) ==
    /\ pc[p] = "recovering"
    /\ looked' = [looked EXCEPT ![p] =
                     [backup |-> backup[txn[p].owner][i[p]] # Absent,
                      staged |-> staged[txn[p].owner][i[p]]]]
    /\ Goto(p, "removing", i[p])
    /\ UNCHANGED <<disk, txn, backedUp, committed, failed, view>>

RemoveInterruptedOnly(p) ==   \* mutant: new targets without predecessor survive
    /\ pc[p] = "removing"
    /\ IF looked[p].backup THEN SetTarget(i[p], Absent) ELSE UNCHANGED target
    /\ Goto(p, IF looked[p].backup THEN "reinstating" ELSE "dropping", i[p])
    /\ UNCHANGED <<staged, backup, journal, txn, looked, backedUp, committed, failed, view>>

\* What was looked up decides what is removed.
Remove(p) ==
    /\ pc[p] = "removing"
    /\ IF looked[p].backup \/ (i[p] \notin txn[p].had /\ ~looked[p].staged)
       THEN SetTarget(i[p], Absent)
       ELSE UNCHANGED target
    /\ Goto(p, IF looked[p].backup THEN "reinstating" ELSE "dropping", i[p])
    /\ UNCHANGED <<staged, backup, journal, txn, looked, backedUp, committed, failed, view>>

Reinstate(p) ==
    /\ pc[p] = "reinstating"
    /\ LET b == backup[txn[p].owner][i[p]] IN
       IF b # Absent /\ Replaceable(i[p])
       THEN /\ SetTarget(i[p], b)
            /\ SetBackup(txn[p].owner, i[p], Absent)
            /\ Goto(p, "dropping", i[p])
            /\ UNCHANGED failed
       ELSE /\ failed' = [failed EXCEPT ![p] = TRUE]
            /\ DownFrom(p, "recovering", "recovered")
            /\ UNCHANGED <<target, backup>>
    /\ UNCHANGED <<staged, journal, txn, looked, backedUp, committed, view>>

DropStaged(p) ==
    /\ pc[p] = "dropping"
    /\ staged' = [staged EXCEPT ![txn[p].owner][i[p]] = FALSE]
    /\ DownFrom(p, "recovering", "recovered")
    /\ UNCHANGED <<target, backup, journal, txn, looked, backedUp, committed, failed, view>>

\* A journal that another process removed meanwhile is no error.
CloseRecovery(p) ==
    /\ pc[p] = "recovered"
    /\ IF failed[p]
       THEN Goto(p, "failed", 1) /\ UNCHANGED journal
       ELSE Goto(p, "ready", 1) /\ journal' = NoJournal
    /\ UNCHANGED <<target, staged, backup, txn, looked, backedUp, committed, failed, view>>

-----------------------------------------------------------------------------
InstallStep(p) ==
    \/ StageAll(p)
    \/ Reserve(p)
    \/ WriteJournal(p)
    \/ BackUp(p)
    \/ Commit(p)
    \/ CommitPoint(p)
    \/ BackOut(p)
    \/ DiscardBackup(p)
    \/ Undo(p)
    \/ Restore(p)
    \/ CloseRollback(p)
    \/ Unstage(p)

RecoveryStep(p) ==
    \/ Look(p)
    \/ Remove(p)
    \/ Reinstate(p)
    \/ DropStaged(p)
    \/ CloseRecovery(p)

Step(p) == Start(p) \/ LoadRegistry(p) \/ InstallStep(p) \/ RecoveryStep(p)

Next == \E p \in Process : Step(p)

\* A command that has begun goes on: no step waits for anybody.
Spec == Init /\ [][Next]_vars /\ \A p \in Process : WF_vars(Step(p))

-----------------------------------------------------------------------------
(* Properties *)

\* However many commands recover the same journal at the same time, none
\* that gets past its recovery loads any part of the interrupted install.
NeverLoadsInterrupted ==
    \A p \in Process, t \in Target : view[p][t] # Killed

\* Nobody waits for anybody: an install that another command pulls the files
\* away from, and a command that meets a running install, both come to an end.
AllReturned == \A p \in Process : pc[p] \in Finished
EveryoneReturns == <>AllReturned

\* What Run and docs/cli-contract.md promise of a command after an
\* interrupted install: it restores the previous complete set before it
\* discovers the Registry.  Here: whoever has loaded, has loaded all of the
\* previous set.
LoadsPreviousSet ==
    \A p \in Process :
        pc[p] = "loaded" => view[p] = Nothing \/ view[p] = [t \in Target |-> Old]
=============================================================================
