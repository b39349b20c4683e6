---------------------------- MODULE ArtifactPair ----------------------------
(***************************************************************************)
(* A generated file and its provenance sidecar, replaced together          *)
(* (internal/cli/cli.go: writeStandaloneGeneratedArtifact and              *)
(* commitGeneratedArtifactPair, with rollbackRegistryInstallTargets).      *)
(*                                                                         *)
(* Both files are moved to backups before either is committed, as in       *)
(* RegistryInstall, but there is no journal: nothing repairs the pair      *)
(* after a kill.  One generator command runs at a time.                    *)
(***************************************************************************)
EXTENDS Naturals

CONSTANTS
    Generation,  \* what a generator run produces: an artifact and its sidecar
    Absent,      \* no file
    MaxFailures  \* bound on the failing calls of a behavior

ConstantsAssumption ==
    /\ Absent \notin Generation
    /\ MaxFailures \in Nat

\* The order of `targets` in commitGeneratedArtifactPair.
Artifact == 1
Provenance == 2
Target == 1..2

Content == Generation \cup {Absent}

VARIABLES
    target, staged, backup, \* the files; staged and backup those of the running command
    pc, i,                  \* where the command is; "idle" when none runs
    new,                    \* the generation being written
    backedUp, committed,    \* BackedUp, Committed
    failed,                 \* rollbackErrors is not empty
    outcome,                \* how the last command ended
    before,                 \* history: the targets when the command began
    failures                \* failing calls still to come

disk == <<target, staged, backup>>
memory == <<new, backedUp, committed, failed>>
vars == <<disk, memory, pc, i, outcome, before, failures>>

NoFiles == [t \in Target |-> Absent]

Outcomes == {"none", "ok", "failed", "rollbackFailed", "killed"}

TypeOK ==
    /\ target \in [Target -> Content]
    /\ staged \in [Target -> Content]
    /\ backup \in [Target -> Content]
    /\ pc \in {"idle", "staging", "backingUp", "committing", "discarding",
               "undoing", "restoring", "unstaging"}
    /\ i \in Target
    /\ new \in Content
    /\ backedUp \in SUBSET Target
    /\ committed \in SUBSET Target
    /\ failed \in BOOLEAN
    /\ outcome \in Outcomes
    /\ before \in [Target -> Content]
    /\ failures \in 0..MaxFailures

\* Nothing, an artifact without a sidecar (standard output redirected to a
\* file), a sidecar whose artifact was deleted, or a pair.
Init ==
    /\ target \in {[t \in Target |-> IF t \in present THEN g ELSE Absent] :
                      g \in Generation, present \in SUBSET Target}
    /\ staged = NoFiles
    /\ backup = NoFiles
    /\ pc = "idle"
    /\ i = 1
    /\ new = Absent
    /\ backedUp = {} /\ committed = {}
    /\ failed = FALSE
    /\ outcome = "none"
    /\ before = target
    /\ failures = MaxFailures

-----------------------------------------------------------------------------
Goto(location, index) == pc' = location /\ i' = index

UpFromPastTheEnd(location, after) ==   \* mutant: one target too many
    IF i <= 2 THEN Goto(location, i + 1) ELSE Goto(after, 1)

UpFrom(location, after) ==
    IF i = 1 THEN Goto(location, 2) ELSE Goto(after, 1)

NoFailure == UNCHANGED failures
Failure == failures > 0 /\ failures' = failures - 1

\* The command ends; a backup or staged file it leaves behind, or cannot
\* remove, has a name nobody knows.
Forget ==
    /\ new' = Absent
    /\ backedUp' = {} /\ committed' = {}
    /\ failed' = FALSE
    /\ staged' = NoFiles
    /\ backup' = NoFiles
    /\ Goto("idle", 1)

Generate(g) ==
    /\ pc = "idle"
    /\ new' = g
    /\ before' = target
    /\ outcome' = "none"
    /\ Goto("staging", 1)
    /\ UNCHANGED <<disk, backedUp, committed, failed>>
    /\ NoFailure

Stage ==
    /\ pc = "staging"
    /\ staged' = [staged EXCEPT ![i] = new]
    /\ UpFrom("staging", "backingUp")
    /\ UNCHANGED <<target, backup, memory, outcome, before>>
    /\ NoFailure

StageFails ==
    /\ pc = "staging"
    /\ outcome' = "failed"
    /\ Forget
    /\ UNCHANGED <<target, before>>
    /\ Failure

\* os.Lstat, registryInstallBackupPath and the rename to the backup.
BackUp ==
    /\ pc = "backingUp"
    /\ IF target[i] # Absent
       THEN /\ backup' = [backup EXCEPT ![i] = target[i]]
            /\ target' = [target EXCEPT ![i] = Absent]
            /\ backedUp' = backedUp \cup {i}
       ELSE UNCHANGED <<backup, target, backedUp>>
    /\ UpFrom("backingUp", "committing")
    /\ UNCHANGED <<staged, new, committed, failed, outcome, before>>
    /\ NoFailure

Commit ==
    /\ pc = "committing"
    /\ target' = [target EXCEPT ![i] = staged[i]]
    /\ staged' = [staged EXCEPT ![i] = Absent]
    /\ committed' = committed \cup {i}
    /\ UpFrom("committing", "discarding")
    /\ UNCHANGED <<backup, new, backedUp, failed, outcome, before>>
    /\ NoFailure

BackUpOrCommitFails ==
    /\ pc \in {"backingUp", "committing"}
    /\ Goto("undoing", 2)
    /\ UNCHANGED <<disk, memory, outcome, before>>
    /\ Failure

\* The error of os.RemoveAll is ignored: either way the command is done.
Discard ==
    /\ pc = "discarding"
    /\ IF i = 1
       THEN /\ backup' = [backup EXCEPT ![i] = Absent]
            /\ backedUp' = backedUp \ {i}
            /\ Goto("discarding", 2)
            /\ UNCHANGED <<staged, new, committed, failed, outcome>>
       ELSE outcome' = "ok" /\ Forget
    /\ UNCHANGED <<target, before>>
    /\ NoFailure

-----------------------------------------------------------------------------
(* rollbackRegistryInstallTargets *)

UndoReplacedOnly ==   \* mutant: a new file without predecessor is left in place
    /\ pc = "undoing"
    /\ IF i \in committed \cap backedUp
       THEN /\ target' = [target EXCEPT ![i] = Absent]
            /\ committed' = committed \ {i}
       ELSE UNCHANGED <<target, committed>>
    /\ Goto("restoring", i)
    /\ UNCHANGED <<staged, backup, new, backedUp, failed, outcome, before>>
    /\ NoFailure

Undo ==
    /\ pc = "undoing"
    /\ IF i \in committed
       THEN /\ target' = [target EXCEPT ![i] = Absent]
            /\ committed' = committed \ {i}
       ELSE UNCHANGED <<target, committed>>
    /\ Goto("restoring", i)
    /\ UNCHANGED <<staged, backup, new, backedUp, failed, outcome, before>>
    /\ NoFailure

UndoFails ==
    /\ pc = "undoing"
    /\ i \in committed
    /\ failed' = TRUE
    /\ Goto("restoring", i)
    /\ UNCHANGED <<disk, new, backedUp, committed, outcome, before>>
    /\ Failure

DownFrom == IF i = 2 THEN Goto("undoing", 1) ELSE Goto("unstaging", 1)

RestoreUncommitted ==   \* mutant: what was committed is not restored
    /\ pc = "restoring"
    /\ IF i \in backedUp /\ staged[i] # Absent
       THEN /\ target' = [target EXCEPT ![i] = backup[i]]
            /\ backup' = [backup EXCEPT ![i] = Absent]
            /\ backedUp' = backedUp \ {i}
       ELSE UNCHANGED <<target, backup, backedUp>>
    /\ DownFrom
    /\ UNCHANGED <<staged, new, committed, failed, outcome, before>>
    /\ NoFailure

\* A rename onto a file replaces it, so that a removal that failed before is
\* made up for.
Restore ==
    /\ pc = "restoring"
    /\ IF i \in backedUp
       THEN /\ target' = [target EXCEPT ![i] = backup[i]]
            /\ backup' = [backup EXCEPT ![i] = Absent]
            /\ backedUp' = backedUp \ {i}
       ELSE UNCHANGED <<target, backup, backedUp>>
    /\ DownFrom
    /\ UNCHANGED <<staged, new, committed, failed, outcome, before>>
    /\ NoFailure

RestoreFails ==
    /\ pc = "restoring"
    /\ i \in backedUp
    /\ failed' = TRUE
    /\ DownFrom
    /\ UNCHANGED <<disk, new, backedUp, committed, outcome, before>>
    /\ Failure

\* The deferred removal of the staged files, and the error that is returned.
Unstage ==
    /\ pc = "unstaging"
    /\ outcome' = IF failed THEN "rollbackFailed" ELSE "failed"
    /\ Forget
    /\ UNCHANGED <<target, before>>
    /\ NoFailure

Kill ==
    /\ pc # "idle"
    /\ outcome' = "killed"
    /\ Forget
    /\ UNCHANGED <<target, before>>
    /\ NoFailure

Next ==
    \/ \E g \in Generation : Generate(g)
    \/ Stage \/ StageFails
    \/ BackUp
    \/ Commit
    \/ BackUpOrCommitFails
    \/ Discard
    \/ Undo \/ UndoFails
    \/ Restore \/ RestoreFails
    \/ Unstage
    \/ Kill

Spec == Init /\ [][Next]_vars

-----------------------------------------------------------------------------
(* Properties *)

\* An artifact beside the provenance of another generation: its sidecar
\* vouches for bytes that are not there.
Mismatched(pair) ==
    /\ pair[Artifact] # Absent
    /\ pair[Provenance] # Absent
    /\ pair[Artifact] # pair[Provenance]

\* README.md: "File and sidecar replacement is transactional for command
\* failures, so an update does not leave a new artifact paired with old
\* provenance."  A command leaves a mismatched pair behind only when its
\* rollback was killed or has reported that it failed: a kill anywhere else,
\* or any failing calls that the rollback copes with, never do.
MismatchOnlyFromRollback ==
    [][pc # "idle" /\ pc' = "idle" /\ Mismatched(target') /\ ~Mismatched(before) =>
         /\ pc \in {"undoing", "restoring", "unstaging"}
         /\ outcome' \in {"rollbackFailed", "killed"}]_vars

\* A command that says it failed, without saying that its rollback failed
\* too, has left both files as they were; one that succeeds has replaced
\* both.  However many calls fail, and whatever was killed before.
Transactional ==
    /\ outcome = "failed" => target = before
    /\ outcome = "ok" => target[Artifact] = target[Provenance] /\ target[Artifact] # Absent
=============================================================================
