---------------------------- MODULE RegistryTrust ----------------------------
(***************************************************************************)
(* Whether a command may call a provider (internal/cli/cli.go:             *)
(* localRegistryTrust), decided from files that other commands replace     *)
(* meanwhile.                                                              *)
(*                                                                         *)
(* A command loads a Registry, and later reads the provenance of the last  *)
(* install, hashes the Registry file, reads the release consumer decision  *)
(* from the release evidence, and reads provenance and manifest again to   *)
(* bind that decision.  `catalog install` replaces evidence, Registry and  *)
(* provenance, one rename after the other; `catalog update` replaces the   *)
(* Registry alone (writeRegistryAtomic).                                   *)
(*                                                                         *)
(* A file is the release it comes from.  Commands start while no journal   *)
(* is on disk, or recover one whose install has ended without removing it. *)
(* Commands that recover while the install is still under way, or two at a *)
(* time, are those of RegistryInstallRace.                                 *)
(***************************************************************************)
EXTENDS Naturals

CONSTANTS
    Process,    \* the commands that may run at the same time
    Release,    \* Registry releases
    Decided,    \* the releases with a manifest and a consumer decision
    Updated,    \* a Registry fetched by `catalog update`
    Torn,       \* a Registry file cut short by a killed `catalog import`
    Absent,     \* no such file
    MaxWrites   \* bound on the installs and updates of a behavior

ASSUME ConstantsAssumption ==
    /\ Decided \subseteq Release
    /\ Release \cap {Updated, Torn, Absent} = {}
    /\ Updated # Torn /\ Updated # Absent /\ Torn # Absent
    /\ MaxWrites \in Nat

Path == {"default", "other"}          \* .datapan/..., or --registry, DATAPAN_REGISTRY_PATH
Content == Release \cup {Updated, Torn, Absent}
Evidence == Release \cup {Absent}
Provenance == [release : Release, path : Path] \cup {Absent}

\* The targets of an install, in the order of commitRegistryInstall: the
\* evidence directory, the Registry, the provenance.
Target == 1..3

VARIABLES
    registry,    \* the Registry files
    evidence,    \* .datapan/release
    provenance,  \* .datapan/registry-install.json
    install,     \* the journaled install under way, or left by its command
    pc,          \* per command: its location, or the verdict it has come to
    path,        \* per command: the Registry path it works on
    loaded,      \* per command: the Registry it has loaded
    bound,       \* per command: the provenance it judges by
    decision,    \* per command: the release whose consumer decision it read
    keep,        \* per command: --backup
    copy,        \* per command: the backup copy it has written
    writes,      \* installs and updates still to come
    touched,     \* history: commands whose Registry path was written since they loaded
    since,       \* history, per command: releases whose provenance was written since it loaded
    swapped,     \* history: commands whose Registry an install wrote since they loaded
    dropped      \* history: paths an update has removed after a failed rename
                 \* and nobody has written since

disk == <<registry, evidence, provenance, install>>
job == <<path, loaded, bound, decision, keep, copy>>
history == <<touched, swapped, since, dropped>>
vars == <<disk, pc, job, writes, history>>

\* had: the targets that existed; backed: those renamed to their backups,
\* which hold saved; staged: the others whose staged file is there, which is all
\* that a recovery looks at; committed: those renamed from it, as its command
\* remembers; failed: the recovery has errors.
Installs ==
    [release : Release, path : Path, next : Target, had : SUBSET Target,
     backed : SUBSET Target, staged : SUBSET Target, committed : SUBSET Target,
     failed : BOOLEAN, saved : [Target -> Content \cup Provenance]]

Nothing == [t \in Target |-> Absent]

ASSUME AbsentAssumption == Absent \notin Installs

Verdict == {"embedded", "untracked", "verified", "blocked", "failed"}
Locations ==
    {"idle", "provenance", "digest", "decision", "binding",
     "backingUp", "committing", "journal", "undoing", "restoring", "rolledBack",
     "recovering", "reinstating", "unstaging", "recovered",
     "fetching", "replacing", "dropping", "retrying", "done"} \cup Verdict

TypeOK ==
    /\ registry \in [Path -> Content]
    /\ evidence \in Evidence
    /\ provenance \in Provenance
    /\ install = Absent \/ install \in Installs
    /\ pc \in [Process -> Locations]
    /\ path \in [Process -> Path]
    /\ loaded \in [Process -> Content]
    /\ bound \in [Process -> Provenance]
    /\ decision \in [Process -> Evidence]
    /\ keep \in [Process -> BOOLEAN]
    /\ copy \in [Process -> Content]
    /\ writes \in 0..MaxWrites
    /\ touched \in SUBSET Process
    /\ since \in [Process -> SUBSET Release]
    /\ swapped \in SUBSET Process
    /\ dropped \in SUBSET Path

\* Nothing is installed, or one release; the default Registry may have been
\* written by an import since, which was perhaps killed.
Init ==
    /\ \E r \in Evidence :
          /\ evidence = r
          /\ provenance = IF r = Absent THEN Absent ELSE [release |-> r, path |-> "default"]
          /\ \E content \in {r, Updated, Torn} :
                registry = [x \in Path |-> IF x = "default" THEN content ELSE Absent]
    /\ install = Absent
    /\ pc = [p \in Process |-> "idle"]
    /\ path = [p \in Process |-> "default"]
    /\ loaded = [p \in Process |-> Absent]
    /\ bound = [p \in Process |-> Absent]
    /\ decision = [p \in Process |-> Absent]
    /\ keep = [p \in Process |-> FALSE]
    /\ copy = [p \in Process |-> Absent]
    /\ writes = MaxWrites
    /\ touched = {} /\ swapped = {} /\ dropped = {}
    /\ since = [p \in Process |-> {}]

-----------------------------------------------------------------------------
Goto(p, location) == pc' = [pc EXCEPT ![p] = location]
Set(field, p, value) == [field EXCEPT ![p] = value]

Installing == install # Absent

\* The other commands at work on the Registry at x.
Others(p, x) == {q \in Process \ {p} : path[q] = x /\ pc[q] # "idle"}

\* p writes the Registry file at x, or removes it.
WriteRegistry(p, x, content) ==
    /\ registry' = [registry EXCEPT ![x] = content]
    /\ touched' = touched \cup Others(p, x)
    /\ dropped' = IF content = Absent THEN dropped ELSE dropped \ {x}

-----------------------------------------------------------------------------
(* Run and localRegistryTrust *)

\* The default path is looked at only when no path is given; a Registry that
\* is not there is replaced by the embedded one only on the default path.
Load(p) ==
    /\ pc[p] = "idle"
    /\ ~Installing
    /\ \E x \in Path :
          /\ path' = Set(path, p, x)
          /\ loaded' = Set(loaded, p, registry[x])
          /\ Goto(p, CASE registry[x] = Torn -> "failed"
                       [] registry[x] = Absent /\ x = "default" -> "embedded"
                       [] registry[x] = Absent /\ x # "default" -> "failed"
                       [] OTHER -> "provenance")
    /\ UNCHANGED <<disk, bound, decision, keep, copy, writes, history>>

\* Without provenance, or with that of another path, the Registry is
\* untracked, and execution is allowed.
ReadProvenance(p) ==
    /\ pc[p] = "provenance"
    /\ bound' = Set(bound, p, provenance)
    /\ Goto(p, IF provenance # Absent /\ provenance.path = path[p]
               THEN "digest" ELSE "untracked")
    /\ UNCHANGED <<disk, path, loaded, decision, keep, copy, writes, history>>

AnyDigest(p) == registry[path[p]] # Absent   \* mutant: the file is there, its digest is not compared

\* registryDigestMatches
DigestMatches(p) == registry[path[p]] = bound[p].release

CheckDigest(p) ==
    /\ pc[p] = "digest"
    /\ Goto(p, IF DigestMatches(p) THEN "decision" ELSE "blocked")
    /\ UNCHANGED <<disk, job, writes, history>>

\* installedReleaseConsumerDecision, first half: is there a decision?  If not,
\* the release is blocked when its provenance says it had one.  Here and below
\* the evidence itself may refuse: it says that the release is not ready, that
\* this command is not compatible, or the decision is to block.
ReadDecision(p) ==
    /\ pc[p] = "decision"
    /\ \E refused \in BOOLEAN :
       LET present == evidence \in Decided
       IN /\ decision' = Set(decision, p, IF present THEN evidence ELSE Absent)
          /\ Goto(p, IF present THEN "binding"
                     ELSE IF refused \/ bound[p].release \in Decided THEN "blocked" ELSE "verified")
    /\ UNCHANGED <<disk, path, loaded, bound, keep, copy, writes, history>>

AnyBinding(p) == TRUE   \* mutant: the decision is used without its manifest

\* readManifestBoundReleaseArtifact: provenance and manifest are read again;
\* the manifest must be the one the provenance names, and contain the decision.
Binds(p) ==
    /\ evidence \in Decided /\ provenance # Absent
    /\ provenance.release = evidence /\ decision[p] = evidence

CheckBinding(p) ==
    /\ pc[p] = "binding"
    /\ \E refused \in BOOLEAN :
          Goto(p, IF Binds(p) /\ ~refused THEN "verified" ELSE "blocked")
    /\ UNCHANGED <<disk, job, writes, history>>

\* The command calls the provider, or not, and ends.
End(p) ==
    /\ pc[p] \in Verdict \cup {"done"}
    /\ Goto(p, "idle")
    /\ path' = Set(path, p, "default")
    /\ loaded' = Set(loaded, p, Absent)
    /\ bound' = Set(bound, p, Absent)
    /\ decision' = Set(decision, p, Absent)
    /\ keep' = Set(keep, p, FALSE)
    /\ copy' = Set(copy, p, Absent)
    /\ touched' = touched \ {p}
    /\ since' = Set(since, p, {})
    /\ swapped' = swapped \ {p}
    /\ UNCHANGED <<disk, writes, dropped>>

-----------------------------------------------------------------------------
(* commitRegistryInstall *)

Current(target, x) == <<evidence, registry[x], provenance>>[target]

\* The gates of installDatapanRegistry have passed, the new files are staged
\* and the journal is written.
BeginInstall(p) ==
    /\ pc[p] = "idle"
    /\ ~Installing
    /\ writes > 0
    /\ writes' = writes - 1
    /\ \E r \in Release, x \in Path :
          /\ LET had == {t \in Target : Current(t, x) # Absent}
             IN install' = [release |-> r, path |-> x, next |-> 1, had |-> had,
                            backed |-> {}, staged |-> Target \ had, committed |-> {},
                            failed |-> FALSE, saved |-> Nothing]
          /\ path' = Set(path, p, x)
    /\ Goto(p, "backingUp")
    /\ UNCHANGED <<registry, evidence, provenance, loaded, bound, decision, keep, copy, history>>

\* p replaces one of the targets, or removes it.
Put(p, target, file) ==
    /\ evidence' = IF target = 1 THEN file ELSE evidence
    /\ provenance' = IF target = 3 THEN file ELSE provenance
    /\ IF target = 2
       THEN /\ WriteRegistry(p, install.path, file)
            /\ swapped' = swapped \cup Others(p, install.path)
       ELSE UNCHANGED <<registry, touched, swapped, dropped>>
    /\ since' = IF target = 3 /\ file # Absent
                THEN [q \in Process |-> since[q] \cup IF q = p \/ pc[q] = "idle" THEN {} ELSE {file.release}]
                ELSE since

\* No target is replaced.
Spare == UNCHANGED <<registry, evidence, provenance, history>>

PastTheEnd(target) == target + 1   \* mutant: the loop does not end

After(target) == IF target = 3 THEN 1 ELSE target + 1

\* A target that existed is renamed to its backup, whatever it is by now.
BackUp(p) ==
    /\ pc[p] = "backingUp"
    /\ LET t == install.next
           file == Current(t, install.path)
       IN /\ IF t \in install.had
             THEN /\ file # Absent
                  /\ Put(p, t, Absent)
                  /\ install' = [install EXCEPT !.next = After(t), !.backed = @ \cup {t},
                                                !.saved[t] = file]
             ELSE /\ install' = [install EXCEPT !.next = After(t)]
                  /\ Spare
          /\ Goto(p, IF t = 3 THEN "committing" ELSE "backingUp")
    /\ UNCHANGED <<job, writes>>

Staged(target) ==
    IF target = 3 THEN [release |-> install.release, path |-> install.path] ELSE install.release

\* A staged file is renamed to its target.
Commit(p) ==
    /\ pc[p] = "committing"
    /\ Put(p, install.next, Staged(install.next))
    /\ install' = [install EXCEPT !.next = After(@), !.committed = @ \cup {install.next},
                                  !.staged = @ \ {install.next}]
    /\ Goto(p, IF install.next = 3 THEN "journal" ELSE "committing")
    /\ UNCHANGED <<job, writes>>

\* The journal is removed: the commit point.
RemoveJournal(p) ==
    /\ pc[p] = "journal"
    /\ install' = Absent
    /\ Goto(p, "done")
    /\ UNCHANGED <<registry, evidence, provenance, job, writes, history>>

-----------------------------------------------------------------------------
(* rollbackRegistryInstallWithJournal: from the last target to the first     *)

\* The loop goes on with the target before, or ends.
Before(target) == IF target = 1 THEN 3 ELSE target - 1

NextDown(p, location, after) == Goto(p, IF install.next = 1 THEN after ELSE location)

\* os.RemoveAll of the target fails: the evidence directory may have lost its
\* manifest or its decision.
RemoveAllFails(p, target) ==
    \/ Spare
    \/ target = 1 /\ Put(p, target, Absent)

\* os.Rename cannot put the evidence directory where another one is.
InTheWay(target) == target = 1 /\ evidence \in Decided

\* A rename of the install fails.
Interrupt(p) ==
    /\ pc[p] \in {"backingUp", "committing", "journal"}
    /\ install' = [install EXCEPT !.next = 3]
    /\ Goto(p, "undoing")
    /\ Spare
    /\ UNCHANGED <<job, writes>>

\* A committed target is removed ...
Undo(p) ==
    /\ pc[p] = "undoing"
    /\ IF install.next \in install.committed THEN Put(p, install.next, Absent) ELSE Spare
    /\ install' = [install EXCEPT !.committed = @ \ {install.next}]
    /\ Goto(p, "restoring")
    /\ UNCHANGED <<job, writes>>

UndoFails(p) ==
    /\ pc[p] = "undoing"
    /\ install.next \in install.committed
    /\ RemoveAllFails(p, install.next)
    /\ Goto(p, "restoring")
    /\ UNCHANGED <<install, job, writes>>

RestoredByRemoval(target) == Absent   \* mutant: the backup is not renamed back

Restored(target) == install.saved[target]

\* ... and its backup, if there is one, is renamed back.
Restore(p) ==
    /\ pc[p] = "restoring"
    /\ IF install.next \in install.backed
       THEN ~InTheWay(install.next) /\ Put(p, install.next, Restored(install.next))
       ELSE Spare
    /\ install' = [install EXCEPT !.backed = @ \ {install.next},
                                  !.saved[install.next] = Absent, !.next = Before(@)]
    /\ NextDown(p, "undoing", "rolledBack")
    /\ UNCHANGED <<job, writes>>

RestoreFails(p) ==
    /\ pc[p] = "restoring"
    /\ install.next \in install.backed
    /\ install' = [install EXCEPT !.next = Before(@)]
    /\ NextDown(p, "undoing", "rolledBack")
    /\ Spare
    /\ UNCHANGED <<job, writes>>

CloseRollback(p) ==
    /\ pc[p] = "rolledBack"
    /\ install.committed \cup install.backed = {}
    /\ install' = Absent
    /\ Goto(p, "done")
    /\ Spare
    /\ UNCHANGED <<job, writes>>

\* The install is left to the next command: its journal, its backups, and the
\* staged files in `left`.
Leave(p, left) ==
    /\ install' = [install EXCEPT !.next = 3, !.committed = {}, !.failed = FALSE, !.staged = left]
    /\ Goto(p, "done")
    /\ Spare
    /\ UNCHANGED <<job, writes>>

\* A rollback that is not complete, or a journal that cannot be removed.  The
\* staged files are removed, with errors ignored.
KeepJournal(p) ==
    /\ pc[p] = "rolledBack"
    /\ \E left \in SUBSET install.staged : Leave(p, left)

-----------------------------------------------------------------------------
(* recoverRegistryInstallTransaction, of the next command                    *)

AtInstall ==
    {"backingUp", "committing", "journal", "undoing", "restoring", "rolledBack",
     "recovering", "reinstating", "unstaging", "recovered"}

Recover(p) ==
    /\ pc[p] = "idle"
    /\ Installing
    /\ \A q \in Process : pc[q] \notin AtInstall
    /\ path' = Set(path, p, install.path)
    /\ Goto(p, "recovering")
    /\ UNCHANGED <<disk, loaded, bound, decision, keep, copy, writes, history>>

\* A target without a predecessor, that its staged file became.
NewTarget(target) ==
    /\ target \notin install.had \cup install.staged
    /\ Current(target, install.path) # Absent

\* A target that has a backup is removed, whoever wrote it, and so is a new
\* one; the others stay.
RecoverTarget(p) ==
    /\ pc[p] = "recovering"
    /\ LET t == install.next
           backed == t \in install.backed
       IN /\ IF (backed /\ Current(t, install.path) # Absent) \/ NewTarget(t)
             THEN Put(p, t, Absent)
             ELSE Spare
          /\ Goto(p, IF backed THEN "reinstating" ELSE "unstaging")
    /\ UNCHANGED <<install, job, writes>>

\* A target with a backup is given up for this time, a new one goes on to the
\* removal of its staged file.
RecoverTargetFails(p) ==
    /\ pc[p] = "recovering"
    /\ RemoveAllFails(p, install.next)
    /\ \/ /\ install.next \in install.backed
          /\ install' = [install EXCEPT !.failed = TRUE, !.next = Before(@)]
          /\ NextDown(p, "recovering", "recovered")
       \/ /\ NewTarget(install.next)
          /\ install' = [install EXCEPT !.failed = TRUE]
          /\ Goto(p, "unstaging")
    /\ UNCHANGED <<job, writes>>

Reinstate(p) ==
    /\ pc[p] = "reinstating"
    /\ ~InTheWay(install.next)
    /\ Put(p, install.next, Restored(install.next))
    /\ install' = [install EXCEPT !.backed = @ \ {install.next}, !.saved[install.next] = Absent]
    /\ Goto(p, "unstaging")
    /\ UNCHANGED <<job, writes>>

ReinstateFails(p) ==
    /\ pc[p] = "reinstating"
    /\ install' = [install EXCEPT !.failed = TRUE, !.next = Before(@)]
    /\ NextDown(p, "recovering", "recovered")
    /\ Spare
    /\ UNCHANGED <<job, writes>>

\* os.RemoveAll of the staged file, or its failure.
DropStaged(p) ==
    /\ pc[p] = "unstaging"
    /\ \/ install' = [install EXCEPT !.staged = @ \ {install.next}, !.next = Before(@)]
       \/ install' = [install EXCEPT !.failed = TRUE, !.next = Before(@)]
    /\ NextDown(p, "recovering", "recovered")
    /\ Spare
    /\ UNCHANGED <<job, writes>>

\* Without errors the journal goes, and the command starts like any other.
CloseRecovery(p) ==
    /\ pc[p] = "recovered"
    /\ ~install.failed
    /\ install' = Absent
    /\ Goto(p, "done")
    /\ Spare
    /\ UNCHANGED <<job, writes>>

\* With errors, or if the journal cannot be removed, the command ends.
RecoveryFails(p) ==
    /\ pc[p] = "recovered"
    /\ Leave(p, install.staged)

\* The command that installs or recovers is killed.
Kill(p) ==
    /\ pc[p] \in AtInstall
    /\ Leave(p, install.staged)

-----------------------------------------------------------------------------
(* catalogUpdate --apply, writeRegistryAtomic *)

\* loadRegistryOrEmpty: a missing Registry is an empty one, a torn one ends
\* the command.  Then the catalog is fetched, which takes minutes.
BeginUpdate(p) ==
    /\ pc[p] = "idle"
    /\ ~Installing
    /\ writes > 0
    /\ writes' = writes - 1
    /\ \E x \in Path, b \in BOOLEAN :
          /\ registry[x] # Torn
          /\ path' = Set(path, p, x)
          /\ loaded' = Set(loaded, p, registry[x])
          /\ keep' = Set(keep, p, b)
    /\ Goto(p, "fetching")
    /\ UNCHANGED <<disk, bound, decision, copy, history>>

NeedsCopyIfNew(p) == keep[p] /\ loaded[p] = Absent   \* mutant: oldExists negated

\* oldExists && backup, where oldExists is from before the fetch.
NeedsCopy(p) == keep[p] /\ loaded[p] # Absent

\* copyFile; it fails if the Registry is gone by now.
MakeCopy(p) ==
    /\ pc[p] = "fetching"
    /\ copy' = Set(copy, p, IF NeedsCopy(p) THEN registry[path[p]] ELSE Absent)
    /\ Goto(p, IF NeedsCopy(p) /\ registry[path[p]] = Absent THEN "done" ELSE "replacing")
    /\ UNCHANGED <<disk, path, loaded, bound, decision, keep, writes, history>>

\* The update ends without another change: the fetch or the copy fails, the
\* temporary file cannot be written, or the command is killed.
GiveUp(p) ==
    /\ pc[p] \in {"fetching", "replacing", "dropping", "retrying"}
    /\ Goto(p, "done")
    /\ UNCHANGED <<disk, job, writes, history>>

\* os.Rename, the first attempt or the second.
Replace(p) ==
    /\ pc[p] \in {"replacing", "retrying"}
    /\ WriteRegistry(p, path[p], Updated)
    /\ Goto(p, "done")
    /\ UNCHANGED <<evidence, provenance, install, job, writes, swapped, since>>

RenameFails(p) ==
    /\ pc[p] = "replacing"
    /\ Goto(p, "dropping")
    /\ UNCHANGED <<disk, job, writes, history>>

\* os.Remove, to make room for the second attempt.
Drop(p) ==
    /\ pc[p] = "dropping"
    /\ registry' = [registry EXCEPT ![path[p]] = Absent]
    /\ touched' = touched \cup Others(p, path[p])
    /\ dropped' = dropped \cup {path[p]}
    /\ Goto(p, "retrying")
    /\ UNCHANGED <<evidence, provenance, install, job, writes, swapped, since>>

-----------------------------------------------------------------------------
Next ==
    \E p \in Process :
        \/ Load(p) \/ ReadProvenance(p) \/ CheckDigest(p) \/ ReadDecision(p)
        \/ CheckBinding(p) \/ End(p)
        \/ BeginInstall(p) \/ BackUp(p) \/ Commit(p) \/ RemoveJournal(p)
        \/ Interrupt(p) \/ Undo(p) \/ UndoFails(p) \/ Restore(p) \/ RestoreFails(p)
        \/ CloseRollback(p) \/ KeepJournal(p) \/ Kill(p)
        \/ Recover(p) \/ RecoverTarget(p) \/ RecoverTargetFails(p) \/ Reinstate(p)
        \/ ReinstateFails(p) \/ DropStaged(p) \/ CloseRecovery(p) \/ RecoveryFails(p)
        \/ BeginUpdate(p) \/ MakeCopy(p) \/ GiveUp(p) \/ Replace(p) \/ RenameFails(p) \/ Drop(p)

Spec == Init /\ [][Next]_vars

-----------------------------------------------------------------------------
(* Properties *)

\* A Registry whose integrity counts as verified is the one the provenance
\* names (docs/cli-contract.md: execution must not combine a Registry with
\* another one's evidence).  Since the file is hashed again and not what was
\* loaded, an install, or its undoing, between load and hash escapes this; no
\* update does, and no install to the other path.
VerifiedIsWhatWasLoaded ==
    \A p \in Process :
        pc[p] = "verified" => loaded[p] = bound[p].release \/ p \in swapped

\* The consumer decision a command accepts is that of the release whose
\* Registry it has hashed, or of one whose provenance was written since: never
\* that of an install still under way, though its evidence comes first.
DecisionIsOfTheRelease ==
    \A p \in Process :
        pc[p] = "verified" /\ decision[p] # Absent =>
            \/ decision[p] = bound[p].release
            \/ decision[p] \in since[p]

\* `catalog update --backup` destroys no Registry of which it has no copy,
\* neither by the rename nor by the removal before the second attempt, unless
\* another command has written the file since the update began.
BackupKeepsReplaced ==
    [][\A p \in Process :
          /\ pc[p] \in {"replacing", "dropping", "retrying"}
          /\ registry'[path[p]] # registry[path[p]]
          /\ pc'[p] # pc[p]
          /\ keep[p]
          => registry[path[p]] \in {copy[p], Absent} \/ p \in touched]_vars

\* The Registry at x is there, or in a backup that a journal brings back.
Kept(x) ==
    \/ registry[x] # Absent
    \/ install # Absent /\ install.path = x /\ 2 \in install.backed

\* A Registry that is gone, so that the next command silently uses the embedded
\* one, was removed by an update whose rename had failed.  Installs move it to
\* its backup for a while, and lose it neither by ending nor by being undone,
\* whatever fails or is killed on the way.  Only the undoing of a first install
\* leaves none, even if an update has made one meanwhile.
GoneOnlyByRetry ==
    [][\A x \in Path :
          Kept(x) /\ ~Kept(x)' =>
             \/ x \in dropped'
             \/ install # Absent /\ install.path = x /\ 2 \notin install.had]_vars
=============================================================================
