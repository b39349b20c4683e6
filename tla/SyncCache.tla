------------------------------ MODULE SyncCache ------------------------------
(***************************************************************************)
(* One sync cache directory (internal/cli/cli.go: writeSyncCache and       *)
(* commitSyncCacheDirectory), written by `datapan sync --output-dir` and   *)
(* read by `preview --input` and `export --input`                          *)
(* (inspectSyncCacheArtifact), by several commands at the same time.       *)
(*                                                                         *)
(* A directory is replaced as a whole, so that its content is the sync     *)
(* that made it: a cache generation.  There is no journal: a sync that is  *)
(* killed between its two renames leaves the previous generation in its    *)
(* backup.  The empty file that reserves the backup's name, which is made  *)
(* and removed by one call (registryInstallBackupPath), is not followed.   *)
(***************************************************************************)
EXTENDS Naturals

CONSTANTS
    Writer,    \* the syncs; a sync's name is also the generation it makes
    Reader,    \* the commands that read an artifact of the cache
    Old,       \* the generation of an earlier sync
    Absent,    \* no directory, nothing read
    MaxFaults  \* bound on the kills and failing calls of a behavior

ConstantsAssumption ==
    /\ Old \notin Writer
    /\ Absent \notin Writer \cup {Old}
    /\ MaxFaults \in Nat

Generation == Writer \cup {Old}
Content == Generation \cup {Absent}

VARIABLES
    dir,      \* the cache directory
    staged,   \* the writers whose staging directory exists
    backup,   \* per writer: what its backup directory holds
    pc,       \* per command
    data,     \* per reader: the generation whose artifact it has read
    unclean,  \* the writers whose staging directory could not be removed
    faults    \* kills and failing calls still to come

vars == <<dir, staged, backup, pc, data, unclean, faults>>

Locations ==
    {"start", "inspecting", "backingUp", "committing", "rollingBack",
     "discarding", "installed", "failing", "failed", "losing", "lost", "killed",
     "comparing", "verified", "unverified", "rejected", "notFound"}

TypeOK ==
    /\ dir \in Content
    /\ staged \in SUBSET Writer
    /\ backup \in [Writer -> Content]
    /\ pc \in [Writer \cup Reader -> Locations]
    /\ data \in [Reader -> Content]
    /\ unclean \in SUBSET Writer
    /\ faults \in 0..MaxFaults

Init ==
    /\ dir \in {Old, Absent}
    /\ staged = {}
    /\ backup = [w \in Writer |-> Absent]
    /\ pc = [c \in Writer \cup Reader |-> "start"]
    /\ data = [r \in Reader |-> Absent]
    /\ unclean = {}
    /\ faults = MaxFaults

-----------------------------------------------------------------------------
Goto(c, location) == pc' = [pc EXCEPT ![c] = location]
NoFault == UNCHANGED faults
Fault == faults > 0 /\ faults' = faults - 1

\* stageRegistryInstallDirectory
Stage(w) ==
    /\ pc[w] = "start"
    /\ staged' = staged \cup {w}
    /\ Goto(w, "inspecting")
    /\ UNCHANGED <<dir, backup, data, unclean>>
    /\ NoFault

\* It may have made the directory, which it removes itself: the removal is
\* that of Clean.
StageFails(w) ==
    /\ pc[w] = "start"
    /\ staged' \in {staged, staged \cup {w}}
    /\ Goto(w, "failing")
    /\ UNCHANGED <<dir, backup, data, unclean>>
    /\ Fault

\* os.Lstat, and a name for the backup.
Inspect(w) ==
    /\ pc[w] = "inspecting"
    /\ Goto(w, IF dir # Absent THEN "backingUp" ELSE "committing")
    /\ UNCHANGED <<dir, staged, backup, data, unclean>>
    /\ NoFault

GiveUpDirty(w, location) ==   \* mutant: no deferred removal of the staging directory
    /\ Goto(w, IF location = "failing" THEN "failed" ELSE "lost")
    /\ UNCHANGED staged

\* Returning before the commit: the deferred removal is still to come.
GiveUp(w, location) ==
    /\ Goto(w, location)
    /\ UNCHANGED staged

\* The deferred os.RemoveAll of the staging directory, and the return.  The
\* one of the backup finds nothing: a name that was reserved and not used.
Return(w) ==
    /\ pc[w] \in {"failing", "losing"}
    /\ Goto(w, IF pc[w] = "failing" THEN "failed" ELSE "lost")
    /\ UNCHANGED <<dir, backup, data>>

Clean(w) ==
    /\ Return(w)
    /\ staged' = staged \ {w}
    /\ UNCHANGED unclean
    /\ NoFault

\* The error is ignored: the staging directory stays.
CleanFails(w) ==
    /\ Return(w)
    /\ w \in staged
    /\ unclean' = unclean \cup {w}
    /\ UNCHANGED staged
    /\ Fault

InspectFails(w) ==
    /\ pc[w] = "inspecting"
    /\ GiveUp(w, "failing")
    /\ UNCHANGED <<dir, backup, data, unclean>>
    /\ Fault

BackUp(w) ==
    /\ pc[w] = "backingUp"
    /\ dir # Absent
    /\ backup' = [backup EXCEPT ![w] = dir]
    /\ dir' = Absent
    /\ Goto(w, "committing")
    /\ UNCHANGED <<staged, data, unclean>>
    /\ NoFault

\* The rename fails: by a fault, or because another sync has taken the
\* directory away.
BackUpFails(w) ==
    /\ pc[w] = "backingUp"
    /\ GiveUp(w, "failing")
    /\ UNCHANGED <<dir, backup, data, unclean>>
    /\ IF dir # Absent THEN Fault ELSE NoFault

\* A rename onto a directory with entries fails: a generation is never
\* overwritten.
Commit(w) ==
    /\ pc[w] = "committing"
    /\ dir = Absent
    /\ dir' = w
    /\ staged' = staged \ {w}
    /\ Goto(w, "discarding")
    /\ UNCHANGED <<backup, data, unclean>>
    /\ NoFault

CommitFails(w) ==
    /\ pc[w] = "committing"
    /\ Goto(w, "rollingBack")
    /\ UNCHANGED <<dir, staged, backup, data, unclean>>
    /\ IF dir = Absent THEN Fault ELSE NoFault

RollbackWithoutRestore(w) ==   \* mutant: the previous generation stays in the backup
    /\ pc[w] = "rollingBack"
    /\ GiveUp(w, "failing")
    /\ UNCHANGED <<dir, backup, data, unclean>>
    /\ NoFault

\* rollbackRegistryInstallTargets: nothing was committed; what was backed up
\* goes back.
Rollback(w) ==
    /\ pc[w] = "rollingBack"
    /\ \/ backup[w] = Absent /\ UNCHANGED <<dir, backup>>
       \/ /\ backup[w] # Absent
          /\ dir = Absent
          /\ dir' = backup[w]
          /\ backup' = [backup EXCEPT ![w] = Absent]
    /\ GiveUp(w, "failing")
    /\ UNCHANGED <<data, unclean>>
    /\ NoFault

\* "rollback failed": the backup stays where it is.
RollbackFails(w) ==
    /\ pc[w] = "rollingBack"
    /\ backup[w] # Absent
    /\ GiveUp(w, "losing")
    /\ UNCHANGED <<dir, backup, data, unclean>>
    /\ IF dir = Absent THEN Fault ELSE NoFault

Discard(w) ==
    /\ pc[w] = "discarding"
    /\ backup' = [backup EXCEPT ![w] = Absent]
    /\ Goto(w, "installed")
    /\ UNCHANGED <<dir, staged, data, unclean>>
    /\ NoFault

\* The error of os.RemoveAll is ignored.
DiscardFails(w) ==
    /\ pc[w] = "discarding"
    /\ backup[w] # Absent
    /\ Goto(w, "installed")
    /\ UNCHANGED <<dir, staged, backup, data, unclean>>
    /\ Fault

Kill(w) ==
    /\ pc[w] \in {"inspecting", "backingUp", "committing", "rollingBack", "discarding",
                 "failing", "losing"}
    /\ Goto(w, "killed")
    /\ UNCHANGED <<dir, staged, backup, data, unclean>>
    /\ Fault

-----------------------------------------------------------------------------
ReadStaged(r) ==   \* mutant: the reader looks at what is still being written
    /\ pc[r] = "start"
    /\ data' = [data EXCEPT ![r] = staged]
    /\ Goto(r, "comparing")
    /\ UNCHANGED <<dir, staged, backup, unclean>>
    /\ NoFault

\* preview and export: os.ReadFile of the artifact ...
ReadArtifact(r) ==
    /\ pc[r] = "start"
    /\ data' = [data EXCEPT ![r] = dir]
    /\ Goto(r, IF dir = Absent THEN "notFound" ELSE "comparing")
    /\ UNCHANGED <<dir, staged, backup, unclean>>
    /\ NoFault

\* ... and then inspectSyncCacheArtifact, which reads the manifest next to it.
\* Without a manifest the artifact passes as an ordinary file.
Compare(r) ==
    /\ pc[r] = "comparing"
    /\ Goto(r, CASE dir = Absent -> "unverified"
                 [] dir = data[r] -> "verified"
                 [] OTHER -> "rejected")
    /\ UNCHANGED <<dir, staged, backup, data, unclean>>
    /\ NoFault

-----------------------------------------------------------------------------
Sync(w) ==
    \/ Stage(w) \/ StageFails(w)
    \/ Inspect(w) \/ InspectFails(w)
    \/ BackUp(w) \/ BackUpFails(w)
    \/ Commit(w) \/ CommitFails(w)
    \/ Rollback(w) \/ RollbackFails(w)
    \/ Discard(w) \/ DiscardFails(w)
    \/ Clean(w) \/ CleanFails(w)
    \/ Kill(w)

Read(r) == ReadArtifact(r) \/ Compare(r)

Next == (\E w \in Writer : Sync(w)) \/ (\E r \in Reader : Read(r))

Spec == Init /\ [][Next]_vars

-----------------------------------------------------------------------------
(* Properties *)

\* Between a sync's two renames, or for good after it was killed there or
\* could not roll back, the only copy may be in its backup.
InWindow(w) ==
    /\ pc[w] \in {"committing", "rollingBack", "losing", "lost", "killed"}
    /\ backup[w] # Absent

Safe == dir # Absent \/ \E w \in Writer : InWindow(w)

\* However many syncs overlap, fail or are killed, a cache that once existed
\* is never gone: the directory is missing only while some sync holds a
\* complete generation in its backup, and that sync is under way, was killed
\* or has reported that its rollback failed.
MissingOnlyInWindow == [][Safe => Safe']_vars

\* docs/cli-contract.md: a commit failure removes the staged and backup
\* directories, and nothing of the sync that failed is left in the cache or
\* in the backup of an overlapping sync.  Only a staging directory whose own
\* removal failed stays, and with it nothing else (but for the empty file that
\* reserved a name, when it is the removal of that which failed).
FailureLeavesNothing ==
    \A w \in Writer : pc[w] = "failed" =>
        /\ w \in staged => w \in unclean
        /\ backup[w] = Absent
        /\ w \notin {dir} \cup {backup[v] : v \in Writer}

\* A reader takes an artifact of the cache for an ordinary file, without a
\* manifest to compare it with, only while a sync has the directory in its
\* backup; never because a sync that returned has left the cache without one.
UnverifiedOnlyInWindow ==
    [][\A r \in Reader :
          pc[r] # "unverified" /\ pc'[r] = "unverified" => \E w \in Writer : InWindow(w)]_vars
=============================================================================
