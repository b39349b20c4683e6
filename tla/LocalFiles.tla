------------------------------ MODULE LocalFiles ------------------------------
(***************************************************************************)
(* The parts of the program that keep local files, each its own, side by   *)
(* side: AccessState, SyncCache, ArtifactPair and RegistryInstallRace.     *)
(* They share no file, so that which of them runs is chosen at first, and  *)
(* the others stand still.                                                 *)
(***************************************************************************)
EXTENDS SyncCache

CONSTANTS
    Process,             \* AccessState and RegistryInstallRace
    Subject,             \* AccessState
    Given, Observable,   \* AccessState
    Made, MaxFailures,   \* ArtifactPair
    Installers, Killed   \* RegistryInstallRace

VARIABLES
    part,   \* the part that runs
    access_file, access_pc, access_args, access_read,
    pair_target, pair_staged, pair_backup, pair_pc, pair_i,
    pair_new, pair_backedUp, pair_committed, pair_failed, pair_outcome,
    pair_before, pair_failures,
    race_target, race_staged, race_backup, race_journal, race_pc,
    race_i, race_txn, race_looked, race_backedUp, race_committed,
    race_failed, race_view

Access ==
    INSTANCE AccessState WITH
        file <- access_file, pc <- access_pc, args <- access_args, read <- access_read

Pair ==
    INSTANCE ArtifactPair WITH
        Generation <- Made, target <- pair_target,
        staged <- pair_staged, backup <- pair_backup,
        pc <- pair_pc, i <- pair_i, new <- pair_new,
        backedUp <- pair_backedUp, committed <- pair_committed,
        failed <- pair_failed, outcome <- pair_outcome,
        before <- pair_before, failures <- pair_failures

Race ==
    INSTANCE RegistryInstallRace WITH
        target <- race_target, staged <- race_staged, backup <- race_backup,
        journal <- race_journal, pc <- race_pc, i <- race_i, txn <- race_txn,
        looked <- race_looked, backedUp <- race_backedUp,
        committed <- race_committed, failed <- race_failed, view <- race_view

ASSUME LocalFilesAssumption ==
    /\ ConstantsAssumption /\ Access!ConstantsAssumption
    /\ Pair!ConstantsAssumption /\ Race!ConstantsAssumption

accessVars == <<access_file, access_pc, access_args, access_read>>
pairVars == <<pair_target, pair_staged, pair_backup, pair_pc, pair_i,
    pair_new, pair_backedUp, pair_committed, pair_failed, pair_outcome,
    pair_before, pair_failures>>
raceVars == <<race_target, race_staged, race_backup, race_journal, race_pc,
    race_i, race_txn, race_looked, race_backedUp, race_committed,
    race_failed, race_view>>
everything == <<part, vars, accessVars, pairVars, raceVars>>

\* Of a part that stands still one initial state is enough.
Init0 ==
    /\ part \in {"access", "sync", "pair", "race"}
    /\ Access!Init
    /\ Init /\ (part # "sync" => dir = Absent)
    /\ Pair!Init /\ (part # "pair" => pair_target = Pair!NoFiles)
    /\ Race!Init
    /\ (part # "race" => race_journal = Race!NoJournal /\ race_target = Race!Nothing)

AccessOnly == part = "access" /\ UNCHANGED <<part, vars, pairVars, raceVars>>
SyncOnly == part = "sync" /\ UNCHANGED <<part, accessVars, pairVars, raceVars>>
PairOnly == part = "pair" /\ UNCHANGED <<part, vars, accessVars, raceVars>>
RaceOnly == part = "race" /\ UNCHANGED <<part, vars, accessVars, pairVars>>

AccessStep ==
  \E c \in Process :
    \/ AccessOnly /\ Access!Begin(c)
    \/ AccessOnly /\ Access!Read(c)
    \/ AccessOnly /\ Access!Reject(c)
    \/ AccessOnly /\ Access!Write(c)
    \/ AccessOnly /\ Access!Abandon(c)

SyncStep ==
  \/ \E w \in Writer :
      \/ SyncOnly /\ Stage(w)
      \/ SyncOnly /\ StageFails(w)
      \/ SyncOnly /\ Inspect(w)
      \/ SyncOnly /\ InspectFails(w)
      \/ SyncOnly /\ BackUp(w)
      \/ SyncOnly /\ BackUpFails(w)
      \/ SyncOnly /\ Commit(w)
      \/ SyncOnly /\ CommitFails(w)
      \/ SyncOnly /\ Rollback(w)
      \/ SyncOnly /\ RollbackFails(w)
      \/ SyncOnly /\ Discard(w)
      \/ SyncOnly /\ DiscardFails(w)
      \/ SyncOnly /\ Clean(w)
      \/ SyncOnly /\ CleanFails(w)
      \/ SyncOnly /\ Kill(w)
  \/ \E r \in Reader :
      \/ SyncOnly /\ ReadArtifact(r)
      \/ SyncOnly /\ Compare(r)

PairStep ==
  \/ \E g \in Made : PairOnly /\ Pair!Generate(g)
  \/ PairOnly /\ Pair!Stage
  \/ PairOnly /\ Pair!StageFails
  \/ PairOnly /\ Pair!BackUp
  \/ PairOnly /\ Pair!Commit
  \/ PairOnly /\ Pair!BackUpOrCommitFails
  \/ PairOnly /\ Pair!Discard
  \/ PairOnly /\ Pair!Undo
  \/ PairOnly /\ Pair!UndoFails
  \/ PairOnly /\ Pair!Restore
  \/ PairOnly /\ Pair!RestoreFails
  \/ PairOnly /\ Pair!Unstage
  \/ PairOnly /\ Pair!Kill

RaceStep ==
  \E c \in Process :
    \/ RaceOnly /\ Race!Start(c)
    \/ RaceOnly /\ Race!LoadRegistry(c)
    \/ RaceOnly /\ Race!StageAll(c)
    \/ RaceOnly /\ Race!Reserve(c)
    \/ RaceOnly /\ Race!WriteJournal(c)
    \/ RaceOnly /\ Race!BackUp(c)
    \/ RaceOnly /\ Race!Commit(c)
    \/ RaceOnly /\ Race!CommitPoint(c)
    \/ RaceOnly /\ Race!BackOut(c)
    \/ RaceOnly /\ Race!DiscardBackup(c)
    \/ RaceOnly /\ Race!Undo(c)
    \/ RaceOnly /\ Race!Restore(c)
    \/ RaceOnly /\ Race!CloseRollback(c)
    \/ RaceOnly /\ Race!Unstage(c)
    \/ RaceOnly /\ Race!Look(c)
    \/ RaceOnly /\ Race!Remove(c)
    \/ RaceOnly /\ Race!Reinstate(c)
    \/ RaceOnly /\ Race!DropStaged(c)
    \/ RaceOnly /\ Race!CloseRecovery(c)

Next0 == AccessStep \/ SyncStep \/ PairStep \/ RaceStep

\* The fairness that RegistryInstallRace states.
Spec0 ==
    /\ Init0 /\ [][Next0]_everything
    /\ \A c \in Process : WF_raceVars(RaceOnly /\ Race!Step(c))

\* The type invariant of the part that runs.
TypesOK ==
    CASE part = "access" -> Access!TypeOK
      [] part = "sync" -> TypeOK
      [] part = "pair" -> Pair!TypeOK
      [] part = "race" -> Race!TypeOK

\* AccessState: what is stored becomes older only under a command that replaces
\* a file it has not read, and a command touches only the fields it was given.
RegressesOnlyOverUnreadFile == Access!RegressesOnlyOverUnreadFile
TouchesOnlyItsFields == Access!TouchesOnlyItsFields

\* ArtifactPair: a pair is replaced whole or restored, and does not match only
\* after a rollback that failed.
Transactional == Pair!Transactional
MismatchOnlyFromRollback == Pair!MismatchOnlyFromRollback

\* RegistryInstallRace: nobody loads a part of an interrupted install, and
\* where two commands meet, both come to an end.
NeverLoadsInterrupted == Race!NeverLoadsInterrupted
EveryoneReturns == part = "race" ~> Race!AllReturned
=============================================================================
