------------------------ MODULE RegistryInstallProofs ------------------------
(***************************************************************************)
(* The recoverable install keeps its promise for every set of snapshots    *)
(* and every number of crashes and failing calls: RegistryInstall          *)
(* implements AtomicInstall.                                               *)
(*                                                                         *)
(* Neither the refinement nor WriteAhead is inductive: what recovery would *)
(* restore depends on how far the interrupted loop had come.  IInv adds,   *)
(* per location, what the loops have established so far.                   *)
(***************************************************************************)
EXTENDS RegistryInstall, TLAPS

Calm == {"idle", "ready"}
Preparing == {"staging", "reserving", "journaling"}
InTransaction ==
    {"backingUp", "committing", "commitPoint", "undoing", "restoring", "rolledBack"}
Recovering == {"recovering", "reinstating", "dropping", "recovered"}

\* Where the journal is on disk, and that it repeats what memory holds.
JournalInv ==
    /\ pc \in {"ready", "discarding"} \cup Preparing => ~journal.open
    /\ pc \in InTransaction \cup Recovering => journal.open
    /\ pc \in InTransaction => journal.had = had

\* What an open journal means for the files, whoever reads it: either the
\* backup or the target of a journaled target is its old content, and a new
\* target that is still staged is not installed.
RestorableInv ==
    journal.open =>
        \A t \in Target :
            /\ backup[t] # Absent => t \in journal.had /\ backup[t] \in Snapshots
            /\ t \in journal.had /\ backup[t] = Absent => target[t] \in Snapshots
            /\ t \notin journal.had /\ staged[t] # Absent => target[t] = Absent

\* A file of the last transaction that nothing accounts for is not there.
Accounted(t) ==
    /\ staged[t] # Absent => <<"staged", t>> \in excused
    /\ backup[t] # Absent => <<"backup", t>> \in excused

\* Without a journal the targets are whole, and the transaction files are
\* those of the installing process, or accounted for.
QuietInv ==
    ~journal.open =>
        /\ \A t \in Target : target[t] # Torn
        /\ pc \in Calm => \A t \in Target : Accounted(t)
        /\ pc \in Preparing => \A t \in Target : backup[t] = Absent
        /\ pc = "unstaging" =>
               \A t \in Target : /\ t < i => Accounted(t)
                                 /\ backup[t] # Absent => <<"backup", t>> \in excused

\* The old content of a target that stays in its backup without a journal is
\* that of an install that was committed.
WholeSet == \E s \in Snapshots : target = [u \in Target |-> s]
LeftoverInv == ~journal.open /\ (\E t \in Target : backup[t] \in Snapshots) => WholeSet

MemoryInv ==
    /\ pc \in Calm \cup Preparing \cup Recovering => backedUp = {} /\ committed = {}
    /\ pc \in Calm \cup Recovering \cup {"staging"} => had = {}
    /\ pc \in Preparing \cup InTransaction \cup {"discarding"} => new \in Snapshots

PreparingInv ==
    /\ pc = "staging" =>
           \A j \in Target : j < i => staged[StageOrder[j]] = new
    /\ pc \in {"reserving", "journaling", "backingUp"} =>
           \A t \in Target : staged[t] = new
    /\ pc = "reserving" =>
           \A t \in Target : t \in had <=> t < i /\ target[t] # Absent
    /\ pc = "journaling" =>
           \A t \in Target : t \in had <=> target[t] # Absent

TransactionInv ==
    /\ pc \in InTransaction =>
           \A t \in Target :
               /\ t \in backedUp <=> backup[t] # Absent
               /\ t \notin had /\ t \notin committed => target[t] = Absent
               /\ t \in committed => staged[t] = Absent
    /\ pc = "backingUp" =>
           /\ committed = {}
           /\ \A t \in Target : t \in backedUp <=> t \in had /\ t < i
    /\ pc \in {"committing", "commitPoint"} =>
           \A t \in Target : t \in backedUp <=> t \in had
    /\ pc = "committing" =>
           \A t \in Target :
               /\ t < i => target[t] = new /\ staged[t] = Absent
               /\ t >= i => staged[t] = new
    /\ pc = "commitPoint" => \A t \in Target : target[t] = new /\ staged[t] = Absent
    /\ pc \in {"undoing", "restoring"} =>
           \A t \in Target : t <= i /\ t \in committed \cap had => t \in backedUp
    /\ pc = "discarding" =>
           \A t \in Target :
               /\ target[t] = new /\ staged[t] = Absent
               /\ t < i => Accounted(t)

\* A target that recovery is done with.
Settled(t) ==
    /\ backup[t] = Absent
    /\ staged[t] = Absent
    /\ t \notin journal.had => target[t] = Absent

RecoveryInv ==
    /\ pc \in {"recovering", "reinstating", "dropping"} /\ ~failed =>
           \A t \in Target : t > i => Settled(t)
    /\ pc = "reinstating" => backup[i] # Absent /\ target[i] = Absent
    /\ pc = "dropping" /\ ~failed =>
           /\ backup[i] = Absent
           /\ i \notin journal.had => target[i] = Absent
    /\ pc = "recovered" /\ ~failed => \A t \in Target : Settled(t)

IInv ==
    /\ TypeOK
    /\ JournalInv
    /\ RestorableInv
    /\ QuietInv
    /\ MemoryInv
    /\ PreparingInv
    /\ TransactionInv
    /\ RecoveryInv
-----------------------------------------------------------------------------
(* Type correctness, which needs nothing but itself.                         *)

LEMMA TypeInit == Init => TypeOK
<1> SUFFICES ASSUME Init PROVE TypeOK
  OBVIOUS
<1>1. target \in [Target -> Content] /\ view \in [Target -> Content]
  BY DEF Init, Content
<1>2. staged \in [Target -> Content] /\ backup \in [Target -> Content]
  BY DEF Init, NoFiles, Content
<1>3. pc \in Locations /\ i \in Target
  BY DEF Init, Locations, Target
<1>4. faults \in 0..MaxFaults
  BY ConstantsAssumption DEF Init
<1> QED
  BY <1>1, <1>2, <1>3, <1>4 DEF Init, TypeOK, NoJournal

LEMMA TypeStep == TypeOK /\ [Next]_vars => TypeOK'
<1> SUFFICES ASSUME TypeOK, [Next]_vars PROVE TypeOK'
  OBVIOUS
<1>1. pc' \in Locations /\ i' \in Target
  BY DEF TypeOK, Locations, Target, Goto, UpFrom, DownFrom, vars,
         Next, Run, Install, Rollback, Recover, StartCommand, LoadRegistry,
         Stage, StageFails, Reserve, ReserveFails, WriteJournal,
         WriteJournalFails, BackUp, BackUpFails, Commit, CommitFails,
         CommitPoint, CommitPointFails, DiscardBackup, DiscardBackupFails,
         NextUnstage, Unstage, UnstageFails, Undo, UndoFails,
         Restore, RestoreFails, CloseRollback, CloseRollbackFails,
         RecoverTarget, RecoverTargetFails, Reinstate, ReinstateFails,
         DropStaged, DropStagedFails, CloseRecovery, RecoveryFails, Crash,
         BeginInstall
<1>2. faults' \in 0..MaxFaults
  BY ConstantsAssumption
     DEF TypeOK, NoFault, Fault, vars,
         Next, Run, Install, Rollback, Recover, StartCommand, LoadRegistry,
         Stage, StageFails, Reserve, ReserveFails, WriteJournal,
         WriteJournalFails, BackUp, BackUpFails, Commit, CommitFails,
         CommitPoint, CommitPointFails, DiscardBackup, DiscardBackupFails,
         NextUnstage, Unstage, UnstageFails, Undo, UndoFails,
         Restore, RestoreFails, CloseRollback, CloseRollbackFails,
         RecoverTarget, RecoverTargetFails, Reinstate, ReinstateFails,
         DropStaged, DropStagedFails, CloseRecovery, RecoveryFails, Crash,
         BeginInstall
<1> USE DEF TypeOK, Content, NoFiles, NoJournal, Forget, disk, memory, auxiliary,
            TransactionFile
<1>3. CASE StartCommand
  BY <1>3, <1>1, <1>2 DEF StartCommand
<1>4. CASE DiscardBackupFails
  BY <1>4, <1>1, <1>2 DEF DiscardBackupFails
<1>5. CASE LoadRegistry
  BY <1>5, <1>1, <1>2 DEF LoadRegistry
<1>6. ASSUME NEW s \in Snapshots, BeginInstall(s) PROVE TypeOK'
  BY <1>6, <1>1, <1>2 DEF BeginInstall
<1>7. CASE Stage
  BY <1>7, <1>1, <1>2 DEF Stage, StageOrder, Registry, Provenance
<1>8. CASE StageFails
  BY <1>8, <1>1, <1>2 DEF StageFails, StageOrder, Registry, Provenance
<1>9. CASE Reserve
  BY <1>9, <1>1, <1>2 DEF Reserve
<1>10. CASE ReserveFails
  BY <1>10, <1>1, <1>2 DEF ReserveFails
<1>11. CASE WriteJournal
  BY <1>11, <1>1, <1>2 DEF WriteJournal
<1>12. CASE WriteJournalFails
  BY <1>12, <1>1, <1>2 DEF WriteJournalFails
<1>13. CASE BackUp
  BY <1>13, <1>1, <1>2 DEF BackUp
<1>14. CASE BackUpFails
  BY <1>14, <1>1, <1>2 DEF BackUpFails
<1>15. CASE Commit
  BY <1>15, <1>1, <1>2 DEF Commit
<1>16. CASE CommitFails
  BY <1>16, <1>1, <1>2 DEF CommitFails
<1>17. CASE CommitPoint
  BY <1>17, <1>1, <1>2 DEF CommitPoint
<1>18. CASE CommitPointFails
  BY <1>18, <1>1, <1>2 DEF CommitPointFails
<1>19. CASE DiscardBackup
  BY <1>19, <1>1, <1>2 DEF DiscardBackup
<1>20. CASE Unstage
  BY <1>20, <1>1, <1>2 DEF NextUnstage, Unstage
<1>37. CASE UnstageFails
  <2>1. <<"staged", i>> \in TransactionFile
    OBVIOUS
  <2>2. excused' \subseteq TransactionFile
    BY <1>37, <2>1 DEF UnstageFails
  <2> HIDE DEF TransactionFile
  <2> QED
    BY <1>37, <1>1, <1>2, <2>2 DEF NextUnstage, UnstageFails
<1>21. CASE Undo
  BY <1>21, <1>1, <1>2 DEF Undo
<1>22. CASE UndoFails
  BY <1>22, <1>1, <1>2 DEF UndoFails, RemoveAllFails
<1>23. CASE Restore
  BY <1>23, <1>1, <1>2 DEF Restore, Replaceable
<1>24. CASE RestoreFails
  BY <1>24, <1>1, <1>2 DEF RestoreFails, Replaceable
<1>25. CASE CloseRollback
  BY <1>25, <1>1, <1>2 DEF CloseRollback
<1>26. CASE CloseRollbackFails
  BY <1>26, <1>1, <1>2 DEF CloseRollbackFails
<1>27. CASE RecoverTarget
  BY <1>27, <1>1, <1>2 DEF RecoverTarget, Interrupted, NewTarget
<1>28. CASE RecoverTargetFails
  BY <1>28, <1>1, <1>2 DEF RecoverTargetFails, Interrupted, NewTarget, RemoveAllFails
<1>29. CASE Reinstate
  BY <1>29, <1>1, <1>2 DEF Reinstate, Replaceable
<1>30. CASE ReinstateFails
  BY <1>30, <1>1, <1>2 DEF ReinstateFails, Replaceable
<1>31. CASE DropStaged
  BY <1>31, <1>1, <1>2 DEF DropStaged
<1>32. CASE DropStagedFails
  BY <1>32, <1>1, <1>2 DEF DropStagedFails
<1>33. CASE CloseRecovery
  BY <1>33, <1>1, <1>2 DEF CloseRecovery
<1>34. CASE RecoveryFails
  BY <1>34, <1>1, <1>2 DEF RecoveryFails
<1>35. CASE Crash
  BY <1>35, <1>1, <1>2 DEF Crash, OnDisk
<1>36. CASE UNCHANGED vars
  BY <1>36, <1>1, <1>2 DEF vars
<1> QED
  BY <1>1, <1>2, <1>3, <1>4, <1>5, <1>6, <1>7, <1>8, <1>9, <1>10, <1>11, <1>12,
     <1>13, <1>14, <1>15, <1>16, <1>17, <1>18, <1>19, <1>20, <1>21, <1>22,
     <1>23, <1>24, <1>25, <1>26, <1>27, <1>28, <1>29, <1>30, <1>31, <1>32,
     <1>33, <1>34, <1>35, <1>36, <1>37
     DEF Next, Run, Install, Rollback, Recover

(* Every reachable state is well-typed: the loops of commitRegistryInstall,  *)
(* of the rollback and of the recovery stay within their three targets.      *)
THEOREM TypeCorrect == Spec => []TypeOK
BY TypeInit, TypeStep, PTL DEF Spec

-----------------------------------------------------------------------------
(* The inductive invariant.                                                  *)

LEMMA InvInit == Init => IInv
BY TypeInit, ConstantsAssumption
   DEF Init, IInv, JournalInv, RestorableInv, QuietInv, MemoryInv, PreparingInv,
       TransactionInv, RecoveryInv, Settled, Calm, Preparing, InTransaction, Recovering,
       Accounted, NoFiles, NoJournal, Target

LEMMA InvStep == IInv /\ [Next]_vars => IInv'
<1> SUFFICES ASSUME IInv, [Next]_vars PROVE IInv'
  OBVIOUS
<1> TypeOK'
  BY TypeStep DEF IInv
<1> USE ConstantsAssumption
    DEF IInv, TypeOK, JournalInv, RestorableInv, QuietInv, MemoryInv, PreparingInv,
        TransactionInv, RecoveryInv, Settled, Calm, Preparing, InTransaction, Recovering,
        Accounted, Content, Target, NoFiles, NoJournal,
        Goto, UpFrom, DownFrom, Forget, disk, memory, auxiliary
<1>1. CASE StartCommand
  BY <1>1 DEF StartCommand
<1>2. CASE DiscardBackupFails
  BY <1>2 DEF DiscardBackupFails
<1>3. CASE LoadRegistry
  BY <1>3 DEF LoadRegistry
<1>4. ASSUME NEW s \in Snapshots, BeginInstall(s) PROVE IInv'
  BY <1>4 DEF BeginInstall
<1>5. CASE Stage
  BY <1>5 DEF Stage, StageOrder, Registry, Release, Provenance
<1>6. CASE StageFails
  BY <1>6 DEF StageFails, StageOrder, Registry, Release, Provenance
<1>7. CASE Reserve
  BY <1>7 DEF Reserve
<1>8. CASE ReserveFails
  BY <1>8 DEF ReserveFails
<1>9. CASE WriteJournal
  BY <1>9 DEF WriteJournal
<1>10. CASE WriteJournalFails
  BY <1>10 DEF WriteJournalFails
<1>11. CASE BackUp
  BY <1>11 DEF BackUp
<1>12. CASE BackUpFails
  BY <1>12 DEF BackUpFails
<1>13. CASE Commit
  BY <1>13 DEF Commit
<1>14. CASE CommitFails
  BY <1>14 DEF CommitFails
<1>15. CASE CommitPoint
  BY <1>15 DEF CommitPoint
<1>16. CASE CommitPointFails
  BY <1>16 DEF CommitPointFails
<1>17. CASE DiscardBackup
  BY <1>17 DEF DiscardBackup
<1>18. CASE Unstage
  BY <1>18 DEF NextUnstage, Unstage
<1>35. CASE UnstageFails
  BY <1>35 DEF NextUnstage, UnstageFails
<1>19. CASE Undo
  BY <1>19 DEF Undo
<1>20. CASE UndoFails
  BY <1>20 DEF UndoFails, RemoveAllFails
<1>21. CASE Restore
  BY <1>21 DEF Restore, Replaceable
<1>22. CASE RestoreFails
  BY <1>22 DEF RestoreFails, Replaceable
<1>23. CASE CloseRollback
  BY <1>23 DEF CloseRollback
<1>24. CASE CloseRollbackFails
  BY <1>24 DEF CloseRollbackFails
<1>25. CASE RecoverTarget
  BY <1>25 DEF RecoverTarget, Interrupted, NewTarget
<1>26. CASE RecoverTargetFails
  BY <1>26 DEF RecoverTargetFails, Interrupted, NewTarget, RemoveAllFails
<1>27. CASE Reinstate
  BY <1>27 DEF Reinstate, Replaceable
<1>28. CASE ReinstateFails
  BY <1>28 DEF ReinstateFails, Replaceable
<1>29. CASE DropStaged
  BY <1>29 DEF DropStaged
<1>30. CASE DropStagedFails
  BY <1>30 DEF DropStagedFails
<1>31. CASE CloseRecovery
  BY <1>31 DEF CloseRecovery
<1>32. CASE RecoveryFails
  BY <1>32 DEF RecoveryFails
<1>33. CASE Crash
  <2>1. journal'.open = journal.open /\ pc' = "idle"
    BY <1>33 DEF Crash
  <2>2. ASSUME ~journal.open, NEW t \in Target PROVE Accounted(t)'
    <3>1. staged[t] # Absent => <<"staged", t>> \in OnDisk
      BY DEF OnDisk, TransactionFile
    <3>2. backup[t] # Absent => <<"backup", t>> \in OnDisk
      BY DEF OnDisk, TransactionFile
    <3> QED
      BY <1>33, <2>2, <3>1, <3>2 DEF Crash
  <2> HIDE DEF Accounted
  <2> QED
    BY <1>33, <2>1, <2>2 DEF Crash
<1>34. CASE UNCHANGED vars
  BY <1>34, SMTT(30) DEF vars
<1> QED
  BY <1>1, <1>2, <1>3, <1>4, <1>5, <1>6, <1>7, <1>8, <1>9, <1>10, <1>11, <1>12,
     <1>13, <1>14, <1>15, <1>16, <1>17, <1>18, <1>19, <1>20, <1>21, <1>22,
     <1>23, <1>24, <1>25, <1>26, <1>27, <1>28, <1>29, <1>30, <1>31, <1>32,
     <1>33, <1>34, <1>35
     DEF Next, Run, Install, Rollback, Recover

(* The strengthening is an invariant: what the loops over the targets have   *)
(* established holds at every point where the process may be killed.         *)
THEOREM Invariance == Spec => []IInv
BY InvInit, InvStep, PTL DEF Spec

-----------------------------------------------------------------------------
(* The safety invariants the model checker also verifies.                    *)

LEMMA LeftoverInit == Init => LeftoverInv
BY ConstantsAssumption DEF Init, LeftoverInv, NoFiles

(* Only an install that commits leaves backups without a journal.            *)
LEMMA LeftoverStep == IInv /\ IInv' /\ LeftoverInv /\ [Next]_vars => LeftoverInv'
<1> SUFFICES ASSUME IInv, IInv', LeftoverInv, [Next]_vars,
                    ~journal'.open, NEW t \in Target, backup'[t] \in Snapshots
             PROVE  WholeSet'
  BY DEF LeftoverInv
<1>1. CASE CommitPoint
  <2>1. new \in Snapshots
    BY <1>1 DEF IInv, MemoryInv, CommitPoint, InTransaction
  <2>2. \A u \in Target : target'[u] = new
    BY <1>1 DEF IInv, TransactionInv, CommitPoint
  <2>3. target' = [u \in Target |-> new]
    BY <2>2 DEF IInv, TypeOK
  <2> QED
    BY <2>1, <2>3 DEF WholeSet
<1>2. CASE CloseRollback \/ CloseRecovery
  <2>1. backup'[t] # Absent
    BY ConstantsAssumption
  <2>2. CASE journal.open
    BY <1>2, <2>1, <2>2
       DEF IInv, TransactionInv, RecoveryInv, Settled, InTransaction, CloseRollback,
           CloseRecovery
  <2>3. CASE ~journal.open
    BY <1>2, <2>3
       DEF IInv, JournalInv, InTransaction, Recovering, CloseRollback, CloseRecovery
  <2> QED
    BY <2>2, <2>3
<1>3. CASE ~(CommitPoint \/ CloseRollback \/ CloseRecovery)
  <2>1. ~journal.open
    BY <1>3
       DEF Next, vars, disk, Run, Install, Rollback, Recover,
           StartCommand, LoadRegistry, BeginInstall, Stage, StageFails, Reserve,
           ReserveFails, WriteJournal, WriteJournalFails, BackUp, BackUpFails,
           Commit, CommitFails, CommitPointFails, DiscardBackup, DiscardBackupFails,
           NextUnstage, Unstage, UnstageFails, Undo, UndoFails, Restore,
           RestoreFails, CloseRollbackFails, RecoverTarget, RecoverTargetFails,
           Reinstate, ReinstateFails, DropStaged, DropStagedFails, RecoveryFails,
           Crash
  <2>2. pc \notin InTransaction \cup Recovering
    BY <2>1 DEF IInv, JournalInv
  <2>3. UNCHANGED target
    BY <2>2
       DEF InTransaction, Recovering,
           Next, vars, disk, Run, Install, Rollback, Recover,
           StartCommand, LoadRegistry, BeginInstall, Stage, StageFails, Reserve,
           ReserveFails, WriteJournal, WriteJournalFails, BackUp, BackUpFails,
           Commit, CommitFails, CommitPoint, CommitPointFails, DiscardBackup,
           DiscardBackupFails, NextUnstage, Unstage, UnstageFails, Undo, UndoFails,
           Restore, RestoreFails, CloseRollback, CloseRollbackFails, RecoverTarget,
           RecoverTargetFails, Reinstate, ReinstateFails, DropStaged,
           DropStagedFails, CloseRecovery, RecoveryFails, Crash
  <2>4. backup[t] \in Snapshots
    BY <2>2, ConstantsAssumption
       DEF IInv, TypeOK, InTransaction, Recovering, NoFiles, Content,
           Next, vars, disk, Run, Install, Rollback, Recover,
           StartCommand, LoadRegistry, BeginInstall, Stage, StageFails, Reserve,
           ReserveFails, WriteJournal, WriteJournalFails, BackUp, BackUpFails,
           Commit, CommitFails, CommitPoint, CommitPointFails, DiscardBackup,
           DiscardBackupFails, NextUnstage, Unstage, UnstageFails, Undo, UndoFails,
           Restore, RestoreFails, CloseRollback, CloseRollbackFails, RecoverTarget,
           RecoverTargetFails, Reinstate, ReinstateFails, DropStaged,
           DropStagedFails, CloseRecovery, RecoveryFails, Crash
  <2>5. WholeSet
    BY <2>1, <2>4 DEF LeftoverInv
  <2> QED
    BY <2>3, <2>5 DEF WholeSet
<1> QED
  BY <1>1, <1>2, <1>3

LEMMA IInvWriteAhead == IInv /\ LeftoverInv => WriteAhead
<1> SUFFICES ASSUME IInv, LeftoverInv, NEW t \in Target, backup[t] \in Snapshots
             PROVE  \/ journal.open /\ t \in journal.had
                    \/ ~journal.open /\ WholeSet
  BY DEF WriteAhead, WholeSet
<1>1. CASE journal.open
  BY <1>1, ConstantsAssumption DEF IInv, RestorableInv
<1>2. CASE ~journal.open
  BY <1>2 DEF LeftoverInv
<1> QED
  BY <1>1, <1>2

(* commitRegistryInstall and the recovery move a target away only under a    *)
(* journal that says how to bring it back; a backup that stays without one   *)
(* is that of an install that was committed.                                 *)
THEOREM WriteAheadHolds == Spec => []WriteAhead
BY Invariance, LeftoverInit, LeftoverStep, IInvWriteAhead, PTL DEF Spec

LEMMA IInvReturnsClean == IInv => ReturnsClean
<1> SUFFICES ASSUME IInv, pc \in {"idle", "ready"}, ~journal.open
             PROVE  OnDisk \subseteq excused
  BY DEF ReturnsClean
<1> SUFFICES ASSUME NEW f \in OnDisk PROVE f \in excused
  OBVIOUS
<1>1. PICK k \in {"staged", "backup"}, t \in Target : f = <<k, t>>
  BY DEF OnDisk, TransactionFile
<1>2. IF k = "staged" THEN staged[t] # Absent ELSE backup[t] # Absent
  BY <1>1 DEF OnDisk
<1>3. Accounted(t)
  BY DEF IInv, QuietInv, Calm
<1> QED
  BY <1>1, <1>2, <1>3 DEF Accounted

(* No return path of commitRegistryInstall, of its rollback or of the        *)
(* recovery leaves a staged or backup file that nobody knows of, except one  *)
(* whose own removal failed or that a kill left outside the journal's time.  *)
THEOREM ReturnsCleanHolds == Spec => []ReturnsClean
BY Invariance, IInvReturnsClean, PTL

-----------------------------------------------------------------------------
(* The refinement.                                                           *)

LEMMA InitRefines == Init => Promise!Init
<1> SUFFICES ASSUME Init PROVE Promise!Init
  OBVIOUS
<1>1. Restorable = target
  BY DEF Init, Restorable, NoJournal
<1> QED
  BY <1>1 DEF Init, Promise!Init, Promise!Content

(* Only two actions are seen by the users of the installed set.              *)
LEMMA QuietStep ==
  ASSUME IInv, [Next]_vars, ~LoadRegistry, ~CommitPoint
  PROVE  UNCHANGED <<Restorable, view>>
<1>1. UNCHANGED view
  BY DEF Next, vars, Run, Install, Rollback, Recover, disk, auxiliary,
       StartCommand, BeginInstall, Stage, StageFails, Reserve,
       ReserveFails, WriteJournal, WriteJournalFails, BackUp, BackUpFails, Commit,
       CommitFails, CommitPointFails, DiscardBackup, DiscardBackupFails,
       NextUnstage, Unstage, UnstageFails, Undo, UndoFails,
       Restore, RestoreFails, CloseRollback, CloseRollbackFails,
       RecoverTarget, RecoverTargetFails, Reinstate, ReinstateFails,
       DropStaged, DropStagedFails, CloseRecovery, RecoveryFails, Crash
<1> SUFFICES \A t \in Target : Restorable'[t] = Restorable[t]
  BY <1>1 DEF Restorable
<1> USE ConstantsAssumption
    DEF Restorable, IInv, TypeOK, JournalInv, RestorableInv, QuietInv, TransactionInv,
        RecoveryInv, Settled, Calm, Preparing, InTransaction, Recovering, Content,
        Target, disk, memory, auxiliary
<1>2. CASE StartCommand
  BY <1>2 DEF StartCommand
<1>3. CASE DiscardBackupFails
  BY <1>3 DEF DiscardBackupFails
<1>4. ASSUME NEW s \in Snapshots, BeginInstall(s)
       PROVE \A t \in Target : Restorable'[t] = Restorable[t]
  BY <1>4 DEF BeginInstall
<1>5. CASE Stage
  BY <1>5 DEF Stage
<1>6. CASE StageFails
  BY <1>6 DEF StageFails
<1>7. CASE Reserve
  BY <1>7 DEF Reserve
<1>8. CASE ReserveFails
  BY <1>8 DEF ReserveFails
<1>9. CASE WriteJournal
  BY <1>9 DEF WriteJournal, PreparingInv
<1>10. CASE WriteJournalFails
  BY <1>10 DEF WriteJournalFails
<1>11. CASE BackUp
  BY <1>11 DEF BackUp
<1>12. CASE BackUpFails
  BY <1>12 DEF BackUpFails
<1>13. CASE Commit
  BY <1>13 DEF Commit
<1>14. CASE CommitFails
  BY <1>14 DEF CommitFails
<1>15. CASE CommitPointFails
  BY <1>15 DEF CommitPointFails
<1>16. CASE DiscardBackup
  BY <1>16 DEF DiscardBackup
<1>17. CASE Unstage
  BY <1>17 DEF NextUnstage, Unstage
<1>34. CASE UnstageFails
  BY <1>34 DEF NextUnstage, UnstageFails
<1>18. CASE Undo
  BY <1>18 DEF Undo
<1>19. CASE UndoFails
  BY <1>19 DEF UndoFails, RemoveAllFails
<1>20. CASE Restore
  BY <1>20 DEF Restore, Replaceable
<1>21. CASE RestoreFails
  BY <1>21 DEF RestoreFails, Replaceable
<1>22. CASE CloseRollback
  BY <1>22 DEF NoJournal, CloseRollback
<1>23. CASE CloseRollbackFails
  BY <1>23 DEF CloseRollbackFails
<1>24. CASE RecoverTarget
  BY <1>24 DEF RecoverTarget, Interrupted, NewTarget
<1>25. CASE RecoverTargetFails
  BY <1>25 DEF RecoverTargetFails, Interrupted, NewTarget, RemoveAllFails
<1>26. CASE Reinstate
  BY <1>26 DEF Reinstate, Replaceable
<1>27. CASE ReinstateFails
  BY <1>27 DEF ReinstateFails, Replaceable
<1>28. CASE DropStaged
  BY <1>28 DEF DropStaged
<1>29. CASE DropStagedFails
  BY <1>29 DEF DropStagedFails
<1>30. CASE CloseRecovery
  BY <1>30 DEF NoJournal, CloseRecovery
<1>31. CASE RecoveryFails
  BY <1>31 DEF RecoveryFails
<1>32. CASE Crash
  BY <1>32 DEF NoFiles, Crash
<1>33. CASE UNCHANGED vars
  BY <1>33 DEF vars
<1> QED
  BY <1>2, <1>3, <1>4, <1>5, <1>6, <1>7, <1>8, <1>9, <1>10, <1>11, <1>12,
     <1>13, <1>14, <1>15, <1>16, <1>17, <1>18, <1>19, <1>20, <1>21, <1>22,
     <1>23, <1>24, <1>25, <1>26, <1>27, <1>28, <1>29, <1>30, <1>31, <1>32, <1>33, <1>34
     DEF Next, Run, Install, Rollback, Recover

LEMMA CommitStep ==
  ASSUME IInv, CommitPoint
  PROVE  /\ new \in Snapshots
         /\ Restorable' = [t \in Target |-> new]
         /\ UNCHANGED view
<1>1. new \in Snapshots
  BY DEF CommitPoint, IInv, MemoryInv, InTransaction
<1>2. Restorable' = [t \in Target |-> new]
  BY DEF CommitPoint, Restorable, NoJournal, IInv, TransactionInv
<1> QED
  BY <1>1, <1>2 DEF CommitPoint, auxiliary

LEMMA LoadStep ==
  ASSUME IInv, LoadRegistry
  PROVE  UNCHANGED Restorable /\ view' = Restorable
<1>1. UNCHANGED Restorable
  BY DEF LoadRegistry, Restorable, disk
<1>2. ~journal.open
  BY DEF LoadRegistry, IInv, JournalInv
<1>3. Restorable = target
  BY <1>2 DEF Restorable, IInv, TypeOK
<1> QED
  BY <1>1, <1>3 DEF LoadRegistry

LEMMA StepRefines == IInv /\ [Next]_vars => [Promise!Next]_<<Restorable, view>>
<1> SUFFICES ASSUME IInv, [Next]_vars
             PROVE  Promise!Next \/ UNCHANGED <<Restorable, view>>
  OBVIOUS
<1>1. CASE LoadRegistry
  BY <1>1, LoadStep DEF Promise!Next, Promise!Load
<1>2. CASE CommitPoint
  BY <1>2, CommitStep DEF Promise!Next, Promise!Install
<1>3. CASE ~LoadRegistry /\ ~CommitPoint
  BY <1>3, QuietStep
<1> QED
  BY <1>1, <1>2, <1>3

(* Whatever is killed and whatever fails, the three installed targets change *)
(* together, at the removal of the journal, and to one complete snapshot.    *)
THEOREM InstallsWholeSetHolds == Spec => InstallsWholeSet
<1>1. IInv /\ [Next]_vars =>
        [\/ Restorable' = Restorable
         \/ \E s \in Snapshots : Restorable' = [t \in Target |-> s]]_vars
  BY QuietStep, CommitStep, LoadStep
<1> QED
  BY <1>1, Invariance, PTL DEF Spec, InstallsWholeSet

(* Run makes a command that loads the Registry recover first, and none loads *)
(* what an interrupted install left.                                         *)
THEOREM LoadsWholeSetHolds == Spec => LoadsWholeSet
<1>1. IInv /\ [Next]_vars => [view' # view => view' = Restorable]_vars
  BY QuietStep, CommitStep, LoadStep
<1> QED
  BY <1>1, Invariance, PTL DEF Spec, LoadsWholeSet

(* The two together: the journaled install with its rollback and recovery    *)
(* implements the atomic one of AtomicInstall.                               *)
THEOREM Refinement == Spec => ImplementsPromise
BY Invariance, InitRefines, StepRefines, PTL DEF Spec, ImplementsPromise, Promise!Spec
=============================================================================
