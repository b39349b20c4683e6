-------------------------- MODULE ArtifactPairProofs --------------------------
(***************************************************************************)
(* ArtifactPair for any generations and any number of failing calls: what  *)
(* a generator command leaves behind when it ends.                         *)
(*                                                                         *)
(* The properties speak of the moment the command ends; what makes them    *)
(* inductive is what every location of the command says of both files, and *)
(* that until a call of the rollback fails each file can be brought back   *)
(* from what is recorded of it (Recoverable).                              *)
(***************************************************************************)
EXTENDS ArtifactPair, TLAPS

\* Between two commands nothing is remembered, and the last outcome holds.
IdleInv ==
    pc = "idle" =>
        /\ staged = NoFiles /\ backup = NoFiles
        /\ new = Absent /\ backedUp = {} /\ committed = {} /\ ~failed
        /\ Transactional

\* A running command has not ended yet.
RunningInv ==
    pc # "idle" => outcome = "none" /\ new \in Generation

StagingInv ==
    pc = "staging" =>
        /\ target = before
        /\ backedUp = {} /\ committed = {} /\ ~failed
        /\ i = 2 => staged[1] = new

\* The targets below the index have been moved away, the others not yet.
BackingUpInv ==
    pc = "backingUp" =>
        /\ committed = {} /\ ~failed
        /\ \A t \in Target :
              /\ staged[t] = new
              /\ t \in backedUp => backup[t] = before[t]
              /\ t >= i => t \notin backedUp /\ target[t] = before[t]
              /\ t < i => target[t] = Absent /\ (t \notin backedUp => before[t] = Absent)

CommittingInv ==
    pc = "committing" =>
        /\ ~failed
        /\ \A t \in Target :
              /\ t \in backedUp => backup[t] = before[t]
              /\ t \notin backedUp => before[t] = Absent
              /\ t >= i => t \notin committed /\ target[t] = Absent /\ staged[t] = new
              /\ t < i => t \in committed /\ target[t] = new

DiscardingInv ==
    pc = "discarding" => \A t \in Target : target[t] = new

\* What was there before is in the backup, or still in place, or was nothing.
Recoverable(t) ==
    /\ t \in backedUp => backup[t] = before[t]
    /\ t \notin backedUp /\ t \in committed => before[t] = Absent
    /\ t \notin backedUp /\ t \notin committed => target[t] = before[t]

\* Going down, a rollback without a failure of its own has settled the targets
\* above the index.
Settled(t) == t \notin backedUp /\ t \notin committed

RollbackInv ==
    pc \in {"undoing", "restoring"} /\ ~failed =>
        /\ \A t \in Target : Recoverable(t)
        /\ \A t \in Target : t > i => Settled(t)
        /\ pc = "restoring" => i \notin committed

UnstagingInv ==
    pc = "unstaging" /\ ~failed => target = before

IInv ==
    /\ TypeOK
    /\ IdleInv /\ RunningInv
    /\ StagingInv /\ BackingUpInv /\ CommittingInv /\ DiscardingInv
    /\ RollbackInv /\ UnstagingInv

-----------------------------------------------------------------------------
(* The inductive invariant *)

LEMMA InitHolds ==
    ASSUME ConstantsAssumption, Init
    PROVE  IInv
<1>1. TypeOK
  <2>1. PICK g \in Generation, present \in SUBSET Target :
           target = [t \in Target |-> IF t \in present THEN g ELSE Absent]
    BY DEF Init
  <2>2. target \in [Target -> Content]
    BY <2>1 DEF Content
  <2>3. failures \in 0..MaxFailures
    BY DEF ConstantsAssumption, Init
  <2>4. staged \in [Target -> Content] /\ backup \in [Target -> Content] /\ new \in Content
    BY DEF Init, NoFiles, Content
  <2>5. failed \in BOOLEAN /\ before \in [Target -> Content]
    BY <2>2 DEF Init
  <2> QED
    BY <2>2, <2>3, <2>4, <2>5 DEF Init, TypeOK, Target, Outcomes
<1>2. IdleInv
  BY DEF Init, IdleInv, Transactional
<1>3. pc = "idle"
  BY DEF Init
<1> QED
  BY <1>1, <1>2, <1>3
  DEF IInv, RunningInv, StagingInv, BackingUpInv, CommittingInv, DiscardingInv,
      RollbackInv, UnstagingInv

\* A command that ends without having said "failed" or "ok" leaves nothing to
\* be shown but types.
LEMMA EndType ==
    ASSUME TypeOK, Forget, UNCHANGED <<target, before>>,
           outcome' \in Outcomes, failures' \in 0..MaxFailures
    PROVE  TypeOK'
<1>1. staged' \in [Target -> Content] /\ backup' \in [Target -> Content] /\ new' \in Content
  BY DEF Forget, NoFiles, Content
<1>2. i' \in Target /\ backedUp' \in SUBSET Target /\ committed' \in SUBSET Target
  BY DEF Forget, Goto, Target
<1>3. failed' \in BOOLEAN
  BY DEF Forget
<1>4. target' \in [Target -> Content] /\ before' \in [Target -> Content]
  BY DEF TypeOK
<1> QED
  BY <1>1, <1>2, <1>3, <1>4 DEF TypeOK, Forget, Goto

LEMMA EndHolds ==
    ASSUME IInv, Forget, UNCHANGED <<target, before>>,
           outcome' \in Outcomes, failures' \in 0..MaxFailures, Transactional'
    PROVE  IInv'
<1>1. TypeOK'
  BY EndType DEF IInv
<1>2. pc' = "idle" /\ IdleInv'
  BY DEF Forget, Goto, IdleInv, NoFiles
<1> QED
  BY <1>1, <1>2
  DEF IInv, RunningInv, StagingInv, BackingUpInv, CommittingInv, DiscardingInv,
      RollbackInv, UnstagingInv

LEMMA FailureType ==
    ASSUME ConstantsAssumption, TypeOK, Failure \/ NoFailure
    PROVE  failures' \in 0..MaxFailures
BY DEF ConstantsAssumption, TypeOK, Failure, NoFailure

LEMMA GenerateStep ==
    ASSUME ConstantsAssumption, IInv, NEW g \in Generation, Generate(g)
    PROVE  IInv'
BY FailureType
DEF Generate, IInv, TypeOK, IdleInv, RunningInv, StagingInv, BackingUpInv,
    CommittingInv, DiscardingInv, RollbackInv, UnstagingInv, Goto, disk,
    Content, Target, Outcomes

LEMMA StageStep ==
    ASSUME ConstantsAssumption, IInv, Stage
    PROVE  IInv'
<1>1. pc = "staging" /\ UNCHANGED <<target, backup, new, backedUp, committed, failed, outcome, before>>
  BY DEF Stage, memory
<1>2. TypeOK'
  <2>1. staged' \in [Target -> Content] /\ i' \in Target /\ pc' \in {"staging", "backingUp"}
    BY <1>1 DEF Stage, IInv, TypeOK, UpFrom, Goto, Target
  <2> QED
    BY <1>1, <2>1, FailureType DEF Stage, IInv, TypeOK
<1>3. pc' = "staging" => StagingInv'
  BY <1>1 DEF Stage, IInv, TypeOK, StagingInv, UpFrom, Goto, Target
<1>4. pc' = "backingUp" => BackingUpInv'
  BY <1>1 DEF Stage, IInv, TypeOK, StagingInv, BackingUpInv, UpFrom, Goto, Target
<1>5. pc' \in {"staging", "backingUp"}
  BY DEF Stage, UpFrom, Goto
<1> QED
  BY <1>1, <1>2, <1>3, <1>4, <1>5
  DEF IInv, IdleInv, RunningInv, StagingInv, BackingUpInv, CommittingInv, DiscardingInv,
      RollbackInv, UnstagingInv

LEMMA BackUpStep ==
    ASSUME ConstantsAssumption, IInv, BackUp
    PROVE  IInv'
<1>1. /\ pc = "backingUp" /\ pc' \in {"backingUp", "committing"}
      /\ UNCHANGED <<staged, new, committed, failed, outcome, before>>
  BY DEF BackUp, UpFrom, Goto
<1>2. TypeOK'
  <2>1. target' \in [Target -> Content] /\ backup' \in [Target -> Content]
    BY DEF BackUp, IInv, TypeOK, Content
  <2>2. backedUp' \in SUBSET Target
    BY DEF BackUp, IInv, TypeOK
  <2>3. i' \in Target
    BY DEF BackUp, UpFrom, Goto, Target
  <2> QED
    BY <1>1, <2>1, <2>2, <2>3, FailureType DEF BackUp, IInv, TypeOK
<1>3. BackingUpInv'
  BY <1>1 DEF BackUp, UpFrom, Goto, IInv, TypeOK, BackingUpInv, Target
<1>4. CommittingInv'
  BY <1>1 DEF BackUp, UpFrom, Goto, IInv, TypeOK, BackingUpInv, CommittingInv, Target
<1> QED
  BY <1>1, <1>2, <1>3, <1>4
  DEF IInv, IdleInv, RunningInv, StagingInv, DiscardingInv, RollbackInv, UnstagingInv

LEMMA CommitStep ==
    ASSUME ConstantsAssumption, IInv, Commit
    PROVE  IInv'
BY FailureType
DEF Commit, IInv, TypeOK, IdleInv, RunningInv, StagingInv, BackingUpInv,
    CommittingInv, DiscardingInv, RollbackInv, UnstagingInv, UpFrom, Goto,
    Content, Target, Outcomes

LEMMA BackUpOrCommitFailsStep ==
    ASSUME ConstantsAssumption, IInv, BackUpOrCommitFails
    PROVE  IInv'
BY FailureType
DEF BackUpOrCommitFails, IInv, TypeOK, IdleInv, RunningInv, StagingInv, BackingUpInv,
    CommittingInv, DiscardingInv, RollbackInv, UnstagingInv, Goto, disk, memory,
    Recoverable, Settled, Content, Target, Outcomes

LEMMA DiscardStep ==
    ASSUME ConstantsAssumption, IInv, Discard
    PROVE  IInv'
<1>1. CASE i = 1
  <2>1. /\ pc = "discarding" /\ pc' = "discarding" /\ i' = 2
        /\ backup' = [backup EXCEPT ![i] = Absent] /\ backedUp' = backedUp \ {i}
        /\ UNCHANGED <<target, staged, new, committed, failed, outcome, before>>
    BY <1>1 DEF Discard, Goto
  <2>2. TypeOK'
    BY <2>1, FailureType DEF Discard, IInv, TypeOK, Content, Target
  <2> QED
    BY <2>1, <2>2
    DEF IInv, IdleInv, RunningInv, StagingInv, BackingUpInv, CommittingInv, DiscardingInv,
        RollbackInv, UnstagingInv
<1>2. CASE i # 1
  <2>1. Forget /\ outcome' = "ok" /\ UNCHANGED <<target, before>>
    BY <1>2 DEF Discard
  <2>2. \A t \in Target : target[t] = new /\ new # Absent
    BY DEF ConstantsAssumption, Discard, IInv, DiscardingInv, RunningInv
  <2>3. Transactional'
    BY <2>1, <2>2 DEF Transactional, Artifact, Provenance, Target
  <2> QED
    BY <2>1, <2>3, EndHolds, FailureType DEF Discard, IInv, Outcomes
<1> QED
  BY <1>1, <1>2

LEMMA UndoStep ==
    ASSUME ConstantsAssumption, IInv, Undo \/ UndoFails
    PROVE  IInv'
<1>1. /\ pc = "undoing" /\ pc' = "restoring" /\ i' = i
      /\ UNCHANGED <<staged, backup, new, backedUp, outcome, before>>
  BY DEF Undo, UndoFails, Goto, disk
<1>2. TypeOK'
  <2>1. /\ target' \in [Target -> Content] /\ committed' \in SUBSET Target
    BY DEF Undo, UndoFails, disk, IInv, TypeOK, Content
  <2>2. failed' \in BOOLEAN
    BY DEF Undo, UndoFails, IInv, TypeOK
  <2> QED
    BY <1>1, <2>1, <2>2, FailureType DEF Undo, UndoFails, IInv, TypeOK
<1>3. RollbackInv'
  <2> SUFFICES ASSUME ~failed'
               PROVE  RollbackInv'
    BY DEF RollbackInv
  <2>1. Undo /\ ~failed
    BY DEF Undo, UndoFails
  <2>2. \A t \in Target : Recoverable(t) /\ (t > i => Settled(t))
    BY <1>1, <2>1 DEF IInv, RollbackInv
  <2>3. \A t \in Target : Recoverable(t)'
    BY <1>1, <2>1, <2>2 DEF Undo, Recoverable, IInv, TypeOK
  <2>4. i' \notin committed' /\ \A t \in Target : t > i' => Settled(t)'
    BY <1>1, <2>1, <2>2 DEF Undo, Settled, IInv, TypeOK
  <2> QED
    BY <2>3, <2>4 DEF RollbackInv
<1> QED
  BY <1>1, <1>2, <1>3
  DEF IInv, IdleInv, RunningInv, StagingInv, BackingUpInv, CommittingInv, DiscardingInv,
      UnstagingInv

LEMMA RestoreStep ==
    ASSUME ConstantsAssumption, IInv, Restore \/ RestoreFails
    PROVE  IInv'
<1>1. /\ pc = "restoring" /\ pc' \in {"undoing", "unstaging"}
      /\ UNCHANGED <<staged, new, committed, outcome, before>>
  BY DEF Restore, RestoreFails, DownFrom, Goto, disk
<1>2. TypeOK'
  <2>1. target' \in [Target -> Content] /\ backup' \in [Target -> Content]
    BY DEF Restore, RestoreFails, disk, IInv, TypeOK, Content
  <2>2. failed' \in BOOLEAN
    BY DEF Restore, RestoreFails, IInv, TypeOK
  <2>3. backedUp' \in SUBSET Target
    BY DEF Restore, RestoreFails, disk, IInv, TypeOK
  <2>4. i' \in Target
    BY DEF Restore, RestoreFails, DownFrom, Goto, Target
  <2> QED
    BY <1>1, <2>1, <2>2, <2>3, <2>4, FailureType DEF Restore, RestoreFails, IInv, TypeOK
<1>3. ASSUME ~failed'
      PROVE  RollbackInv' /\ UnstagingInv'
  <2>1. Restore /\ ~failed
    BY <1>3 DEF Restore, RestoreFails
  <2>2. i \notin committed /\ \A t \in Target : Recoverable(t) /\ (t > i => Settled(t))
    BY <1>1, <2>1 DEF IInv, RollbackInv
  <2>3. \A t \in Target : Recoverable(t)' /\ (t >= i => Settled(t)')
    BY <1>1, <2>1, <2>2 DEF Restore, Recoverable, Settled, IInv, TypeOK, Target
  <2>4. RollbackInv'
    <3>1. pc' = "undoing" => i = 2 /\ i' = 1
      BY <2>1 DEF Restore, DownFrom, Goto
    <3> QED
      BY <1>1, <2>3, <3>1 DEF RollbackInv, Target
  <2>5. UnstagingInv'
    <3>1. SUFFICES ASSUME pc' = "unstaging" PROVE target' = before'
      BY DEF UnstagingInv
    <3>2. i = 1
      BY <2>1, <3>1 DEF Restore, DownFrom, Goto, IInv, TypeOK, Target
    <3>3. \A t \in Target : target'[t] = before'[t]
      BY <2>3, <3>2 DEF Recoverable, Settled, Target
    <3> QED
      BY <1>2, <3>3 DEF TypeOK
  <2> QED
    BY <2>4, <2>5
<1> QED
  BY <1>1, <1>2, <1>3
  DEF IInv, IdleInv, RunningInv, StagingInv, BackingUpInv, CommittingInv, DiscardingInv,
      RollbackInv, UnstagingInv

LEMMA UnstageStep ==
    ASSUME ConstantsAssumption, IInv, Unstage
    PROVE  IInv'
<1>1. outcome' \in {"failed", "rollbackFailed"} /\ (outcome' = "failed" => ~failed)
  BY DEF Unstage
<1>2. outcome' = "failed" => target = before
  BY <1>1 DEF Unstage, IInv, UnstagingInv
<1>3. Transactional'
  BY <1>1, <1>2 DEF Unstage, Transactional
<1> QED
  BY <1>1, <1>3, EndHolds, FailureType DEF Unstage, IInv, Outcomes

LEMMA InvStep ==
    ASSUME ConstantsAssumption, IInv, [Next]_vars
    PROVE  IInv'
<1>1. CASE UNCHANGED vars
  BY <1>1
  DEF vars, disk, memory, IInv, TypeOK, IdleInv, RunningInv, StagingInv, BackingUpInv,
      CommittingInv, DiscardingInv, RollbackInv, UnstagingInv, Recoverable, Settled,
      Transactional
<1>2. CASE StageFails
  <2>1. target' = before' /\ outcome' = "failed"
    BY <1>2 DEF StageFails, IInv, StagingInv
  <2>2. Transactional'
    BY <2>1 DEF Transactional
  <2> QED
    BY <1>2, <2>1, <2>2, EndHolds, FailureType DEF StageFails, IInv, Outcomes
<1>3. CASE Kill
  <2>1. Transactional'
    BY <1>3 DEF Kill, Transactional
  <2> QED
    BY <1>3, <2>1, EndHolds, FailureType DEF Kill, IInv, Outcomes
<1> QED
  BY <1>1, <1>2, <1>3, GenerateStep, StageStep, BackUpStep, CommitStep,
     BackUpOrCommitFailsStep, DiscardStep, UndoStep, RestoreStep, UnstageStep DEF Next

\* The inductive invariant: for every location of the command, how each of the
\* two files can be brought back, or has been replaced.
THEOREM Invariance ==
    ASSUME ConstantsAssumption
    PROVE  Spec => []IInv
<1>1. Init => IInv
  BY InitHolds
<1>2. IInv /\ [Next]_vars => IInv'
  BY InvStep
<1> QED
  BY <1>1, <1>2, PTL DEF Spec

\* Type correctness of the replacement of a pair.
THEOREM TypeCorrect ==
    ASSUME ConstantsAssumption
    PROVE  Spec => []TypeOK
<1>1. IInv => TypeOK
  BY DEF IInv
<1> QED
  BY <1>1, Invariance, PTL

-----------------------------------------------------------------------------
(* What the command leaves behind *)

\* commitGeneratedArtifactPair: however many calls fail, a command that says
\* "failed" without a failed rollback has left both files as they were, and
\* one that succeeds has replaced both.
THEOREM TransactionalHolds ==
    ASSUME ConstantsAssumption
    PROVE  Spec => []Transactional
<1>1. IInv => Transactional
  BY DEF IInv, IdleInv, RunningInv, Transactional
<1> QED
  BY <1>1, Invariance, PTL

\* Outside the rollback both files are either those of before or those of the
\* new generation, as far as they are there at all.
LEMMA NoMixture ==
    ASSUME IInv, pc \in {"staging", "backingUp", "committing", "discarding"}, Mismatched(target)
    PROVE  Mismatched(before)
<1>1. CASE pc = "staging"
  BY <1>1 DEF IInv, StagingInv
<1>2. CASE pc = "backingUp"
  <2>1. \A t \in Target : target[t] = Absent \/ target[t] = before[t]
    BY <1>2 DEF IInv, BackingUpInv, TypeOK, Target
  <2> QED
    BY <2>1 DEF Mismatched, Artifact, Provenance, Target
<1>3. CASE pc = "committing"
  <2>1. \A t \in Target : target[t] = Absent \/ target[t] = new
    BY <1>3 DEF IInv, CommittingInv, TypeOK, Target
  <2> QED
    BY <2>1 DEF Mismatched, Artifact, Provenance, Target
<1>4. CASE pc = "discarding"
  BY <1>4 DEF IInv, DiscardingInv, Mismatched, Artifact, Provenance, Target
<1> QED
  BY <1>1, <1>2, <1>3, <1>4

\* README.md: "File and sidecar replacement is transactional for command
\* failures": a new artifact beside old provenance is left behind only by a
\* rollback that was killed or has reported that it failed.
THEOREM MismatchOnlyFromRollbackHolds ==
    ASSUME ConstantsAssumption
    PROVE  Spec => MismatchOnlyFromRollback
<1>1. ASSUME IInv, [Next]_vars
      PROVE  [pc # "idle" /\ pc' = "idle" /\ Mismatched(target') /\ ~Mismatched(before) =>
                 /\ pc \in {"undoing", "restoring", "unstaging"}
                 /\ outcome' \in {"rollbackFailed", "killed"}]_vars
  <2> SUFFICES ASSUME pc # "idle", pc' = "idle", Mismatched(target'), ~Mismatched(before)
               PROVE  /\ pc \in {"undoing", "restoring", "unstaging"}
                      /\ outcome' \in {"rollbackFailed", "killed"}
    BY <1>1
  <2>1. StageFails \/ Discard \/ Unstage \/ Kill
    BY <1>1
    DEF Next, vars, Generate, Stage, BackUp, Commit, BackUpOrCommitFails, Undo, UndoFails,
        Restore, RestoreFails, UpFrom, DownFrom, Goto
  <2>2. target' = target
    BY <2>1 DEF StageFails, Discard, Unstage, Kill
  <2>3. pc \in {"undoing", "restoring", "unstaging"}
    BY <1>1, <2>2, NoMixture DEF IInv, TypeOK
  <2>4. Unstage \/ Kill
    BY <2>1, <2>3 DEF StageFails, Discard
  <2>5. CASE Unstage
    BY <1>1, <2>2, <2>5 DEF Unstage, IInv, UnstagingInv
  <2> QED
    BY <2>3, <2>4, <2>5 DEF Kill
<1> QED
  BY <1>1, Invariance, PTL DEF Spec, MismatchOnlyFromRollback
=============================================================================
