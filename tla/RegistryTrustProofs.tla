------------------------- MODULE RegistryTrustProofs -------------------------
(***************************************************************************)
(* What a verified execution may rely on, for any commands, releases and   *)
(* number of installs and updates.                                         *)
(*                                                                         *)
(* The two invariants speak of the moment of the verdict; what makes them  *)
(* inductive is what the command may still believe while it reads one file *)
(* after the other (JudgeInv), and that at most one install is under way   *)
(* (OwnerInv).  The two action properties say what a step may do to the    *)
(* Registry file.                                                          *)
(***************************************************************************)
EXTENDS RegistryTrust, TLAPS

\* What the backups hold fits the targets.
WellSaved ==
    /\ install.saved[1] \in Evidence
    /\ install.saved[2] \in Content
    /\ install.saved[3] \in Provenance

\* One command at most installs or recovers.
OwnerInv ==
    /\ \A p \in Process : pc[p] \in AtInstall => install # Absent
    /\ \A p, q \in Process : pc[p] \in AtInstall /\ pc[q] \in AtInstall => p = q
    /\ install # Absent => WellSaved

\* The Registry file is the one p has loaded, unless an install has written it,
\* or an update has left one that no provenance can name.
FileInv(p) ==
    pc[p] \in {"provenance", "digest"} =>
        registry[path[p]] \in {loaded[p], Updated, Absent} \/ p \in swapped

\* The provenance is the one p has read, unless one was written since.
BoundInv(p) ==
    pc[p] \in {"digest", "decision", "binding"} =>
        /\ bound[p] # Absent
        /\ provenance # Absent => provenance = bound[p] \/ provenance.release \in since[p]

VerifiedInv(p) ==
    pc[p] \in {"decision", "binding", "verified"} =>
        loaded[p] = bound[p].release \/ p \in swapped

DecisionInv(p) ==
    pc[p] = "verified" /\ decision[p] # Absent =>
        decision[p] = bound[p].release \/ decision[p] \in since[p]

Judge(p) == FileInv(p) /\ BoundInv(p) /\ VerifiedInv(p) /\ DecisionInv(p)

JudgeInv == \A p \in Process : Judge(p)

IInv == TypeOK /\ OwnerInv /\ JudgeInv

-----------------------------------------------------------------------------
(* Type correctness *)

LEMMA InitHolds == Init => IInv
<1> SUFFICES ASSUME Init PROVE IInv
  OBVIOUS
<1>1. TypeOK
  BY ConstantsAssumption DEF Init, TypeOK, Content, Evidence, Provenance, Path, Locations
<1>2. OwnerInv
  BY DEF Init, OwnerInv, AtInstall
<1>3. JudgeInv
  BY DEF Init, JudgeInv, Judge, FileInv, BoundInv, VerifiedInv, DecisionInv
<1> QED
  BY <1>1, <1>2, <1>3 DEF IInv

\* A file put at a target of its own kind leaves the disk well-typed.
Fits(target, file) ==
    /\ target = 1 => file \in Evidence
    /\ target = 2 => file \in Content
    /\ target = 3 => file \in Provenance

LEMMA PutType ==
    ASSUME TypeOK, install \in Installs, NEW p \in Process, NEW t \in Target, NEW file,
           Fits(t, file), Put(p, t, file)
    PROVE  /\ registry' \in [Path -> Content]
           /\ evidence' \in Evidence
           /\ provenance' \in Provenance
           /\ touched' \in SUBSET Process
           /\ swapped' \in SUBSET Process
           /\ since' \in [Process -> SUBSET Release]
           /\ dropped' \in SUBSET Path
<1>1. evidence' \in Evidence /\ provenance' \in Provenance
  BY DEF TypeOK, Fits, Put
<1>2. registry' \in [Path -> Content] /\ touched' \in SUBSET Process /\ swapped' \in SUBSET Process
  BY DEF TypeOK, Fits, Put, WriteRegistry, Others, Installs
<1>5. dropped' \in SUBSET Path
  <2>1. dropped' = dropped \/ dropped' = dropped \ {install.path}
    BY DEF Put, WriteRegistry
  <2> QED
    BY <2>1 DEF TypeOK
<1>3. t = 3 /\ file # Absent => file.release \in Release
  BY DEF Fits, Provenance
<1>4. since' \in [Process -> SUBSET Release]
  BY <1>3 DEF TypeOK, Put
<1> QED
  BY <1>1, <1>2, <1>4, <1>5

LEMMA CurrentFits ==
    ASSUME TypeOK, NEW t \in Target, NEW x \in Path
    PROVE  Fits(t, Current(t, x)) /\ Current(t, x) \in Content \cup Provenance
  BY DEF TypeOK, Fits, Current, Target, Content, Evidence, Provenance

LEMMA AbsentFits ==
    ASSUME NEW t \in Target
    PROVE  Fits(t, Absent)
  BY DEF Fits, Evidence, Content, Provenance

LEMMA StagedFits ==
    ASSUME install \in Installs, NEW t \in Target
    PROVE  Fits(t, Staged(t))
  BY DEF Fits, Staged, Installs, Evidence, Content, Provenance

LEMMA RestoredFits ==
    ASSUME OwnerInv, install # Absent, NEW t \in Target
    PROVE  Fits(t, Restored(t))
  BY DEF OwnerInv, WellSaved, Fits, Restored

-----------------------------------------------------------------------------
(* The steps of the command that installs or recovers *)

Work(p) ==
    \/ BackUp(p) \/ Commit(p) \/ Interrupt(p) \/ Undo(p) \/ UndoFails(p) \/ Restore(p)
    \/ RestoreFails(p) \/ KeepJournal(p) \/ RecoverTarget(p) \/ RecoverTargetFails(p)
    \/ Reinstate(p) \/ ReinstateFails(p) \/ DropStaged(p) \/ RecoveryFails(p) \/ Kill(p)

Close(p) == RemoveJournal(p) \/ CloseRollback(p) \/ CloseRecovery(p)

\* It has an install, and a target in hand.
LEMMA Worker ==
    ASSUME TypeOK, OwnerInv, NEW p \in Process, Work(p)
    PROVE  /\ pc[p] \in AtInstall
           /\ install \in Installs /\ install # Absent
           /\ install.next \in Target /\ install.path \in Path
           /\ WellSaved
<1>1. pc[p] \in AtInstall
  BY DEF Work, AtInstall, BackUp, Commit, Interrupt, Undo, UndoFails, Restore, RestoreFails, KeepJournal,
     RecoverTarget, RecoverTargetFails, Reinstate, ReinstateFails, DropStaged, RecoveryFails, Kill
<1>2. install # Absent /\ WellSaved
  BY <1>1 DEF OwnerInv
<1>3. install \in Installs
  BY <1>2 DEF TypeOK
<1> QED
  BY <1>1, <1>2, <1>3 DEF Installs

\* It goes on, or is done, and changes nothing of the other commands.
LEMMA WorkPlace ==
    ASSUME NEW p \in Process, Work(p)
    PROVE  /\ \E location \in AtInstall \cup {"done"} : pc' = [pc EXCEPT ![p] = location]
           /\ UNCHANGED <<job, writes>>
<1>1. CASE BackUp(p) \/ Commit(p) \/ Interrupt(p)
  BY <1>1 DEF BackUp, Commit, Interrupt, Goto, AtInstall
<1>2. CASE Undo(p) \/ UndoFails(p) \/ Restore(p) \/ RestoreFails(p)
  BY <1>2 DEF Undo, UndoFails, Restore, RestoreFails, NextDown, Goto, AtInstall
<1>3. CASE KeepJournal(p) \/ RecoveryFails(p) \/ Kill(p)
  BY <1>3 DEF KeepJournal, RecoveryFails, Kill, Leave, Goto
<1>4. CASE RecoverTarget(p) \/ RecoverTargetFails(p)
  BY <1>4 DEF RecoverTarget, RecoverTargetFails, NextDown, Goto, AtInstall
<1>5. CASE Reinstate(p) \/ ReinstateFails(p) \/ DropStaged(p)
  BY <1>5 DEF Reinstate, ReinstateFails, DropStaged, NextDown, Goto, AtInstall
<1> QED
  BY <1>1, <1>2, <1>3, <1>4, <1>5 DEF Work

\* It replaces the target in hand by something that fits it, or nothing.
LEMMA WorkFiles ==
    ASSUME TypeOK, OwnerInv, NEW p \in Process, Work(p)
    PROVE  Spare \/ \E file : Fits(install.next, file) /\ Put(p, install.next, file)
<1> DEFINE t == install.next
<1>1. t \in Target /\ install \in Installs /\ install # Absent
  BY Worker
<1>2. Fits(t, Absent) /\ Fits(t, Staged(t)) /\ Fits(t, Restored(t))
  BY <1>1, AbsentFits, StagedFits, RestoredFits
<1>3. RemoveAllFails(p, t) => Spare \/ Put(p, t, Absent)
  BY DEF RemoveAllFails
<1>4. \/ Spare \/ Put(p, t, Absent) \/ Put(p, t, Staged(t)) \/ Put(p, t, Restored(t))
  <2>1. CASE BackUp(p) \/ Commit(p) \/ Interrupt(p)
    BY <2>1 DEF BackUp, Commit, Interrupt
  <2>2. CASE Undo(p) \/ UndoFails(p) \/ Restore(p) \/ RestoreFails(p)
    BY <1>3, <2>2 DEF Undo, UndoFails, Restore, RestoreFails
  <2>3. CASE KeepJournal(p) \/ RecoveryFails(p) \/ Kill(p)
    BY <2>3 DEF KeepJournal, RecoveryFails, Kill, Leave
  <2>4. CASE RecoverTarget(p) \/ RecoverTargetFails(p)
    BY <1>3, <2>4 DEF RecoverTarget, RecoverTargetFails
  <2>5. CASE Reinstate(p) \/ ReinstateFails(p) \/ DropStaged(p)
    BY <2>5 DEF Reinstate, ReinstateFails, DropStaged
  <2> QED
    BY <2>1, <2>2, <2>3, <2>4, <2>5 DEF Work
<1> QED
  BY <1>2, <1>4

LEMMA NextTarget ==
    ASSUME NEW t \in Target
    PROVE  After(t) \in Target /\ Before(t) \in Target
  BY DEF After, Before, Target

\* The install after the step, field by field.
LEMMA WorkInstall ==
    ASSUME TypeOK, OwnerInv, NEW p \in Process, Work(p)
    PROVE  /\ install' \in Installs
           /\ install'.had = install.had /\ install'.path = install.path
           /\ \/ install'.saved = install.saved
              \/ \E file : /\ Fits(install.next, file)
                           /\ install'.saved = [install.saved EXCEPT ![install.next] = file]
<1> DEFINE t == install.next
           file == Current(t, install.path)
<1>1. t \in Target /\ install \in Installs /\ install.path \in Path
  BY Worker
<1>2. After(t) \in Target /\ Before(t) \in Target /\ 3 \in Target
  BY <1>1, NextTarget DEF Target
<1>3. Fits(t, file) /\ file \in Content \cup Provenance
  BY <1>1, CurrentFits
<1>4. Fits(t, Absent) /\ Absent \in Content \cup Provenance
  BY <1>1, AbsentFits DEF Content
<1>5. CASE BackUp(p)
  <2>1. CASE t \in install.had
    <3>1. install' = [install EXCEPT !.next = After(t), !.backed = @ \cup {t}, !.saved[t] = file]
      BY <1>5, <2>1 DEF BackUp
    <3> QED
      BY <1>1, <1>2, <1>3, <3>1 DEF Installs
  <2>2. CASE t \notin install.had
    <3>1. install' = [install EXCEPT !.next = After(t)]
      BY <1>5, <2>2 DEF BackUp
    <3> QED
      BY <1>1, <1>2, <3>1 DEF Installs
  <2> QED
    BY <2>1, <2>2
<1>6. CASE Commit(p)
  BY <1>1, <1>2, <1>6 DEF Commit, Installs
<1>7. CASE Interrupt(p) \/ UndoFails(p) \/ RestoreFails(p)
  BY <1>1, <1>2, <1>7 DEF Interrupt, UndoFails, RestoreFails, Installs
<1>8. CASE Undo(p)
  BY <1>1, <1>8 DEF Undo, Installs
<1>9. CASE Restore(p)
  <2>1. install' = [install EXCEPT !.backed = @ \ {t}, !.saved[t] = Absent, !.next = Before(@)]
    BY <1>9 DEF Restore
  <2> QED
    BY <1>1, <1>2, <1>4, <2>1 DEF Installs
<1>10. CASE KeepJournal(p) \/ RecoveryFails(p) \/ Kill(p)
  <2>1. PICK left \in SUBSET Target :
           install' = [install EXCEPT !.next = 3, !.committed = {}, !.failed = FALSE, !.staged = left]
    BY <1>1, <1>10 DEF KeepJournal, RecoveryFails, Kill, Leave, Installs
  <2> QED
    BY <1>1, <1>2, <2>1 DEF Installs
<1>11. CASE RecoverTarget(p) \/ RecoverTargetFails(p) \/ ReinstateFails(p)
  <2>1. \/ install' = install
        \/ install' = [install EXCEPT !.failed = TRUE, !.next = Before(@)]
        \/ install' = [install EXCEPT !.failed = TRUE]
    BY <1>11 DEF RecoverTarget, RecoverTargetFails, ReinstateFails
  <2> QED
    BY <1>1, <1>2, <2>1 DEF Installs
<1>12. CASE Reinstate(p)
  <2>1. install' = [install EXCEPT !.backed = @ \ {t}, !.saved[t] = Absent]
    BY <1>12 DEF Reinstate
  <2> QED
    BY <1>1, <1>4, <2>1 DEF Installs
<1>13. CASE DropStaged(p)
  <2>1. \/ install' = [install EXCEPT !.staged = @ \ {t}, !.next = Before(@)]
        \/ install' = [install EXCEPT !.failed = TRUE, !.next = Before(@)]
    BY <1>13 DEF DropStaged
  <2> QED
    BY <1>1, <1>2, <2>1 DEF Installs
<1> QED
  BY <1>5, <1>6, <1>7, <1>8, <1>9, <1>10, <1>11, <1>12, <1>13 DEF Work

\* The install is over, and the files stay as they are.
LEMMA CloseStep ==
    ASSUME NEW p \in Process, Close(p)
    PROVE  /\ pc[p] \in AtInstall
           /\ install' = Absent
           /\ pc' = [pc EXCEPT ![p] = "done"]
           /\ UNCHANGED <<registry, evidence, provenance, job, writes, history>>
  BY DEF Close, RemoveJournal, CloseRollback, CloseRecovery, Spare, Goto, AtInstall

LEMMA BeginInstallStep ==
    ASSUME TypeOK, OwnerInv, NEW p \in Process, BeginInstall(p)
    PROVE  /\ install' \in Installs
           /\ install'.next = 1 /\ install'.backed = {} /\ install'.committed = {}
           /\ install'.saved = Nothing
           /\ \A q \in Process : pc[q] \notin AtInstall
           /\ pc' = [pc EXCEPT ![p] = "backingUp"]
           /\ \E x \in Path : path' = Set(path, p, x)
<1>1. PICK r \in Release, x \in Path :
         /\ LET had == {t \in Target : Current(t, x) # Absent}
            IN install' = [release |-> r, path |-> x, next |-> 1, had |-> had,
                           backed |-> {}, staged |-> Target \ had, committed |-> {},
                           failed |-> FALSE, saved |-> Nothing]
         /\ path' = Set(path, p, x)
  BY DEF BeginInstall
<1>2. Nothing \in [Target -> Content \cup Provenance]
  BY DEF Nothing, Content
<1>3. install' \in Installs
  BY <1>1, <1>2 DEF Installs, Target
<1>4. \A q \in Process : pc[q] \notin AtInstall
  BY DEF BeginInstall, Installing, OwnerInv
<1> QED
  BY <1>1, <1>3, <1>4 DEF BeginInstall, Goto

-----------------------------------------------------------------------------
(* The type invariant is kept *)

LEMMA TypeStep == IInv /\ [Next]_vars => TypeOK'
<1> SUFFICES ASSUME IInv, [Next]_vars PROVE TypeOK'
  OBVIOUS
<1> TypeOK /\ OwnerInv
  BY DEF IInv
<1>0. CASE UNCHANGED vars
  BY <1>0 DEF TypeOK, vars, disk, job, history
<1>1. ASSUME NEW p \in Process, Load(p) PROVE TypeOK'
  BY <1>1 DEF TypeOK, Load, Goto, Set, disk, history, Locations, Verdict
<1>2. ASSUME NEW p \in Process, ReadProvenance(p) PROVE TypeOK'
  BY <1>2 DEF TypeOK, ReadProvenance, Goto, Set, disk, history, Locations, Verdict
<1>3. ASSUME NEW p \in Process, CheckDigest(p) PROVE TypeOK'
  BY <1>3 DEF TypeOK, CheckDigest, Goto, disk, job, history, Locations, Verdict
<1>4. ASSUME NEW p \in Process, ReadDecision(p) PROVE TypeOK'
  BY <1>4 DEF TypeOK, ReadDecision, Goto, Set, disk, history, Locations, Verdict, Evidence
<1>5. ASSUME NEW p \in Process, CheckBinding(p) PROVE TypeOK'
  BY <1>5 DEF TypeOK, CheckBinding, Goto, disk, job, history, Locations, Verdict
<1>6. ASSUME NEW p \in Process, End(p) PROVE TypeOK'
  BY <1>6 DEF TypeOK, End, Goto, Set, disk, Locations, Path, Content, Evidence, Provenance
<1>7. ASSUME NEW p \in Process, BeginInstall(p) PROVE TypeOK'
  <2>1. install' \in Installs /\ path' \in [Process -> Path]
    BY <1>7, BeginInstallStep DEF TypeOK, Set
  <2>2. /\ pc' \in [Process -> Locations] /\ writes' \in 0..MaxWrites
        /\ UNCHANGED <<registry, evidence, provenance, loaded, bound, decision, keep, copy, history>>
    BY <1>7, ConstantsAssumption DEF TypeOK, BeginInstall, Goto, Locations
  <2> QED
    BY <2>1, <2>2 DEF TypeOK, history
<1>8. ASSUME NEW p \in Process, Recover(p) PROVE TypeOK'
  <2>1. install \in Installs /\ install.path \in Path
    BY <1>8 DEF TypeOK, Recover, Installing, Installs
  <2> QED
    BY <1>8, <2>1 DEF TypeOK, Recover, Goto, Set, disk, history, Locations
<1>9. ASSUME NEW p \in Process, Work(p) PROVE TypeOK'
  <2>1. install \in Installs /\ install.next \in Target
    BY <1>9, Worker
  <2>2. install' \in Installs
    BY <1>9, WorkInstall
  <2>3. pc' \in [Process -> Locations] /\ UNCHANGED <<job, writes>>
    BY <1>9, WorkPlace DEF TypeOK, AtInstall, Locations
  <2>4. CASE Spare
    BY <2>2, <2>3, <2>4 DEF TypeOK, Spare, job, history
  <2>5. ASSUME NEW file, Fits(install.next, file), Put(p, install.next, file) PROVE TypeOK'
    <3>1. /\ registry' \in [Path -> Content]
          /\ evidence' \in Evidence
          /\ provenance' \in Provenance
          /\ touched' \in SUBSET Process
          /\ swapped' \in SUBSET Process
          /\ since' \in [Process -> SUBSET Release]
          /\ dropped' \in SUBSET Path
      BY <2>1, <2>5, PutType
    <3> QED
      BY <2>2, <2>3, <3>1 DEF TypeOK, job
  <2> QED
    BY <1>9, <2>4, <2>5, WorkFiles
<1>10. ASSUME NEW p \in Process, Close(p) PROVE TypeOK'
  BY <1>10, CloseStep DEF TypeOK, job, history, Locations
<1>11. ASSUME NEW p \in Process, BeginUpdate(p) PROVE TypeOK'
  BY <1>11, ConstantsAssumption DEF TypeOK, BeginUpdate, Goto, Set, disk, history, Locations
<1>12. ASSUME NEW p \in Process, MakeCopy(p) PROVE TypeOK'
  BY <1>12 DEF TypeOK, MakeCopy, Goto, Set, disk, history, Locations, Content
<1>13. ASSUME NEW p \in Process, GiveUp(p) PROVE TypeOK'
  BY <1>13 DEF TypeOK, GiveUp, Goto, disk, job, history, Locations
<1>14. ASSUME NEW p \in Process, Replace(p) PROVE TypeOK'
  BY <1>14 DEF TypeOK, Replace, WriteRegistry, Others, Goto, job, Locations, Content
<1>15. ASSUME NEW p \in Process, RenameFails(p) PROVE TypeOK'
  BY <1>15 DEF TypeOK, RenameFails, Goto, disk, job, history, Locations
<1>16. ASSUME NEW p \in Process, Drop(p) PROVE TypeOK'
  BY <1>16 DEF TypeOK, Drop, Others, Goto, job, Locations, Content
<1> QED
  BY <1>0, <1>1, <1>2, <1>3, <1>4, <1>5, <1>6, <1>7, <1>8, <1>9, <1>10, <1>11, <1>12,
     <1>13, <1>14, <1>15, <1>16 DEF Next, Work, Close

-----------------------------------------------------------------------------
(* One install at a time *)

\* A command that is not about to install, and leaves the install alone.
LEMMA OwnerElsewhere ==
    ASSUME TypeOK, OwnerInv, NEW p \in Process, install' = install,
           \/ pc' = pc
           \/ \E location \in Locations \ AtInstall : pc' = [pc EXCEPT ![p] = location]
    PROVE  OwnerInv'
  BY DEF TypeOK, OwnerInv, WellSaved, AtInstall

LEMMA OwnerStep == IInv /\ [Next]_vars => OwnerInv'
<1> SUFFICES ASSUME IInv, [Next]_vars PROVE OwnerInv'
  OBVIOUS
<1> TypeOK /\ OwnerInv
  BY DEF IInv
<1>0. CASE UNCHANGED vars
  BY <1>0 DEF OwnerInv, WellSaved, vars, disk
<1>1. ASSUME NEW p \in Process,
             \/ Load(p) \/ ReadProvenance(p) \/ CheckDigest(p) \/ ReadDecision(p)
             \/ CheckBinding(p) \/ End(p) \/ BeginUpdate(p) \/ MakeCopy(p) \/ GiveUp(p)
             \/ Replace(p) \/ RenameFails(p) \/ Drop(p)
      PROVE  OwnerInv'
  <2>1. install' = install
    BY <1>1 DEF Load, ReadProvenance, CheckDigest, ReadDecision, CheckBinding, End, BeginUpdate,
       MakeCopy, GiveUp, Replace, RenameFails, Drop, disk
  <2>2. \E location \in Locations \ AtInstall : pc' = [pc EXCEPT ![p] = location]
    BY <1>1 DEF Load, ReadProvenance, CheckDigest, ReadDecision, CheckBinding, End, BeginUpdate,
       MakeCopy, GiveUp, Replace, RenameFails, Drop, Goto, Locations, Verdict, AtInstall
  <2> QED
    BY <2>1, <2>2, OwnerElsewhere
<1>2. ASSUME NEW p \in Process, BeginInstall(p) PROVE OwnerInv'
  <2>1. /\ \A q \in Process : pc[q] \notin AtInstall
        /\ pc' = [pc EXCEPT ![p] = "backingUp"]
        /\ install' # Absent
        /\ install'.saved = Nothing
    BY <1>2, BeginInstallStep, AbsentAssumption
  <2>2. \A q \in Process : pc'[q] \in AtInstall => q = p
    BY <2>1 DEF TypeOK
  <2>3. WellSaved'
    BY <2>1 DEF WellSaved, Nothing, Target, Evidence, Content, Provenance
  <2> QED
    BY <2>1, <2>2, <2>3 DEF OwnerInv
<1>3. ASSUME NEW p \in Process, Recover(p) PROVE OwnerInv'
  <2>1. \A q \in Process : pc'[q] \in AtInstall => q = p
    BY <1>3 DEF Recover, Goto, TypeOK
  <2>2. install' = install /\ install # Absent
    BY <1>3 DEF Recover, Installing, disk
  <2> QED
    BY <2>1, <2>2 DEF OwnerInv, WellSaved
<1>4. ASSUME NEW p \in Process, Work(p) PROVE OwnerInv'
  <2>1. pc[p] \in AtInstall /\ install \in Installs /\ WellSaved /\ install.next \in Target
    BY <1>4, Worker
  <2>2. /\ install' \in Installs
        /\ \/ install'.saved = install.saved
           \/ \E file : /\ Fits(install.next, file)
                        /\ install'.saved = [install.saved EXCEPT ![install.next] = file]
    BY <1>4, WorkInstall
  <2>3. WellSaved'
    BY <2>1, <2>2 DEF WellSaved, Installs, Target, Fits
  <2>4. \A q \in Process : pc'[q] \in AtInstall => q = p
    BY <1>4, <2>1, WorkPlace DEF TypeOK, OwnerInv
  <2> QED
    BY <2>2, <2>3, <2>4, AbsentAssumption DEF OwnerInv
<1>5. ASSUME NEW p \in Process, Close(p) PROVE OwnerInv'
  <2>1. /\ pc[p] \in AtInstall
        /\ install' = Absent
        /\ pc' = [pc EXCEPT ![p] = "done"]
    BY <1>5, CloseStep
  <2>2. \A q \in Process : pc'[q] \notin AtInstall
    BY <2>1 DEF TypeOK, OwnerInv, AtInstall
  <2> QED
    BY <2>1, <2>2 DEF OwnerInv
<1> QED
  BY <1>0, <1>1, <1>2, <1>3, <1>4, <1>5 DEF Next, Work, Close

-----------------------------------------------------------------------------
(* What a command may believe *)

\* What others may do to the files while q judges them.
Harmless(q) ==
    /\ \/ registry'[path[q]] \in {registry[path[q]], Updated, Absent}
       \/ q \in swapped'
    /\ provenance' # Absent => provenance' = provenance \/ provenance'.release \in since'[q]
    /\ q \in swapped => q \in swapped'
    /\ since[q] \subseteq since'[q]

LEMMA Bystander ==
    ASSUME NEW q \in Process, Judge(q), pc[q] # "idle" => Harmless(q),
           pc'[q] = pc[q], path'[q] = path[q], loaded'[q] = loaded[q],
           bound'[q] = bound[q], decision'[q] = decision[q]
    PROVE  Judge(q)'
<1>1. CASE pc[q] = "idle"
  BY <1>1 DEF Judge, FileInv, BoundInv, VerifiedInv, DecisionInv
<1>2. CASE pc[q] # "idle"
  <2>1. FileInv(q)'
    BY <1>2 DEF Judge, FileInv, Harmless
  <2>2. BoundInv(q)'
    BY <1>2 DEF Judge, BoundInv, Harmless
  <2>3. VerifiedInv(q)' /\ DecisionInv(q)'
    BY <1>2 DEF Judge, VerifiedInv, DecisionInv, Harmless
  <2> QED
    BY <2>1, <2>2, <2>3 DEF Judge
<1> QED
  BY <1>1, <1>2

\* A replaced target harms nobody who has not taken note.
LEMMA PutHarmless ==
    ASSUME TypeOK, install \in Installs, NEW p \in Process, NEW t \in Target, NEW file,
           Put(p, t, file), NEW q \in Process, q # p, pc[q] # "idle"
    PROVE  Harmless(q)
<1>1. \/ registry'[path[q]] = registry[path[q]]
      \/ q \in swapped'
  BY DEF TypeOK, Put, WriteRegistry, Others, Installs
<1>2. provenance' # Absent => provenance' = provenance \/ provenance'.release \in since'[q]
  BY DEF TypeOK, Put
<1>3. q \in swapped => q \in swapped'
  BY DEF Put
<1>4. since[q] \subseteq since'[q]
  BY DEF TypeOK, Put
<1> QED
  BY <1>1, <1>2, <1>3, <1>4 DEF Harmless

LEMMA StillHarmless ==
    ASSUME UNCHANGED <<registry, provenance, since, swapped>>, NEW q \in Process
    PROVE  Harmless(q)
  BY DEF Harmless

LEMMA WriteHarmless ==
    ASSUME TypeOK, UNCHANGED <<provenance, since, swapped>>, NEW x \in Path,
           NEW content \in {Updated, Absent}, registry' = [registry EXCEPT ![x] = content],
           NEW q \in Process
    PROVE  Harmless(q)
  BY DEF TypeOK, Harmless

\* A command that reads changes no file and no history.
Read(p) ==
    Load(p) \/ ReadProvenance(p) \/ CheckDigest(p) \/ ReadDecision(p) \/ CheckBinding(p)

Update(p) ==
    BeginUpdate(p) \/ MakeCopy(p) \/ GiveUp(p) \/ Replace(p) \/ RenameFails(p) \/ Drop(p)

Install(p) == BeginInstall(p) \/ Recover(p) \/ Work(p) \/ Close(p)

\* A command changes only what is its own of the commands' state.
LEMMA OwnState ==
    ASSUME TypeOK, NEW p \in Process, NEW q \in Process, q # p,
           Read(p) \/ Update(p) \/ Install(p) \/ End(p)
    PROVE  /\ pc'[q] = pc[q] /\ path'[q] = path[q] /\ loaded'[q] = loaded[q]
           /\ bound'[q] = bound[q] /\ decision'[q] = decision[q]
<1>1. CASE Read(p)
  BY <1>1 DEF Read, Load, ReadProvenance, CheckDigest, ReadDecision, CheckBinding, Goto, Set, job, TypeOK
<1>2. CASE Update(p)
  BY <1>2 DEF Update, BeginUpdate, MakeCopy, GiveUp, Replace, RenameFails, Drop, Goto, Set, job, TypeOK
<1>3. CASE Install(p)
  <2>1. CASE BeginInstall(p) \/ Recover(p)
    BY <2>1 DEF BeginInstall, Recover, Goto, Set, job, TypeOK
  <2>2. CASE Work(p) \/ Close(p)
    <3>1. (\E location : pc' = [pc EXCEPT ![p] = location]) /\ UNCHANGED job
      BY <2>2, WorkPlace, CloseStep
    <3> QED
      BY <3>1 DEF job, TypeOK
  <2> QED
    BY <1>3, <2>1, <2>2 DEF Install
<1>4. CASE End(p)
  BY <1>4 DEF End, Goto, Set, TypeOK
<1> QED
  BY <1>1, <1>2, <1>3, <1>4

\* No step of a command harms the others.
LEMMA OthersHarmless ==
    ASSUME IInv, NEW p \in Process, NEW q \in Process, q # p, pc[q] # "idle",
           Read(p) \/ Update(p) \/ Install(p) \/ End(p)
    PROVE  Harmless(q)
<1> TypeOK /\ OwnerInv
  BY DEF IInv
<1>1. CASE Read(p)
  BY <1>1, StillHarmless
  DEF Read, Load, ReadProvenance, CheckDigest, ReadDecision, CheckBinding, disk, history
<1>2. CASE Update(p)
  <2>1. CASE Replace(p) \/ Drop(p)
    <3>1. \E content \in {Updated, Absent} : registry' = [registry EXCEPT ![path[p]] = content]
      BY <2>1 DEF Replace, Drop, WriteRegistry
    <3>2. UNCHANGED <<provenance, since, swapped>> /\ path[p] \in Path
      BY <2>1 DEF TypeOK, Replace, Drop
    <3> QED
      BY <3>1, <3>2, WriteHarmless
  <2>2. CASE BeginUpdate(p) \/ MakeCopy(p) \/ GiveUp(p) \/ RenameFails(p)
    BY <2>2, StillHarmless DEF BeginUpdate, MakeCopy, GiveUp, RenameFails, disk, history
  <2> QED
    BY <1>2, <2>1, <2>2 DEF Update
<1>3. CASE Install(p)
  <2>1. CASE BeginInstall(p) \/ Recover(p) \/ Close(p)
    BY <2>1, StillHarmless, CloseStep DEF BeginInstall, Recover, disk, history
  <2>2. CASE Work(p)
    <3>1. install \in Installs /\ install.next \in Target
      BY <2>2, Worker
    <3>2. Spare \/ \E file : Put(p, install.next, file)
      BY <2>2, WorkFiles
    <3> QED
      BY <3>1, <3>2, PutHarmless, StillHarmless DEF Spare, history
  <2> QED
    BY <1>3, <2>1, <2>2 DEF Install
<1>4. CASE End(p)
  BY <1>4 DEF End, Harmless, Set, disk, TypeOK
<1> QED
  BY <1>1, <1>2, <1>3, <1>4

LEMMA JudgeStep == IInv /\ [Next]_vars => JudgeInv'
<1> SUFFICES ASSUME IInv, [Next]_vars PROVE JudgeInv'
  OBVIOUS
<1> TypeOK /\ JudgeInv
  BY DEF IInv
<1>0. CASE UNCHANGED vars
  BY <1>0 DEF JudgeInv, Judge, FileInv, BoundInv, VerifiedInv, DecisionInv, vars, disk, job, history
<1>1. ASSUME NEW p \in Process, Read(p) \/ Update(p) \/ Install(p) \/ End(p), NEW q \in Process, q # p
      PROVE  Judge(q)'
  BY <1>1, OwnState, OthersHarmless, Bystander DEF JudgeInv
<1>2. ASSUME NEW p \in Process, Update(p) \/ Install(p) \/ End(p) PROVE Judge(p)'
  <2>1. pc'[p] \notin {"provenance", "digest", "decision", "binding", "verified"}
    <3>1. CASE Update(p) \/ End(p)
      BY <3>1 DEF TypeOK, Update, End, Goto, BeginUpdate, MakeCopy, GiveUp, Replace, RenameFails, Drop
    <3>2. CASE BeginInstall(p) \/ Recover(p)
      BY <3>2 DEF TypeOK, BeginInstall, Recover, Goto
    <3>3. CASE Work(p) \/ Close(p)
      <4>1. \E location \in AtInstall \cup {"done"} : pc' = [pc EXCEPT ![p] = location]
        BY <3>3, WorkPlace, CloseStep
      <4> QED
        BY <4>1 DEF TypeOK, AtInstall
    <3> QED
      BY <1>2, <3>1, <3>2, <3>3 DEF Install
  <2> QED
    BY <2>1 DEF Judge, FileInv, BoundInv, VerifiedInv, DecisionInv
<1>3. ASSUME NEW p \in Process, Read(p) PROVE Judge(p)'
  <2> Judge(p)
    BY DEF JudgeInv
  <2> UNCHANGED <<disk, history>>
    BY <1>3 DEF Read, Load, ReadProvenance, CheckDigest, ReadDecision, CheckBinding
  <2>1. CASE Load(p)
    <3>1. pc'[p] \in {"failed", "embedded", "provenance"}
      BY <2>1 DEF Load, Goto, TypeOK
    <3>2. registry'[path'[p]] = loaded'[p]
      BY <2>1 DEF Load, Set, disk, TypeOK
    <3> QED
      BY <3>1, <3>2 DEF Judge, FileInv, BoundInv, VerifiedInv, DecisionInv
  <2>2. CASE ReadProvenance(p)
    <3>1. /\ pc'[p] = "digest" => provenance # Absent
          /\ pc'[p] \in {"digest", "untracked"}
          /\ bound'[p] = provenance
      BY <2>2 DEF ReadProvenance, Goto, Set, TypeOK
    <3>2. FileInv(p)'
      BY <2>2 DEF ReadProvenance, Judge, FileInv, disk, history
    <3> QED
      BY <3>1, <3>2 DEF Judge, BoundInv, VerifiedInv, DecisionInv, disk
  <2>3. CASE CheckDigest(p)
    <3>1. pc'[p] \in {"decision", "blocked"}
      BY <2>3 DEF CheckDigest, Goto, TypeOK
    <3>2. pc'[p] = "decision" => registry[path[p]] = bound[p].release
      BY <2>3 DEF CheckDigest, Goto, TypeOK, DigestMatches
    <3>3. bound[p] \in Provenance /\ bound[p] # Absent
      BY <2>3 DEF CheckDigest, Judge, BoundInv, TypeOK
    <3>4. bound[p].release \notin {Updated, Absent}
      BY <3>3, ConstantsAssumption DEF Provenance
    <3>5. VerifiedInv(p)'
      <4>1. registry[path[p]] \in {loaded[p], Updated, Absent} \/ p \in swapped
        BY <2>3 DEF CheckDigest, Judge, FileInv
      <4>2. pc'[p] = "decision" => loaded[p] = bound[p].release \/ p \in swapped
        BY <3>2, <3>4, <4>1
      <4>3. loaded' = loaded /\ bound' = bound /\ swapped' = swapped
        BY <2>3 DEF CheckDigest, job, history
      <4> QED
        BY <3>1, <4>2, <4>3 DEF VerifiedInv
    <3>6. BoundInv(p)'
      BY <2>3 DEF CheckDigest, Judge, BoundInv, job, history, disk
    <3> QED
      BY <3>1, <3>5, <3>6 DEF Judge, FileInv, DecisionInv
  <2>4. CASE ReadDecision(p)
    <3>1. /\ pc'[p] \in {"binding", "blocked", "verified"}
          /\ pc'[p] = "verified" => decision'[p] = Absent
      BY <2>4 DEF ReadDecision, Goto, Set, TypeOK
    <3>2. VerifiedInv(p)' /\ BoundInv(p)'
      BY <2>4 DEF ReadDecision, Judge, VerifiedInv, BoundInv, disk, history
    <3> QED
      BY <3>1, <3>2 DEF Judge, FileInv, DecisionInv
  <2>5. CASE CheckBinding(p)
    <3>1. /\ pc'[p] \in {"blocked", "verified"}
          /\ pc'[p] = "verified" => Binds(p)
      BY <2>5 DEF CheckBinding, Goto, TypeOK
    <3>2. VerifiedInv(p)'
      BY <2>5 DEF CheckBinding, Judge, VerifiedInv, job, history
    <3>3. DecisionInv(p)'
      BY <2>5, <3>1 DEF CheckBinding, Binds, Judge, BoundInv, DecisionInv, job, history
    <3> QED
      BY <3>1, <3>2, <3>3 DEF Judge, FileInv, BoundInv
  <2> QED
    BY <1>3, <2>1, <2>2, <2>3, <2>4, <2>5 DEF Read
<1> QED
  <2>1. CASE UNCHANGED vars
    BY <1>0, <2>1
  <2>2. CASE Next
    <3>1. PICK p \in Process : Read(p) \/ Update(p) \/ Install(p) \/ End(p)
      BY <2>2 DEF Next, Read, Update, Install, Work, Close
    <3> QED
      BY <3>1, <1>1, <1>2, <1>3 DEF JudgeInv
  <2> QED
    BY <2>1, <2>2

-----------------------------------------------------------------------------
(* The theorems *)

\* The files, the verdicts and the journal are well-formed, at most one install
\* is under way, and no command believes more than it has read.
THEOREM Invariance == Spec => []IInv
<1>1. IInv /\ [Next]_vars => IInv'
  BY TypeStep, OwnerStep, JudgeStep DEF IInv
<1> QED
  BY InitHolds, <1>1, PTL DEF Spec

\* localRegistryTrust and commitRegistryInstall keep their state well-typed.
THEOREM TypeCorrect == Spec => []TypeOK
<1>1. IInv => TypeOK
  BY DEF IInv
<1> QED
  BY Invariance, <1>1, PTL

\* A command whose Registry integrity counts as verified has loaded the release
\* it vouches for, unless an install replaced the file in between; updates and
\* installs to other paths never have that effect.
THEOREM VerifiedIsWhatWasLoadedHolds == Spec => []VerifiedIsWhatWasLoaded
<1>1. IInv => VerifiedIsWhatWasLoaded
  BY DEF IInv, JudgeInv, Judge, VerifiedInv, VerifiedIsWhatWasLoaded
<1> QED
  BY Invariance, <1>1, PTL

\* The consumer decision that lets a command execute is that of the release
\* whose Registry it hashed, or of one whose provenance was written since.
THEOREM DecisionIsOfTheReleaseHolds == Spec => []DecisionIsOfTheRelease
<1>1. IInv => DecisionIsOfTheRelease
  BY DEF IInv, JudgeInv, Judge, DecisionInv, DecisionIsOfTheRelease
<1> QED
  BY Invariance, <1>1, PTL

-----------------------------------------------------------------------------
(* What a write may destroy *)

\* While it fetches, an update knows what it is going to replace; after that a
\* kept copy is that file, unless another command has written it or it is gone.
CopyInv(p) ==
    /\ pc[p] = "fetching" => registry[path[p]] = loaded[p] \/ p \in touched
    /\ pc[p] \in {"replacing", "dropping", "retrying"} /\ keep[p] =>
          registry[path[p]] \in {copy[p], Absent} \/ p \in touched

\* An install that has gone past the Registry has it in its backup, if there
\* was one ...
BackedWhenHad == 2 \in install.had => 2 \in install.backed

\* ... and so has a rollback that is about to remove the Registry.
Undoable == 2 \in install.committed => BackedWhenHad

\* The Registry has been committed, and no update has removed it since.
InPlace == registry[install.path] # Absent \/ install.path \in dropped

\* A recovery that has gone past the Registry has brought it back, or has errors.
BroughtBack == ~install.failed => 2 \notin install.backed

StageInv(p) ==
    /\ pc[p] = "backingUp" => 2 \notin install.committed /\ (install.next = 3 => BackedWhenHad)
    /\ pc[p] = "committing" => BackedWhenHad /\ (install.next = 3 => InPlace)
    /\ pc[p] = "journal" => BackedWhenHad /\ InPlace
    /\ pc[p] = "undoing" /\ install.next # 1 => Undoable
    /\ pc[p] = "restoring" /\ install.next = 3 => Undoable
    /\ pc[p] = "recovering" /\ install.next = 1 => BroughtBack
    /\ pc[p] = "reinstating" => install.next \in install.backed /\ (install.next = 1 => BroughtBack)
    /\ pc[p] = "unstaging" /\ install.next # 3 => BroughtBack
    /\ pc[p] = "recovered" => BroughtBack

\* What is in the backup of the Registry is a Registry, and an install that is
\* left is recovered from its last target on.
BackupInv ==
    install # Absent =>
        /\ 2 \in install.backed => install.saved[2] # Absent
        /\ (\A p \in Process : pc[p] \notin AtInstall) => install.next = 3

WriterInv == BackupInv /\ \A p \in Process : CopyInv(p) /\ StageInv(p)

LEMMA WriterInit == Init => WriterInv
BY DEF Init, WriterInv, CopyInv, StageInv, BackupInv

\* Whoever writes the Registry another command works on is taken note of.
LEMMA OthersTouch ==
    ASSUME IInv, NEW p \in Process, NEW q \in Process, q # p, pc[q] # "idle",
           Read(p) \/ Update(p) \/ Install(p) \/ End(p)
    PROVE  /\ registry'[path[q]] = registry[path[q]] \/ q \in touched'
           /\ q \in touched => q \in touched'
           /\ keep'[q] = keep[q] /\ copy'[q] = copy[q]
<1> TypeOK /\ OwnerInv
  BY DEF IInv
<1>1. CASE Read(p)
  BY <1>1 DEF Read, Load, ReadProvenance, CheckDigest, ReadDecision, CheckBinding, job, disk, history
<1>2. CASE Update(p)
  <2>1. CASE Replace(p) \/ Drop(p)
    BY <2>1 DEF TypeOK, Replace, Drop, WriteRegistry, Others, job
  <2>2. CASE BeginUpdate(p) \/ MakeCopy(p) \/ GiveUp(p) \/ RenameFails(p)
    BY <2>2 DEF TypeOK, BeginUpdate, MakeCopy, GiveUp, RenameFails, Set, job, disk, history
  <2> QED
    BY <1>2, <2>1, <2>2 DEF Update
<1>3. CASE Install(p)
  <2>1. keep' = keep /\ copy' = copy
    BY <1>3, WorkPlace, CloseStep DEF Install, BeginInstall, Recover, job
  <2>2. CASE BeginInstall(p) \/ Recover(p) \/ Close(p)
    BY <2>1, <2>2, CloseStep DEF BeginInstall, Recover, disk, history
  <2>3. CASE Work(p)
    <3>1. install \in Installs /\ install.path \in Path
      BY <2>3, Worker
    <3>2. Spare \/ \E file : Put(p, install.next, file)
      BY <2>3, WorkFiles
    <3>3. /\ registry'[path[q]] = registry[path[q]] \/ q \in touched'
          /\ q \in touched => q \in touched'
      BY <3>1, <3>2 DEF TypeOK, Spare, history, Put, WriteRegistry, Others
    <3> QED
      BY <2>1, <3>3
  <2> QED
    BY <1>3, <2>2, <2>3 DEF Install
<1>4. CASE End(p)
  BY <1>4 DEF TypeOK, End, Set, disk
<1> QED
  BY <1>1, <1>2, <1>3, <1>4

LEMMA CopyStep ==
    ASSUME IInv, WriterInv, NEW p \in Process, NEW q \in Process,
           Read(p) \/ Update(p) \/ Install(p) \/ End(p)
    PROVE  CopyInv(q)'
<1> TypeOK /\ CopyInv(q)
  BY DEF IInv, WriterInv
<1>1. CASE q # p
  <2>1. CASE pc[q] = "idle"
    BY <1>1, <2>1, OwnState DEF CopyInv
  <2>2. CASE pc[q] # "idle"
    BY <1>1, <2>2, OwnState, OthersTouch DEF CopyInv
  <2> QED
    BY <2>1, <2>2
<1>2. CASE q = p
  <2>1. CASE BeginUpdate(p)
    BY <1>2, <2>1 DEF TypeOK, BeginUpdate, Goto, Set, disk, CopyInv
  <2>2. CASE MakeCopy(p)
    <3>1. pc'[p] = "done" \/ pc'[p] = "replacing"
      BY <2>2 DEF TypeOK, MakeCopy, Goto
    <3>2. registry' = registry /\ path' = path /\ keep' = keep /\ touched' = touched
      BY <2>2 DEF MakeCopy, disk, history
    <3>3. keep[p] => registry[path[p]] \in {copy'[p], Absent} \/ p \in touched
      <4>1. registry[path[p]] = loaded[p] \/ p \in touched
        BY <1>2, <2>2 DEF MakeCopy, CopyInv
      <4>2. NeedsCopy(p) => copy'[p] = registry[path[p]]
        BY <2>2 DEF TypeOK, MakeCopy, Set
      <4> QED
        BY <4>1, <4>2 DEF NeedsCopy
    <3> QED
      BY <1>2, <3>1, <3>2, <3>3 DEF CopyInv
  <2>3. CASE RenameFails(p)
    BY <1>2, <2>3 DEF TypeOK, RenameFails, Goto, disk, job, history, CopyInv
  <2>4. CASE Drop(p)
    BY <1>2, <2>4 DEF TypeOK, Drop, Goto, job, CopyInv
  <2>5. CASE GiveUp(p) \/ Replace(p) \/ Read(p) \/ Install(p) \/ End(p)
    <3>1. pc'[p] \notin {"fetching", "replacing", "dropping", "retrying"}
      <4>1. CASE GiveUp(p) \/ Replace(p) \/ Read(p) \/ End(p)
        BY <4>1
        DEF TypeOK, GiveUp, Replace, Read, Load, ReadProvenance, CheckDigest, ReadDecision,
            CheckBinding, End, Goto
      <4>2. CASE BeginInstall(p) \/ Recover(p)
        BY <4>2 DEF TypeOK, BeginInstall, Recover, Goto
      <4>3. CASE Work(p) \/ Close(p)
        <5>1. \E location \in AtInstall \cup {"done"} : pc' = [pc EXCEPT ![p] = location]
          BY <4>3, WorkPlace, CloseStep
        <5> QED
          BY <5>1 DEF TypeOK, AtInstall
      <4> QED
        BY <2>5, <4>1, <4>2, <4>3 DEF Install
    <3> QED
      BY <1>2, <3>1 DEF CopyInv
  <2> QED
    BY <2>1, <2>2, <2>3, <2>4, <2>5 DEF Update
<1> QED
  BY <1>1, <1>2

\* Until the journal is gone, the Registry stays in place unless an update
\* removes it.
LEMMA InPlaceStays ==
    ASSUME TypeOK, install \in Installs, InPlace, NEW p \in Process, Read(p) \/ Update(p) \/ End(p)
    PROVE  InPlace'
<1> install.path \in Path
  BY DEF Installs
<1>1. CASE Replace(p)
  BY <1>1, ConstantsAssumption DEF Replace, WriteRegistry, TypeOK, InPlace
<1>2. CASE Drop(p)
  BY <1>2 DEF Drop, TypeOK, InPlace
<1>3. CASE End(p)
  BY <1>3 DEF End, disk, InPlace
<1>4. CASE \/ Read(p) \/ BeginUpdate(p) \/ MakeCopy(p) \/ GiveUp(p) \/ RenameFails(p)
  BY <1>4
  DEF Read, Load, ReadProvenance, CheckDigest, ReadDecision, CheckBinding, BeginUpdate, MakeCopy,
      GiveUp, RenameFails, disk, history, InPlace
<1> QED
  BY <1>1, <1>2, <1>3, <1>4 DEF Update

\* The install, or its rollback, goes on.
LEMMA StageOfInstall ==
    ASSUME IInv, NEW p \in Process, StageInv(p),
           \/ BackUp(p) \/ Commit(p) \/ Interrupt(p) \/ Undo(p) \/ UndoFails(p) \/ Restore(p)
           \/ RestoreFails(p)
    PROVE  StageInv(p)'
<1> TypeOK /\ OwnerInv /\ Work(p)
  BY DEF IInv, Work
<1> DEFINE t == install.next
<1>1. install \in Installs /\ t \in Target /\ install.path \in Path
  BY Worker
<1>2. t = 1 \/ t = 2 \/ t = 3
  BY <1>1 DEF Target
<1>3. install'.had = install.had /\ install'.path = install.path
  BY WorkInstall
<1>4. CASE BackUp(p)
  <2>1. pc[p] = "backingUp" /\ pc'[p] = IF t = 3 THEN "committing" ELSE "backingUp"
    BY <1>4 DEF BackUp, Goto, TypeOK
  <2>2. install'.committed = install.committed /\ install'.next = After(t)
    BY <1>1, <1>4 DEF BackUp, Installs
  <2>3. install'.backed = IF t \in install.had THEN install.backed \cup {t} ELSE install.backed
    BY <1>1, <1>4 DEF BackUp, Installs
  <2>4. /\ t = 1 => After(t) = 2
        /\ t = 2 => After(t) = 3
        /\ t = 3 => After(t) = 1
    BY DEF After
  <2>5. t \in {2, 3} => BackedWhenHad'
    BY <1>3, <2>1, <2>3 DEF StageInv, BackedWhenHad
  <2> QED
    BY <1>2, <2>1, <2>2, <2>4, <2>5 DEF StageInv
<1>5. CASE Commit(p)
  <2>1. pc[p] = "committing" /\ pc'[p] = IF t = 3 THEN "journal" ELSE "committing"
    BY <1>5 DEF Commit, Goto, TypeOK
  <2>2. install'.backed = install.backed /\ install'.next = After(t)
    BY <1>1, <1>5 DEF Commit, Installs
  <2>3. BackedWhenHad'
    BY <1>3, <2>1, <2>2 DEF StageInv, BackedWhenHad
  <2>4. t = 2 => InPlace'
    <3>1. Put(p, t, Staged(t))
      BY <1>5 DEF Commit
    <3>2. t = 2 => Staged(t) = install.release
      BY DEF Staged
    <3>3. install.release # Absent
      BY <1>1, ConstantsAssumption DEF Installs
    <3> QED
      BY <1>1, <1>3, <3>1, <3>2, <3>3 DEF Put, WriteRegistry, InPlace, TypeOK
  <2>5. t = 3 => InPlace'
    <3>1. (InPlace /\ Put(p, t, Staged(t))) \/ t # 3
      BY <1>5, <2>1 DEF Commit, StageInv
    <3> QED
      BY <1>3, <3>1 DEF Put, InPlace
  <2>6. /\ t = 1 => After(t) = 2
        /\ t = 2 => After(t) = 3
        /\ t = 3 => After(t) = 1
    BY DEF After
  <2> QED
    BY <1>2, <2>1, <2>2, <2>3, <2>4, <2>5, <2>6 DEF StageInv
<1>6. CASE Interrupt(p)
  <2>1. pc[p] \in {"backingUp", "committing", "journal"} /\ pc'[p] = "undoing"
    BY <1>6 DEF Interrupt, Goto, TypeOK
  <2>2. install'.backed = install.backed /\ install'.committed = install.committed
    BY <1>1, <1>6 DEF Interrupt, Installs
  <2> QED
    BY <1>3, <2>1, <2>2 DEF StageInv, Undoable, BackedWhenHad
<1>7. CASE Undo(p) \/ UndoFails(p)
  <2>1. pc[p] = "undoing" /\ pc'[p] = "restoring"
    BY <1>7 DEF Undo, UndoFails, Goto, TypeOK
  <2>2. /\ install'.backed = install.backed /\ install'.next = t
        /\ install'.committed \subseteq install.committed
    BY <1>1, <1>7 DEF Undo, UndoFails, Installs
  <2> QED
    BY <1>3, <2>1, <2>2 DEF StageInv, Undoable, BackedWhenHad
<1>8. CASE Restore(p) \/ RestoreFails(p)
  <2>1. pc[p] = "restoring" /\ pc'[p] = IF t = 1 THEN "rolledBack" ELSE "undoing"
    BY <1>8 DEF Restore, RestoreFails, NextDown, Goto, TypeOK
  <2>2. /\ install'.next = Before(t) /\ install'.committed = install.committed
        /\ install'.backed = install.backed \/ install'.backed = install.backed \ {t}
    BY <1>1, <1>8 DEF Restore, RestoreFails, Installs
  <2>3. t = 2 => Before(t) = 1
    BY DEF Before
  <2>4. t = 3 => Undoable'
    BY <1>3, <2>1, <2>2 DEF StageInv, Undoable, BackedWhenHad
  <2> QED
    BY <1>2, <2>1, <2>2, <2>3, <2>4 DEF StageInv
<1> QED
  BY <1>4, <1>5, <1>6, <1>7, <1>8

\* The recovery goes on, or the install is left to another one.
LEMMA StageOfRecovery ==
    ASSUME IInv, NEW p \in Process, StageInv(p),
           \/ KeepJournal(p) \/ RecoveryFails(p) \/ Kill(p) \/ RecoverTarget(p)
           \/ RecoverTargetFails(p) \/ Reinstate(p) \/ ReinstateFails(p) \/ DropStaged(p)
    PROVE  StageInv(p)'
<1> TypeOK /\ OwnerInv /\ Work(p)
  BY DEF IInv, Work
<1> DEFINE t == install.next
<1>1. install \in Installs /\ t \in Target
  BY Worker
<1>2. t = 1 \/ t = 2 \/ t = 3
  BY <1>1 DEF Target
<1>3. Before(2) = 1 /\ Before(3) = 2
  BY DEF Before
<1>4. CASE KeepJournal(p) \/ RecoveryFails(p) \/ Kill(p)
  <2>1. pc'[p] = "done"
    BY <1>4 DEF KeepJournal, RecoveryFails, Kill, Leave, Goto, TypeOK
  <2> QED
    BY <2>1 DEF StageInv
<1>5. CASE RecoverTarget(p)
  <2>1. /\ pc[p] = "recovering" /\ install' = install
        /\ pc'[p] = IF t \in install.backed THEN "reinstating" ELSE "unstaging"
    BY <1>5 DEF RecoverTarget, Goto, TypeOK
  <2>2. t = 2 /\ t \notin install.backed => BroughtBack
    BY DEF BroughtBack
  <2>3. BroughtBack => BroughtBack'
    BY <2>1 DEF BroughtBack
  <2> QED
    BY <1>2, <2>1, <2>2, <2>3 DEF StageInv
<1>6. CASE RecoverTargetFails(p) \/ ReinstateFails(p)
  <2>1. pc'[p] \in {"recovering", "recovered", "unstaging"}
    BY <1>6 DEF RecoverTargetFails, ReinstateFails, NextDown, Goto, TypeOK
  <2>2. install'.failed = TRUE
    BY <1>1, <1>6 DEF RecoverTargetFails, ReinstateFails, Installs
  <2> QED
    BY <2>1, <2>2 DEF StageInv, BroughtBack
<1>7. CASE Reinstate(p)
  <2>1. pc[p] = "reinstating" /\ pc'[p] = "unstaging"
    BY <1>7 DEF Reinstate, Goto, TypeOK
  <2>2. /\ install'.next = t /\ install'.failed = install.failed
        /\ install'.backed = install.backed \ {t}
    BY <1>1, <1>7 DEF Reinstate, Installs
  <2>3. t \in {1, 2} => BroughtBack'
    BY <2>1, <2>2 DEF StageInv, BroughtBack
  <2> QED
    BY <1>2, <2>1, <2>2, <2>3 DEF StageInv
<1>8. CASE DropStaged(p)
  <2>1. pc[p] = "unstaging" /\ pc'[p] = IF t = 1 THEN "recovered" ELSE "recovering"
    BY <1>8 DEF DropStaged, NextDown, Goto, TypeOK
  <2>2. /\ install'.next = Before(t) /\ install'.backed = install.backed
        /\ install'.failed = install.failed \/ install'.failed = TRUE
    BY <1>1, <1>8 DEF DropStaged, Installs
  <2>3. t \in {1, 2} => BroughtBack'
    BY <2>1, <2>2 DEF StageInv, BroughtBack
  <2> QED
    BY <1>2, <1>3, <2>1, <2>2, <2>3 DEF StageInv
<1> QED
  BY <1>4, <1>5, <1>6, <1>7, <1>8

LEMMA StageStep ==
    ASSUME IInv, WriterInv, NEW p \in Process, NEW q \in Process,
           Read(p) \/ Update(p) \/ Install(p) \/ End(p)
    PROVE  StageInv(q)'
<1> TypeOK /\ OwnerInv /\ StageInv(q)
  BY DEF IInv, WriterInv
<1>1. CASE Read(p) \/ Update(p) \/ End(p)
  <2>1. install' = install
    BY <1>1
    DEF Read, Load, ReadProvenance, CheckDigest, ReadDecision, CheckBinding, Update, BeginUpdate,
        MakeCopy, GiveUp, Replace, RenameFails, Drop, End, disk
  <2>2. pc'[q] = pc[q] \/ pc'[q] \notin AtInstall
    BY <1>1
    DEF TypeOK, Read, Load, ReadProvenance, CheckDigest, ReadDecision, CheckBinding, Update,
        BeginUpdate, MakeCopy, GiveUp, Replace, RenameFails, Drop, End, Goto, AtInstall
  <2>3. CASE pc'[q] \notin AtInstall
    BY <2>3 DEF StageInv, AtInstall
  <2>4. CASE pc'[q] = pc[q] /\ pc[q] \in AtInstall
    <3>1. install \in Installs
      BY <2>4 DEF OwnerInv, TypeOK
    <3>2. InPlace => InPlace'
      BY <1>1, <3>1, InPlaceStays
    <3> QED
      BY <2>1, <2>4, <3>2 DEF StageInv, Undoable, BackedWhenHad, BroughtBack
  <2> QED
    BY <2>2, <2>3, <2>4
<1>2. CASE BeginInstall(p)
  <2>1. /\ \A r \in Process : pc[r] \notin AtInstall
        /\ pc' = [pc EXCEPT ![p] = "backingUp"]
        /\ install'.next = 1 /\ install'.committed = {}
    BY <1>2, BeginInstallStep
  <2>2. pc'[q] = "backingUp" \/ pc'[q] \notin AtInstall
    BY <2>1 DEF TypeOK
  <2> QED
    BY <2>1, <2>2 DEF StageInv, AtInstall
<1>3. CASE Recover(p)
  <2>1. /\ \A r \in Process : pc[r] \notin AtInstall
        /\ pc' = [pc EXCEPT ![p] = "recovering"]
        /\ install' = install /\ install # Absent
    BY <1>3 DEF Recover, Goto, Installing, disk, TypeOK
  <2>2. pc'[q] = "recovering" \/ pc'[q] \notin AtInstall
    BY <2>1 DEF TypeOK
  <2>3. install'.next = 3
    BY <2>1 DEF WriterInv, BackupInv
  <2> QED
    BY <2>2, <2>3 DEF StageInv, AtInstall
<1>4. CASE Work(p)
  <2>1. CASE q = p
    BY <1>4, <2>1, StageOfInstall, StageOfRecovery DEF Work
  <2>2. CASE q # p
    <3>1. pc'[q] \notin AtInstall
      BY <1>4, <2>2, Worker, WorkPlace DEF OwnerInv, TypeOK
    <3> QED
      BY <3>1 DEF StageInv, AtInstall
  <2> QED
    BY <2>1, <2>2
<1>5. CASE Close(p)
  <2>1. pc'[q] \notin AtInstall
    BY <1>5, CloseStep DEF OwnerInv, TypeOK, AtInstall
  <2> QED
    BY <2>1 DEF StageInv, AtInstall
<1> QED
  BY <1>1, <1>2, <1>3, <1>4, <1>5 DEF Install

\* Only a Registry goes into the backup of the Registry.
LEMMA BackupOfWork ==
    ASSUME IInv, BackupInv, NEW p \in Process, Work(p)
    PROVE  /\ 2 \in install'.backed => install'.saved[2] # Absent
           /\ pc'[p] = "done" => install'.next = 3
<1> TypeOK /\ OwnerInv
  BY DEF IInv
<1> DEFINE t == install.next
           file == Current(t, install.path)
<1>1. install \in Installs /\ install # Absent /\ t \in Target
  BY Worker
<1>2. 2 \in install.backed => install.saved[2] # Absent
  BY <1>1 DEF BackupInv
<1>3. 2 \in install'.backed => install'.saved[2] # Absent
  <2>1. CASE BackUp(p)
    <3>1. CASE t \in install.had
      <4>1. install'.backed = install.backed \cup {t} /\ install'.saved = [install.saved EXCEPT ![t] = file]
        BY <1>1, <2>1, <3>1 DEF BackUp, Installs
      <4>2. file # Absent
        BY <2>1, <3>1 DEF BackUp
      <4> QED
        BY <1>1, <1>2, <4>1, <4>2 DEF Installs, Target
    <3>2. CASE t \notin install.had
      BY <1>1, <1>2, <2>1, <3>2 DEF BackUp, Installs
    <3> QED
      BY <3>1, <3>2
  <2>2. CASE Restore(p) \/ Reinstate(p)
    <3>1. /\ install'.backed = install.backed \ {t}
          /\ install'.saved = [install.saved EXCEPT ![t] = Absent]
      BY <1>1, <2>2 DEF Restore, Reinstate, Installs
    <3> QED
      BY <1>1, <1>2, <3>1 DEF Installs, Target
  <2>3. CASE Commit(p) \/ Interrupt(p) \/ Undo(p) \/ UndoFails(p) \/ RestoreFails(p)
    BY <1>1, <1>2, <2>3 DEF Commit, Interrupt, Undo, UndoFails, RestoreFails, Installs
  <2>4. CASE KeepJournal(p) \/ RecoveryFails(p) \/ Kill(p)
    BY <1>1, <1>2, <2>4 DEF KeepJournal, RecoveryFails, Kill, Leave, Installs
  <2>5. CASE RecoverTarget(p) \/ RecoverTargetFails(p) \/ ReinstateFails(p) \/ DropStaged(p)
    <3>1. install'.backed = install.backed /\ install'.saved = install.saved
      BY <1>1, <2>5 DEF RecoverTarget, RecoverTargetFails, ReinstateFails, DropStaged, Installs
    <3> QED
      BY <1>2, <3>1
  <2> QED
    BY <2>1, <2>2, <2>3, <2>4, <2>5 DEF Work
<1>4. pc'[p] = "done" => install'.next = 3
  <2>1. CASE KeepJournal(p) \/ RecoveryFails(p) \/ Kill(p)
    BY <1>1, <2>1 DEF KeepJournal, RecoveryFails, Kill, Leave, Installs
  <2>2. CASE BackUp(p) \/ Commit(p) \/ Interrupt(p) \/ Undo(p) \/ UndoFails(p)
    BY <2>2 DEF BackUp, Commit, Interrupt, Undo, UndoFails, Goto, TypeOK
  <2>3. CASE Restore(p) \/ RestoreFails(p) \/ RecoverTarget(p) \/ RecoverTargetFails(p)
    BY <2>3 DEF Restore, RestoreFails, RecoverTarget, RecoverTargetFails, NextDown, Goto, TypeOK
  <2>4. CASE Reinstate(p) \/ ReinstateFails(p) \/ DropStaged(p)
    BY <2>4 DEF Reinstate, ReinstateFails, DropStaged, NextDown, Goto, TypeOK
  <2> QED
    BY <2>1, <2>2, <2>3, <2>4 DEF Work
<1> QED
  BY <1>3, <1>4

LEMMA BackupStep ==
    ASSUME IInv, WriterInv, NEW p \in Process, Read(p) \/ Update(p) \/ Install(p) \/ End(p)
    PROVE  BackupInv'
<1> TypeOK /\ OwnerInv /\ BackupInv
  BY DEF IInv, WriterInv
<1>1. CASE Read(p) \/ Update(p) \/ End(p)
  <2>1. install' = install
    BY <1>1
    DEF Read, Load, ReadProvenance, CheckDigest, ReadDecision, CheckBinding, Update, BeginUpdate,
        MakeCopy, GiveUp, Replace, RenameFails, Drop, End, disk
  <2>2. \A q \in Process : pc[q] \in AtInstall => pc'[q] \in AtInstall
    BY <1>1
    DEF TypeOK, Read, Load, ReadProvenance, CheckDigest, ReadDecision, CheckBinding, Update,
        BeginUpdate, MakeCopy, GiveUp, Replace, RenameFails, Drop, End, Goto, AtInstall, Verdict
  <2> QED
    BY <2>1, <2>2 DEF BackupInv
<1>2. CASE BeginInstall(p)
  <2>1. pc' = [pc EXCEPT ![p] = "backingUp"] /\ install'.backed = {}
    BY <1>2, BeginInstallStep
  <2>2. pc'[p] \in AtInstall
    BY <2>1 DEF TypeOK, AtInstall
  <2> QED
    BY <2>1, <2>2 DEF BackupInv
<1>3. CASE Recover(p)
  <2>1. install' = install /\ pc'[p] \in AtInstall
    BY <1>3 DEF Recover, Goto, disk, TypeOK, AtInstall
  <2> QED
    BY <2>1 DEF BackupInv
<1>4. CASE Work(p)
  <2>1. pc'[p] \in AtInstall \cup {"done"}
    BY <1>4, WorkPlace DEF TypeOK
  <2> QED
    BY <1>4, <2>1, BackupOfWork DEF BackupInv
<1>5. CASE Close(p)
  BY <1>5, CloseStep DEF BackupInv
<1> QED
  BY <1>1, <1>2, <1>3, <1>4, <1>5 DEF Install

LEMMA WriterStep == IInv /\ WriterInv /\ [Next]_vars => WriterInv'
<1> SUFFICES ASSUME IInv, WriterInv, [Next]_vars PROVE WriterInv'
  OBVIOUS
<1>1. CASE UNCHANGED vars
  BY <1>1
  DEF WriterInv, CopyInv, StageInv, BackupInv, BackedWhenHad, Undoable, InPlace, BroughtBack,
      vars, disk, job, history
<1>2. CASE Next
  <2>1. PICK p \in Process : Read(p) \/ Update(p) \/ Install(p) \/ End(p)
    BY <1>2 DEF Next, Read, Update, Install, Work, Close
  <2> QED
    BY <2>1, CopyStep, StageStep, BackupStep DEF WriterInv
<1> QED
  BY <1>1, <1>2

\* What the commands that write remember of the files they replace.
THEOREM WriterInvariance == Spec => []WriterInv
<1> QED
  BY WriterInit, WriterStep, Invariance, PTL DEF Spec

\* `catalog update --backup` destroys no Registry of which it has no copy,
\* unless another command has written the file since the update began.
THEOREM BackupKeepsReplacedHolds == Spec => BackupKeepsReplaced
<1>1. WriterInv =>
        [\A p \in Process :
            /\ pc[p] \in {"replacing", "dropping", "retrying"}
            /\ registry'[path[p]] # registry[path[p]]
            /\ pc'[p] # pc[p]
            /\ keep[p]
            => registry[path[p]] \in {copy[p], Absent} \/ p \in touched]_vars
  BY DEF WriterInv, CopyInv
<1> QED
  BY <1>1, WriterInvariance, PTL DEF BackupKeepsReplaced

\* The Registry at x stays there, or in the backup of an install that is not
\* over.
LEMMA StaysKept ==
    ASSUME NEW x \in Path, Kept(x), ~Kept(x)'
    PROVE  \/ registry[x] # Absent /\ registry'[x] = Absent
           \/ install # Absent /\ install' = Absent
           \/ install # Absent /\ 2 \in install.backed /\ 2 \notin install'.backed
           \/ install # Absent /\ install'.path # install.path
  BY DEF Kept

\* commitRegistryInstall, its rollback and its recovery.
LEMMA WorkKeeps ==
    ASSUME IInv, WriterInv, NEW p \in Process, Work(p), NEW x \in Path, Kept(x), ~Kept(x)'
    PROVE  install.path = x /\ 2 \notin install.had
<1> TypeOK /\ OwnerInv /\ BackupInv /\ StageInv(p)
  BY DEF IInv, WriterInv
<1> DEFINE t == install.next
<1>1. install \in Installs /\ install # Absent /\ t \in Target /\ install.path \in Path
  BY Worker
<1>2. install' # Absent /\ install'.had = install.had /\ install'.path = install.path
  BY WorkInstall, AbsentAssumption
<1>3. \/ registry'[x] = Absent /\ registry[x] # Absent
      \/ 2 \in install.backed /\ 2 \notin install'.backed
  BY <1>1, <1>2, StaysKept
<1>4. registry'[x] = Absent
  BY DEF Kept
<1>5. ASSUME install.path = x, 2 \in install'.backed PROVE FALSE
  BY <1>2, <1>5 DEF Kept
<1>6. CASE registry'[x] = Absent /\ registry[x] # Absent
  <2>1. PICK file : Put(p, t, file)
    BY <1>6, WorkFiles DEF Spare
  <2>2. t = 2 /\ install.path = x /\ file = Absent
    BY <1>1, <1>6, <2>1 DEF Put, WriteRegistry, TypeOK
  <2>3. ~Spare
    BY <1>6 DEF Spare
  <2>4. ~RemoveAllFails(p, t)
    BY <2>2, <2>3 DEF RemoveAllFails
  <2>5. CASE BackUp(p)
    <3>1. t \in install.had
      BY <2>3, <2>5 DEF BackUp
    <3>2. install' = [install EXCEPT !.next = After(t), !.backed = @ \cup {t},
                                     !.saved[t] = Current(t, install.path)]
      BY <2>5, <3>1 DEF BackUp
    <3>3. 2 \in install'.backed
      BY <1>1, <2>2, <3>2 DEF Installs
    <3> QED
      BY <1>5, <2>2, <3>3
  <2>6. ~Commit(p)
    BY <1>1, <1>6, <2>2, ConstantsAssumption DEF Commit, Put, WriteRegistry, Staged, Installs, TypeOK
  <2>7. CASE Undo(p)
    <3>1. pc[p] = "undoing" /\ t \in install.committed
      BY <2>3, <2>7 DEF Undo
    <3>2. 2 \in install.had => 2 \in install.backed
      BY <2>2, <3>1 DEF StageInv, Undoable, BackedWhenHad
    <3>3. install'.backed = install.backed
      BY <1>1, <2>7 DEF Undo, Installs
    <3> QED
      BY <1>5, <2>2, <3>2, <3>3
  <2>8. ~Restore(p) /\ ~Reinstate(p)
    <3>1. Restore(p) \/ Reinstate(p) => t \in install.backed /\ Put(p, t, Restored(t))
      BY <2>3 DEF Restore, Reinstate, StageInv
    <3>2. t \in install.backed => Restored(t) # Absent
      BY <1>1, <2>2 DEF BackupInv, Restored
    <3>3. Put(p, t, Restored(t)) => registry'[x] = Restored(t)
      BY <2>2 DEF Put, WriteRegistry, TypeOK
    <3> QED
      BY <1>4, <3>1, <3>2, <3>3
  <2>9. CASE RecoverTarget(p)
    <3>1. install' = install
      BY <2>9 DEF RecoverTarget
    <3>2. t \notin install.backed
      BY <1>5, <2>2, <3>1
    <3>3. NewTarget(t)
      BY <2>3, <2>9, <3>2 DEF RecoverTarget
    <3> QED
      BY <2>2, <3>3 DEF NewTarget
  <2> QED
    BY <2>2, <2>3, <2>4, <2>5, <2>6, <2>7, <2>8, <2>9
    DEF Work, Interrupt, UndoFails, RestoreFails, KeepJournal, RecoverTargetFails, ReinstateFails,
        DropStaged, RecoveryFails, Kill, Leave
<1>7. CASE 2 \in install.backed /\ 2 \notin install'.backed
  <2>1. Restore(p) \/ Reinstate(p)
    <3>1. install'.backed = install.backed \/ install'.backed = install.backed \cup {t} \/ Restore(p) \/ Reinstate(p)
      <4>1. CASE BackUp(p) \/ Commit(p) \/ Interrupt(p) \/ Undo(p) \/ UndoFails(p) \/ RestoreFails(p)
        BY <1>1, <4>1 DEF BackUp, Commit, Interrupt, Undo, UndoFails, RestoreFails, Installs
      <4>2. CASE KeepJournal(p) \/ RecoveryFails(p) \/ Kill(p)
        BY <1>1, <4>2 DEF KeepJournal, RecoveryFails, Kill, Leave, Installs
      <4>3. CASE RecoverTarget(p) \/ RecoverTargetFails(p) \/ ReinstateFails(p) \/ DropStaged(p)
        BY <1>1, <4>3 DEF RecoverTarget, RecoverTargetFails, ReinstateFails, DropStaged, Installs
      <4> QED
        BY <4>1, <4>2, <4>3 DEF Work
    <3> QED
      BY <1>7, <3>1
  <2>2. install'.backed = install.backed \ {t}
    BY <1>1, <2>1 DEF Restore, Reinstate, Installs
  <2>3. t = 2
    BY <1>7, <2>2
  <2>4. Put(p, 2, Restored(2)) /\ Restored(2) # Absent
    BY <1>1, <1>7, <2>1, <2>3 DEF Restore, Reinstate, BackupInv, Restored
  <2>5. registry' = [registry EXCEPT ![install.path] = Restored(2)]
    BY <2>4 DEF Put, WriteRegistry
  <2>6. install.path # x
    BY <1>4, <2>4, <2>5 DEF TypeOK
  <2>7. registry'[x] = registry[x]
    BY <1>1, <2>5, <2>6 DEF TypeOK
  <2> QED
    BY <1>4, <2>6, <2>7 DEF Kept
<1> QED
  BY <1>3, <1>6, <1>7

\* The journal goes when the Registry is in place, or was taken away by an
\* update.
LEMMA CloseKeeps ==
    ASSUME IInv, WriterInv, NEW p \in Process, Close(p), NEW x \in Path, Kept(x), ~Kept(x)'
    PROVE  x \in dropped'
<1> TypeOK /\ OwnerInv /\ StageInv(p)
  BY DEF IInv, WriterInv
<1>1. registry' = registry /\ dropped' = dropped
  BY CloseStep DEF history
<1>2. registry[x] = Absent
  BY <1>1 DEF Kept
<1>3. install # Absent /\ install.path = x /\ 2 \in install.backed
  BY <1>2 DEF Kept
<1>4. CASE RemoveJournal(p)
  BY <1>1, <1>2, <1>3, <1>4 DEF RemoveJournal, StageInv, InPlace
<1>5. ~CloseRollback(p)
  BY <1>3 DEF CloseRollback
<1>6. ~CloseRecovery(p)
  BY <1>3 DEF CloseRecovery, StageInv, BroughtBack
<1> QED
  BY <1>4, <1>5, <1>6 DEF Close

\* commitRegistryInstall, its rollback and recoverRegistryInstallTransaction,
\* with failures and kills anywhere between their calls: a Registry is gone for
\* good only by an update whose first rename failed, or where the undone install
\* found none.
THEOREM GoneOnlyByRetryHolds == Spec => GoneOnlyByRetry
<1>1. ASSUME IInv, WriterInv, [Next]_vars
      PROVE  [\A x \in Path :
                 Kept(x) /\ ~Kept(x)' =>
                    \/ x \in dropped'
                    \/ install # Absent /\ install.path = x /\ 2 \notin install.had]_vars
  <2> SUFFICES ASSUME ~UNCHANGED vars, NEW x \in Path, Kept(x), ~Kept(x)'
               PROVE  \/ x \in dropped'
                      \/ install # Absent /\ install.path = x /\ 2 \notin install.had
    OBVIOUS
  <2> TypeOK /\ OwnerInv
    BY <1>1 DEF IInv
  <2>1. PICK p \in Process : Read(p) \/ Update(p) \/ Install(p) \/ End(p)
    BY <1>1 DEF Next, Read, Update, Install, Work, Close
  <2>2. CASE Work(p)
    BY <1>1, <2>2, WorkKeeps, Worker
  <2>3. CASE Close(p)
    BY <1>1, <2>3, CloseKeeps
  <2>4. CASE Drop(p)
    <3>1. install' = install /\ path[p] \in Path
      BY <2>4 DEF Drop, TypeOK
    <3>2. registry[x] # Absent /\ registry'[x] = Absent
      BY <3>1 DEF Kept
    <3> QED
      BY <2>4, <3>1, <3>2 DEF Drop, TypeOK
  <2>5. ~Replace(p)
    <3>1. Replace(p) => install' = install /\ registry' = [registry EXCEPT ![path[p]] = Updated]
      BY DEF Replace, WriteRegistry
    <3> QED
      BY <3>1, ConstantsAssumption DEF Kept, TypeOK
  <2>6. ~BeginInstall(p)
    BY DEF BeginInstall, Installing, Kept
  <2>7. ~(\/ Read(p) \/ BeginUpdate(p) \/ MakeCopy(p) \/ GiveUp(p) \/ RenameFails(p) \/ End(p)
          \/ Recover(p))
    BY DEF Read, Load, ReadProvenance, CheckDigest, ReadDecision, CheckBinding, BeginUpdate, MakeCopy,
       GiveUp, RenameFails, End, Recover, disk, Kept
  <2> QED
    BY <2>1, <2>2, <2>3, <2>4, <2>5, <2>6, <2>7 DEF Update, Install
<1> QED
  BY <1>1, Invariance, WriterInvariance, PTL DEF Spec, GoneOnlyByRetry
=============================================================================
