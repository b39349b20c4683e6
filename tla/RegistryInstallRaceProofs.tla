---------------------- MODULE RegistryInstallRaceProofs ----------------------
(***************************************************************************)
(* For any number of commands that recover the journal of the same killed  *)
(* installer while others install: none of them loads a part of the        *)
(* interrupted install.                                                    *)
(*                                                                         *)
(* Nothing brings a target of the killed installer back once it is gone    *)
(* (BackupInv), and whoever gets past the recovery has seen all of them    *)
(* go, or has found the journal of somebody who had (RecoveryInv).         *)
(***************************************************************************)
EXTENDS RegistryInstallRace, TLAPS

Recovering == {"recovering", "removing", "reinstating", "dropping", "recovered"}
Early == {"start", "failed"} \cup Recovering

Gone(t) == target[t] # Killed
AllGone == \A t \in Target : Gone(t)

\* What is left of the killed installer can be told from the disk by a journal
\* that lists as its predecessors the targets `had`.
Recognizable(had) ==
    \A t \in Target :
        Gone(t) \/ IF t \in had THEN backup[Killed][t] # Absent ELSE ~staged[Killed][t]

BackupInv == \A o \in Owner, t \in Target : backup[o][t] # Killed

JournalInv == IF journal.owner = Killed THEN Recognizable(journal.had) ELSE AllGone

\* What a command that recovers has dealt with.
Dealt(p) ==
    /\ \A t \in Target : t > i[p] => Gone(t)
    /\ pc[p] = "recovered" => AllGone
    /\ pc[p] \in {"reinstating", "dropping"} => Gone(i[p])
    /\ pc[p] = "removing" =>
          Gone(i[p]) \/ looked[p].backup \/ (i[p] \notin txn[p].had /\ ~looked[p].staged)

RecoverOK(p) ==
    /\ pc[p] \in Recovering =>
          /\ txn[p].owner # Absent
          /\ IF txn[p].owner = Killed
             THEN Recognizable(txn[p].had) /\ (~failed[p] => Dealt(p))
             ELSE AllGone
    /\ pc[p] \notin Early => AllGone

RecoveryInv == \A p \in Process : RecoverOK(p)

ViewInv == \A p \in Process, t \in Target : view[p][t] # Killed

IInv == TypeOK /\ BackupInv /\ JournalInv /\ RecoveryInv /\ ViewInv

\* Where a command is.
Location ==
    Finished \cup {"start", "ready", "reserving", "journaling", "backingUp",
                   "committing", "commitPoint", "discarding", "undoing",
                   "restoring", "rolledBack", "unstaging"} \cup Recovering

\* The disk and the journals that commands hold in memory.
DiskTypes ==
    /\ target \in [Target -> Content]
    /\ staged \in [Owner -> [Target -> BOOLEAN]]
    /\ backup \in [Owner -> [Target -> Content]]
    /\ journal \in [owner : Owner \cup {Absent}, had : SUBSET Target]
    /\ txn \in [Process -> [owner : Owner \cup {Absent}, had : SUBSET Target]]

\* The rest.
LocalTypes ==
    /\ pc \in [Process -> Location]
    /\ i \in [Process -> Target]
    /\ looked \in [Process -> [backup : BOOLEAN, staged : BOOLEAN]]
    /\ backedUp \in [Process -> SUBSET Target]
    /\ committed \in [Process -> SUBSET Target]
    /\ failed \in [Process -> BOOLEAN]
    /\ view \in [Process -> [Target -> Content]]

LEMMA TypesSplit ==
    /\ TypeOK <=> DiskTypes /\ LocalTypes
    /\ TypeOK' <=> DiskTypes' /\ LocalTypes'
BY DEF TypeOK, DiskTypes, LocalTypes, Location, Recovering

LEMMA GotoTypes ==
    ASSUME LocalTypes, NEW p \in Process, NEW l \in Location, NEW t \in Target, Goto(p, l, t)
    PROVE  /\ pc' \in [Process -> Location] /\ pc'[p] = l
           /\ i' \in [Process -> Target] /\ i'[p] = t
           /\ \A q \in Process \ {p} : pc'[q] = pc[q] /\ i'[q] = i[q]
BY DEF LocalTypes, Goto

LEMMA UpFromTypes ==
    ASSUME LocalTypes, NEW p \in Process, NEW l \in Location, NEW m \in Location, UpFrom(p, l, m)
    PROVE  /\ pc' \in [Process -> Location] /\ pc'[p] \in {l, m}
           /\ i' \in [Process -> Target]
           /\ \A q \in Process \ {p} : pc'[q] = pc[q] /\ i'[q] = i[q]
<1>1. i[p] \in Target
    BY DEF LocalTypes
<1>2. CASE i[p] < 3
  <2>1. i[p] + 1 \in Target /\ Goto(p, l, i[p] + 1)
      BY <1>1, <1>2 DEF Target, UpFrom
  <2> QED  BY <2>1, GotoTypes
<1>3. CASE ~(i[p] < 3)
  <2>1. 1 \in Target /\ Goto(p, m, 1)
      BY <1>3 DEF Target, UpFrom
  <2> QED  BY <2>1, GotoTypes
<1> QED  BY <1>2, <1>3

\* The next target down, or the end.
LEMMA DownFromTypes ==
    ASSUME LocalTypes, NEW p \in Process, NEW l \in Location, NEW m \in Location, DownFrom(p, l, m)
    PROVE  /\ pc' \in [Process -> Location] /\ pc'[p] \in {l, m}
           /\ i' \in [Process -> Target]
           /\ \A q \in Process \ {p} : pc'[q] = pc[q] /\ i'[q] = i[q]
           /\ pc'[p] # m => \A t \in Target : t > i'[p] => t >= i[p]
           /\ pc'[p] # l => \A t \in Target : t >= i[p]
<1>1. i[p] \in Target
    BY DEF LocalTypes
<1>2. CASE i[p] > 1
  <2>1. i[p] - 1 \in Target /\ Goto(p, l, i[p] - 1)
      BY <1>1, <1>2 DEF Target, DownFrom
  <2>2. \A t \in Target : t > i[p] - 1 => t >= i[p]
      BY <1>1 DEF Target
  <2> QED  BY <2>1, <2>2, GotoTypes
<1>3. CASE ~(i[p] > 1)
  <2>1. 1 \in Target /\ Goto(p, m, 1) /\ i[p] = 1
      BY <1>1, <1>3 DEF Target, DownFrom
  <2>2. \A t \in Target : t >= i[p]
      BY <2>1 DEF Target
  <2> QED  BY <2>1, <2>2, GotoTypes
<1> QED  BY <1>2, <1>3

\* What the two ways to write a target or a backup change.
LEMMA SetTargetOnly ==
    ASSUME DiskTypes, NEW t \in Target, NEW c \in Content, SetTarget(t, c)
    PROVE  /\ target' \in [Target -> Content]
           /\ \A u \in Target : target'[u] = IF u = t THEN c ELSE target[u]
BY DEF DiskTypes, SetTarget

LEMMA SetBackupOnly ==
    ASSUME DiskTypes, NEW o \in Owner, NEW t \in Target, NEW c \in Content, SetBackup(o, t, c)
    PROVE  /\ backup' \in [Owner -> [Target -> Content]]
           /\ \A q \in Owner, u \in Target :
                 backup'[q][u] = IF q = o /\ u = t THEN c ELSE backup[q][u]
<1>1. backup[o] \in [Target -> Content]
    BY DEF DiskTypes
<1>2. backup' = [backup EXCEPT ![o] = [backup[o] EXCEPT ![t] = c]]
    BY DEF SetBackup
<1> QED  BY <1>1, <1>2 DEF DiskTypes

\* The killed installer's targets only disappear, and those that remain stay
\* recognizable.
Fades ==
    \A t \in Target :
        \/ Gone(t)'
        \/ /\ ~Gone(t)
           /\ backup[Killed][t] # Absent => backup'[Killed][t] # Absent
           /\ staged'[Killed][t] => staged[Killed][t]

\* Then what the others rely on holds after a step of p as it did before.
LEMMA Frame ==
    ASSUME IInv, TypeOK', NEW p \in Process, Fades, BackupInv',
           journal' = journal \/ AllGone,
           \A q \in Process \ {p} :
               /\ pc'[q] = pc[q] /\ i'[q] = i[q] /\ txn'[q] = txn[q]
               /\ looked'[q] = looked[q] /\ failed'[q] = failed[q] /\ view'[q] = view[q],
           RecoverOK(p)', \A t \in Target : view'[p][t] # Killed
    PROVE  IInv'
<1> USE DEF IInv
<1>1. AllGone => AllGone'
    BY DEF Fades, AllGone, Gone
<1>2. \A t \in Target : Gone(t) => Gone(t)'
    BY DEF Fades
<1>3. ASSUME NEW had, Recognizable(had) PROVE Recognizable(had)'
    BY <1>3 DEF Recognizable, Fades
<1>4. JournalInv'
  <2>1. CASE AllGone
      BY <1>1, <2>1 DEF JournalInv, AllGone, Recognizable
  <2>2. CASE ~AllGone
      BY <1>3, <2>2 DEF JournalInv
  <2> QED  BY <2>1, <2>2
<1>5. ASSUME NEW q \in Process \ {p} PROVE RecoverOK(q)'
  <2>1. RecoverOK(q)
      BY DEF RecoveryInv
  <2>2. Recognizable(txn[q].had) => Recognizable(txn[q].had)'
      BY <1>3 DEF Recognizable
  <2>3. i[q] \in Target
      BY DEF TypeOK
  <2>4. Dealt(q) => Dealt(q)'
      BY <1>1, <1>2, <2>3 DEF Dealt
  <2> QED  BY <1>1, <2>1, <2>2, <2>4 DEF RecoverOK
<1>6. RecoveryInv' /\ ViewInv'
    BY <1>5 DEF RecoveryInv, ViewInv
<1> QED  BY <1>4, <1>6

\* An installer that has begun is past its recovery.
LEMMA InstallFrame ==
    ASSUME IInv, TypeOK', NEW p \in Process,
           pc[p] \notin Early, pc'[p] \notin {"start"} \cup Recovering,
           \A t \in Target : Gone(t) => Gone(t)', BackupInv',
           UNCHANGED <<looked, failed, view>>,
           \A q \in Process \ {p} : pc'[q] = pc[q] /\ i'[q] = i[q] /\ txn'[q] = txn[q]
    PROVE  IInv'
<1>1. AllGone
    BY DEF IInv, RecoveryInv, RecoverOK
<1>2. AllGone' /\ Fades
    BY <1>1 DEF AllGone, Fades
<1>3. RecoverOK(p)'
    BY <1>2 DEF RecoverOK
<1>4. \A t \in Target : view'[p][t] # Killed
    BY DEF IInv, ViewInv
<1> QED  BY <1>1, <1>2, <1>3, <1>4, Frame

LEMMA Locations ==
    /\ Finished \cup Recovering \cup
         {"start", "ready", "reserving", "journaling", "backingUp", "committing",
          "commitPoint", "discarding", "undoing", "restoring", "rolledBack", "unstaging"} = Location
    /\ {"ready", "reserving", "journaling", "backingUp", "committing", "commitPoint", "discarding",
         "undoing", "restoring", "rolledBack", "unstaging", "installed", "loaded"} \cap Early = {}
    /\ {"ready", "reserving", "journaling", "backingUp", "committing", "commitPoint", "discarding",
         "undoing", "restoring", "rolledBack", "unstaging", "installed", "loaded", "failed"}
           \cap ({"start"} \cup Recovering) = {}
    /\ {"installed", "loaded", "failed"} \subseteq Location
BY DEF Location, Finished, Recovering, Early

\* What commitRegistryInstall and its rollback do to a target or a backup.
LEMMA InstallKeeps ==
    ASSUME ConstantsAssumption, IInv, NEW p \in Process, InstallStep(p)
    PROVE  IInv'
<1> USE DEF IInv
<1>a. DiskTypes /\ LocalTypes /\ i[p] \in Target /\ p \in Owner /\ p # Killed
    BY TypesSplit DEF LocalTypes, Owner, ConstantsAssumption
<1>b. p \in Content /\ Absent \in Content /\ Absent # Killed
    BY DEF Content, Owner, ConstantsAssumption
<1>c. pc[p] \notin Early => AllGone
    BY DEF RecoveryInv, RecoverOK
<1>d. 1 \in Target /\ 3 \in Target
    BY DEF Target
<1>e. backup[p] \in [Target -> Content] /\ target \in [Target -> Content]
    BY <1>a DEF DiskTypes
<1>1. CASE StageAll(p)
  <2>1. pc[p] \notin Early
      BY <1>1, Locations DEF StageAll
  <2>2. DiskTypes'
      BY <1>1, <1>a DEF StageAll, DiskTypes
  <2>3. /\ pc'[p] = "reserving" /\ LocalTypes'
        /\ \A q \in Process \ {p} : pc'[q] = pc[q] /\ i'[q] = i[q]
      BY <1>1, <1>a, <1>d, GotoTypes, Locations DEF StageAll, LocalTypes
  <2>4. \A q \in Process \ {p} : txn'[q] = txn[q]
      BY <1>1, <1>a DEF StageAll, DiskTypes
  <2>5. BackupInv' /\ \A t \in Target : Gone(t) => Gone(t)'
      BY <1>1 DEF StageAll, BackupInv, Gone
  <2> QED  BY <1>1, <2>1, <2>2, <2>3, <2>4, <2>5, Locations, TypesSplit, InstallFrame DEF StageAll
<1>2. CASE Reserve(p)
  <2>1. pc[p] \notin Early
      BY <1>2, Locations DEF Reserve
  <2>2. txn' \in [Process -> [owner : Owner \cup {Absent}, had : SUBSET Target]]
    <3>1. [txn[p] EXCEPT !.had = @ \cup {i[p]}] \in [owner : Owner \cup {Absent}, had : SUBSET Target]
        BY <1>a DEF DiskTypes
    <3>2. txn' = txn \/ txn' = [txn EXCEPT ![p] = [txn[p] EXCEPT !.had = @ \cup {i[p]}]]
        BY <1>2 DEF Reserve
    <3> QED  BY <1>a, <3>1, <3>2 DEF DiskTypes
  <2>3. /\ pc'[p] \in {"reserving", "journaling"} /\ LocalTypes'
        /\ \A q \in Process \ {p} : pc'[q] = pc[q] /\ i'[q] = i[q]
      BY <1>2, <1>a, UpFromTypes, Locations DEF Reserve, LocalTypes
  <2>4. DiskTypes' /\ \A q \in Process \ {p} : txn'[q] = txn[q]
      BY <1>2, <1>a, <2>2 DEF Reserve, DiskTypes, disk
  <2>5. BackupInv' /\ \A t \in Target : Gone(t) => Gone(t)'
      BY <1>2 DEF Reserve, BackupInv, Gone, disk
  <2> QED  BY <1>2, <2>1, <2>3, <2>4, <2>5, Locations, TypesSplit, InstallFrame DEF Reserve
<1>3. CASE WriteJournal(p)
  <2>1. pc[p] \notin Early
      BY <1>3, Locations DEF WriteJournal
  <2>2. DiskTypes'
      BY <1>3, <1>a DEF WriteJournal, DiskTypes
  <2>3. /\ pc'[p] = "backingUp" /\ LocalTypes'
        /\ \A q \in Process \ {p} : pc'[q] = pc[q] /\ i'[q] = i[q]
      BY <1>3, <1>a, <1>d, GotoTypes, Locations DEF WriteJournal, LocalTypes
  <2>4. BackupInv' /\ \A t \in Target : Gone(t) => Gone(t)'
      BY <1>3 DEF WriteJournal, BackupInv, Gone
  <2> QED  BY <1>3, <2>1, <2>2, <2>3, <2>4, Locations, TypesSplit, InstallFrame DEF WriteJournal
<1>4. CASE BackUp(p)
  <2>1. pc[p] \notin Early
      BY <1>4, Locations DEF BackUp
  <2>2. /\ target[i[p]] # Killed /\ target[i[p]] \in Content
      BY <1>a, <1>c, <1>e, <2>1 DEF AllGone, Gone
  <2>3. /\ DiskTypes' /\ backedUp' \in [Process -> SUBSET Target]
        /\ BackupInv' /\ \A t \in Target : Gone(t) => Gone(t)'
    <3>1. UNCHANGED <<staged, journal, txn>>
        BY <1>4 DEF BackUp
    <3>2. CASE i[p] \in txn[p].had
      <4>1. /\ SetBackup(p, i[p], target[i[p]]) /\ SetTarget(i[p], Absent)
            /\ backedUp' = [backedUp EXCEPT ![p] = @ \cup {i[p]}]
          BY <1>4, <3>2 DEF BackUp
      <4>2. DiskTypes'
          BY <1>a, <1>b, <2>2, <3>1, <4>1, SetTargetOnly, SetBackupOnly DEF DiskTypes
      <4>3. backedUp' \in [Process -> SUBSET Target]
          BY <1>a, <4>1 DEF LocalTypes
      <4>4. BackupInv'
          BY <1>a, <2>2, <4>1, SetBackupOnly DEF BackupInv
      <4>5. \A t \in Target : Gone(t) => Gone(t)'
          BY <1>a, <1>b, <4>1, SetTargetOnly DEF Gone
      <4> QED  BY <4>2, <4>3, <4>4, <4>5
    <3>3. CASE i[p] \notin txn[p].had
      <4>1. UNCHANGED <<backup, target, backedUp>>
          BY <1>4, <3>3 DEF BackUp
      <4> QED  BY <1>a, <3>1, <4>1 DEF DiskTypes, LocalTypes, BackupInv, Gone
    <3> QED  BY <3>2, <3>3
  <2>4. /\ pc'[p] \in {"backingUp", "committing"} /\ LocalTypes'
        /\ \A q \in Process \ {p} : pc'[q] = pc[q] /\ i'[q] = i[q]
      BY <1>4, <1>a, <2>3, UpFromTypes, Locations DEF BackUp, LocalTypes
  <2> QED  BY <1>4, <2>1, <2>3, <2>4, Locations, TypesSplit, InstallFrame DEF BackUp
<1>5. CASE Commit(p)
  <2>1. pc[p] \notin Early
      BY <1>5, Locations DEF Commit
  <2>2. DiskTypes'
      BY <1>5, <1>a, <1>b DEF Commit, DiskTypes, SetTarget
  <2>3. /\ pc'[p] \in {"committing", "commitPoint"} /\ LocalTypes'
        /\ \A q \in Process \ {p} : pc'[q] = pc[q] /\ i'[q] = i[q]
    <3>1. committed' \in [Process -> SUBSET Target]
        BY <1>5, <1>a DEF Commit, LocalTypes
    <3> QED  BY <1>5, <1>a, <3>1, UpFromTypes, Locations DEF Commit, LocalTypes
  <2>4. BackupInv' /\ \A t \in Target : Gone(t) => Gone(t)'
      BY <1>5, <1>a DEF Commit, DiskTypes, SetTarget, BackupInv, Gone
  <2> QED  BY <1>5, <2>1, <2>2, <2>3, <2>4, Locations, TypesSplit, InstallFrame DEF Commit
<1>6. CASE CommitPoint(p)
  <2>1. pc[p] \notin Early
      BY <1>6, Locations DEF CommitPoint
  <2>2. DiskTypes'
      BY <1>6, <1>a DEF CommitPoint, DiskTypes, NoJournal
  <2>3. /\ pc'[p] \in {"discarding"} /\ LocalTypes'
        /\ \A q \in Process \ {p} : pc'[q] = pc[q] /\ i'[q] = i[q]
      BY <1>6, <1>a, <1>d, GotoTypes, Locations DEF CommitPoint, LocalTypes
  <2>4. BackupInv' /\ \A t \in Target : Gone(t) => Gone(t)'
      BY <1>6 DEF CommitPoint, BackupInv, Gone
  <2> QED  BY <1>6, <2>1, <2>2, <2>3, <2>4, Locations, TypesSplit, InstallFrame DEF CommitPoint
<1>7. CASE BackOut(p)
  <2>1. pc[p] \notin Early
      BY <1>7, Locations DEF BackOut
  <2>2. DiskTypes'
      BY <1>7, <1>a DEF BackOut, DiskTypes, disk
  <2>3. /\ pc'[p] \in {"undoing"} /\ LocalTypes'
        /\ \A q \in Process \ {p} : pc'[q] = pc[q] /\ i'[q] = i[q]
      BY <1>7, <1>a, <1>d, GotoTypes, Locations DEF BackOut, LocalTypes
  <2>4. BackupInv' /\ \A t \in Target : Gone(t) => Gone(t)'
      BY <1>7 DEF BackOut, BackupInv, Gone, disk
  <2> QED  BY <1>7, <2>1, <2>2, <2>3, <2>4, Locations, TypesSplit, InstallFrame DEF BackOut
<1>8. CASE DiscardBackup(p)
  <2>1. pc[p] \notin Early
      BY <1>8, Locations DEF DiscardBackup
  <2>2. DiskTypes'
      BY <1>8, <1>a, <1>b, <1>e DEF DiscardBackup, DiskTypes, SetBackup
  <2>3. /\ pc'[p] \in {"discarding", "installed"} /\ LocalTypes'
        /\ \A q \in Process \ {p} : pc'[q] = pc[q] /\ i'[q] = i[q]
      BY <1>8, <1>a, <1>d, UpFromTypes, Locations DEF DiscardBackup, LocalTypes
  <2>4. BackupInv' /\ \A t \in Target : Gone(t) => Gone(t)'
      BY <1>8, <1>a, <1>b DEF DiscardBackup, DiskTypes, SetBackup, BackupInv, Gone
  <2> QED  BY <1>8, <2>1, <2>2, <2>3, <2>4, Locations, TypesSplit, InstallFrame DEF DiscardBackup
<1>9. CASE Undo(p)
  <2>1. pc[p] \notin Early
      BY <1>9, Locations DEF Undo
  <2>2. DiskTypes'
      BY <1>9, <1>a, <1>b DEF Undo, DiskTypes, SetTarget
  <2>3. /\ pc'[p] \in {"restoring"} /\ LocalTypes'
        /\ \A q \in Process \ {p} : pc'[q] = pc[q] /\ i'[q] = i[q]
    <3>1. committed' \in [Process -> SUBSET Target]
        BY <1>9, <1>a DEF Undo, LocalTypes
    <3> QED  BY <1>9, <1>a, <3>1, GotoTypes, Locations DEF Undo, LocalTypes
  <2>4. BackupInv' /\ \A t \in Target : Gone(t) => Gone(t)'
      BY <1>9, <1>a, <1>b DEF Undo, DiskTypes, SetTarget, BackupInv, Gone
  <2> QED  BY <1>9, <2>1, <2>2, <2>3, <2>4, Locations, TypesSplit, InstallFrame DEF Undo
<1>10. CASE Restore(p)
  <2>1. pc[p] \notin Early
      BY <1>10, Locations DEF Restore
  <2>2. /\ DiskTypes' /\ backedUp' \in [Process -> SUBSET Target]
        /\ BackupInv' /\ \A t \in Target : Gone(t) => Gone(t)'
    <3>1. UNCHANGED <<staged, journal, txn>>
        BY <1>10 DEF Restore
    <3>2. CASE i[p] \in backedUp[p] /\ backup[p][i[p]] # Absent /\ Replaceable(i[p])
      <4>1. /\ SetTarget(i[p], backup[p][i[p]]) /\ SetBackup(p, i[p], Absent)
            /\ backedUp' = [backedUp EXCEPT ![p] = @ \ {i[p]}]
          BY <1>10, <3>2 DEF Restore
      <4>2. backup[p][i[p]] \in Content /\ backup[p][i[p]] # Killed
          BY <1>a, <1>e DEF BackupInv
      <4>3. DiskTypes'
          BY <1>a, <1>b, <3>1, <4>1, <4>2, SetTargetOnly, SetBackupOnly DEF DiskTypes
      <4>4. backedUp' \in [Process -> SUBSET Target]
          BY <1>a, <4>1 DEF LocalTypes
      <4>5. BackupInv'
          BY <1>a, <1>b, <4>1, SetBackupOnly DEF BackupInv
      <4>6. \A t \in Target : Gone(t) => Gone(t)'
          BY <1>a, <4>1, <4>2, SetTargetOnly DEF Gone
      <4> QED  BY <4>3, <4>4, <4>5, <4>6
    <3>3. CASE ~(i[p] \in backedUp[p] /\ backup[p][i[p]] # Absent /\ Replaceable(i[p]))
      <4>1. UNCHANGED <<target, backup, backedUp>>
          BY <1>10, <3>3 DEF Restore
      <4> QED  BY <1>a, <3>1, <4>1 DEF DiskTypes, LocalTypes, BackupInv, Gone
    <3> QED  BY <3>2, <3>3
  <2>3. /\ pc'[p] \in {"undoing", "rolledBack"} /\ LocalTypes'
        /\ \A q \in Process \ {p} : pc'[q] = pc[q] /\ i'[q] = i[q]
      BY <1>10, <1>a, <2>2, DownFromTypes, Locations DEF Restore, LocalTypes
  <2> QED  BY <1>10, <2>1, <2>2, <2>3, Locations, TypesSplit, InstallFrame DEF Restore
<1>11. CASE CloseRollback(p)
  <2>1. pc[p] \notin Early
      BY <1>11, Locations DEF CloseRollback
  <2>2. DiskTypes'
      BY <1>11, <1>a DEF CloseRollback, DiskTypes, NoJournal
  <2>3. /\ pc'[p] \in {"unstaging"} /\ LocalTypes'
        /\ \A q \in Process \ {p} : pc'[q] = pc[q] /\ i'[q] = i[q]
      BY <1>11, <1>a, <1>d, GotoTypes, Locations DEF CloseRollback, LocalTypes
  <2>4. BackupInv' /\ \A t \in Target : Gone(t) => Gone(t)'
      BY <1>11 DEF CloseRollback, BackupInv, Gone
  <2> QED  BY <1>11, <2>1, <2>2, <2>3, <2>4, Locations, TypesSplit, InstallFrame DEF CloseRollback
<1>12. CASE Unstage(p)
  <2>1. pc[p] \notin Early
      BY <1>12, Locations DEF Unstage
  <2>2. DiskTypes'
      BY <1>12, <1>a DEF Unstage, DiskTypes
  <2>3. /\ pc'[p] \in {"unstaging", "failed"} /\ LocalTypes'
        /\ \A q \in Process \ {p} : pc'[q] = pc[q] /\ i'[q] = i[q]
      BY <1>12, <1>a, <1>d, UpFromTypes, Locations DEF Unstage, LocalTypes
  <2>4. BackupInv' /\ \A t \in Target : Gone(t) => Gone(t)'
      BY <1>12 DEF Unstage, BackupInv, Gone
  <2> QED  BY <1>12, <2>1, <2>2, <2>3, <2>4, Locations, TypesSplit, InstallFrame DEF Unstage
<1> QED  BY <1>1, <1>2, <1>3, <1>4, <1>5, <1>6, <1>7, <1>8, <1>9, <1>10, <1>11, <1>12 DEF InstallStep

-----------------------------------------------------------------------------
(* The recovery *)

LEMMA InitHolds == ConstantsAssumption /\ Init => IInv
<1> SUFFICES ASSUME ConstantsAssumption, Init PROVE IInv
    OBVIOUS
<1>1. ProcessesStart
    BY DEF Init, InitClean, InitInterrupted
<1>2. /\ DiskTypes /\ BackupInv /\ JournalInv
  <2>1. CASE InitClean
    <3> PICK had \in {{}, Target} : Clean(had)
        BY <2>1 DEF InitClean
    <3> QED  BY <1>1 DEF Clean, DiskTypes, BackupInv, JournalInv, AllGone, Gone, ProcessesStart,
               NoJournal, Nothing, Content, Owner, ConstantsAssumption
  <2>2. CASE InitInterrupted
    <3> PICK had \in {{}, Target}, b \in 0..3, c \in 0..3 : (c > 0 => b = 3) /\ LeftBehind(had, b, c)
        BY <2>2 DEF InitInterrupted
    <3>1. /\ journal = [owner |-> Killed, had |-> had]
          /\ \A o \in Owner, t \in Target :
                backup[o][t] = IF o = Killed /\ t \in had /\ t <= b THEN Old ELSE Absent
      <4>1. journal = [owner |-> Killed, had |-> had]
          BY DEF LeftBehind
      <4>2. backup = [o \in Owner |-> [t \in Target |->
                         IF o = Killed /\ t \in had /\ t <= b THEN Old ELSE Absent]]
          BY DEF LeftBehind
      <4> QED  BY <4>1, <4>2
    <3>2. Recognizable(had)
      <4>1. staged = [o \in Owner |-> [t \in Target |-> o = Killed /\ t > c]]
          BY DEF LeftBehind
      <4>2. target = [t \in Target |->
                         CASE t <= c -> Killed
                           [] t > c /\ t \in had /\ t > b -> Old
                           [] OTHER -> Absent]
          BY DEF LeftBehind
      <4>3. Old # Killed /\ Absent # Killed /\ Old # Absent /\ Killed \in Owner
          BY DEF ConstantsAssumption, Owner
      <4> SUFFICES ASSUME NEW t \in Target, ~Gone(t)
                   PROVE  IF t \in had THEN backup[Killed][t] # Absent ELSE ~staged[Killed][t]
          BY DEF Recognizable
      <4>4. t <= c /\ ~(t > c)
          BY <4>2, <4>3 DEF Gone, Target
      <4>5. b = 3 /\ t <= b
          BY <4>4 DEF Target
      <4>6. ~staged[Killed][t]
          BY <4>1, <4>3, <4>4
      <4>7. t \in had => backup[Killed][t] = Old
          BY <3>1, <4>3, <4>5
      <4> QED  BY <4>3, <4>6, <4>7
    <3>3. BackupInv
        BY <3>1 DEF BackupInv, Owner, ConstantsAssumption
    <3>4. had \in SUBSET Target /\ NoJournal \in [owner : Owner \cup {Absent}, had : SUBSET Target]
        BY DEF NoJournal
    <3>5. target \in [Target -> Content]
        BY <3>1 DEF LeftBehind, Content, Owner
    <3>6. staged \in [Owner -> [Target -> BOOLEAN]]
        BY DEF LeftBehind
    <3>7. backup \in [Owner -> [Target -> Content]]
        BY DEF LeftBehind, Content
    <3>8. /\ journal \in [owner : Owner \cup {Absent}, had : SUBSET Target]
          /\ txn \in [Process -> [owner : Owner \cup {Absent}, had : SUBSET Target]]
        BY <1>1, <3>1, <3>4 DEF ProcessesStart, Owner
    <3> QED  BY <3>1, <3>2, <3>3, <3>5, <3>6, <3>7, <3>8 DEF DiskTypes, JournalInv
  <2> QED  BY <2>1, <2>2 DEF Init
<1>3. LocalTypes
  <2>1. 1 \in Target /\ "start" \in Location /\ Nothing \in [Target -> Content]
      BY DEF Target, Location, Nothing, Content
  <2>2. NotLooked \in [backup : BOOLEAN, staged : BOOLEAN]
      BY DEF NotLooked
  <2> QED  BY <1>1, <2>1, <2>2 DEF LocalTypes, ProcessesStart
<1>4. RecoveryInv
    BY <1>1 DEF RecoveryInv, RecoverOK, ProcessesStart, Early, Recovering
<1>5. ViewInv
    BY <1>1 DEF ViewInv, ProcessesStart, Nothing, ConstantsAssumption, Owner
<1> QED  BY <1>2, <1>3, <1>4, <1>5, TypesSplit DEF IInv

\* Run looks for a journal first: without one, or with that of a command that
\* was past its own recovery, nothing of the killed installer is left.
LEMMA StartKeeps ==
    ASSUME ConstantsAssumption, IInv, NEW p \in Process, Start(p) PROVE IInv'
<1> USE DEF IInv
<1>a. DiskTypes /\ LocalTypes
    BY TypesSplit
<1>1. UNCHANGED <<target, staged, backup, journal, looked, backedUp, committed, failed, view>>
    BY DEF Start, disk
<1>2. txn' = [txn EXCEPT ![p] = journal] /\ txn'[p] = journal
    BY <1>a DEF Start, DiskTypes
<1>3. DiskTypes'
    BY <1>a, <1>1, <1>2 DEF DiskTypes
<1>4. /\ LocalTypes'
      /\ \A q \in Process \ {p} : pc'[q] = pc[q] /\ i'[q] = i[q]
      /\ journal.owner = Absent => pc'[p] = "ready"
      /\ journal.owner # Absent => pc'[p] = "recovering" /\ i'[p] = 3
  <2>1. 1 \in Target /\ 3 \in Target /\ "ready" \in Location /\ "recovering" \in Location
      BY DEF Target, Location, Recovering
  <2> QED  BY <1>a, <1>1, <2>1, GotoTypes DEF Start, LocalTypes
<1>5. Fades /\ BackupInv'
    BY <1>1 DEF Fades, Gone, BackupInv
<1>6. RecoverOK(p)'
  <2>1. CASE journal.owner = Absent
    <3>1. AllGone'
        BY <1>1, <2>1 DEF JournalInv, AllGone, Gone, ConstantsAssumption, Owner
    <3> QED  BY <1>4, <2>1, <3>1 DEF RecoverOK, Recovering
  <2>2. CASE journal.owner # Absent
    <3>1. IF journal.owner = Killed THEN Recognizable(journal.had)' ELSE AllGone'
        BY <1>1 DEF JournalInv, AllGone, Gone, Recognizable
    <3>2. Dealt(p)'
        BY <1>4, <2>2 DEF Dealt, Target
    <3> QED  BY <1>1, <1>2, <1>4, <2>2, <3>1, <3>2 DEF RecoverOK, Recovering, Early, Recognizable
  <2> QED  BY <2>1, <2>2
<1>7. \A t \in Target : view'[p][t] # Killed
    BY <1>1 DEF ViewInv
<1> QED  BY <1>a, <1>1, <1>2, <1>3, <1>4, <1>5, <1>6, <1>7, TypesSplit, Frame DEF DiskTypes

LEMMA LoadKeeps ==
    ASSUME ConstantsAssumption, IInv, NEW p \in Process, LoadRegistry(p) PROVE IInv'
<1> USE DEF IInv
<1>a. DiskTypes /\ LocalTypes
    BY TypesSplit
<1>1. AllGone /\ pc[p] \notin Early
    BY Locations DEF LoadRegistry, RecoveryInv, RecoverOK
<1>2. UNCHANGED <<target, staged, backup, journal, txn, looked, backedUp, committed, failed>>
    BY DEF LoadRegistry, disk
<1>3. view' = [view EXCEPT ![p] = target] /\ view'[p] = target
    BY <1>a DEF LoadRegistry, LocalTypes
<1>4. /\ LocalTypes' /\ pc'[p] = "loaded"
      /\ \A q \in Process \ {p} : pc'[q] = pc[q] /\ i'[q] = i[q] /\ view'[q] = view[q]
  <2>1. 1 \in Target /\ "loaded" \in Location
      BY DEF Target, Location, Finished
  <2> QED  BY <1>a, <1>2, <1>3, <2>1, GotoTypes DEF LoadRegistry, LocalTypes, DiskTypes
<1>5. DiskTypes' /\ Fades /\ BackupInv'
    BY <1>a, <1>2 DEF DiskTypes, Fades, Gone, BackupInv
<1>6. RecoverOK(p)'
    BY <1>1, <1>2, <1>4 DEF RecoverOK, Recovering, AllGone, Gone
<1>7. \A t \in Target : view'[p][t] # Killed
    BY <1>1, <1>3 DEF AllGone, Gone
<1> QED  BY <1>2, <1>4, <1>5, <1>6, <1>7, TypesSplit, Frame

\* In its recovery a command has to account for what it has dealt with only.
LEMMA RecoveryFrame ==
    ASSUME IInv, TypeOK', NEW p \in Process, pc[p] \in Recovering, pc'[p] \in Recovering,
           Fades, BackupInv', UNCHANGED <<journal, txn, view>>,
           \A q \in Process \ {p} :
               pc'[q] = pc[q] /\ i'[q] = i[q] /\ looked'[q] = looked[q] /\ failed'[q] = failed[q],
           txn[p].owner = Killed /\ Recognizable(txn[p].had) /\ ~failed'[p] => Dealt(p)'
    PROVE  IInv'
<1>1. pc'[p] \in Early
    BY DEF Early
<1>2. RecoverOK(p)
    BY DEF IInv, RecoveryInv
<1>3. Recognizable(txn[p].had) => Recognizable(txn[p].had)'
    BY DEF Recognizable, Fades
<1>4. AllGone => AllGone'
    BY DEF AllGone, Fades, Gone
<1>5. RecoverOK(p)'
    BY <1>1, <1>2, <1>3, <1>4 DEF RecoverOK
<1>6. \A t \in Target : view'[p][t] # Killed
    BY DEF IInv, ViewInv
<1> QED  BY <1>5, <1>6, Frame

\* recoverRegistryInstallTransaction, target by target from the last to the first.
LEMMA RecoveryKeeps ==
    ASSUME ConstantsAssumption, IInv, NEW p \in Process, RecoveryStep(p) PROVE IInv'
<1> USE DEF IInv
<1>a. DiskTypes /\ LocalTypes /\ i[p] \in Target
    BY TypesSplit DEF LocalTypes
<1>b. pc[p] \in Recovering
    BY DEF RecoveryStep, Look, Remove, Reinstate, DropStaged, CloseRecovery, Recovering
<1>c. RecoverOK(p) /\ txn[p].owner \in Owner /\ txn[p].had \in SUBSET Target
    BY <1>a, <1>b DEF RecoveryInv, RecoverOK, DiskTypes
<1>d. backup[txn[p].owner] \in [Target -> Content] /\ staged[txn[p].owner] \in [Target -> BOOLEAN]
    BY <1>a, <1>c DEF DiskTypes
<1>e. Absent \in Content /\ Absent # Killed
    BY DEF Content, ConstantsAssumption, Owner
<1>f. Recovering \subseteq Location /\ {"ready", "failed"} \subseteq Location /\ 1 \in Target
    BY DEF Location, Finished, Target
<1>g. AllGone => \A had : Recognizable(had)
    BY DEF AllGone, Recognizable
<1>h. \A t \in Target : view[p][t] # Killed
    BY DEF ViewInv
<1>1. CASE Look(p)
  <2>1. UNCHANGED <<target, staged, backup, journal, txn, backedUp, committed, failed, view>>
      BY <1>1 DEF Look, disk
  <2>2. /\ looked'[p].backup <=> backup[txn[p].owner][i[p]] # Absent
        /\ looked'[p].staged <=> staged[txn[p].owner][i[p]]
        /\ looked' \in [Process -> [backup : BOOLEAN, staged : BOOLEAN]]
        /\ \A q \in Process \ {p} : looked'[q] = looked[q]
    <3>1. [backup |-> backup[txn[p].owner][i[p]] # Absent, staged |-> staged[txn[p].owner][i[p]]]
             \in [backup : BOOLEAN, staged : BOOLEAN]
        BY <1>a, <1>d
    <3> QED  BY <1>1, <1>a, <3>1 DEF Look, LocalTypes
  <2>3. /\ pc'[p] = "removing" /\ i'[p] = i[p]
        /\ pc' \in [Process -> Location] /\ i' \in [Process -> Target]
        /\ \A q \in Process \ {p} : pc'[q] = pc[q] /\ i'[q] = i[q]
    <3>1. "removing" \in Location
        BY <1>f DEF Recovering
    <3> QED  BY <1>1, <1>a, <3>1, GotoTypes DEF Look
  <2>4. DiskTypes' /\ LocalTypes' /\ Fades /\ BackupInv'
      BY <1>a, <2>1, <2>2, <2>3 DEF DiskTypes, LocalTypes, Fades, Gone, BackupInv
  <2>5. ASSUME txn[p].owner = Killed, Recognizable(txn[p].had), ~failed'[p] PROVE Dealt(p)'
    <3>1. Dealt(p)
        BY <1>b, <1>c, <2>1, <2>5 DEF RecoverOK
    <3>2. Gone(i[p]) \/ looked'[p].backup \/ (i[p] \notin txn[p].had /\ ~looked'[p].staged)
        BY <1>a, <2>2, <2>5 DEF Recognizable
    <3> QED  BY <2>1, <2>3, <3>1, <3>2 DEF Dealt, Gone
  <2> QED  BY <1>b, <2>1, <2>2, <2>3, <2>4, <2>5, TypesSplit, RecoveryFrame DEF Recovering
<1>2. CASE Remove(p)
  <2>1. UNCHANGED <<staged, backup, journal, txn, looked, backedUp, committed, failed, view>>
      BY <1>2 DEF Remove
  <2>2. DEFINE removes == looked[p].backup \/ (i[p] \notin txn[p].had /\ ~looked[p].staged)
  <2>3. /\ target' \in [Target -> Content]
        /\ \A t \in Target : target'[t] = target[t] \/ target'[t] = Absent
        /\ removes => target'[i[p]] = Absent
        /\ ~removes => target' = target
    <3>1. CASE removes
      <4>1. SetTarget(i[p], Absent)
          BY <1>2, <3>1 DEF Remove
      <4> QED  BY <1>a, <1>e, <3>1, <4>1, SetTargetOnly
    <3>2. CASE ~removes
        BY <1>2, <1>a, <3>2 DEF Remove, DiskTypes
    <3> QED  BY <3>1, <3>2
  <2>4. /\ pc'[p] \in {"reinstating", "dropping"} /\ i'[p] = i[p]
        /\ pc' \in [Process -> Location] /\ i' \in [Process -> Target]
        /\ \A q \in Process \ {p} : pc'[q] = pc[q] /\ i'[q] = i[q]
    <3>1. "reinstating" \in Location /\ "dropping" \in Location
        BY <1>f DEF Recovering
    <3>2. PICK l \in {"reinstating", "dropping"} : Goto(p, l, i[p])
        BY <1>2 DEF Remove
    <3> QED  BY <1>a, <3>1, <3>2, GotoTypes
  <2>5. DiskTypes' /\ LocalTypes' /\ Fades /\ BackupInv'
      BY <1>a, <1>e, <2>1, <2>3, <2>4 DEF DiskTypes, LocalTypes, Fades, Gone, BackupInv
  <2>6. ASSUME txn[p].owner = Killed, Recognizable(txn[p].had), ~failed'[p] PROVE Dealt(p)'
    <3>1. Dealt(p) /\ pc[p] = "removing"
        BY <1>2, <1>b, <1>c, <2>1, <2>6 DEF RecoverOK, Remove
    <3>2. Gone(i[p])'
        BY <1>a, <1>e, <2>3, <2>4, <3>1 DEF Dealt, Gone
    <3>3. \A t \in Target : Gone(t) => Gone(t)'
        BY <1>e, <2>3 DEF Gone
    <3> QED  BY <1>a, <2>4, <3>1, <3>2, <3>3 DEF Dealt
  <2> QED  BY <1>b, <2>1, <2>4, <2>5, <2>6, TypesSplit, RecoveryFrame DEF Recovering
<1>3. CASE Reinstate(p)
  <2> DEFINE b == backup[txn[p].owner][i[p]]
  <2>1. /\ pc[p] = "reinstating"
        /\ UNCHANGED <<staged, journal, txn, looked, backedUp, committed, view>>
      BY <1>3 DEF Reinstate
  <2>2. b \in Content /\ b # Killed
      BY <1>a, <1>c, <1>d DEF BackupInv
  <2>3. CASE b # Absent /\ Replaceable(i[p])
    <3>1. /\ SetTarget(i[p], b) /\ SetBackup(txn[p].owner, i[p], Absent)
          /\ Goto(p, "dropping", i[p]) /\ UNCHANGED failed
        BY <1>3, <2>3 DEF Reinstate
    <3>2. /\ target' \in [Target -> Content]
          /\ \A t \in Target : target'[t] = IF t = i[p] THEN b ELSE target[t]
        BY <1>a, <2>2, <3>1, SetTargetOnly
    <3>3. /\ backup' \in [Owner -> [Target -> Content]]
          /\ \A q \in Owner, t \in Target :
                backup'[q][t] = IF q = txn[p].owner /\ t = i[p] THEN Absent ELSE backup[q][t]
        BY <1>a, <1>c, <1>e, <3>1, SetBackupOnly
    <3>4. /\ pc'[p] = "dropping" /\ i'[p] = i[p]
          /\ pc' \in [Process -> Location] /\ i' \in [Process -> Target]
          /\ \A q \in Process \ {p} : pc'[q] = pc[q] /\ i'[q] = i[q]
      <4>1. "dropping" \in Location
          BY <1>f DEF Recovering
      <4> QED  BY <1>a, <3>1, <4>1, GotoTypes
    <3>5. DiskTypes' /\ LocalTypes'
        BY <1>a, <2>1, <3>1, <3>2, <3>3, <3>4 DEF DiskTypes, LocalTypes
    <3>6. BackupInv'
        BY <1>e, <3>3 DEF BackupInv
    <3>7. Fades
        BY <2>1, <2>2, <3>2, <3>3 DEF Fades, Gone, Owner
    <3>8. ASSUME txn[p].owner = Killed, ~failed'[p] PROVE Dealt(p)'
      <4>1. Dealt(p)
          BY <1>b, <1>c, <3>1, <3>8 DEF RecoverOK
      <4> QED  BY <1>a, <2>2, <3>2, <3>4, <4>1 DEF Dealt, Gone
    <3> HIDE DEF b
    <3> QED  BY <1>b, <2>1, <3>1, <3>4, <3>5, <3>6, <3>7, <3>8, TypesSplit, RecoveryFrame DEF Recovering
  <2>4. CASE ~(b # Absent /\ Replaceable(i[p]))
    <3>1. /\ failed' = [failed EXCEPT ![p] = TRUE]
          /\ DownFrom(p, "recovering", "recovered") /\ UNCHANGED <<target, backup>>
        BY <1>3, <2>4 DEF Reinstate
    <3>2. /\ failed' \in [Process -> BOOLEAN] /\ failed'[p]
          /\ \A q \in Process \ {p} : failed'[q] = failed[q]
        BY <1>a, <3>1 DEF LocalTypes
    <3>3. /\ pc'[p] \in {"recovering", "recovered"}
          /\ pc' \in [Process -> Location] /\ i' \in [Process -> Target]
          /\ \A q \in Process \ {p} : pc'[q] = pc[q] /\ i'[q] = i[q]
      <4>1. "recovering" \in Location /\ "recovered" \in Location
          BY <1>f DEF Recovering
      <4> QED  BY <1>a, <3>1, <4>1, DownFromTypes
    <3>4. DiskTypes' /\ LocalTypes' /\ Fades /\ BackupInv'
        BY <1>a, <2>1, <3>1, <3>2, <3>3 DEF DiskTypes, LocalTypes, Fades, Gone, BackupInv
    <3> QED  BY <1>b, <2>1, <3>2, <3>3, <3>4, TypesSplit, RecoveryFrame DEF Recovering
  <2> QED  BY <2>3, <2>4
<1>4. CASE DropStaged(p)
  <2>1. /\ pc[p] = "dropping" /\ DownFrom(p, "recovering", "recovered")
        /\ staged' = [staged EXCEPT ![txn[p].owner][i[p]] = FALSE]
        /\ UNCHANGED <<target, backup, journal, txn, looked, backedUp, committed, failed, view>>
      BY <1>4 DEF DropStaged
  <2>2. /\ staged' \in [Owner -> [Target -> BOOLEAN]]
        /\ \A q \in Owner, t \in Target : staged'[q][t] => staged[q][t]
    <3>1. [staged[txn[p].owner] EXCEPT ![i[p]] = FALSE] \in [Target -> BOOLEAN]
        BY <1>d
    <3>2. staged' = [staged EXCEPT ![txn[p].owner] = [staged[txn[p].owner] EXCEPT ![i[p]] = FALSE]]
        BY <2>1
    <3> QED  BY <1>a, <1>c, <1>d, <3>1, <3>2 DEF DiskTypes
  <2>3. /\ pc'[p] \in {"recovering", "recovered"}
        /\ pc' \in [Process -> Location] /\ i' \in [Process -> Target]
        /\ \A q \in Process \ {p} : pc'[q] = pc[q] /\ i'[q] = i[q]
        /\ pc'[p] = "recovering" => \A t \in Target : t > i'[p] => t >= i[p]
        /\ pc'[p] = "recovered" => \A t \in Target : t >= i[p]
    <3>1. "recovering" \in Location /\ "recovered" \in Location
        BY <1>f DEF Recovering
    <3> QED  BY <1>a, <2>1, <3>1, DownFromTypes
  <2>4. DiskTypes' /\ LocalTypes' /\ Fades /\ BackupInv'
      BY <1>a, <2>1, <2>2, <2>3 DEF DiskTypes, LocalTypes, Fades, Gone, BackupInv, Owner
  <2>5. ASSUME txn[p].owner = Killed, ~failed'[p] PROVE Dealt(p)'
    <3>1. Dealt(p)
        BY <1>b, <1>c, <2>1, <2>5 DEF RecoverOK
    <3>2. \A t \in Target : t >= i[p] => Gone(t)
        BY <1>a, <2>1, <3>1 DEF Dealt, Target
    <3> QED  BY <2>1, <2>3, <2>4, <3>2 DEF Dealt, Gone, AllGone, LocalTypes, Target
  <2> QED  BY <1>b, <2>1, <2>3, <2>4, <2>5, TypesSplit, RecoveryFrame DEF Recovering
<1>5. CASE CloseRecovery(p)
  <2>1. /\ pc[p] = "recovered"
        /\ UNCHANGED <<target, staged, backup, txn, looked, backedUp, committed, failed, view>>
        /\ failed[p] => Goto(p, "failed", 1) /\ UNCHANGED journal
        /\ ~failed[p] => Goto(p, "ready", 1) /\ journal' = NoJournal
      BY <1>5 DEF CloseRecovery
  <2>2. ~failed[p] => AllGone
      BY <1>b, <1>c, <2>1 DEF RecoverOK, Dealt
  <2>3. /\ pc'[p] = IF failed[p] THEN "failed" ELSE "ready"
        /\ pc' \in [Process -> Location] /\ i' \in [Process -> Target]
        /\ \A q \in Process \ {p} : pc'[q] = pc[q] /\ i'[q] = i[q]
    <3>1. CASE failed[p]
        BY <1>a, <1>f, <2>1, <3>1, GotoTypes
    <3>2. CASE ~failed[p]
        BY <1>a, <1>f, <2>1, <3>2, GotoTypes
    <3> QED  BY <3>1, <3>2
  <2>4. journal' \in [owner : Owner \cup {Absent}, had : SUBSET Target]
      BY <1>a, <2>1 DEF DiskTypes, NoJournal
  <2>5. DiskTypes' /\ LocalTypes' /\ Fades /\ BackupInv'
      BY <1>a, <2>1, <2>3, <2>4 DEF DiskTypes, LocalTypes, Fades, Gone, BackupInv
  <2>6. RecoverOK(p)'
    <3>1. pc'[p] \notin Recovering /\ (failed[p] => pc'[p] \in Early)
        BY <2>3 DEF Recovering, Early
    <3>2. ~failed[p] => AllGone'
        BY <2>1, <2>2 DEF AllGone, Gone
    <3> QED  BY <3>1, <3>2 DEF RecoverOK
  <2>7. journal' = journal \/ AllGone
      BY <2>1, <2>2
  <2> QED  BY <1>h, <2>1, <2>3, <2>5, <2>6, <2>7, TypesSplit, Frame
<1> QED  BY <1>1, <1>2, <1>3, <1>4, <1>5 DEF RecoveryStep

-----------------------------------------------------------------------------
(* The theorems *)

LEMMA InvStep == ConstantsAssumption /\ IInv /\ [Next]_vars => IInv'
<1> SUFFICES ASSUME ConstantsAssumption, IInv, [Next]_vars PROVE IInv'
    OBVIOUS
<1>1. CASE UNCHANGED vars
  <2>1. UNCHANGED <<target, staged, backup, journal, pc, i, txn, looked, backedUp, committed, failed, view>>
      BY <1>1 DEF vars, disk, local
  <2>2. TypeOK'
      BY <2>1 DEF IInv, TypeOK
  <2>3. BackupInv' /\ JournalInv' /\ ViewInv'
      BY <2>1 DEF IInv, BackupInv, JournalInv, ViewInv, Recognizable, AllGone, Gone
  <2>4. RecoveryInv'
      BY <2>1 DEF IInv, RecoveryInv, RecoverOK, Dealt, Recognizable, AllGone, Gone
  <2> QED  BY <2>2, <2>3, <2>4 DEF IInv
<1>2. CASE Next
  <2> PICK p \in Process : Step(p)
      BY <1>2 DEF Next
  <2> QED  BY StartKeeps, LoadKeeps, InstallKeeps, RecoveryKeeps DEF Step
<1> QED  BY <1>1, <1>2

THEOREM Invariance == ASSUME ConstantsAssumption PROVE Spec => []IInv
<1>1. Init => IInv
    BY InitHolds
<1>2. IInv /\ [Next]_vars => IInv'
    BY InvStep
<1> QED  BY <1>1, <1>2, PTL DEF Spec

\* The types of the disk and of the commands on it.
THEOREM TypeCorrect == ASSUME ConstantsAssumption PROVE Spec => []TypeOK
<1>1. IInv => TypeOK
    BY DEF IInv
<1> QED  BY <1>1, Invariance, PTL

\* However many commands recover the journal of the killed installer while
\* others install, a command that gets past its recovery (Run) loads no part
\* of the interrupted install.
THEOREM NeverLoadsInterruptedHolds ==
    ASSUME ConstantsAssumption PROVE Spec => []NeverLoadsInterrupted
<1>1. IInv => NeverLoadsInterrupted
    BY DEF IInv, ViewInv, NeverLoadsInterrupted
<1> QED  BY <1>1, Invariance, PTL
=============================================================================
