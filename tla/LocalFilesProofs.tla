--------------------------- MODULE LocalFilesProofs ---------------------------
(***************************************************************************)
(* LocalFiles for any commands, subjects, times, syncs, readers and        *)
(* generations and any number of kills and failing calls.                  *)
(*                                                                         *)
(* The whole is at every step one of its parts, and the other three stand  *)
(* still, so that it implements each of them.  SyncCache and AccessState   *)
(* are proved about here; the theorems of ArtifactPairProofs and           *)
(* RegistryInstallRaceProofs carry over.                                   *)
(***************************************************************************)
EXTENDS LocalFiles, TLAPS

-----------------------------------------------------------------------------
(* The whole implements its parts *)

LEMMA StepParts ==
    ASSUME [Next0]_everything
    PROVE  /\ [Next]_vars
           /\ [Access!Next]_(Access!vars)
           /\ [Pair!Next]_(Pair!vars)
           /\ [Race!Next]_(Race!vars)
           /\ UNCHANGED part
<1> USE DEF accessVars, pairVars, raceVars, Access!vars, Pair!vars, Pair!disk, Pair!memory,
        Race!vars, Race!disk, Race!local
<1>1. CASE AccessStep
  <2>1. AccessOnly /\ Access!Next
    BY <1>1 DEF AccessStep, Access!Next
  <2> QED
    BY <2>1 DEF AccessOnly
<1>2. CASE SyncStep
  <2>1. SyncOnly /\ Next
    BY <1>2 DEF SyncStep, Next, Sync, Read
  <2> QED
    BY <2>1 DEF SyncOnly, vars
<1>3. CASE PairStep
  <2>1. PairOnly /\ Pair!Next
    BY <1>3 DEF PairStep, Pair!Next
  <2> QED
    BY <2>1 DEF PairOnly, vars
<1>4. CASE RaceStep
  <2>1. RaceOnly /\ Race!Next
    BY <1>4 DEF RaceStep, Race!Next, Race!Step, Race!InstallStep, Race!RecoveryStep
  <2> QED
    BY <2>1 DEF RaceOnly, vars
<1>5. CASE UNCHANGED everything
  BY <1>5 DEF everything, vars
<1> QED
  BY <1>1, <1>2, <1>3, <1>4, <1>5 DEF Next0

LEMMA ImplementsSync == Spec0 => Spec
<1>1. Init0 => Init
  BY DEF Init0
<1>2. [Next0]_everything => [Next]_vars
  BY StepParts
<1> QED
  BY <1>1, <1>2, PTL DEF Spec0, Spec

LEMMA ImplementsAccess == Spec0 => Access!Spec
<1>1. Init0 => Access!Init
  BY DEF Init0
<1>2. [Next0]_everything => [Access!Next]_(Access!vars)
  BY StepParts
<1> QED
  BY <1>1, <1>2, PTL DEF Spec0, Access!Spec

-----------------------------------------------------------------------------
(* SyncCache *)

\* Where a sync may have something in its backup.
Holding ==
    {"committing", "rollingBack", "discarding", "installed", "losing", "lost", "killed"}

\* Where a sync has committed, or may have been killed after its commit.
MayBeCommitted == {"discarding", "installed", "killed"}

BackupInv == \A w \in Writer : backup[w] # Absent => pc[w] \in Holding

StagedInv ==
    \A w \in staged :
        /\ pc[w] # "start"
        /\ pc[w] \in {"failed", "lost"} => w \in unclean

\* A generation is nowhere to be found before its sync has committed it.
GenerationInv ==
    \A w \in Writer :
        pc[w] \notin MayBeCommitted =>
            /\ dir # w
            /\ \A v \in Writer : backup[v] # w

\* A reader compares what it has found: the cache was there once.
ReaderInv == (\E r \in Reader : pc[r] = "comparing") => Safe

IInv == TypeOK /\ BackupInv /\ StagedInv /\ GenerationInv /\ ReaderInv
LEMMA InitHolds ==
    ASSUME ConstantsAssumption, Init
    PROVE  IInv
<1>1. TypeOK
  <2>1. faults \in 0..MaxFaults
    BY DEF ConstantsAssumption, Init
  <2> QED
    BY <2>1 DEF Init, TypeOK, Content, Generation, Locations
<1>2. BackupInv /\ StagedInv
  BY DEF Init, BackupInv, StagedInv
<1>3. GenerationInv
  BY DEF ConstantsAssumption, Init, GenerationInv, Generation
<1>4. ReaderInv
  BY DEF Init, ReaderInv
<1> QED
  BY <1>1, <1>2, <1>3, <1>4 DEF IInv

LEMMA FaultsType ==
    ASSUME ConstantsAssumption, TypeOK, Fault \/ NoFault
    PROVE  faults' \in 0..MaxFaults
BY DEF ConstantsAssumption, TypeOK, Fault, NoFault

LEMMA GotoType ==
    ASSUME TypeOK, NEW c \in Writer \cup Reader, NEW location \in Locations, Goto(c, location)
    PROVE  pc' \in [Writer \cup Reader -> Locations]
BY DEF TypeOK, Goto

LEMMA SyncType ==
    ASSUME ConstantsAssumption, TypeOK, NEW w \in Writer, Sync(w)
    PROVE  TypeOK'
<1>1. faults' \in 0..MaxFaults
  BY FaultsType
  DEF Sync, Stage, StageFails, Inspect, InspectFails, BackUp, BackUpFails, Commit, CommitFails,
      Rollback, RollbackFails, Discard, DiscardFails, Return, Clean, CleanFails, Kill
<1>2. pc' \in [Writer \cup Reader -> Locations]
  <2>1. PICK location \in Locations : Goto(w, location)
    BY DEF Sync, Stage, StageFails, Inspect, InspectFails, BackUp, BackUpFails, Commit, CommitFails,
        Rollback, RollbackFails, Discard, DiscardFails, Return, Clean, CleanFails, Kill, GiveUp, Locations
  <2> QED
    BY <2>1, GotoType
<1>3. staged' \in SUBSET Writer
  BY DEF TypeOK, Sync, Stage, StageFails, Inspect, InspectFails, BackUp, BackUpFails, Commit,
      CommitFails, Rollback, RollbackFails, Discard, DiscardFails, Return, Clean, CleanFails, Kill, GiveUp
<1>4. dir' \in Content /\ backup' \in [Writer -> Content]
  BY DEF TypeOK, Sync, Stage, StageFails, Inspect, InspectFails, BackUp, BackUpFails, Commit,
      CommitFails, Rollback, RollbackFails, Discard, DiscardFails, Return, Clean, CleanFails, Kill, Content, Generation
<1>5. UNCHANGED data /\ unclean' \in SUBSET Writer
  BY DEF TypeOK, Sync, Stage, StageFails, Inspect, InspectFails, BackUp, BackUpFails, Commit,
      CommitFails, Rollback, RollbackFails, Discard, DiscardFails, Return, Clean, CleanFails, Kill
<1> QED
  BY <1>1, <1>2, <1>3, <1>4, <1>5 DEF TypeOK

LEMMA ReadType ==
    ASSUME TypeOK, NEW r \in Reader, Read(r)
    PROVE  TypeOK'
<1>1. PICK location \in Locations : Goto(r, location)
  BY DEF Read, ReadArtifact, Compare, Locations
<1>2. pc' \in [Writer \cup Reader -> Locations]
  BY <1>1, GotoType
<1>3. data' \in [Reader -> Content]
  BY DEF TypeOK, Read, ReadArtifact, Compare
<1> QED
  BY <1>2, <1>3 DEF TypeOK, Read, ReadArtifact, Compare, NoFault

LEMMA SyncKeepsBackup ==
    ASSUME IInv, NEW w \in Writer, Sync(w)
    PROVE  BackupInv' /\ StagedInv'
<1>1. BackupInv'
  BY DEF IInv, TypeOK, BackupInv, Holding, Goto, GiveUp, Sync, Stage, StageFails, Inspect, InspectFails,
      BackUp, BackUpFails, Commit, CommitFails, Rollback, RollbackFails, Discard, DiscardFails, Return, Clean, CleanFails, Kill
<1>2. StagedInv'
  BY DEF IInv, TypeOK, StagedInv, Goto, GiveUp, Sync, Stage, StageFails, Inspect, InspectFails,
      BackUp, BackUpFails, Commit, CommitFails, Rollback, RollbackFails, Discard, DiscardFails, Return, Clean, CleanFails, Kill
<1> QED
  BY <1>1, <1>2

LEMMA SyncKeepsGeneration ==
    ASSUME ConstantsAssumption, IInv, NEW w \in Writer, Sync(w)
    PROVE  GenerationInv'
BY DEF ConstantsAssumption, IInv, TypeOK, GenerationInv, MayBeCommitted, Goto, GiveUp, Sync, Stage,
    StageFails, Inspect, InspectFails, BackUp, BackUpFails, Commit, CommitFails, Rollback,
    RollbackFails, Discard, DiscardFails, Return, Clean, CleanFails, Kill

\* A cache that once existed is not lost: whoever takes it away holds it in
\* its backup, and whoever lets go of its backup has put a generation in
\* place.
LEMMA SafeStep ==
    ASSUME ConstantsAssumption, TypeOK, [Next]_vars, Safe
    PROVE  Safe'
<1>1. CASE dir # Absent /\ dir' = Absent
  <2>1. PICK w \in Writer : BackUp(w)
    BY <1>1
    DEF Next, vars, Sync, Stage, StageFails, Inspect, InspectFails, BackUpFails, Commit, CommitFails,
        Rollback, RollbackFails, Discard, DiscardFails, Return, Clean, CleanFails, Kill, Read, ReadArtifact, Compare
  <2>2. InWindow(w)'
    BY <2>1 DEF BackUp, Goto, InWindow, TypeOK
  <2> QED
    BY <2>2 DEF Safe
<1>2. CASE dir = Absent /\ dir' = Absent
  <2>1. PICK w \in Writer : InWindow(w)
    BY <1>2 DEF Safe
  <2>2. InWindow(w)'
    BY <1>2, <2>1
    DEF ConstantsAssumption, TypeOK, InWindow, Next, vars, Sync, Stage, StageFails, Inspect,
        InspectFails, BackUp, BackUpFails, Commit, CommitFails, Rollback, RollbackFails, Discard,
        DiscardFails, Return, Clean, CleanFails, Kill, Read, ReadArtifact, Compare, Goto, GiveUp
  <2> QED
    BY <2>2 DEF Safe
<1> QED
  BY <1>1, <1>2 DEF Safe

LEMMA ReaderStep ==
    ASSUME ConstantsAssumption, IInv, [Next]_vars
    PROVE  ReaderInv'
<1>1. CASE \E r \in Reader : pc[r] = "comparing"
  BY <1>1, SafeStep DEF IInv, ReaderInv
<1>2. CASE ~\E r \in Reader : pc[r] = "comparing"
  <2>1. SUFFICES ASSUME NEW r \in Reader, pc'[r] = "comparing"
                 PROVE  dir' # Absent
    BY DEF ReaderInv, Safe
  <2>2. ReadArtifact(r)
    BY <1>2, <2>1
    DEF IInv, TypeOK, Next, vars, Sync, Stage, StageFails, Inspect, InspectFails, BackUp,
        BackUpFails, Commit, CommitFails, Rollback, RollbackFails, Discard, DiscardFails, Return, Clean, CleanFails, Kill,
        Read, ReadArtifact, Compare, Goto, GiveUp
  <2> QED
    BY <2>1, <2>2 DEF IInv, TypeOK, ReadArtifact, Goto
<1> QED
  BY <1>1, <1>2

LEMMA InvStep ==
    ASSUME ConstantsAssumption, IInv, [Next]_vars
    PROVE  IInv'
<1>1. CASE UNCHANGED vars
  BY <1>1, ReaderStep DEF vars, IInv, TypeOK, BackupInv, StagedInv, GenerationInv
<1>2. ASSUME NEW w \in Writer, Sync(w)
      PROVE  IInv'
  BY <1>2, SyncType, SyncKeepsBackup, SyncKeepsGeneration, ReaderStep DEF IInv
<1>3. ASSUME NEW r \in Reader, Read(r)
      PROVE  IInv'
  <2>1. BackupInv' /\ StagedInv' /\ GenerationInv'
    BY <1>3 DEF IInv, TypeOK, BackupInv, Holding, StagedInv, GenerationInv, MayBeCommitted, Read, ReadArtifact, Compare, Goto
  <2> QED
    BY <1>3, <2>1, ReadType, ReaderStep DEF IInv
<1> QED
  BY <1>1, <1>2, <1>3 DEF Next

\* The inductive invariant of the syncs: what a backup and a staging directory
\* say of their sync, and where its generation can be.
THEOREM Invariance == Spec0 => []IInv
<1>1. Init => IInv
  BY LocalFilesAssumption, InitHolds
<1>2. IInv /\ [Next]_vars => IInv'
  BY LocalFilesAssumption, InvStep
<1> QED
  BY <1>1, <1>2, ImplementsSync, PTL DEF Spec

\* Type correctness of syncs and readers.
THEOREM TypeCorrect == Spec0 => []TypeOK
<1>1. IInv => TypeOK
  BY DEF IInv
<1> QED
  BY <1>1, Invariance, PTL

\* docs/cli-contract.md: a sync that failed leaves no backup and, unless its
\* removal failed too, no staging directory, and nothing of it is in the cache
\* or in the backup of any other sync.
THEOREM FailureLeavesNothingHolds == Spec0 => []FailureLeavesNothing
<1>1. IInv => FailureLeavesNothing
  BY DEF IInv, TypeOK, BackupInv, Holding, StagedInv, GenerationInv, MayBeCommitted, FailureLeavesNothing
<1> QED
  BY <1>1, Invariance, PTL

\* commitSyncCacheDirectory: however many syncs overlap, fail or are killed, a
\* cache that once existed is missing only while the backup of a sync holds a
\* whole generation.
THEOREM MissingOnlyInWindowHolds == Spec0 => MissingOnlyInWindow
<1>1. TypeOK /\ [Next]_vars => [Safe => Safe']_vars
  BY LocalFilesAssumption, SafeStep
<1> QED
  BY <1>1, TypeCorrect, ImplementsSync, PTL DEF Spec, MissingOnlyInWindow

\* inspectSyncCacheArtifact: preview and export pass an artifact without a
\* manifest to compare it with only while a sync holds the directory in its
\* backup.
THEOREM UnverifiedOnlyInWindowHolds == Spec0 => UnverifiedOnlyInWindow
<1>1. ASSUME IInv, [Next]_vars
      PROVE  [\A r \in Reader :
                 pc[r] # "unverified" /\ pc'[r] = "unverified" => \E w \in Writer : InWindow(w)]_vars
  <2> SUFFICES ASSUME NEW r \in Reader, pc[r] # "unverified", pc'[r] = "unverified"
               PROVE  \E w \in Writer : InWindow(w)
    OBVIOUS
  <2>1. Compare(r)
    BY <1>1
    DEF IInv, TypeOK, Next, vars, Sync, Stage, StageFails, Inspect, InspectFails, BackUp,
        BackUpFails, Commit, CommitFails, Rollback, RollbackFails, Discard, DiscardFails, Return, Clean, CleanFails, Kill,
        Read, ReadArtifact, Compare, Goto, GiveUp
  <2>2. dir = Absent
    BY <1>1, <2>1 DEF IInv, TypeOK, Compare, Goto
  <2> QED
    BY <1>1, <2>1, <2>2 DEF IInv, ReaderInv, Safe, Compare
<1> QED
  BY <1>1, Invariance, ImplementsSync, PTL DEF Spec, UnverifiedOnlyInWindow

-----------------------------------------------------------------------------
(* AccessState *)

\* A command that is about to write has evidence that does not predate what
\* it read.
CheckedBeforeWrite ==
    \A p \in Process :
        access_pc[p] = "writing" => ~Access!Predates(access_read[p][access_args[p].subject], access_args[p])

AccessInv == Access!TypeOK /\ CheckedBeforeWrite

AccessArgs == [subject : Subject, fields : SUBSET Access!Field, observed : Access!Time]

LEMMA AccessConstants ==
    /\ Subject # {}
    /\ Given \subseteq SUBSET Access!Field
    /\ Access!Time \subseteq [second : Nat, fraction : Nat]
BY LocalFilesAssumption DEF Access!ConstantsAssumption, Access!Time, Access!Never

LEMMA NoArgsType == Access!NoArgs \in AccessArgs
<1>1. (CHOOSE s \in Subject : TRUE) \in Subject
  BY AccessConstants
<1> QED
  BY <1>1 DEF Access!NoArgs, AccessArgs, Access!Time

LEMMA EmptyType == Access!Empty \in [Subject -> Access!Record]
BY DEF Access!Empty, Access!Unknown, Access!Record, Access!Time

\* Merging keeps the type of the file.
LEMMA MergeType ==
    ASSUME NEW old \in [Subject -> Access!Record], NEW a \in AccessArgs
    PROVE  [old EXCEPT ![a.subject] = Access!Merge(@, a)] \in [Subject -> Access!Record]
<1>1. Access!Observation(a.observed) \in {Access!Observation(t) : t \in Access!Time}
  BY DEF AccessArgs
<1>2. old[a.subject] \in Access!Record
  BY DEF AccessArgs
<1>3. Access!Merge(old[a.subject], a) \in Access!Record
  BY <1>1, <1>2 DEF Access!Merge, Access!Record
<1> QED
  BY <1>3

\* What is stored is a time of whole seconds.
LEMMA StoredType ==
    ASSUME NEW record \in Access!Record, NEW f \in Access!Field
    PROVE  /\ record[f].stored \in [second : Nat, fraction : Nat]
           /\ record[f].stored.fraction = 0
<1>1. PICK t \in Access!Time : record[f] = Access!Observation(t)
  BY DEF Access!Record
<1>2. t \in [second : Nat, fraction : Nat]
  BY AccessConstants
<1>3. record[f].stored = Access!WholeSecond(t)
  BY <1>1 DEF Access!Observation
<1> QED
  BY <1>2, <1>3 DEF Access!WholeSecond

\* Dropping the fraction does not make an observation older than a time of
\* whole seconds that it does not predate.
LEMMA WholeSecondNotOlder ==
    ASSUME NEW t \in [second : Nat, fraction : Nat], NEW u \in [second : Nat, fraction : Nat],
           u.fraction = 0, ~Access!Earlier(t, u)
    PROVE  ~Access!Earlier(Access!WholeSecond(t), u)
BY DEF Access!Earlier, Access!WholeSecond

LEMMA NotEarlierThanItself ==
    ASSUME NEW t \in [second : Nat, fraction : Nat]
    PROVE  ~Access!Earlier(t, t)
BY DEF Access!Earlier

\* Merging evidence that does not predate the record makes nothing older.
LEMMA MergeNotOlder ==
    ASSUME NEW old \in [Subject -> Access!Record], NEW a \in AccessArgs,
           ~Access!Predates(old[a.subject], a),
           NEW s \in Subject, NEW f \in Access!Field
    PROVE  /\ ~Access!Earlier(
                  [old EXCEPT ![a.subject] = Access!Merge(@, a)][s][f].stored, old[s][f].stored)
           /\ [old EXCEPT ![a.subject] = Access!Merge(@, a)][s][f] # old[s][f]
                => s = a.subject /\ f \in a.fields
<1>1. /\ old[s][f].stored \in [second : Nat, fraction : Nat]
      /\ old[s][f].stored.fraction = 0
  BY StoredType
<1>2. CASE s # a.subject
  <2>1. [old EXCEPT ![a.subject] = Access!Merge(@, a)][s] = old[s]
    BY <1>2
  <2> QED
    BY <1>1, <2>1, NotEarlierThanItself
<1>3. CASE s = a.subject
  <2>1. [old EXCEPT ![a.subject] = Access!Merge(@, a)][s][f] =
            IF f \in a.fields THEN Access!Observation(a.observed) ELSE old[s][f]
    BY <1>3 DEF Access!Merge
  <2>2. CASE f \in a.fields
    <3>1. ~Access!Earlier(a.observed, old[s][f].stored)
      BY <1>3, <2>2 DEF Access!Predates
    <3>2. a.observed \in [second : Nat, fraction : Nat]
      BY AccessConstants DEF AccessArgs
    <3>3. ~Access!Earlier(Access!WholeSecond(a.observed), old[s][f].stored)
      BY <1>1, <3>1, <3>2, WholeSecondNotOlder
    <3>4. Access!Observation(a.observed).stored = Access!WholeSecond(a.observed)
      BY DEF Access!Observation
    <3> QED
      BY <1>3, <2>1, <2>2, <3>3, <3>4
  <2>3. CASE f \notin a.fields
    BY <1>1, <2>1, <2>3, NotEarlierThanItself
  <2> QED
    BY <2>2, <2>3
<1> QED
  BY <1>2, <1>3

LEMMA AccessInit == Access!Init => AccessInv
BY NoArgsType, EmptyType DEF AccessArgs, Access!Init, AccessInv, Access!TypeOK, CheckedBeforeWrite

LEMMA AccessStepInv == AccessInv /\ [Access!Next]_(Access!vars) => AccessInv'
<1> SUFFICES ASSUME AccessInv, [Access!Next]_(Access!vars) PROVE AccessInv'
  OBVIOUS
<1> USE DEF AccessInv, Access!TypeOK, CheckedBeforeWrite, AccessArgs
<1>1. CASE UNCHANGED Access!vars
  BY <1>1 DEF Access!vars, Access!Predates
<1>2. CASE Access!Next
  <2>1. PICK p \in Process :
          Access!Begin(p) \/ Access!Read(p) \/ Access!Reject(p) \/ Access!Write(p) \/ Access!Abandon(p)
    BY <1>2 DEF Access!Next
  <2>2. CASE Access!Begin(p)
    BY <2>2, AccessConstants DEF Access!Begin, Access!Time
  <2>3. CASE Access!Read(p)
    BY <2>3 DEF Access!Read
  <2>4. CASE Access!End(p) /\ UNCHANGED access_file
    BY <2>4, NoArgsType, EmptyType DEF Access!End
  <2>5. CASE Access!Write(p)
    <3>1. access_file' \in [Subject -> Access!Record]
      BY <2>5, MergeType DEF Access!Write
    <3> QED
      BY <2>5, <3>1, NoArgsType, EmptyType DEF Access!Write, Access!End
  <2> QED
    BY <2>1, <2>2, <2>3, <2>4, <2>5 DEF Access!Reject, Access!Abandon
<1> QED
  BY <1>1, <1>2 DEF Access!Next

\* What a single step does to the file.
LEMMA StepOnFile ==
    ASSUME AccessInv, [Access!Next]_(Access!vars), access_file' # access_file
    PROVE  \E p \in Process :
              \/ Access!WritesUnread(p)
              \/ /\ access_pc[p] = "writing" /\ access_pc'[p] = "idle"
                 /\ \A s \in Subject, f \in Access!Field :
                       /\ ~Access!Earlier(access_file'[s][f].stored, access_file[s][f].stored)
                       /\ access_file'[s][f] # access_file[s][f]
                            => s = access_args[p].subject /\ f \in access_args[p].fields
<1>1. PICK p \in Process : Access!Write(p)
  BY DEF Access!Next, Access!vars, Access!Begin, Access!Read, Access!Reject, Access!Abandon
<1>2. access_pc[p] = "writing" /\ access_pc'[p] = "idle"
  BY <1>1 DEF Access!Write, Access!End, AccessInv, Access!TypeOK
<1>3. CASE access_read[p] # access_file
  BY <1>2, <1>3 DEF Access!WritesUnread
<1>4. CASE access_read[p] = access_file
  <2>1. /\ access_file \in [Subject -> Access!Record]
        /\ access_args[p] \in AccessArgs
        /\ ~Access!Predates(access_file[access_args[p].subject], access_args[p])
    BY <1>1, <1>4 DEF Access!Write, AccessInv, Access!TypeOK, CheckedBeforeWrite, AccessArgs
  <2>2. access_file' = [access_file EXCEPT ![access_args[p].subject] = Access!Merge(@, access_args[p])]
    BY <1>1, <1>4 DEF Access!Write
  <2>3. \A s \in Subject, f \in Access!Field :
            /\ ~Access!Earlier(access_file'[s][f].stored, access_file[s][f].stored)
            /\ access_file'[s][f] # access_file[s][f]
                 => s = access_args[p].subject /\ f \in access_args[p].fields
    BY <2>1, <2>2, MergeNotOlder
  <2> QED
    BY <1>2, <2>3
<1> QED
  BY <1>3, <1>4

\* The inductive invariant: types, and evidence checked before it is written.
LEMMA AccessInvariance == Spec0 => []AccessInv
<1> QED
  BY AccessInit, AccessStepInv, ImplementsAccess, PTL DEF Access!Spec

\* updateAccessObservation guards the file against older evidence, to the
\* second, as long as the file that is replaced is the one that was read: no
\* stored observation of any subject becomes older or unknown except by a
\* command that another one has overtaken.
THEOREM RegressesOnlyOverUnreadFileHolds == Spec0 => RegressesOnlyOverUnreadFile
<1>1. ASSUME AccessInv, [Access!Next]_(Access!vars)
      PROVE  [\/ \A s \in Subject, f \in Access!Field :
                     ~Access!Earlier(access_file'[s][f].stored, access_file[s][f].stored)
              \/ \E p \in Process : Access!WritesUnread(p)]_(Access!vars)
  <2>1. CASE access_file' = access_file
    <3> SUFFICES ASSUME NEW s \in Subject, NEW f \in Access!Field
                 PROVE  ~Access!Earlier(access_file'[s][f].stored, access_file[s][f].stored)
      OBVIOUS
    <3>1. access_file[s] \in Access!Record
      BY <1>1 DEF AccessInv, Access!TypeOK
    <3> QED
      BY <2>1, <3>1, StoredType, NotEarlierThanItself
  <2>2. CASE access_file' # access_file
    BY <1>1, <2>2, StepOnFile
  <2> QED
    BY <2>1, <2>2
<1> QED
  BY <1>1, AccessInvariance, ImplementsAccess, PTL
  DEF Access!Spec, RegressesOnlyOverUnreadFile, Access!RegressesOnlyOverUnreadFile

\* A record command changes only the fields it was given, of the subject it
\* was given, unless it replaces a file it has not read.
THEOREM TouchesOnlyItsFieldsHolds == Spec0 => TouchesOnlyItsFields
<1>1. ASSUME AccessInv, [Access!Next]_(Access!vars)
      PROVE  [access_file' # access_file =>
                \E p \in Process :
                   \/ Access!WritesUnread(p)
                   \/ /\ access_pc[p] = "writing" /\ access_pc'[p] = "idle"
                      /\ \A s \in Subject, f \in Access!Field :
                            access_file'[s][f] # access_file[s][f] =>
                               s = access_args[p].subject /\ f \in access_args[p].fields]_(Access!vars)
  BY <1>1, StepOnFile
<1> QED
  BY <1>1, AccessInvariance, ImplementsAccess, PTL
  DEF Access!Spec, TouchesOnlyItsFields, Access!TouchesOnlyItsFields

-----------------------------------------------------------------------------
(* ArtifactPair and RegistryInstallRace, as their own proofs know them *)

PairProofs ==
    INSTANCE ArtifactPairProofs WITH
        Generation <- Made, target <- pair_target,
        staged <- pair_staged, backup <- pair_backup,
        pc <- pair_pc, i <- pair_i, new <- pair_new,
        backedUp <- pair_backedUp, committed <- pair_committed,
        failed <- pair_failed, outcome <- pair_outcome,
        before <- pair_before, failures <- pair_failures

RaceProofs ==
    INSTANCE RegistryInstallRaceProofs WITH
        target <- race_target, staged <- race_staged, backup <- race_backup,
        journal <- race_journal, pc <- race_pc, i <- race_i, txn <- race_txn,
        looked <- race_looked, backedUp <- race_backedUp,
        committed <- race_committed, failed <- race_failed, view <- race_view

\* PairProofs speaks of the same ArtifactPair.
LEMMA PairSame ==
    /\ Pair!ConstantsAssumption = PairProofs!ConstantsAssumption
    /\ Pair!Init = PairProofs!Init
    /\ Pair!Next = PairProofs!Next
    /\ Pair!vars = PairProofs!vars
    /\ Pair!TypeOK = PairProofs!TypeOK
    /\ Pair!Transactional = PairProofs!Transactional
    /\ Pair!Mismatched(pair_before) = PairProofs!Mismatched(pair_before)
    /\ Pair!Mismatched(pair_target') = PairProofs!Mismatched(pair_target')
BY DEF
    Pair!ConstantsAssumption, PairProofs!ConstantsAssumption, Pair!Init,
    PairProofs!Init, Pair!Next, PairProofs!Next, Pair!vars, PairProofs!vars,
    Pair!TypeOK, PairProofs!TypeOK, Pair!Transactional, PairProofs!Transactional,
    Pair!Artifact, PairProofs!Artifact, Pair!Provenance, PairProofs!Provenance,
    Pair!Target, PairProofs!Target, Pair!Content, PairProofs!Content, Pair!disk,
    PairProofs!disk, Pair!memory, PairProofs!memory, Pair!NoFiles,
    PairProofs!NoFiles, Pair!Outcomes, PairProofs!Outcomes, Pair!Goto,
    PairProofs!Goto, Pair!UpFrom, PairProofs!UpFrom, Pair!NoFailure,
    PairProofs!NoFailure, Pair!Failure, PairProofs!Failure, Pair!Forget,
    PairProofs!Forget, Pair!Generate, PairProofs!Generate, Pair!Stage,
    PairProofs!Stage, Pair!StageFails, PairProofs!StageFails, Pair!BackUp,
    PairProofs!BackUp, Pair!Commit, PairProofs!Commit, Pair!BackUpOrCommitFails,
    PairProofs!BackUpOrCommitFails, Pair!Discard, PairProofs!Discard, Pair!Undo,
    PairProofs!Undo, Pair!UndoFails, PairProofs!UndoFails, Pair!DownFrom,
    PairProofs!DownFrom, Pair!Restore, PairProofs!Restore, Pair!RestoreFails,
    PairProofs!RestoreFails, Pair!Unstage, PairProofs!Unstage, Pair!Kill,
    PairProofs!Kill, Pair!Mismatched, PairProofs!Mismatched

\* RaceProofs speaks of the same RegistryInstallRace.
LEMMA RaceSame ==
    /\ Race!ConstantsAssumption = RaceProofs!ConstantsAssumption
    /\ Race!Init = RaceProofs!Init
    /\ Race!Next = RaceProofs!Next
    /\ Race!vars = RaceProofs!vars
    /\ Race!TypeOK = RaceProofs!TypeOK
    /\ Race!NeverLoadsInterrupted = RaceProofs!NeverLoadsInterrupted
BY DEF
    Race!ConstantsAssumption, RaceProofs!ConstantsAssumption, Race!Init,
    RaceProofs!Init, Race!Next, RaceProofs!Next, Race!vars, RaceProofs!vars,
    Race!TypeOK, RaceProofs!TypeOK, Race!NeverLoadsInterrupted,
    RaceProofs!NeverLoadsInterrupted, Race!Release, RaceProofs!Release, Race!Target,
    RaceProofs!Target, Race!Owner, RaceProofs!Owner, Race!Content,
    RaceProofs!Content, Race!disk, RaceProofs!disk, Race!local, RaceProofs!local,
    Race!NoJournal, RaceProofs!NoJournal, Race!NotLooked, RaceProofs!NotLooked,
    Race!Nothing, RaceProofs!Nothing, Race!Finished, RaceProofs!Finished,
    Race!LeftBehind, RaceProofs!LeftBehind, Race!Clean, RaceProofs!Clean,
    Race!ProcessesStart, RaceProofs!ProcessesStart, Race!InitClean,
    RaceProofs!InitClean, Race!InitInterrupted, RaceProofs!InitInterrupted,
    Race!Goto, RaceProofs!Goto, Race!UpFrom, RaceProofs!UpFrom, Race!DownFrom,
    RaceProofs!DownFrom, Race!SetTarget, RaceProofs!SetTarget, Race!SetBackup,
    RaceProofs!SetBackup, Race!Replaceable, RaceProofs!Replaceable, Race!Start,
    RaceProofs!Start, Race!LoadRegistry, RaceProofs!LoadRegistry, Race!StageAll,
    RaceProofs!StageAll, Race!Reserve, RaceProofs!Reserve, Race!WriteJournal,
    RaceProofs!WriteJournal, Race!BackUp, RaceProofs!BackUp, Race!Commit,
    RaceProofs!Commit, Race!CommitPoint, RaceProofs!CommitPoint, Race!BackOut,
    RaceProofs!BackOut, Race!DiscardBackup, RaceProofs!DiscardBackup, Race!Undo,
    RaceProofs!Undo, Race!Restore, RaceProofs!Restore, Race!CloseRollback,
    RaceProofs!CloseRollback, Race!Unstage, RaceProofs!Unstage, Race!Look,
    RaceProofs!Look, Race!Remove, RaceProofs!Remove, Race!Reinstate,
    RaceProofs!Reinstate, Race!DropStaged, RaceProofs!DropStaged,
    Race!CloseRecovery, RaceProofs!CloseRecovery, Race!InstallStep,
    RaceProofs!InstallStep, Race!RecoveryStep, RaceProofs!RecoveryStep, Race!Step,
    RaceProofs!Step

LEMMA ImplementsPair == Spec0 => PairProofs!Spec
<1>1. Init0 => PairProofs!Init
  BY PairSame DEF Init0
<1>2. [Next0]_everything => [PairProofs!Next]_(PairProofs!vars)
  <2> SUFFICES ASSUME [Next0]_everything PROVE [PairProofs!Next]_(PairProofs!vars)
    OBVIOUS
  <2>1. Pair!Next \/ UNCHANGED Pair!vars
    BY StepParts
  <2>2. UNCHANGED Pair!vars => UNCHANGED PairProofs!vars
    BY DEF Pair!vars, Pair!disk, Pair!memory, PairProofs!vars, PairProofs!disk, PairProofs!memory
  <2> QED
    BY <2>1, <2>2, PairSame
<1> QED
  BY <1>1, <1>2, PTL DEF Spec0, PairProofs!Spec

\* RegistryInstallRace but for its fairness, which Spec0 states only of the
\* behaviors in which it runs.
LEMMA ImplementsRace == Spec0 => RaceProofs!Init /\ [][RaceProofs!Next]_(RaceProofs!vars)
<1>1. Init0 => RaceProofs!Init
  BY RaceSame DEF Init0
<1>2. [Next0]_everything => [RaceProofs!Next]_(RaceProofs!vars)
  <2> SUFFICES ASSUME [Next0]_everything PROVE [RaceProofs!Next]_(RaceProofs!vars)
    OBVIOUS
  <2>1. Race!Next \/ UNCHANGED Race!vars
    BY StepParts
  <2>2. UNCHANGED Race!vars => UNCHANGED RaceProofs!vars
    BY DEF Race!vars, Race!disk, Race!local, RaceProofs!vars, RaceProofs!disk, RaceProofs!local
  <2> QED
    BY <2>1, <2>2, RaceSame
<1> QED
  BY <1>1, <1>2, PTL DEF Spec0

LEMMA Assumptions ==
    PairProofs!ConstantsAssumption /\ RaceProofs!ConstantsAssumption
BY LocalFilesAssumption, PairSame, RaceSame

LEMMA RaceInvariance == Spec0 => []RaceProofs!IInv
<1>1. RaceProofs!Init => RaceProofs!IInv
  BY Assumptions, RaceProofs!InitHolds
<1>2. RaceProofs!IInv /\ [RaceProofs!Next]_(RaceProofs!vars) => RaceProofs!IInv'
  BY Assumptions, RaceProofs!InvStep
<1> QED
  BY <1>1, <1>2, ImplementsRace, PTL

\* README.md: replacement of a file and its sidecar is transactional for
\* command failures, whatever fails and whatever was killed before.
THEOREM TransactionalHolds == Spec0 => []Transactional
<1>1. PairProofs!Spec => []PairProofs!Transactional
  BY Assumptions, PairProofs!TransactionalHolds
<1>2. PairProofs!Transactional => Transactional
  BY PairSame DEF Transactional
<1> QED
  BY <1>1, <1>2, ImplementsPair, PTL

\* A new artifact beside old provenance comes only from a rollback that was
\* killed or has reported that it failed.
THEOREM MismatchOnlyFromRollbackHolds == Spec0 => MismatchOnlyFromRollback
<1>1. PairProofs!Spec => PairProofs!MismatchOnlyFromRollback
  BY Assumptions, PairProofs!MismatchOnlyFromRollbackHolds
<1> QED
  BY <1>1, ImplementsPair, PTL
  DEF MismatchOnlyFromRollback, Pair!MismatchOnlyFromRollback, PairProofs!MismatchOnlyFromRollback,
      Pair!Mismatched, PairProofs!Mismatched, Pair!Artifact, Pair!Provenance,
      PairProofs!Artifact, PairProofs!Provenance, Pair!vars, PairProofs!vars,
      Pair!disk, PairProofs!disk, Pair!memory, PairProofs!memory

\* recoverRegistryInstallTransaction: however many commands recover the same
\* journal while others install, none loads a part of the interrupted install.
THEOREM NeverLoadsInterruptedHolds == Spec0 => []NeverLoadsInterrupted
<1>1. RaceProofs!IInv => RaceProofs!NeverLoadsInterrupted
  BY DEF RaceProofs!IInv, RaceProofs!ViewInv, RaceProofs!NeverLoadsInterrupted, RaceProofs!Target, Race!Target
<1>2. RaceProofs!NeverLoadsInterrupted => NeverLoadsInterrupted
  BY RaceSame DEF NeverLoadsInterrupted
<1> QED
  BY <1>1, <1>2, RaceInvariance, PTL

-----------------------------------------------------------------------------
(* The whole *)

PartOK == part \in {"access", "sync", "pair", "race"}

\* Every part keeps its types.
THEOREM TypesCorrect == Spec0 => []TypesOK
<1>1. AccessInv => Access!TypeOK
  BY DEF AccessInv
<1>2. IInv => TypeOK
  BY DEF IInv
<1>3. Spec0 => []PairProofs!TypeOK
  <2>1. PairProofs!Spec => []PairProofs!TypeOK
    BY Assumptions, PairProofs!TypeCorrect
  <2> QED
    BY <2>1, ImplementsPair, PTL
<1>4. RaceProofs!IInv => RaceProofs!TypeOK
  BY DEF RaceProofs!IInv
<1>5. Spec0 => []PartOK
  <2>1. Init0 => PartOK
    BY DEF Init0, PartOK
  <2>2. PartOK /\ [Next0]_everything => PartOK'
    BY StepParts DEF PartOK
  <2> QED
    BY <2>1, <2>2, PTL DEF Spec0
<1>6. Access!TypeOK /\ TypeOK /\ PairProofs!TypeOK /\ RaceProofs!TypeOK /\ PartOK => TypesOK
  BY PairSame, RaceSame DEF PartOK, TypesOK
<1> QED
  BY <1>1, <1>2, <1>3, <1>4, <1>5, <1>6, Invariance, AccessInvariance, RaceInvariance, PTL
=============================================================================
