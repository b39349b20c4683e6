-------------------------- MODULE ReleaseDraftProofs --------------------------
(***************************************************************************)
(* For any number of commands, Registries and processes: what a judge      *)
(* accepts is the release of one draft, unless another command wrote       *)
(* during that draft; an intact release is accepted; readiness insists on  *)
(* the probe.                                                              *)
(*                                                                         *)
(* The invariant follows a draft that nobody disturbs from its first write *)
(* to its manifest: what it has written is on disk (DraftInv), what it has *)
(* hashed is what it has written, hence so is what its manifest lists      *)
(* (ManifestInv).  A judge that was not disturbed either has in hand the   *)
(* manifest on disk, and what it has compared is still there (JudgeInv).   *)
(* That the two readings of readiness may differ is the matter of ProbeInv *)
(* at the end: a probe that was there once stays, so an undisturbed draft  *)
(* lists it.                                                               *)
(***************************************************************************)
EXTENDS ReleaseDraft, TLAPS

Filing == {"writing", "filling"}

IsDraft(p) == Mine(p).source # Absent
Undisturbed(p) == me[p] \notin disturbed

\* What command c, a draft, puts into an artifact.
Wrote(c, k) ==
    IF k = "registry" THEN draft[c].source
    ELSE IF k = "probe" THEN draft[c].probe
    ELSE c

\* The manifest m lists what the draft c has written, and nothing else.
Lists(m, c) ==
    \A k \in Kind :
        m.listed[k] = IF k \in Included(draft[c]) THEN Wrote(c, k) ELSE Absent

\* This is on disk.
OnDisk(c, k) == file[k] = Wrote(c, k)

\* A number belongs to one writing command, from its start to its manifest.
CommandInv ==
    /\ \A p \in Process : pc[p] \in Drafting =>
          /\ me[p] <= started
          /\ \A q \in Process \ {p} : pc[q] \in Drafting => me[q] # me[p]
          /\ Readable => manifest.by # me[p]
    /\ Readable => manifest.by <= started
    /\ file["coverage"] \in Command => file["coverage"] <= started
    /\ file["probe"] \notin Source

IdleInv ==
    \A p \in Process :
        /\ pc[p] \in {"idle"} \cup Filing => held[p] = NoManifest
        /\ pc[p] \notin Judging => first[p] = Absent /\ p \notin touched

\* How far a draft has come ...
Progress(p) ==
    /\ pc[p] \in Filing /\ IsDraft(p) => "plan" \in todo[p]
    /\ pc[p] = "filling" /\ IsDraft(p) => Current(p) # "registry"
    /\ pc[p] = "hashing" => IsDraft(p) /\ todo[p] # {} /\ todo[p] \subseteq Included(Mine(p))
    /\ pc[p] \in {"listing", "publishing"} => IsDraft(p) /\ held[p].by = me[p]

\* ... and what that means for its files and its list.
Account(p) ==
    /\ \A k \in Included(Mine(p)) : OnDisk(me[p], k) \/ (pc[p] \in Filing /\ k \in todo[p])
    /\ pc[p] = "hashing" =>
          \A k \in Kind :
              held[p].listed[k] =
                  IF k \in Included(Mine(p)) \ todo[p] THEN Wrote(me[p], k) ELSE Absent
    /\ pc[p] \in {"listing", "publishing"} => Lists(held[p], me[p])

DraftOK(p) ==
    pc[p] \in Drafting =>
        /\ Progress(p)
        /\ IsDraft(p) /\ Undisturbed(p) => Account(p)

DraftInv == \A p \in Process : DraftOK(p)

ManifestInv ==
    Readable =>
        /\ draft[manifest.by].source # Absent
        /\ manifest.by \notin disturbed => Lists(manifest, manifest.by)

IntactInv ==
    intact =>
        /\ Readable /\ manifest.by \notin disturbed
        /\ \A k \in Included(draft[manifest.by]) : OnDisk(manifest.by, k)

\* What p has compared so far is as its manifest lists it.
Compared(p, kinds) ==
    \A k \in kinds : file[k] = held[p].listed[k] /\ file[k] # Torn

Judgement(p) ==
    /\ pc[p] = "gating" => first[p] # Absent
    /\ pc[p] \in {"checking", "gating", "verified", "rejected", "ready"} =>
          Readable /\ held[p] = manifest
    /\ pc[p] = "checking" =>
          /\ todo[p] \subseteq ListedIn(held[p])
          /\ ListedIn(held[p]) # {} => todo[p] # {}
          /\ Compared(p, ListedIn(held[p]) \ todo[p])
    /\ pc[p] \in {"verified", "gating", "ready"} => Compared(p, ListedIn(held[p]))
    /\ pc[p] = "rejected" => ~intact

JudgeInv == \A p \in Process : pc[p] \in Judging /\ p \notin touched => Judgement(p)

IInv ==
    /\ TypeOK
    /\ CommandInv
    /\ IdleInv
    /\ DraftInv
    /\ ManifestInv
    /\ IntactInv
    /\ JudgeInv

-----------------------------------------------------------------------------
(* Lemmas about the operators *)

\* There is a first artifact in any set of them.
LEMMA FirstOfIn ==
    ASSUME NEW S \in SUBSET Kind, S # {}, NEW place \in {Written, Listing}
    PROVE  /\ FirstOf(place, S) \in S
           /\ \A l \in S : place[FirstOf(place, S)] <= place[l]
<1>1. \E k \in S : \A l \in S : place[k] <= place[l]
    BY DEF Kind, Written, Listing
<1> QED  BY <1>1 DEF FirstOf

\* Nothing follows the plan.
LEMMA PlanIsLast ==
    ASSUME NEW S \in SUBSET Kind, "plan" \in S, FirstOf(Written, S) = "plan"
    PROVE  S = {"plan"}
<1>1. \A l \in S : Written["plan"] <= Written[l]
    BY FirstOfIn
<1>2. \A l \in Kind : Written["plan"] <= Written[l] => l = "plan"
    BY DEF Kind, Written
<1> QED  BY <1>1, <1>2

\* What a draft includes are artifacts, and it leaves all of them on disk.
LEMMA IncludedKinds ==
    ASSUME NEW d \in Draft
    PROVE  Included(d) \subseteq Kind /\ {"registry", "coverage", "plan"} \subseteq Included(d)
BY DEF Included, Kind, Draft

LEMMA WroteContent ==
    ASSUME TypeOK, NEW c \in Command, draft[c].source # Absent, NEW k \in Included(draft[c])
    PROVE  Wrote(c, k) \in Content /\ Wrote(c, k) # Absent /\ Wrote(c, k) # Torn
BY ConstantsAssumption DEF TypeOK, Draft, Wrote, Included, Content, Evidence, Command, Earlier

LEMMA InitHolds == Init => IInv
<1> SUFFICES ASSUME Init PROVE IInv
    OBVIOUS
<1> USE DEF Init
<1>1. /\ NoManifest \in Manifest /\ NoDraft \in Draft
      /\ file \in [Kind -> Content]
    BY ConstantsAssumption DEF NoManifest, NoDraft, Manifest, Draft, Content, Evidence, Command, Earlier
<1>2. TypeOK
  <2>1. /\ pc \in [Process -> {"idle"} \cup Drafting \cup Judging]
        /\ todo \in [Process -> SUBSET Kind]
        /\ held \in [Process -> Manifest]
        /\ first \in [Process -> Manifest \cup {Absent}]
        /\ draft \in [Command -> Draft]
        /\ disturbed \in SUBSET Command /\ touched \in SUBSET Process
    BY <1>1
  <2>2. me \in [Process -> Command] /\ started \in 0..MaxCommands
    BY ConstantsAssumption DEF Command
  <2>3. orderly \in BOOLEAN /\ intact \in BOOLEAN
    OBVIOUS
  <2> QED  BY <1>1, <2>1, <2>2, <2>3 DEF TypeOK
<1>3. CommandInv
    BY ConstantsAssumption DEF CommandInv, Drafting, Readable, Evidence, Earlier, Command, Kind
<1> QED
    BY <1>2, <1>3 DEF IInv, IdleInv, DraftInv, DraftOK, ManifestInv, IntactInv, JudgeInv, Drafting, Judging, Verdict,
        Filing, Readable

-----------------------------------------------------------------------------
(* Types *)

\* The history variables under the bookkeeping of a write.
LEMMA TouchesTypes ==
    ASSUME TypeOK, NEW p \in Process, Touches(p)
    PROVE  disturbed' \in SUBSET Command /\ touched' \in SUBSET Process
BY DEF TypeOK, Touches

LEMMA ReadManifestTypes ==
    ASSUME TypeOK, NEW p \in Process, ReadManifest(p)
    PROVE  /\ held' \in [Process -> Manifest]
           /\ todo' \in [Process -> SUBSET Kind]
           /\ pc' \in [Process -> {"idle"} \cup Drafting \cup Judging]
BY DEF TypeOK, ReadManifest, Readable, ListedIn, Set, Goto, Judging, Verdict

\* Hashing an artifact adds it to the list.
LEMMA HashLists ==
    ASSUME TypeOK, NEW p \in Process, Hash(p)
    PROVE  /\ held' = [held EXCEPT ![p] = held'[p]]
           /\ held'[p] \in Manifest
           /\ held'[p].by = me[p]
           /\ \A k \in Kind :
                 held'[p].listed[k] = IF k = Current(p) THEN file[k] ELSE held[p].listed[k]
<1> DEFINE added == [held[p].listed EXCEPT ![Current(p)] = file[Current(p)]]
           m == [by |-> me[p], listed |-> added]
<1>1. held[p].listed \in [Kind -> Content] /\ file \in [Kind -> Content]
    BY DEF TypeOK, Manifest
<1>2. added \in [Kind -> Content]
    BY <1>1
<1>3. held' = [held EXCEPT ![p] = m]
    BY DEF Hash, Hashed, Set
<1>4. m \in Manifest
    BY <1>2 DEF TypeOK, Manifest
<1>5. held'[p] = m
    BY <1>3 DEF TypeOK
<1>6. \A k \in Kind : added[k] = IF k = Current(p) THEN file[k] ELSE held[p].listed[k]
    BY <1>1
<1>7. m.by = me[p] /\ m.listed = added
    OBVIOUS
<1> HIDE DEF added, m
<1> QED  BY <1>3, <1>4, <1>5, <1>6, <1>7

LEMMA BeginTypes ==
    ASSUME TypeOK, NEW p \in Process, NEW d \in Draft, NEW kinds \in SUBSET Kind,
           Begin(p, d, kinds), orderly' \in BOOLEAN
    PROVE  TypeOK'
<1>1. /\ started' \in Command /\ started' \in 0..MaxCommands
      /\ me' \in [Process -> Command]
    BY ConstantsAssumption DEF TypeOK, Begin, Set, Command
<1>2. /\ draft' \in [Command -> Draft]
      /\ todo' \in [Process -> SUBSET Kind]
      /\ pc' \in [Process -> {"idle"} \cup Drafting \cup Judging]
    BY <1>1 DEF TypeOK, Begin, Set, Goto, Drafting
<1>3. UNCHANGED <<file, manifest, held, first, disturbed, touched, intact>>
    BY DEF Begin
<1> QED  BY <1>1, <1>2, <1>3 DEF TypeOK

LEMMA TypeStep == TypeOK /\ file["probe"] \notin Source /\ [Next]_vars => TypeOK'
<1> SUFFICES ASSUME TypeOK, file["probe"] \notin Source, [Next]_vars PROVE TypeOK'
    OBVIOUS
<1>1. CASE UNCHANGED vars
    BY <1>1 DEF TypeOK, vars, job, history
<1>2. CASE Next
  <2> PICK p \in Process :
        \/ BeginDraft(p) \/ BeginProbe(p) \/ BeginPlan(p)
        \/ WriteRegistry(p) \/ ReadProbe(p) \/ Truncate(p) \/ Fill(p)
        \/ Hash(p) \/ TruncateManifest(p) \/ Publish(p) \/ Stop(p)
        \/ BeginVerify(p) \/ BeginReadiness(p) \/ Reread(p) \/ Check(p) \/ Gate(p) \/ End(p)
      BY <1>2 DEF Next
  <2>a. InTurn(p) \in BOOLEAN
      BY DEF InTurn
  <2>b. /\ Later(p) \in SUBSET Kind /\ me[p] \in Command /\ Mine(p) \in Draft
        /\ Included(Mine(p)) \in SUBSET Kind
      BY IncludedKinds DEF TypeOK, Later, Mine
  <2>c. Command \subseteq Content /\ Evidence \subseteq Content /\ Source \subseteq Content
        /\ Absent \in Content /\ Torn \in Content
      BY DEF Content, Evidence
  <2>d. NoManifest \in Manifest
      BY ConstantsAssumption DEF NoManifest, Manifest, Content, Command
  <2>1. CASE BeginDraft(p)
    <3> PICK s \in Source, previous \in BOOLEAN :
          /\ Begin(p, [source |-> s, previous |-> previous, probe |-> Absent],
                   {"registry", "probe", "coverage", "plan"} \cup (IF previous THEN {"diff"} ELSE {}))
          /\ orderly' = InTurn(p)
        BY <2>1 DEF BeginDraft
    <3>1. [source |-> s, previous |-> previous, probe |-> Absent] \in Draft
        BY DEF Draft
    <3>2. {"registry", "probe", "coverage", "plan"} \cup (IF previous THEN {"diff"} ELSE {}) \in SUBSET Kind
        BY DEF Kind
    <3> QED  BY <2>a, <3>1, <3>2, BeginTypes
  <2>2. CASE BeginProbe(p)
    <3>1. [NoDraft EXCEPT !.probe = started + 1] \in Draft
      <4>1. started + 1 \in Evidence
          BY <2>2, ConstantsAssumption DEF BeginProbe, TypeOK, Evidence, Command
      <4> QED  BY <4>1 DEF NoDraft, Draft
    <3>2. {"probe"} \in SUBSET Kind
        BY DEF Kind
    <3>3. orderly' \in BOOLEAN
        BY <2>2 DEF BeginProbe
    <3> QED  BY <2>2, <3>1, <3>2, <3>3, BeginTypes DEF BeginProbe
  <2>3. CASE BeginPlan(p)
    <3>1. NoDraft \in Draft /\ {"plan"} \in SUBSET Kind
        BY DEF NoDraft, Draft, Kind
    <3> QED  BY <2>3, <2>a, <3>1, BeginTypes DEF BeginPlan
  <2>4. CASE WriteRegistry(p)
    <3>1. file' \in [Kind -> Content]
        BY <2>4, <2>b, <2>c DEF WriteRegistry, Write, TypeOK, Draft, Content
    <3>2. todo' \in [Process -> SUBSET Kind]
        BY <2>4, <2>b DEF WriteRegistry, TypeOK, Set
    <3> QED  BY <2>4, <3>1, <3>2, TouchesTypes DEF WriteRegistry, Write, TypeOK
  <2>5. CASE ReadProbe(p)
    <3>1. draft' \in [Command -> Draft]
      <4>1. file["probe"] # Absent => file["probe"] \in Evidence
          BY <2>5 DEF ReadProbe, TypeOK, Content, Kind
      <4>2. CASE file["probe"] = Absent
          BY <2>5, <4>2 DEF ReadProbe, TypeOK
      <4>3. CASE file["probe"] # Absent
        <5>1. [Mine(p) EXCEPT !.probe = file["probe"]] \in Draft
            BY <2>b, <4>1, <4>3 DEF Draft
        <5>2. draft' = [draft EXCEPT ![me[p]] = [Mine(p) EXCEPT !.probe = file["probe"]]]
            BY <2>5, <4>3 DEF ReadProbe, Mine
        <5> QED  BY <2>b, <5>1, <5>2 DEF TypeOK
      <4> QED  BY <4>2, <4>3
    <3>2. todo' \in [Process -> SUBSET Kind]
        BY <2>5, <2>b DEF ReadProbe, TypeOK, Set
    <3> QED  BY <2>5, <3>1, <3>2 DEF ReadProbe, TypeOK, history
  <2>6. CASE Truncate(p)
    <3>1. /\ file' \in [Kind -> Content]
          /\ pc' \in [Process -> {"idle"} \cup Drafting \cup Judging]
        BY <2>6, <2>c DEF Truncate, Write, TypeOK, Goto, Drafting
    <3> QED  BY <2>6, <3>1, TouchesTypes DEF Truncate, Write, TypeOK
  <2>7. CASE Fill(p)
    <3>1. file' \in [Kind -> Content]
        BY <2>7, <2>b, <2>c DEF Fill, Write, TypeOK, Draft
    <3>2. /\ pc' \in [Process -> {"idle"} \cup Drafting \cup Judging]
          /\ todo' \in [Process -> SUBSET Kind]
        BY <2>7, <2>b DEF Fill, TypeOK, Goto, Set, Drafting
    <3> QED  BY <2>7, <3>1, <3>2, TouchesTypes DEF Fill, Write, TypeOK
  <2>8. CASE Hash(p)
    <3>1. held' \in [Process -> Manifest]
        BY <2>8, HashLists DEF TypeOK
    <3>2. /\ pc' \in [Process -> {"idle"} \cup Drafting \cup Judging]
          /\ todo' \in [Process -> SUBSET Kind]
        BY <2>8, <2>b DEF Hash, TypeOK, Goto, Set, Drafting
    <3> QED  BY <2>8, <3>1, <3>2 DEF Hash, TypeOK, history
  <2>9. CASE TruncateManifest(p)
    <3>1. /\ manifest' = Torn
          /\ pc' \in [Process -> {"idle"} \cup Drafting \cup Judging]
        BY <2>9 DEF TruncateManifest, WriteManifest, TypeOK, Goto, Drafting
    <3> QED  BY <2>9, <3>1, TouchesTypes DEF TruncateManifest, WriteManifest, TypeOK
  <2>10. CASE Publish(p)
    <3>1. /\ manifest' \in Manifest
          /\ held' \in [Process -> Manifest]
          /\ pc' \in [Process -> {"idle"} \cup Drafting \cup Judging]
        BY <2>10, <2>d DEF Publish, WriteManifest, Assembled, TypeOK, Goto, Set
    <3>2. intact' \in BOOLEAN
        BY <2>10 DEF Publish
    <3> QED  BY <2>10, <3>1, <3>2, TouchesTypes DEF Publish, WriteManifest, TypeOK
  <2>11. CASE Stop(p)
    <3>1. /\ todo' \in [Process -> SUBSET Kind]
          /\ held' \in [Process -> Manifest]
          /\ pc' \in [Process -> {"idle"} \cup Drafting \cup Judging]
        BY <2>11, <2>d DEF Stop, TypeOK, Goto, Set
    <3> QED  BY <2>11, <3>1 DEF Stop, TypeOK
  <2>12. CASE BeginVerify(p)
      BY <2>12, <2>a, ReadManifestTypes DEF BeginVerify, TypeOK
  <2>13. CASE BeginReadiness(p)
    <3>1. /\ first' \in [Process -> Manifest \cup {Absent}]
          /\ pc' \in [Process -> {"idle"} \cup Drafting \cup Judging]
        BY <2>13 DEF BeginReadiness, Readable, TypeOK, Goto, Set, Judging
    <3> QED  BY <2>13, <2>a, <3>1 DEF BeginReadiness, TypeOK
  <2>14. CASE Reread(p)
      BY <2>14, ReadManifestTypes DEF Reread, TypeOK, history
  <2>15. CASE Check(p)
    <3>1. /\ todo' \in [Process -> SUBSET Kind]
          /\ pc' \in [Process -> {"idle"} \cup Drafting \cup Judging]
        BY <2>15, <2>b DEF Check, TypeOK, Goto, Set, Judging, Verdict
    <3> QED  BY <2>15, <3>1 DEF Check, TypeOK, history
  <2>16. CASE Gate(p)
    <3>1. pc' \in [Process -> {"idle"} \cup Drafting \cup Judging]
        BY <2>16 DEF Gate, TypeOK, Goto, Judging, Verdict
    <3> QED  BY <2>16, <3>1 DEF Gate, TypeOK, history
  <2>17. CASE End(p)
    <3>1. /\ todo' \in [Process -> SUBSET Kind]
          /\ held' \in [Process -> Manifest]
          /\ first' \in [Process -> Manifest \cup {Absent}]
          /\ pc' \in [Process -> {"idle"} \cup Drafting \cup Judging]
          /\ touched' \in SUBSET Process
        BY <2>17, <2>d DEF End, TypeOK, Goto, Set
    <3> QED  BY <2>17, <3>1 DEF End, TypeOK
  <2> QED  BY <2>1, <2>2, <2>3, <2>4, <2>5, <2>6, <2>7, <2>8, <2>9, <2>10, <2>11, <2>12, <2>13,
             <2>14, <2>15, <2>16, <2>17
<1> QED  BY <1>1, <1>2

-----------------------------------------------------------------------------
(* What a step of one process leaves to the others *)

\* A write disturbs every other draft and touches every judge.
LEMMA WriteFrame ==
    ASSUME IInv, TypeOK', NEW p \in Process, pc[p] \in Drafting, Touches(p),
           UNCHANGED <<me, first, draft, started>>,
           pc'[p] \in {"idle"} \cup Drafting,
           pc'[p] \in {"idle"} \cup Filing => held'[p] = NoManifest,
           \A q \in Process \ {p} :
               pc'[q] = pc[q] /\ todo'[q] = todo[q] /\ held'[q] = held[q]
    PROVE  /\ IdleInv' /\ JudgeInv'
           /\ \A q \in Process \ {p} : DraftOK(q)'
           /\ disturbed \subseteq disturbed'
           /\ Undisturbed(p)' <=> Undisturbed(p)
<1> USE DEF IInv
<1>1. \A q \in Process \ {p} :
        /\ pc[q] \in Drafting => me[q] \in disturbed'
        /\ pc[q] \in Judging => q \in touched'
    BY DEF Touches, Drafting, Judging, Verdict
<1>2. disturbed \subseteq disturbed' /\ (Undisturbed(p)' <=> Undisturbed(p))
    BY DEF Touches, CommandInv, Undisturbed
<1>3. touched' \subseteq touched \cup {q \in Process \ {p} : pc[q] \in Judging}
    BY DEF Touches
<1>4. ({"idle"} \cup Drafting) \cap Judging = {}
    BY DEF Drafting, Judging, Verdict
<1>5. IdleInv'
    BY <1>3, <1>4 DEF IdleInv
<1>6. JudgeInv'
    BY <1>1, <1>4 DEF JudgeInv
<1>7. ASSUME NEW q \in Process \ {p} PROVE DraftOK(q)'
  <2>1. pc'[q] \in Drafting => ~Undisturbed(q)'
      BY <1>1 DEF Undisturbed
  <2>2. Progress(q)' <=> Progress(q)
      BY DEF Progress, IsDraft, Mine, Current
  <2> QED  BY <2>1, <2>2 DEF DraftInv, DraftOK
<1> QED  BY <1>2, <1>5, <1>6, <1>7

\* A drafting command that reads, computes or stops changes nothing for the others.
LEMMA QuietFrame ==
    ASSUME IInv, TypeOK', NEW p \in Process, pc[p] \in {"idle"} \cup Drafting,
           UNCHANGED <<file, manifest, first, disturbed, touched, intact>>,
           pc'[p] \in {"idle"} \cup Drafting,
           pc'[p] \in {"idle"} \cup Filing => held'[p] = NoManifest,
           \A q \in Process \ {p} :
               pc'[q] = pc[q] /\ todo'[q] = todo[q] /\ held'[q] = held[q] /\ me'[q] = me[q],
           \A c \in Command : c <= started => draft'[c].source = draft[c].source,
           \A c \in Command :
               c <= started /\ ~(pc[p] \in Drafting /\ c = me[p]) => draft'[c] = draft[c]
    PROVE  /\ IdleInv' /\ ManifestInv' /\ IntactInv' /\ JudgeInv'
           /\ \A q \in Process \ {p} : DraftOK(q)'
<1> USE DEF IInv
<1>1. ({"idle"} \cup Drafting) \cap Judging = {}
    BY DEF Drafting, Judging, Verdict
<1>2. IdleInv'
    BY <1>1 DEF IdleInv
<1>3. Readable' <=> Readable
    BY DEF Readable
<1>4. Readable => manifest.by \in Command /\ draft'[manifest.by] = draft[manifest.by]
    BY DEF CommandInv, TypeOK, Manifest, Readable
<1>5. ManifestInv'
    BY <1>3, <1>4 DEF ManifestInv, Lists, Wrote
<1>6. IntactInv'
    BY <1>3, <1>4 DEF IntactInv, OnDisk, Wrote
<1>7. MissingAdapters' <=> MissingAdapters
    BY DEF CommandInv, MissingAdapters
<1>8. ASSUME NEW q \in Process \ {p}, pc[q] \in Judging, q \notin touched PROVE Judgement(q)'
  <2>1. Judgement(q)
      BY <1>8 DEF JudgeInv
  <2>2. Current(q)' = Current(q)
      BY DEF Current
  <2> QED  BY <1>3, <1>7, <2>1 DEF Judgement, Compared, ListedIn
<1>9. JudgeInv'
    BY <1>1, <1>8 DEF JudgeInv
<1>10. ASSUME NEW q \in Process \ {p} PROVE DraftOK(q)'
  <2>1. CASE pc[q] \notin Drafting
      BY <2>1 DEF DraftOK
  <2>2. CASE pc[q] \in Drafting
    <3>1. me[q] \in Command /\ draft'[me[q]] = draft[me[q]]
        BY <2>2 DEF CommandInv, TypeOK
    <3>2. Mine(q)' = Mine(q)
        BY <3>1 DEF Mine
    <3>3. Progress(q)' <=> Progress(q)
        BY <3>2 DEF Progress, IsDraft, Current
    <3>4. Account(q)' <=> Account(q)
        BY <3>1, <3>2 DEF Account, OnDisk, Wrote, Lists
    <3>5. DraftOK(q)
        BY DEF DraftInv
    <3> QED  BY <2>2, <3>2, <3>3, <3>4, <3>5 DEF DraftOK, IsDraft, Undisturbed
  <2> QED  BY <2>1, <2>2
<1> QED  BY <1>2, <1>5, <1>6, <1>9, <1>10

\* A judge changes nothing for the drafts and for the other judges.
LEMMA JudgeFrame ==
    ASSUME IInv, TypeOK', NEW p \in Process, pc[p] \in {"idle"} \cup Judging,
           UNCHANGED <<file, manifest, me, draft, started, disturbed, intact>>,
           pc'[p] \in {"idle"} \cup Judging,
           touched' = touched \/ touched' = touched \ {p},
           pc'[p] = "idle" => held'[p] = NoManifest /\ first'[p] = Absent /\ p \notin touched',
           \A q \in Process \ {p} :
               pc'[q] = pc[q] /\ todo'[q] = todo[q] /\ held'[q] = held[q] /\ first'[q] = first[q],
           pc'[p] \in Judging /\ p \notin touched' => Judgement(p)'
    PROVE  IInv'
<1> USE DEF IInv
<1>1. /\ "idle" \notin Drafting \cup Judging \cup Filing
      /\ Drafting \cap Judging = {} /\ Filing \subseteq Drafting
    BY DEF Drafting, Judging, Verdict, Filing
<1>2. Readable' <=> Readable
    BY DEF Readable
<1>3. CommandInv'
    BY <1>1, <1>2 DEF CommandInv
<1>4. IdleInv'
    BY <1>1 DEF IdleInv
<1>5. ASSUME NEW q \in Process PROVE DraftOK(q)'
  <2>1. CASE q = p
      BY <1>1, <2>1 DEF DraftOK
  <2>2. CASE q # p
    <3>1. Mine(q)' = Mine(q)
        BY DEF Mine
    <3>2. Progress(q)' <=> Progress(q)
        BY <2>2, <3>1 DEF Progress, IsDraft, Current
    <3>3. Account(q)' <=> Account(q)
        BY <2>2, <3>1 DEF Account, OnDisk, Wrote, Lists
    <3>4. DraftOK(q)
        BY DEF DraftInv
    <3> QED  BY <2>2, <3>1, <3>2, <3>3, <3>4 DEF DraftOK, IsDraft, Undisturbed
  <2> QED  BY <2>1, <2>2
<1>6. ManifestInv' /\ IntactInv'
    BY <1>2 DEF ManifestInv, IntactInv, Lists, Wrote, OnDisk
<1>7. ASSUME NEW q \in Process, pc'[q] \in Judging, q \notin touched' PROVE Judgement(q)'
  <2>1. CASE q = p
      BY <1>7, <2>1
  <2>2. CASE q # p
    <3>1. Judgement(q)
        BY <1>7, <2>2 DEF JudgeInv
    <3> QED  BY <1>2, <2>2, <3>1 DEF Judgement, Compared, ListedIn, MissingAdapters
  <2> QED  BY <2>1, <2>2
<1> QED  BY <1>3, <1>4, <1>5, <1>6, <1>7 DEF DraftInv, JudgeInv

-----------------------------------------------------------------------------
(* The judges *)

LEMMA VerdictsJudge ==
    /\ {"rereading", "checking", "gating"} \cup Verdict \subseteq Judging
    /\ "idle" \notin Drafting \cup Judging \cup Filing
    /\ Drafting \cap Judging = {} /\ Filing \subseteq Drafting
BY DEF Drafting, Judging, Verdict, Filing

\* Having read the manifest, a judge has that on disk in hand.
LEMMA ReadManifestKeeps ==
    ASSUME IInv, TypeOK', NEW p \in Process, ReadManifest(p),
           pc[p] \in {"idle"} \cup Judging,
           touched' = touched \/ touched' = touched \ {p},
           UNCHANGED <<file, manifest, me, first, draft, started, disturbed, intact>>
    PROVE  IInv'
<1>1. \A q \in Process \ {p} :
        pc'[q] = pc[q] /\ todo'[q] = todo[q] /\ held'[q] = held[q] /\ first'[q] = first[q]
  <2>1. \E x : pc' = [pc EXCEPT ![p] = x]
      BY DEF ReadManifest, Goto
  <2>2. \A q \in Process \ {p} : todo'[q] = todo[q] /\ held'[q] = held[q]
      BY DEF ReadManifest, Set, IInv, TypeOK
  <2> QED  BY <2>1, <2>2 DEF IInv, TypeOK
<1>2. CASE Readable
  <2>1. pc'[p] = "checking" /\ held'[p] = manifest /\ todo'[p] = ListedIn(manifest)
      BY <1>2 DEF ReadManifest, Set, Goto, IInv, TypeOK
  <2>2. p \notin touched' => Judgement(p)'
      BY <1>2, <2>1 DEF Judgement, Compared, ListedIn, Readable
  <2> QED  BY <1>1, <2>1, <2>2, VerdictsJudge, JudgeFrame
<1>3. CASE ~Readable
  <2>1. pc'[p] = "failed"
      BY <1>3 DEF ReadManifest, Goto, IInv, TypeOK
  <2>2. p \notin touched' => Judgement(p)'
      BY <1>3, <2>1 DEF Judgement
  <2>3. "failed" \in Judging
      BY DEF Judging, Verdict
  <2> QED  BY <1>1, <2>1, <2>2, <2>3, VerdictsJudge, JudgeFrame
<1> QED  BY <1>2, <1>3

LEMMA BeginVerifyKeeps ==
    ASSUME IInv, TypeOK', NEW p \in Process, BeginVerify(p) PROVE IInv'
BY ReadManifestKeeps, VerdictsJudge DEF BeginVerify

LEMMA RereadKeeps ==
    ASSUME IInv, TypeOK', NEW p \in Process, Reread(p) PROVE IInv'
BY ReadManifestKeeps, VerdictsJudge DEF Reread

LEMMA BeginReadinessKeeps ==
    ASSUME IInv, TypeOK', NEW p \in Process, BeginReadiness(p) PROVE IInv'
<1>1. pc'[p] = "rereading" /\ first'[p] = manifest
    BY DEF BeginReadiness, Set, Goto, IInv, TypeOK
<1>2. Judgement(p)'
    BY <1>1 DEF BeginReadiness, Judgement, Readable
<1> QED  BY <1>1, <1>2, VerdictsJudge, JudgeFrame DEF BeginReadiness, Set, Goto

\* A judge who finds a difference has found one between the manifest and the disk.
LEMMA CheckKeeps ==
    ASSUME IInv, TypeOK', NEW p \in Process, Check(p) PROVE IInv'
<1> USE DEF IInv
<1>1. pc[p] = "checking" /\ pc[p] \in Judging
    BY VerdictsJudge DEF Check
<1>2. UNCHANGED <<file, manifest, me, held, first, draft, started, disturbed, touched, intact>>
    BY DEF Check, history
<1>3. pc'[p] \in {"rejected", "notReady", "checking", "verified", "gating"}
    BY DEF Check, Goto, TypeOK
<1>4. ASSUME p \notin touched PROVE Judgement(p)'
  <2>1. Judgement(p)
      BY <1>1, <1>4 DEF JudgeInv
  <2>2. Readable /\ Readable' /\ held[p] = manifest /\ manifest \in Manifest
      BY <1>1, <1>2, <2>1 DEF Judgement, Readable, TypeOK
  <2>3. CASE ~Matches(p, Current(p))
    <3>1. /\ pc'[p] = IF first[p] = Absent THEN "rejected" ELSE "notReady"
          /\ todo'[p] = {}
        BY <2>3 DEF Check, Goto, Set, TypeOK
    <3>2. ~intact
      <4> SUFFICES ASSUME intact PROVE FALSE
          OBVIOUS
      <4>1. /\ Lists(manifest, manifest.by) /\ draft[manifest.by].source # Absent
            /\ \A k \in Included(draft[manifest.by]) : OnDisk(manifest.by, k)
          BY <2>2 DEF IntactInv, ManifestInv
      <4>2. ListedIn(manifest) = Included(draft[manifest.by])
        <5>1. manifest.by \in Command /\ draft[manifest.by] \in Draft
            BY <2>2 DEF Manifest, TypeOK
        <5>2. Included(draft[manifest.by]) \subseteq Kind
            BY <5>1, IncludedKinds
        <5> QED  BY <4>1, <5>1, <5>2, WroteContent DEF ListedIn, Lists
      <4>3. Current(p) \in ListedIn(manifest)
        <5>1. "registry" \in ListedIn(manifest)
            BY <4>2 DEF Included
        <5>2. todo[p] \subseteq ListedIn(manifest) /\ todo[p] # {} /\ todo[p] \in SUBSET Kind
            BY <1>1, <2>1, <2>2, <5>1 DEF Judgement, TypeOK
        <5> QED  BY <1>1, <5>2, FirstOfIn DEF Current
      <4>4. manifest.by \in Command
          BY <2>2 DEF Manifest
      <4> QED  BY <2>2, <2>3, <4>1, <4>2, <4>3, <4>4, WroteContent DEF Matches, Lists, OnDisk, ListedIn
    <3> QED  BY <1>2, <2>1, <2>2, <3>1, <3>2 DEF Judgement
  <2>4. CASE Matches(p, Current(p))
    <3>1. /\ pc'[p] = IF Later(p) # {} THEN "checking"
                      ELSE IF first[p] = Absent THEN "verified" ELSE "gating"
          /\ todo'[p] = Later(p)
        BY <2>4 DEF Check, Goto, Set, TypeOK
    <3>2. Compared(p, ListedIn(held[p]) \ Later(p))
        BY <1>1, <2>1, <2>4 DEF Judgement, Compared, Later, Matches
    <3>3. Later(p) \subseteq ListedIn(held[p])
        BY <1>1, <2>1 DEF Judgement, Later
    <3>4. pc'[p] = "checking" => /\ todo'[p] \subseteq ListedIn(held[p])
                                 /\ todo'[p] # {}
                                 /\ Compared(p, ListedIn(held[p]) \ todo'[p])
        BY <3>1, <3>2, <3>3
    <3>5. pc'[p] \in {"verified", "gating"} => Compared(p, ListedIn(held[p]))
        BY <3>1, <3>2
    <3>6. pc'[p] = "gating" => first[p] # Absent
        BY <3>1
    <3>7. pc'[p] \in {"checking", "verified", "gating"}
        BY <3>1
    <3> QED  BY <1>2, <2>1, <2>2, <3>4, <3>5, <3>6, <3>7 DEF Judgement, Compared, ListedIn
  <2> QED  BY <2>3, <2>4
<1>5. {"rejected", "notReady", "checking", "verified", "gating"} \subseteq Judging
    BY DEF Judging, Verdict
<1>6. \A q \in Process \ {p} :
        pc'[q] = pc[q] /\ todo'[q] = todo[q] /\ held'[q] = held[q] /\ first'[q] = first[q]
  <2>1. /\ \E x : pc' = [pc EXCEPT ![p] = x]
        /\ \E x : todo' = [todo EXCEPT ![p] = x]
      BY DEF Check, Goto, Set
  <2> QED  BY <1>2, <2>1 DEF TypeOK
<1> QED  BY <1>1, <1>2, <1>3, <1>4, <1>5, <1>6, VerdictsJudge, JudgeFrame

LEMMA GateKeeps ==
    ASSUME IInv, TypeOK', NEW p \in Process, Gate(p) PROVE IInv'
<1> USE DEF IInv
<1>1. /\ pc[p] = "gating" /\ pc[p] \in Judging
      /\ pc'[p] = IF MissingAdapters => "probe" \in ListedIn(first[p]) THEN "ready" ELSE "notReady"
    BY VerdictsJudge DEF Gate, Goto, TypeOK
<1>2. UNCHANGED <<file, manifest, me, todo, held, first, draft, started, disturbed, touched, intact>>
    BY DEF Gate, history
<1>3. ASSUME p \notin touched PROVE Judgement(p)'
  <2>1. Judgement(p)
      BY <1>1, <1>3 DEF JudgeInv
  <2> QED  BY <1>1, <1>2, <2>1 DEF Judgement, Compared, ListedIn, MissingAdapters, Readable
<1>4. {"ready", "notReady"} \subseteq Judging
    BY DEF Judging, Verdict
<1>5. \A q \in Process \ {p} : pc'[q] = pc[q]
    BY DEF Gate, Goto
<1> QED  BY <1>1, <1>2, <1>3, <1>4, <1>5, VerdictsJudge, JudgeFrame

LEMMA EndKeeps ==
    ASSUME IInv, TypeOK', NEW p \in Process, End(p) PROVE IInv'
<1>1. pc[p] \in Judging
    BY VerdictsJudge DEF End
<1>2. pc'[p] = "idle" /\ held'[p] = NoManifest /\ first'[p] = Absent /\ p \notin touched'
    BY DEF End, Goto, Set, IInv, TypeOK
<1> QED  BY <1>1, <1>2, VerdictsJudge, JudgeFrame DEF End, Goto, Set

-----------------------------------------------------------------------------
(* The writers *)

\* A writing command takes a new number.
LEMMA BeginKeeps ==
    ASSUME IInv, TypeOK', NEW p \in Process, NEW d \in Draft, NEW kinds \in SUBSET Kind,
           Begin(p, d, kinds),
           d.source # Absent => kinds = Included(d) \cup {"probe"}
    PROVE  IInv'
<1> USE DEF IInv
<1>1. /\ pc[p] = "idle" /\ pc'[p] = "writing" /\ todo'[p] = kinds
      /\ me'[p] = started' /\ started' = started + 1 /\ started' \in Command
      /\ draft'[started'] = d /\ Mine(p)' = d
    BY ConstantsAssumption DEF Begin, Goto, Set, TypeOK, Command, Mine
<1>2. \A q \in Process \ {p} :
        pc'[q] = pc[q] /\ todo'[q] = todo[q] /\ held'[q] = held[q] /\ me'[q] = me[q]
    BY DEF Begin, Goto, Set, TypeOK
<1>3. \A c \in Command : c <= started => c # started' /\ draft'[c] = draft[c]
    BY <1>1 DEF Begin, TypeOK, Command
<1>4. UNCHANGED <<file, manifest, held, first, disturbed, touched, intact>>
    BY DEF Begin
<1>5. held[p] = NoManifest
    BY <1>1 DEF IdleInv
<1>6. /\ IdleInv' /\ ManifestInv' /\ IntactInv' /\ JudgeInv'
      /\ \A q \in Process \ {p} : DraftOK(q)'
    BY <1>1, <1>2, <1>3, <1>4, <1>5, QuietFrame DEF Drafting
<1>7. CommandInv'
  <2>1. Readable' <=> Readable
      BY <1>4 DEF Readable
  <2>2. started' \in Nat /\ started \in Nat /\ \A q \in Process : me[q] \in Nat
      BY <1>1 DEF TypeOK, Command
  <2>3. Readable => manifest.by \in Nat
      BY DEF Readable, TypeOK, Manifest, Command
  <2>4. file["coverage"] \in Command => file["coverage"] \in Nat
      BY DEF Command
  <2> QED  BY <1>1, <1>2, <1>4, <2>1, <2>2, <2>3, <2>4 DEF CommandInv
<1>8. DraftOK(p)'
  <2>1. Progress(p)'
      BY <1>1 DEF Progress, IsDraft, Included
  <2>2. IsDraft(p)' => Account(p)'
      BY <1>1 DEF Account, IsDraft, Filing
  <2> QED  BY <2>1, <2>2 DEF DraftOK
<1> QED  BY <1>6, <1>7, <1>8 DEF DraftInv

LEMMA BeginDraftKeeps ==
    ASSUME IInv, TypeOK', NEW p \in Process, BeginDraft(p) PROVE IInv'
<1> PICK s \in Source, previous \in BOOLEAN :
      Begin(p, [source |-> s, previous |-> previous, probe |-> Absent],
            {"registry", "probe", "coverage", "plan"} \cup (IF previous THEN {"diff"} ELSE {}))
    BY DEF BeginDraft
<1>1. [source |-> s, previous |-> previous, probe |-> Absent] \in Draft
    BY DEF Draft
<1>2. {"registry", "probe", "coverage", "plan"} \cup (IF previous THEN {"diff"} ELSE {})
          = Included([source |-> s, previous |-> previous, probe |-> Absent]) \cup {"probe"}
    BY DEF Included
<1>3. {"registry", "probe", "coverage", "plan"} \cup (IF previous THEN {"diff"} ELSE {}) \in SUBSET Kind
    BY DEF Kind
<1> QED  BY <1>1, <1>2, <1>3, BeginKeeps

LEMMA BeginProbeKeeps ==
    ASSUME IInv, TypeOK', NEW p \in Process, BeginProbe(p) PROVE IInv'
<1>1. started + 1 \in Evidence
    BY ConstantsAssumption DEF BeginProbe, IInv, TypeOK, Evidence, Command
<1>2. /\ [NoDraft EXCEPT !.probe = started + 1] \in Draft
      /\ [NoDraft EXCEPT !.probe = started + 1].source = Absent
    BY <1>1 DEF NoDraft, Draft
<1>3. {"probe"} \in SUBSET Kind
    BY DEF Kind
<1> QED  BY <1>2, <1>3, BeginKeeps DEF BeginProbe

LEMMA BeginPlanKeeps ==
    ASSUME IInv, TypeOK', NEW p \in Process, BeginPlan(p) PROVE IInv'
<1>1. NoDraft \in Draft /\ NoDraft.source = Absent /\ {"plan"} \in SUBSET Kind
    BY DEF NoDraft, Draft, Kind
<1> QED  BY <1>1, BeginKeeps DEF BeginPlan

LEMMA StopKeeps ==
    ASSUME IInv, TypeOK', NEW p \in Process, Stop(p) PROVE IInv'
<1> USE DEF IInv
<1>1. pc'[p] = "idle" /\ held'[p] = NoManifest
    BY DEF Stop, Goto, Set, TypeOK
<1>2. \A q \in Process \ {p} :
        pc'[q] = pc[q] /\ todo'[q] = todo[q] /\ held'[q] = held[q] /\ me'[q] = me[q]
    BY DEF Stop, Goto, Set, TypeOK
<1>3. UNCHANGED <<file, manifest, me, first, draft, started, disturbed, touched, intact>>
    BY DEF Stop
<1>4. /\ IdleInv' /\ ManifestInv' /\ IntactInv' /\ JudgeInv'
      /\ \A q \in Process \ {p} : DraftOK(q)'
    BY <1>1, <1>2, <1>3, QuietFrame DEF Stop
<1>5. CommandInv'
    BY <1>1, <1>2, <1>3, VerdictsJudge DEF CommandInv, Readable
<1>6. DraftOK(p)'
    BY <1>1, VerdictsJudge DEF DraftOK
<1> QED  BY <1>4, <1>5, <1>6 DEF DraftInv

\* A command that writes an artifact: what remains to be seen is its own account.
LEMMA WriteKeeps ==
    ASSUME IInv, TypeOK', NEW p \in Process, pc[p] \in Filing,
           NEW kind, NEW content, Write(p, kind, content),
           kind = "coverage" /\ content \in Command => content <= started,
           kind = "probe" => content \notin Source,
           UNCHANGED <<me, held, first, draft, started>>,
           pc'[p] \in {"idle", "writing", "filling", "hashing"},
           \A q \in Process \ {p} : pc'[q] = pc[q] /\ todo'[q] = todo[q],
           pc'[p] \in Drafting => Progress(p)',
           pc'[p] \in Drafting /\ IsDraft(p) /\ Undisturbed(p) => Account(p)'
    PROVE  IInv'
<1> USE DEF IInv
<1>1. pc[p] \in Drafting /\ {"idle", "writing", "filling", "hashing"} \subseteq {"idle"} \cup Drafting
    BY VerdictsJudge DEF Drafting
<1>2. Touches(p) /\ UNCHANGED manifest /\ intact' = FALSE
    BY DEF Write
<1>3. held[p] = NoManifest
    BY DEF IdleInv
<1>4. /\ IdleInv' /\ JudgeInv'
      /\ \A q \in Process \ {p} : DraftOK(q)'
      /\ disturbed \subseteq disturbed'
      /\ Undisturbed(p)' <=> Undisturbed(p)
    BY <1>1, <1>2, <1>3, WriteFrame
<1>5. CommandInv'
  <2>1. Readable' <=> Readable
      BY <1>2 DEF Readable
  <2>2. file' = [file EXCEPT ![kind] = content] /\ file \in [Kind -> Content]
      BY DEF Write, TypeOK
  <2>3. file'["coverage"] \in Command => file'["coverage"] <= started
      BY <2>2 DEF CommandInv, Kind
  <2>4. file'["probe"] \notin Source
      BY <2>2 DEF CommandInv, Kind
  <2>5. \A q \in Process : pc'[q] \in Drafting => pc[q] \in Drafting
      BY <1>1
  <2> QED  BY <1>2, <2>1, <2>3, <2>4, <2>5 DEF CommandInv
<1>6. DraftOK(p)'
  <2>1. IsDraft(p)' <=> IsDraft(p)
      BY DEF IsDraft, Mine
  <2> QED  BY <1>4, <2>1 DEF DraftOK
<1>7. ManifestInv'
    BY <1>2, <1>4 DEF ManifestInv, Readable, Lists, Wrote
<1>8. IntactInv'
    BY <1>2 DEF IntactInv
<1> QED  BY <1>4, <1>5, <1>6, <1>7, <1>8 DEF DraftInv

LEMMA WriteRegistryKeeps ==
    ASSUME IInv, TypeOK', NEW p \in Process, WriteRegistry(p) PROVE IInv'
<1> USE DEF IInv
<1>1. /\ pc[p] = "writing" /\ Current(p) = "registry" /\ pc[p] \in Filing /\ pc[p] \in Drafting
      /\ Write(p, "registry", Mine(p).source)
      /\ UNCHANGED <<pc, me, held, first, draft, started>>
    BY VerdictsJudge DEF WriteRegistry, Filing
<1>2. todo'[p] = todo[p] \ {"registry"} /\ \A q \in Process \ {p} : todo'[q] = todo[q]
    BY <1>1 DEF WriteRegistry, Later, Set, TypeOK
<1>3. Progress(p) /\ (IsDraft(p) /\ Undisturbed(p) => Account(p))
    BY <1>1 DEF DraftInv, DraftOK
<1>4. Mine(p).source \in Source \cup {Absent} /\ Mine(p) \in Draft
    BY DEF TypeOK, Mine, Draft
<1>5. Mine(p).source \notin Command
    BY <1>4, ConstantsAssumption DEF Evidence
<1>6. Progress(p)'
    BY <1>1, <1>2, <1>3 DEF Progress, IsDraft, Mine
<1>7. ASSUME IsDraft(p), Undisturbed(p) PROVE Account(p)'
  <2>1. file' = [file EXCEPT !["registry"] = draft[me[p]].source] /\ file \in [Kind -> Content]
      BY <1>1 DEF Write, TypeOK, Mine
  <2>2. Included(Mine(p)) \subseteq Kind
      BY <1>4, IncludedKinds
  <2>3. ASSUME NEW k \in Included(Mine(p)) PROVE OnDisk(me[p], k)' \/ k \in todo'[p]
      BY <1>1, <1>2, <1>3, <1>7, <2>1, <2>2 DEF Account, OnDisk, Wrote
  <2> QED  BY <1>1, <2>3 DEF Account, Mine
<1> QED  BY <1>1, <1>2, <1>5, <1>6, <1>7, WriteKeeps

LEMMA TruncateKeeps ==
    ASSUME IInv, TypeOK', NEW p \in Process, Truncate(p) PROVE IInv'
<1> USE DEF IInv
<1>1. /\ pc[p] = "writing" /\ pc[p] \in Filing /\ pc[p] \in Drafting /\ Current(p) # "registry"
      /\ Write(p, Current(p), Torn)
      /\ UNCHANGED <<me, todo, held, first, draft, started>>
    BY VerdictsJudge DEF Truncate, Filing
<1>2. pc'[p] = "filling" /\ \A q \in Process \ {p} : pc'[q] = pc[q]
    BY DEF Truncate, Goto, TypeOK
<1>3. Progress(p) /\ (IsDraft(p) /\ Undisturbed(p) => Account(p))
    BY <1>1 DEF DraftInv, DraftOK
<1>4. Current(p)' = Current(p) /\ Current(p) = FirstOf(Written, todo[p])
    BY <1>1, <1>2 DEF Current
<1>5. Progress(p)'
    BY <1>1, <1>2, <1>3, <1>4 DEF Progress, IsDraft, Mine, Filing
<1>6. ASSUME IsDraft(p), Undisturbed(p) PROVE Account(p)'
  <2>1. Current(p) \in todo[p]
      BY <1>1, <1>3, <1>4, <1>6, FirstOfIn DEF Progress, TypeOK
  <2>2. \A k : k # Current(p) => file'[k] = file[k]
      BY <1>1 DEF Write, TypeOK
  <2>3. ASSUME NEW k \in Included(Mine(p)) PROVE OnDisk(me[p], k)' \/ k \in todo'[p]
      BY <1>1, <1>3, <1>6, <2>1, <2>2 DEF Account, OnDisk, Wrote
  <2> QED  BY <1>1, <1>2, <2>3 DEF Account, Mine, Filing
<1>7. Torn \notin Command /\ Torn \notin Source
    BY ConstantsAssumption DEF Evidence
<1> QED  BY <1>1, <1>2, <1>5, <1>6, <1>7, WriteKeeps

\* An artifact is filled, and the next one is its turn; after the last one a
\* draft starts to hash what it includes.
LEMMA FillKeeps ==
    ASSUME IInv, TypeOK', NEW p \in Process, Fill(p) PROVE IInv'
<1> USE DEF IInv
<1> DEFINE content == IF Current(p) = "probe" THEN Mine(p).probe ELSE me[p]
<1>1. /\ pc[p] = "filling" /\ pc[p] \in Filing /\ pc[p] \in Drafting
      /\ Write(p, Current(p), content)
      /\ UNCHANGED <<me, held, first, draft, started>>
    BY VerdictsJudge DEF Fill, Filing
<1>2. /\ pc'[p] = IF Later(p) # {} THEN "writing" ELSE IF ~IsDraft(p) THEN "idle" ELSE "hashing"
      /\ todo'[p] = IF Later(p) # {} THEN Later(p)
                    ELSE IF ~IsDraft(p) THEN {} ELSE Included(Mine(p))
    BY DEF Fill, Goto, Set, TypeOK, IsDraft
<1>3. \A q \in Process \ {p} : pc'[q] = pc[q] /\ todo'[q] = todo[q]
  <2>1. /\ \E x : pc' = [pc EXCEPT ![p] = x]
        /\ \E x : todo' = [todo EXCEPT ![p] = x]
      BY DEF Fill, Goto, Set
  <2> QED  BY <2>1 DEF TypeOK
<1>4. Progress(p) /\ (IsDraft(p) /\ Undisturbed(p) => Account(p))
    BY <1>1 DEF DraftInv, DraftOK
<1>5. Mine(p) \in Draft /\ me[p] \in Command /\ Mine(p)' = Mine(p) /\ held[p] = NoManifest
    BY <1>1 DEF TypeOK, Mine, IdleInv
<1>6. Included(Mine(p)) \subseteq Kind /\ Included(Mine(p)) # {}
    BY <1>5, IncludedKinds
<1>7. /\ Current(p) = "coverage" => content <= started
      /\ content \notin Source
  <2>1. me[p] <= started
      BY <1>1 DEF CommandInv
  <2>2. Mine(p).probe \notin Source /\ me[p] \notin Source
      BY <1>5, ConstantsAssumption DEF Draft, Evidence
  <2> QED  BY <2>1, <2>2
<1>8. Current(p) = "plan" /\ IsDraft(p) => Later(p) = {}
    BY <1>1, <1>4, PlanIsLast DEF Current, Filing, Progress, TypeOK, Later
<1>9. ASSUME pc'[p] \in Drafting PROVE Progress(p)'
  <2>1. CASE Later(p) # {}
      BY <1>2, <1>4, <1>5, <1>8, <2>1, <1>1 DEF Progress, IsDraft, Later, Filing
  <2>2. CASE Later(p) = {}
    <3>1. pc'[p] = "hashing" /\ IsDraft(p) /\ todo'[p] = Included(Mine(p))
        BY <1>2, <1>9, <2>2, VerdictsJudge
    <3> QED  BY <1>5, <1>6, <3>1 DEF Progress, IsDraft, Filing
  <2> QED  BY <2>1, <2>2
<1>10. ASSUME pc'[p] \in Drafting, IsDraft(p), Undisturbed(p) PROVE Account(p)'
  <2>1. file' = [file EXCEPT ![Current(p)] = content] /\ file \in [Kind -> Content]
      BY <1>1 DEF Write, TypeOK
  <2>2. Current(p) # "registry"
      BY <1>1, <1>4, <1>10 DEF Progress
  <2>3. \A k \in Kind : k = Current(p) => OnDisk(me[p], k)'
      BY <1>1, <2>1, <2>2 DEF OnDisk, Wrote, Mine
  <2>4. ASSUME NEW k \in Included(Mine(p)), k \notin Later(p) PROVE OnDisk(me[p], k)'
    <3>1. CASE k = Current(p)
        BY <1>6, <2>3, <3>1
    <3>2. CASE k # Current(p)
      <4>1. OnDisk(me[p], k)
          BY <1>1, <1>4, <1>10, <2>4, <3>2 DEF Account, Later
      <4> QED  BY <1>1, <1>6, <2>1, <3>2, <4>1 DEF OnDisk, Wrote
    <3> QED  BY <3>1, <3>2
  <2>5. CASE Later(p) # {}
      BY <1>2, <1>5, <2>4, <2>5 DEF Account, Filing
  <2>6. CASE Later(p) = {}
    <3>1. pc'[p] = "hashing" /\ todo'[p] = Included(Mine(p))
        BY <1>2, <1>10, <2>6
    <3>2. \A k \in Kind : held'[p].listed[k] = Absent
        BY <1>1, <1>5 DEF NoManifest
    <3> QED  BY <1>5, <2>4, <2>6, <3>1, <3>2 DEF Account, Filing
  <2> QED  BY <2>5, <2>6
<1>11. pc'[p] \in {"idle", "writing", "filling", "hashing"}
    BY <1>2
<1> HIDE DEF content
<1> QED  BY <1>1, <1>3, <1>7, <1>9, <1>10, <1>11, WriteKeeps

\* A draft that finds a probe includes it and has still to write it.
LEMMA ReadProbeKeeps ==
    ASSUME IInv, TypeOK', NEW p \in Process, ReadProbe(p) PROVE IInv'
<1> USE DEF IInv
<1>1. /\ pc[p] = "writing" /\ pc[p] \in Filing /\ pc[p] \in Drafting /\ Current(p) = "probe"
      /\ Mine(p).probe = Absent
      /\ UNCHANGED <<file, manifest, pc, me, held, first, started, disturbed, touched, intact>>
    BY VerdictsJudge DEF ReadProbe, Filing, history
<1>2. /\ \A q \in Process \ {p} : todo'[q] = todo[q]
      /\ todo'[p] = IF file["probe"] = Absent THEN Later(p) ELSE todo[p]
    BY DEF ReadProbe, Set, TypeOK
<1>3. /\ \A c \in Command : c # me[p] => draft'[c] = draft[c]
      /\ \A c \in Command : draft'[c].source = draft[c].source /\ draft'[c].previous = draft[c].previous
      /\ file["probe"] = Absent => draft' = draft
    BY DEF ReadProbe, TypeOK, Draft
<1>4. held[p] = NoManifest /\ me[p] \in Command
    BY <1>1 DEF IdleInv, TypeOK
<1>5. /\ IdleInv' /\ ManifestInv' /\ IntactInv' /\ JudgeInv'
      /\ \A q \in Process \ {p} : DraftOK(q)'
    BY <1>1, <1>2, <1>3, <1>4, QuietFrame
<1>6. CommandInv'
    BY <1>1 DEF CommandInv, Readable
<1>7. Progress(p) /\ (IsDraft(p) /\ Undisturbed(p) => Account(p))
    BY <1>1 DEF DraftInv, DraftOK
<1>8. Progress(p)'
    BY <1>1, <1>2, <1>3, <1>4, <1>7 DEF Progress, IsDraft, Mine, Later
<1>9. ASSUME IsDraft(p), Undisturbed(p) PROVE Account(p)'
  <2>1. CASE file["probe"] = Absent
    <3>1. "probe" \notin Included(Mine(p))
        BY <1>1 DEF Included
    <3> QED  BY <1>1, <1>2, <1>3, <1>7, <1>9, <2>1, <3>1 DEF Account, OnDisk, Wrote, Later, Mine, Filing
  <2>2. CASE file["probe"] # Absent
    <3>1. Included(Mine(p))' \subseteq Included(Mine(p)) \cup {"probe"}
        BY <1>1, <1>3, <1>4 DEF Included, Mine
    <3>2. "probe" \in todo'[p]
        BY <1>1, <1>2, <1>7, <1>9, <2>2, FirstOfIn DEF Current, Progress, TypeOK
    <3>3. \A k \in Included(Mine(p)) : k # "probe" => OnDisk(me[p], k)' = OnDisk(me[p], k)
        BY <1>1, <1>3, <1>4 DEF OnDisk, Wrote
    <3> QED  BY <1>1, <1>2, <1>7, <1>9, <2>2, <3>1, <3>2, <3>3 DEF Account, Filing
  <2> QED  BY <2>1, <2>2
<1>10. DraftOK(p)'
    BY <1>1, <1>3, <1>4, <1>8, <1>9 DEF DraftOK, IsDraft, Undisturbed, Mine
<1> QED  BY <1>5, <1>6, <1>10 DEF DraftInv

\* What an undisturbed draft hashes is what it has written.
LEMMA HashKeeps ==
    ASSUME IInv, TypeOK', NEW p \in Process, Hash(p) PROVE IInv'
<1> USE DEF IInv
<1>1. /\ pc[p] = "hashing" /\ pc[p] \in Drafting /\ pc[p] \notin Filing
      /\ UNCHANGED <<file, manifest, me, first, draft, started, disturbed, touched, intact>>
    BY DEF Hash, history, Drafting, Filing
<1>2. /\ pc'[p] = IF Later(p) # {} THEN "hashing" ELSE "listing"
      /\ pc'[p] \in Drafting /\ pc'[p] \notin Filing
    BY DEF Hash, Goto, TypeOK, Drafting, Filing
<1>3. \A q \in Process \ {p} : pc'[q] = pc[q] /\ todo'[q] = todo[q] /\ held'[q] = held[q]
    BY HashLists DEF Hash, Goto, Set, TypeOK
<1>4. /\ todo'[p] = Later(p)
      /\ held'[p].by = me[p]
      /\ \A k \in Kind :
            held'[p].listed[k] = IF k = Current(p) THEN file[k] ELSE held[p].listed[k]
    BY HashLists DEF Hash, Set, TypeOK
<1>5. /\ IdleInv' /\ ManifestInv' /\ IntactInv' /\ JudgeInv'
      /\ \A q \in Process \ {p} : DraftOK(q)'
  <2>1. pc'[p] # "idle"
      BY <1>2, VerdictsJudge
  <2> QED  BY <1>1, <1>2, <1>3, <2>1, QuietFrame
<1>6. CommandInv'
    BY <1>1, <1>2, <1>3 DEF CommandInv, Readable
<1>7. Progress(p) /\ (IsDraft(p) /\ Undisturbed(p) => Account(p))
    BY <1>1 DEF DraftInv, DraftOK
<1>8. Mine(p)' = Mine(p) /\ Included(Mine(p)) \subseteq Kind
    BY <1>1, IncludedKinds DEF Mine, TypeOK
<1>9. Progress(p)'
    BY <1>1, <1>2, <1>4, <1>7, <1>8 DEF Progress, IsDraft, Later, Filing
<1>10. ASSUME IsDraft(p), Undisturbed(p) PROVE Account(p)'
  <2>1. Current(p) \in todo[p] /\ todo[p] \subseteq Included(Mine(p))
      BY <1>1, <1>7, FirstOfIn DEF Current, Progress, TypeOK, Filing
  <2>2. \A k \in Included(Mine(p)) : OnDisk(me[p], k)
      BY <1>1, <1>7, <1>10 DEF Account
  <2>3. ASSUME NEW k \in Kind
        PROVE  held'[p].listed[k] =
                   IF k \in Included(Mine(p)) \ Later(p) THEN Wrote(me[p], k) ELSE Absent
      BY <1>1, <1>4, <1>7, <1>10, <2>1, <2>2 DEF Account, Later, OnDisk
  <2>4. \A k : Wrote(me[p], k)' = Wrote(me[p], k) /\ OnDisk(me[p], k)' = OnDisk(me[p], k)
      BY <1>1 DEF Wrote, OnDisk
  <2>5. CASE Later(p) # {}
      BY <1>2, <1>4, <1>8, <2>2, <2>3, <2>4, <2>5 DEF Account
  <2>6. CASE Later(p) = {}
    <3>1. pc'[p] = "listing"
        BY <1>2, <2>6
    <3>2. Lists(held[p], me[p])'
        BY <1>1, <1>8, <2>3, <2>4, <2>6 DEF Lists, Mine
    <3> QED  BY <1>8, <2>2, <2>4, <3>1, <3>2 DEF Account
  <2> QED  BY <2>5, <2>6
<1>11. DraftOK(p)'
    BY <1>1, <1>8, <1>9, <1>10 DEF DraftOK, IsDraft, Undisturbed
<1> QED  BY <1>5, <1>6, <1>11 DEF DraftInv

LEMMA TruncateManifestKeeps ==
    ASSUME IInv, TypeOK', NEW p \in Process, TruncateManifest(p) PROVE IInv'
<1> USE DEF IInv
<1>1. /\ pc[p] = "listing" /\ pc[p] \in Drafting /\ manifest' = Torn /\ intact' = FALSE
      /\ Touches(p) /\ UNCHANGED <<file, me, todo, held, first, draft, started>>
    BY DEF TruncateManifest, WriteManifest, Drafting
<1>2. /\ pc'[p] = "publishing" /\ pc'[p] \in Drafting /\ pc'[p] \notin {"idle"} \cup Filing
      /\ \A q \in Process \ {p} : pc'[q] = pc[q]
    BY DEF TruncateManifest, Goto, TypeOK, Drafting, Filing
<1>3. /\ IdleInv' /\ JudgeInv'
      /\ \A q \in Process \ {p} : DraftOK(q)'
      /\ Undisturbed(p)' <=> Undisturbed(p)
    BY <1>1, <1>2, WriteFrame
<1>4. ~Readable'
    BY <1>1 DEF Readable
<1>5. CommandInv' /\ ManifestInv' /\ IntactInv'
    BY <1>1, <1>2, <1>4 DEF CommandInv, ManifestInv, IntactInv
<1>6. DraftOK(p)'
  <2>1. Progress(p) /\ (IsDraft(p) /\ Undisturbed(p) => Account(p))
      BY <1>1 DEF DraftInv, DraftOK
  <2>2. Mine(p)' = Mine(p)
      BY <1>1 DEF Mine
  <2>3. Progress(p)'
      BY <1>1, <1>2, <2>1, <2>2 DEF Progress, IsDraft, Filing
  <2>4. IsDraft(p) /\ Undisturbed(p) => Account(p)'
      BY <1>1, <1>2, <2>1, <2>2 DEF Account, OnDisk, Wrote, Lists, Filing
  <2> QED  BY <1>3, <2>2, <2>3, <2>4 DEF DraftOK, IsDraft
<1> QED  BY <1>3, <1>5, <1>6 DEF DraftInv

\* The list of an undisturbed draft becomes the manifest of an intact release.
LEMMA PublishKeeps ==
    ASSUME IInv, TypeOK', NEW p \in Process, Publish(p) PROVE IInv'
<1> USE DEF IInv
<1>1. /\ pc[p] = "publishing" /\ pc[p] \in Drafting /\ pc[p] \notin Filing
      /\ manifest' = held[p] /\ intact' = (me[p] \notin disturbed)
      /\ Touches(p) /\ UNCHANGED <<file, me, todo, first, draft, started>>
    BY DEF Publish, WriteManifest, Assembled, Drafting, Filing
<1>2. /\ pc'[p] = "idle" /\ held'[p] = NoManifest
      /\ \A q \in Process \ {p} : pc'[q] = pc[q] /\ held'[q] = held[q]
    BY DEF Publish, Goto, Set, TypeOK
<1>3. /\ IdleInv' /\ JudgeInv'
      /\ \A q \in Process \ {p} : DraftOK(q)'
      /\ Undisturbed(p)' <=> Undisturbed(p)
    BY <1>1, <1>2, WriteFrame
<1>4. Progress(p) /\ (IsDraft(p) /\ Undisturbed(p) => Account(p))
    BY <1>1 DEF DraftInv, DraftOK
<1>5. IsDraft(p) /\ manifest'.by = me[p] /\ me[p] <= started
    BY <1>1, <1>4 DEF Progress, CommandInv
<1>6. CommandInv'
    BY <1>1, <1>2, <1>5, VerdictsJudge DEF CommandInv
<1>7. ManifestInv'
  <2>1. Undisturbed(p) => Lists(held[p], me[p])
      BY <1>1, <1>4, <1>5 DEF Account
  <2> QED  BY <1>1, <1>3, <1>5, <2>1 DEF ManifestInv, Lists, Wrote, IsDraft, Mine, Undisturbed
<1>8. IntactInv'
  <2>1. Readable'
      BY <1>1, ConstantsAssumption DEF Readable, TypeOK, Manifest
  <2>2. Undisturbed(p) => \A k \in Included(Mine(p)) : OnDisk(me[p], k)
      BY <1>1, <1>4, <1>5 DEF Account
  <2> QED  BY <1>1, <1>3, <1>5, <2>1, <2>2 DEF IntactInv, OnDisk, Wrote, Undisturbed, Mine
<1>9. DraftOK(p)'
    BY <1>2, VerdictsJudge DEF DraftOK
<1> QED  BY <1>3, <1>6, <1>7, <1>8, <1>9 DEF DraftInv

-----------------------------------------------------------------------------
(* The theorems *)

LEMMA InvStep == IInv /\ [Next]_vars => IInv'
<1> SUFFICES ASSUME IInv, [Next]_vars PROVE IInv'
    OBVIOUS
<1>1. TypeOK'
    BY TypeStep DEF IInv, CommandInv
<1>2. CASE UNCHANGED vars
  <2>1. UNCHANGED <<file, manifest, pc, me, todo, held, first, draft, started, disturbed, touched, intact>>
      BY <1>2 DEF vars, job, history
  <2>2. CommandInv' /\ IdleInv' /\ ManifestInv' /\ IntactInv'
      BY <2>1 DEF IInv, CommandInv, IdleInv, ManifestInv, IntactInv, Readable, Lists, Wrote, OnDisk
  <2>3. DraftInv'
      BY <2>1 DEF IInv, DraftInv, DraftOK, Progress, Account, IsDraft, Undisturbed, Mine, Current,
          OnDisk, Wrote, Lists
  <2>4. JudgeInv'
      BY <2>1 DEF IInv, JudgeInv, Judgement, Compared, ListedIn, MissingAdapters, Readable
  <2> QED  BY <1>1, <2>2, <2>3, <2>4 DEF IInv
<1>3. CASE Next
    BY <1>1, <1>3, BeginDraftKeeps, BeginProbeKeeps, BeginPlanKeeps, WriteRegistryKeeps, ReadProbeKeeps,
       TruncateKeeps, FillKeeps, HashKeeps, TruncateManifestKeeps, PublishKeeps, StopKeeps,
       BeginVerifyKeeps, BeginReadinessKeeps, RereadKeeps, CheckKeeps, GateKeeps, EndKeeps DEF Next
<1> QED  BY <1>2, <1>3

THEOREM Invariance == Spec => []IInv
<1>1. Init => IInv
    BY InitHolds
<1>2. IInv /\ [Next]_vars => IInv'
    BY InvStep
<1> QED  BY <1>1, <1>2, PTL DEF Spec

\* The types of the release directory and of the commands on it, as
\* writeReleaseDraft, verifyReleaseManifest and the readiness gates change them.
THEOREM TypeCorrect == Spec => []TypeOK
<1>1. IInv => TypeOK
    BY DEF IInv
<1> QED  BY <1>1, Invariance, PTL

\* A release that verify or readiness accepts is that of one draft, with the
\* Registry, the probe and the reports that belong together, unless another
\* command wrote during that draft: whatever writeReleaseDraft found in the
\* directory, and however many drafts were stopped in it.
THEOREM VerifiedIsCoherentHolds == Spec => []VerifiedIsCoherent
<1>1. ASSUME IInv, NEW p \in Process, pc[p] \in {"verified", "ready"}, p \notin touched,
             manifest.by \notin disturbed
      PROVE  Describes(manifest, draft[manifest.by])
  <2>1. /\ Readable /\ held[p] = manifest
        /\ Compared(p, ListedIn(manifest))
      BY <1>1, VerdictsJudge DEF IInv, JudgeInv, Judgement, Verdict
  <2>2. draft[manifest.by].source # Absent /\ Lists(manifest, manifest.by)
      BY <1>1, <2>1 DEF IInv, ManifestInv
  <2>3. manifest.by \in Command /\ draft[manifest.by] \in Draft
      BY <1>1, <2>1 DEF IInv, TypeOK, Readable, Manifest
  <2>4. Included(draft[manifest.by]) \subseteq Kind
      BY <2>3, IncludedKinds
  <2>5. ListedIn(manifest) = Included(draft[manifest.by])
      BY <1>1, <2>2, <2>3, <2>4, WroteContent DEF IInv, ListedIn, Lists
  <2>6. \A k \in Included(draft[manifest.by]) : file[k] = Wrote(manifest.by, k)
      BY <2>1, <2>2, <2>4, <2>5 DEF Compared, Lists
  <2> QED  BY <2>3, <2>5, <2>6 DEF Describes, Included, Wrote, Draft
<1>2. IInv => VerifiedIsCoherent
    BY <1>1 DEF VerifiedIsCoherent
<1> QED  BY <1>2, Invariance, PTL

\* verifyReleaseManifest raises no false alarm over the release of an undisturbed
\* draft into whose directory nothing was written since.
THEOREM IntactReleaseVerifiesHolds == Spec => []IntactReleaseVerifies
<1>1. IInv => IntactReleaseVerifies
    BY VerdictsJudge DEF IInv, JudgeInv, Judgement, IntactReleaseVerifies, Verdict
<1> QED  BY <1>1, Invariance, PTL

-----------------------------------------------------------------------------
(* What readiness learns from two readings of the manifest *)

Writes(p) == WriteRegistry(p) \/ Truncate(p) \/ Fill(p) \/ TruncateManifest(p) \/ Publish(p)
Begins(p) == BeginDraft(p) \/ BeginProbe(p) \/ BeginPlan(p)
Judges(p) == BeginVerify(p) \/ BeginReadiness(p) \/ Reread(p) \/ Check(p) \/ Gate(p) \/ End(p)

ProbeThere == file["probe"] # Absent

\* A manifest lists the probe only if it is there.
Backed(m) == "probe" \in ListedIn(m) => ProbeThere

\* An undisturbed draft that has looked for a probe, and found none.
Passed(p) ==
    /\ pc[p] \in Drafting /\ IsDraft(p) /\ Undisturbed(p)
    /\ Mine(p).probe = Absent
    /\ pc[p] \in Filing => "probe" \notin todo[p]

\* What the first reading has shown still holds of the manifest on disk.
Known(p) ==
    first[p] # Absent /\ "probe" \in ListedIn(first[p]) /\ Readable =>
        manifest.by \in disturbed \/ "probe" \in ListedIn(manifest)

ReadyInv(p) ==
    pc[p] = "ready" /\ p \notin touched /\ MissingAdapters =>
        manifest.by \in disturbed \/ "probe" \in ListedIn(manifest)

ListInv ==
    /\ Readable => Backed(manifest)
    /\ \A p \in Process : Backed(held[p]) /\ (first[p] # Absent => Backed(first[p]))

ProbeInv ==
    /\ ListInv
    /\ \A p \in Process :
          /\ pc[p] = "filling" /\ Current(p) = "probe" => Mine(p).probe # Absent
          /\ Passed(p) => ~ProbeThere
          /\ Known(p)
          /\ ReadyInv(p)

LEMMA ProbeInit == Init => ProbeInv
BY ConstantsAssumption DEF Init, ProbeInv, ListInv, Backed, Passed, Known, ReadyInv, ListedIn, NoManifest,
   Drafting, Readable

\* What a step leaves of the other commands.
LEMMA OthersAlone ==
    ASSUME IInv, NEW p \in Process, NEW q \in Process, q # p,
           Writes(p) \/ Begins(p) \/ ReadProbe(p) \/ Hash(p) \/ Stop(p) \/ Judges(p)
    PROVE  /\ pc'[q] = pc[q] /\ todo'[q] = todo[q] /\ held'[q] = held[q] /\ first'[q] = first[q]
           /\ me'[q] = me[q]
           /\ pc[q] \in Drafting => draft'[me[q]] = draft[me[q]]
<1> TypeOK /\ CommandInv
    BY DEF IInv
<1>1. CASE Writes(p)
    BY <1>1 DEF Writes, WriteRegistry, Truncate, Fill, TruncateManifest, Publish, Goto, Set, TypeOK
<1>2. CASE Begins(p)
  <2>1. PICK d, kinds : Begin(p, d, kinds)
      BY <1>2 DEF Begins, BeginDraft, BeginProbe, BeginPlan
  <2>2. pc[q] \in Drafting => me[q] # started + 1
    <3>1. pc[q] \in Drafting => me[q] <= started
        BY DEF CommandInv
    <3>2. me[q] \in Nat /\ started \in Nat
        BY DEF TypeOK, Command
    <3> QED  BY <3>1, <3>2
  <2> QED  BY <2>1, <2>2 DEF Begin, Goto, Set, TypeOK
<1>3. CASE ReadProbe(p)
  <2>1. pc[p] \in Drafting
      BY <1>3 DEF ReadProbe, Drafting
  <2>2. pc[q] \in Drafting => me[q] # me[p]
      BY <2>1 DEF CommandInv
  <2> QED  BY <1>3, <2>2 DEF ReadProbe, Set, TypeOK
<1>4. CASE Hash(p) \/ Stop(p)
    BY <1>4 DEF Hash, Stop, Goto, Set, TypeOK
<1>5. CASE Judges(p)
    BY <1>5 DEF Judges, BeginVerify, BeginReadiness, Reread, ReadManifest, Check, Gate, End, Goto, Set, TypeOK
<1> QED  BY <1>1, <1>2, <1>3, <1>4, <1>5

\* What only a write changes.
LEMMA QuietAlone ==
    ASSUME IInv, NEW p \in Process, Begins(p) \/ ReadProbe(p) \/ Hash(p) \/ Stop(p) \/ Judges(p)
    PROVE  /\ UNCHANGED <<file, manifest, disturbed>>
           /\ touched' = touched \/ touched' = touched \ {p}
           /\ MissingAdapters' <=> MissingAdapters
<1> TypeOK /\ CommandInv
    BY DEF IInv
<1>1. CASE Begins(p)
  <2>1. PICK d, kinds : Begin(p, d, kinds)
      BY <1>1 DEF Begins, BeginDraft, BeginProbe, BeginPlan
  <2>2. file["coverage"] \in Command => file["coverage"] # started + 1
    <3>1. file["coverage"] \in Command => file["coverage"] <= started /\ file["coverage"] \in Nat
        BY DEF CommandInv, Command
    <3> QED  BY <3>1 DEF TypeOK
  <2> QED  BY <2>1, <2>2 DEF Begin, MissingAdapters, TypeOK
<1>2. CASE ReadProbe(p)
  <2>1. \A c \in Command : draft'[c].source = draft[c].source
      BY <1>2 DEF ReadProbe, TypeOK, Draft
  <2> QED  BY <1>2, <2>1 DEF ReadProbe, MissingAdapters, history
<1>3. CASE Hash(p) \/ Stop(p)
    BY <1>3 DEF Hash, Stop, MissingAdapters, history
<1>4. CASE Judges(p)
    BY <1>4 DEF Judges, BeginVerify, BeginReadiness, Reread, Check, Gate, End, MissingAdapters, history
<1> QED  BY <1>1, <1>2, <1>3, <1>4

LEMMA WriteAlone ==
    ASSUME NEW p \in Process, Writes(p)
    PROVE  /\ Touches(p) /\ pc[p] \in Drafting
           /\ UNCHANGED <<me, first, draft>>
           /\ disturbed \subseteq disturbed'
           /\ \A q \in Process \ {p} :
                 /\ pc[q] \in Drafting => me[q] \in disturbed'
                 /\ pc[q] \in Judging => q \in touched'
<1>1. Touches(p) /\ pc[p] \in Drafting /\ UNCHANGED <<me, first, draft>>
    BY DEF Writes, WriteRegistry, Truncate, Fill, TruncateManifest, Publish, Write, WriteManifest, Drafting
<1>2. \A q \in Process \ {p} : pc[q] \in Drafting \cup Judging => pc[q] # "idle"
    BY VerdictsJudge
<1> QED  BY <1>1, <1>2 DEF Touches

\* No command removes the probe, or overwrites it by nothing.
LEMMA ProbeStays ==
    ASSUME IInv, ProbeInv, ProbeThere, NEW p \in Process,
           Writes(p) \/ Begins(p) \/ ReadProbe(p) \/ Hash(p) \/ Stop(p) \/ Judges(p)
    PROVE  ProbeThere'
<1> TypeOK
    BY DEF IInv
<1>1. CASE WriteRegistry(p)
    BY <1>1 DEF WriteRegistry, Write, TypeOK, ProbeThere
<1>2. CASE Truncate(p)
    BY <1>2, ConstantsAssumption DEF Truncate, Write, TypeOK, ProbeThere, Kind
<1>3. CASE Fill(p)
  <2>1. Current(p) = "probe" => Mine(p).probe # Absent
      BY <1>3 DEF Fill, ProbeInv
  <2> QED  BY <1>3, <2>1 DEF Fill, Write, TypeOK, ProbeThere, Kind
<1>4. CASE TruncateManifest(p) \/ Publish(p)
    BY <1>4 DEF TruncateManifest, Publish, WriteManifest, ProbeThere
<1>5. CASE Begins(p) \/ ReadProbe(p) \/ Hash(p) \/ Stop(p) \/ Judges(p)
    BY <1>5, QuietAlone DEF ProbeThere
<1> QED  BY <1>1, <1>2, <1>3, <1>4, <1>5 DEF Writes

LEMMA ListStep ==
    ASSUME IInv, IInv', ProbeInv, NEW p \in Process,
           Writes(p) \/ Begins(p) \/ ReadProbe(p) \/ Hash(p) \/ Stop(p) \/ Judges(p)
    PROVE  ListInv'
<1> TypeOK /\ TypeOK' /\ ListInv
    BY DEF IInv, ProbeInv
<1>1. \A m : Backed(m) => Backed(m)'
    BY ProbeStays DEF Backed, ListedIn
<1>2. Backed(NoManifest)'
    BY DEF Backed, ListedIn, NoManifest
<1>3. ASSUME NEW q \in Process, q # p PROVE Backed(held[q])' /\ (first'[q] # Absent => Backed(first[q])')
    BY <1>1, <1>3, OthersAlone DEF ListInv, Backed, ListedIn
<1>4. (Readable => Backed(manifest))'
  <2>1. CASE Publish(p)
    <3>1. manifest' = held[p]
        BY <2>1 DEF Publish, WriteManifest, Assembled
    <3> QED  BY <1>1, <3>1 DEF ListInv, Backed, ListedIn
  <2>2. CASE TruncateManifest(p)
      BY <2>2 DEF TruncateManifest, WriteManifest, Readable
  <2>3. CASE manifest' = manifest
      BY <1>1, <2>3 DEF ListInv, Readable, Backed, ListedIn
  <2>4. Publish(p) \/ TruncateManifest(p) \/ manifest' = manifest
      BY QuietAlone DEF Writes, WriteRegistry, Truncate, Fill, Write
  <2> QED  BY <2>1, <2>2, <2>3, <2>4
<1>5. Backed(held[p])'
  <2>1. CASE Hash(p)
    <3>1. /\ file["probe"] = Absent => Current(p) # "probe"
          /\ held'[p].listed["probe"] = IF "probe" = Current(p) THEN file["probe"] ELSE held[p].listed["probe"]
          /\ file' = file
        BY <2>1, HashLists DEF Hash, Kind
    <3> QED  BY <3>1 DEF ListInv, Backed, ListedIn, ProbeThere
  <2>2. CASE held'[p] = NoManifest
      BY <1>2, <2>2 DEF Backed
  <2>3. CASE held'[p] = held[p]
      BY <1>1, <2>3 DEF ListInv, Backed, ListedIn
  <2>4. CASE Readable /\ held'[p] = manifest
      BY <1>1, <2>4 DEF ListInv, Backed, ListedIn
  <2>5. Hash(p) \/ held'[p] = NoManifest \/ held'[p] = held[p] \/ (Readable /\ held'[p] = manifest)
    <3>1. CASE Writes(p)
        BY <3>1 DEF Writes, WriteRegistry, Truncate, Fill, TruncateManifest, Publish, Set, TypeOK
    <3>2. CASE Begins(p) \/ ReadProbe(p) \/ Stop(p)
        BY <3>2 DEF Begins, BeginDraft, BeginProbe, BeginPlan, Begin, ReadProbe, Stop, Set, TypeOK
    <3>3. CASE Judges(p)
        BY <3>3 DEF Judges, BeginVerify, BeginReadiness, Reread, ReadManifest, Check, Gate, End, Set, TypeOK
    <3> QED  BY <3>1, <3>2, <3>3
  <2> QED  BY <2>1, <2>2, <2>3, <2>4, <2>5
<1>6. first'[p] # Absent => Backed(first[p])'
  <2>1. CASE BeginReadiness(p)
    <3>1. first'[p] = manifest /\ Readable
        BY <2>1 DEF BeginReadiness, Set, TypeOK
    <3> QED  BY <1>1, <3>1 DEF ListInv, Backed, ListedIn
  <2>2. CASE first'[p] \in {first[p], Absent}
      BY <1>1, <2>2 DEF ListInv, Backed, ListedIn
  <2>3. BeginReadiness(p) \/ first'[p] \in {first[p], Absent}
    <3>1. CASE Writes(p) \/ Begins(p) \/ ReadProbe(p) \/ Hash(p) \/ Stop(p)
        BY <3>1, WriteAlone DEF Begins, BeginDraft, BeginProbe, BeginPlan, Begin, ReadProbe, Hash, Stop
    <3>2. CASE Judges(p)
        BY <3>2 DEF Judges, BeginVerify, Reread, Check, Gate, End, Set, TypeOK
    <3> QED  BY <3>1, <3>2
  <2> QED  BY <2>1, <2>2, <2>3
<1> QED  BY <1>3, <1>4, <1>5, <1>6 DEF ListInv

\* A command that rewrites the probe has one to write.
LEMMA FillingStep ==
    ASSUME IInv, ProbeInv, NEW p \in Process, NEW q \in Process,
           Writes(p) \/ Begins(p) \/ ReadProbe(p) \/ Hash(p) \/ Stop(p) \/ Judges(p),
           pc'[q] = "filling", Current(q)' = "probe"
    PROVE  Mine(q).probe' # Absent
<1> TypeOK
    BY DEF IInv
<1>1. CASE q # p
  <2>1. pc[q] = "filling" /\ pc[q] \in Drafting /\ todo'[q] = todo[q]
      BY <1>1, OthersAlone DEF Drafting
  <2>2. Current(q)' = Current(q)
      BY <1>1, <2>1, OthersAlone DEF Current
  <2>3. Mine(q)' = Mine(q)
      BY <1>1, <2>1, OthersAlone DEF Mine
  <2> QED  BY <2>1, <2>2, <2>3 DEF ProbeInv
<1>2. CASE q = p
  <2>1. Truncate(p) \/ pc' = pc
    <3>1. CASE Writes(p) \/ Hash(p) \/ Stop(p) \/ ReadProbe(p)
        BY <1>2, <3>1 DEF Writes, WriteRegistry, Fill, TruncateManifest, Publish, Hash, Stop, ReadProbe,
           Goto, TypeOK
    <3>2. ~Begins(p)
        BY <1>2 DEF Begins, BeginDraft, BeginProbe, BeginPlan, Begin, Goto, TypeOK
    <3>3. ~Judges(p)
        BY <1>2 DEF Judges, BeginVerify, BeginReadiness, Reread, ReadManifest, Check, Gate, End, Goto, TypeOK
    <3> QED  BY <3>1, <3>2, <3>3
  <2>2. CASE Truncate(p)
    <3>1. Current(p)' = Current(p) /\ Mine(p)' = Mine(p)
        BY <1>2, <2>2 DEF Truncate, Current, Mine
    <3> QED  BY <1>2, <2>2, <3>1 DEF Truncate
  <2>3. CASE pc' = pc /\ ~Truncate(p)
    <3>1. ~(Writes(p) \/ Begins(p) \/ ReadProbe(p) \/ Hash(p) \/ Stop(p) \/ Judges(p))
      <4>1. pc[p] = "filling"
          BY <1>2, <2>3
      <4>2. Fill(p) => pc'[p] # "filling"
          BY DEF Fill, Goto, TypeOK
      <4> QED  BY <1>2, <2>3, <4>1, <4>2
          DEF Writes, WriteRegistry, TruncateManifest, Publish, Begins, BeginDraft, BeginProbe, BeginPlan,
              Begin, ReadProbe, Hash, Stop, Judges, BeginVerify, BeginReadiness, Reread, Check, Gate, End,
              Goto, TypeOK, Verdict
    <3> QED  BY <3>1
  <2> QED  BY <2>1, <2>2, <2>3
<1> QED  BY <1>1, <1>2

\* Nobody puts a probe under an undisturbed draft that has found none.
LEMMA PassedStep ==
    ASSUME IInv, IInv', ProbeInv, NEW p \in Process, NEW q \in Process,
           Writes(p) \/ Begins(p) \/ ReadProbe(p) \/ Hash(p) \/ Stop(p) \/ Judges(p),
           Passed(q)'
    PROVE  ~ProbeThere'
<1> TypeOK /\ CommandInv /\ DraftInv
    BY DEF IInv
<1>1. CASE q # p
  <2>1. pc[q] \in Drafting /\ me'[q] = me[q] /\ draft'[me[q]] = draft[me[q]]
        /\ pc'[q] = pc[q] /\ todo'[q] = todo[q]
      BY <1>1, OthersAlone DEF Passed
  <2>2. ~Writes(p)
      BY <1>1, <2>1, WriteAlone DEF Passed, Undisturbed
  <2>3. Passed(q)
      BY <2>1, <2>2, QuietAlone DEF Passed, IsDraft, Undisturbed, Mine
  <2> QED  BY <2>2, <2>3, QuietAlone DEF ProbeInv, ProbeThere
<1>2. CASE q = p
  <2>0. pc'[p] \in Drafting /\ IsDraft(p)' /\ Undisturbed(p)' /\ Mine(p).probe' = Absent
        /\ (pc'[p] \in Filing => "probe" \notin todo'[p])
      BY <1>2 DEF Passed
  <2>1. ~Judges(p) /\ ~Stop(p) /\ ~Publish(p)
    <3>1. ~Stop(p) /\ ~Publish(p)
        BY <2>0, VerdictsJudge DEF Stop, Publish, Goto, TypeOK
    <3>2. ASSUME Judges(p) PROVE pc'[p] \in {"idle"} \cup Judging
        BY <3>2 DEF Judges, BeginVerify, BeginReadiness, Reread, ReadManifest, Check, Gate, End, Goto,
           TypeOK, Judging, Verdict
    <3> QED  BY <2>0, <3>1, <3>2, VerdictsJudge
  <2>2. ~Begins(p)
    <3>1. CASE BeginDraft(p)
      <4>1. pc'[p] = "writing" /\ "probe" \in todo'[p]
          BY <3>1 DEF BeginDraft, Begin, Goto, Set, TypeOK
      <4> QED  BY <2>0, <4>1 DEF Filing
    <3>2. CASE BeginProbe(p) \/ BeginPlan(p)
      <4>0. PICK d, kinds : Begin(p, d, kinds) /\ d.source = Absent
        <5>1. NoDraft.source = Absent
            BY DEF NoDraft
        <5>2. [NoDraft EXCEPT !.probe = started + 1].source = Absent
            BY DEF NoDraft
        <5> QED  BY <3>2, <5>1, <5>2 DEF BeginProbe, BeginPlan
      <4>1. started + 1 \in Command
          BY <4>0, ConstantsAssumption DEF Begin, Command, TypeOK
      <4>2. me'[p] = started + 1
          BY <4>0 DEF Begin, Set, TypeOK
      <4>3. draft'[started + 1] = d
          BY <4>0, <4>1 DEF Begin, TypeOK
      <4>4. draft'[started + 1].source = Absent
          BY <4>0, <4>3
      <4> QED  BY <2>0, <4>2, <4>4 DEF IsDraft, Mine
    <3> QED  BY <3>1, <3>2 DEF Begins
  <2>3. CASE ReadProbe(p)
    <3>1. file["probe"] # Absent => Mine(p).probe' = file["probe"]
        BY <2>3 DEF ReadProbe, Mine, TypeOK, Draft
    <3> QED  BY <2>0, <2>3, <3>1 DEF ReadProbe, ProbeThere
  <2>4. CASE Hash(p)
    <3>1. pc[p] \in Drafting /\ pc[p] \notin Filing /\ UNCHANGED <<file, me, draft, disturbed>>
        BY <2>4 DEF Hash, history, Drafting, Filing
    <3>2. Passed(p)
        BY <2>0, <3>1 DEF Passed, IsDraft, Undisturbed, Mine
    <3> QED  BY <3>1, <3>2 DEF ProbeInv, ProbeThere
  <2>5. ASSUME Writes(p)
        PROVE  /\ IsDraft(p) /\ Undisturbed(p) /\ Mine(p).probe = Absent /\ pc[p] \in Drafting
               /\ Progress(p) /\ Mine(p)' = Mine(p)
    <3>1. Mine(p)' = Mine(p) /\ me'[p] = me[p]
        BY <2>5, WriteAlone DEF Mine
    <3> QED  BY <2>0, <2>5, <3>1, WriteAlone DEF IsDraft, Undisturbed, DraftInv, DraftOK
  <2>6. CASE WriteRegistry(p)
    <3>1. pc[p] = "writing" /\ pc'[p] = pc[p] /\ todo'[p] = todo[p] \ {"registry"}
          /\ file'["probe"] = file["probe"]
        BY <2>6 DEF WriteRegistry, Later, Set, Write, TypeOK, Kind
    <3>2. "probe" \notin todo[p]
        BY <2>0, <3>1 DEF Filing
    <3> QED  BY <2>5, <2>6, <3>1, <3>2 DEF Writes, Passed, ProbeInv, ProbeThere
  <2>7. CASE Truncate(p) \/ Fill(p)
    <3>1. pc[p] \in Filing /\ todo[p] \in SUBSET Kind
        BY <2>7 DEF Truncate, Fill, Filing, TypeOK
    <3>2. Current(p) # "probe"
        BY <2>5, <2>7 DEF Truncate, Fill, Writes, ProbeInv
    <3>3. "probe" \notin todo[p]
      <4>1. CASE Truncate(p)
          BY <2>0, <4>1 DEF Truncate, Goto, TypeOK, Filing
      <4>2. CASE Fill(p) /\ Later(p) # {}
        <5>1. pc'[p] = "writing" /\ todo'[p] = Later(p)
            BY <4>2 DEF Fill, Goto, Set, TypeOK
        <5> QED  BY <2>0, <3>2, <5>1 DEF Filing, Later
      <4>3. CASE Fill(p) /\ Later(p) = {}
          BY <3>2, <4>3 DEF Later
      <4> QED  BY <2>7, <4>1, <4>2, <4>3
    <3>4. Passed(p)
        BY <2>5, <2>7, <3>3 DEF Writes, Passed
    <3>5. file'["probe"] = file["probe"]
        BY <2>7, <3>2 DEF Truncate, Fill, Write, TypeOK, Kind
    <3> QED  BY <3>4, <3>5 DEF ProbeInv, ProbeThere
  <2>8. CASE TruncateManifest(p)
    <3>1. pc[p] \notin Filing /\ file' = file
        BY <2>8 DEF TruncateManifest, WriteManifest, Filing
    <3>2. Passed(p)
        BY <2>5, <2>8, <3>1 DEF Writes, Passed
    <3> QED  BY <3>1, <3>2 DEF ProbeInv, ProbeThere
  <2> QED  BY <2>1, <2>2, <2>3, <2>4, <2>6, <2>7, <2>8 DEF Writes
<1> QED  BY <1>1, <1>2

\* A new manifest lists the probe if a judge has read of one, or its draft was
\* disturbed.
LEMMA KnownStep ==
    ASSUME IInv, IInv', ProbeInv, NEW p \in Process, NEW q \in Process,
           Writes(p) \/ Begins(p) \/ ReadProbe(p) \/ Hash(p) \/ Stop(p) \/ Judges(p)
    PROVE  Known(q)'
<1> TypeOK /\ DraftInv /\ Known(q)
    BY DEF IInv, ProbeInv
<1>1. CASE Publish(p)
  <2>1. pc[p] = "publishing" /\ pc[p] \in Drafting /\ pc[p] \notin Filing /\ manifest' = held[p]
        /\ first' = first
      BY <1>1 DEF Publish, WriteManifest, Assembled, Drafting, Filing
  <2>2. IsDraft(p) /\ held[p].by = me[p] /\ (Undisturbed(p) => Lists(held[p], me[p]))
      BY <2>1 DEF DraftInv, DraftOK, Progress, Account
  <2>3. disturbed \subseteq disturbed'
      BY <1>1, WriteAlone DEF Writes
  <2>4. CASE ~Undisturbed(p)
      BY <2>1, <2>2, <2>3, <2>4 DEF Undisturbed, Known
  <2>5. CASE Undisturbed(p)
    <3> SUFFICES ASSUME first[q] # Absent, "probe" \in ListedIn(first[q])
                 PROVE  "probe" \in ListedIn(manifest)'
        BY <2>1 DEF Known, ListedIn
    <3>1. ProbeThere
        BY DEF ProbeInv, ListInv, Backed
    <3>2. Mine(p).probe # Absent
        BY <2>1, <2>2, <2>5, <3>1 DEF Passed, ProbeInv
    <3>3. "probe" \in Included(Mine(p))
        BY <3>2 DEF Included
    <3>4. held[p].listed["probe"] = Mine(p).probe
        BY <2>2, <2>5, <3>3 DEF Lists, Wrote, Mine, Kind
    <3> QED  BY <2>1, <3>2, <3>4 DEF ListedIn, Kind
  <2> QED  BY <2>4, <2>5
<1>2. CASE TruncateManifest(p)
    BY <1>2 DEF TruncateManifest, WriteManifest, Known, Readable
<1>3. CASE WriteRegistry(p) \/ Truncate(p) \/ Fill(p)
  <2>1. manifest' = manifest /\ first' = first
      BY <1>3 DEF WriteRegistry, Truncate, Fill, Write
  <2>2. disturbed \subseteq disturbed'
      BY <1>3, WriteAlone DEF Writes
  <2> QED  BY <2>1, <2>2 DEF Known, ListedIn, Readable
<1>4. CASE Begins(p) \/ ReadProbe(p) \/ Hash(p) \/ Stop(p) \/ Judges(p)
  <2>1. manifest' = manifest /\ disturbed' = disturbed
      BY <1>4, QuietAlone
  <2>2. first'[q] \in {first[q], Absent} \/ (Readable /\ first'[q] = manifest)
    <3>1. CASE Begins(p) \/ ReadProbe(p) \/ Hash(p) \/ Stop(p)
        BY <3>1 DEF Begins, BeginDraft, BeginProbe, BeginPlan, Begin, ReadProbe, Hash, Stop
    <3>2. CASE Judges(p)
        BY <3>2 DEF Judges, BeginVerify, BeginReadiness, Reread, Check, Gate, End, Set, TypeOK
    <3> QED  BY <1>4, <3>1, <3>2
  <2> QED  BY <2>1, <2>2 DEF Known, ListedIn, Readable
<1> QED  BY <1>1, <1>2, <1>3, <1>4 DEF Writes

LEMMA ReadyStep ==
    ASSUME IInv, ProbeInv, NEW p \in Process, NEW q \in Process,
           Writes(p) \/ Begins(p) \/ ReadProbe(p) \/ Hash(p) \/ Stop(p) \/ Judges(p)
    PROVE  ReadyInv(q)'
<1> TypeOK /\ ReadyInv(q)
    BY DEF IInv, ProbeInv
<1> SUFFICES ASSUME pc'[q] = "ready", q \notin touched', MissingAdapters'
             PROVE  manifest'.by \in disturbed' \/ "probe" \in ListedIn(manifest')
    BY DEF ReadyInv, ListedIn
<1>1. "ready" \in Judging
    BY DEF Judging, Verdict
<1>2. ~Writes(p)
  <2>1. CASE q = p /\ Writes(p)
    <3>1. pc'[p] \in {"idle"} \cup Drafting
      <4>1. CASE WriteRegistry(p)
          BY <4>1, VerdictsJudge DEF WriteRegistry, Drafting
      <4>2. CASE Truncate(p) \/ Fill(p) \/ TruncateManifest(p) \/ Publish(p)
          BY <4>2 DEF Truncate, Fill, TruncateManifest, Publish, Goto, TypeOK, Drafting
      <4> QED  BY <2>1, <4>1, <4>2 DEF Writes
    <3> QED  BY <1>1, <2>1, <3>1, VerdictsJudge
  <2>2. CASE q # p /\ Writes(p)
    <3>1. pc[q] \in Judging
        BY <1>1, <2>2, OthersAlone
    <3> QED  BY <2>2, <3>1, WriteAlone
  <2> QED  BY <2>1, <2>2
<1>3. manifest' = manifest /\ disturbed' = disturbed /\ MissingAdapters
      /\ (touched' = touched \/ touched' = touched \ {p})
    BY <1>2, QuietAlone
<1>4. CASE q # p
  <2>1. pc[q] = "ready" /\ q \notin touched
      BY <1>3, <1>4, OthersAlone
  <2> QED  BY <1>3, <2>1 DEF ReadyInv, ListedIn
<1>5. CASE q = p
  <2>1. Gate(p)
    <3>1. ~Begins(p) /\ ~ReadProbe(p) /\ ~Hash(p) /\ ~Stop(p)
        BY <1>5 DEF Begins, BeginDraft, BeginProbe, BeginPlan, Begin, ReadProbe, Hash, Stop, Goto, TypeOK
    <3>2. CASE Judges(p)
        BY <1>5, <3>2 DEF Judges, BeginVerify, BeginReadiness, Reread, ReadManifest, Check, End, Goto, TypeOK
    <3> QED  BY <1>2, <3>1, <3>2
  <2>2. pc[p] = "gating" /\ p \notin touched /\ "probe" \in ListedIn(first[p])
      BY <1>3, <1>5, <2>1 DEF Gate, Goto, TypeOK, history
  <2>3. Readable /\ first[p] # Absent
      BY <2>2, VerdictsJudge DEF IInv, JudgeInv, Judgement
  <2>4. manifest.by \in disturbed \/ "probe" \in ListedIn(manifest)
      BY <2>2, <2>3 DEF ProbeInv, Known
  <2> QED  BY <1>3, <2>4
<1> QED  BY <1>4, <1>5

LEMMA ProbeStep == IInv /\ IInv' /\ ProbeInv /\ [Next]_vars => ProbeInv'
<1> SUFFICES ASSUME IInv, IInv', ProbeInv, [Next]_vars PROVE ProbeInv'
    OBVIOUS
<1>1. CASE UNCHANGED vars
    BY <1>1 DEF ProbeInv, ListInv, Backed, Passed, Known, ReadyInv, ListedIn, ProbeThere, IsDraft, Undisturbed,
       Mine, Current, MissingAdapters, Readable, vars, job, history
<1>2. CASE Next
  <2>1. PICK p \in Process :
           Writes(p) \/ Begins(p) \/ ReadProbe(p) \/ Hash(p) \/ Stop(p) \/ Judges(p)
      BY <1>2 DEF Next, Writes, Begins, Judges
  <2>2. ListInv'
      BY <2>1, ListStep
  <2>3. ASSUME NEW q \in Process
        PROVE  /\ (pc[q] = "filling" /\ Current(q) = "probe" => Mine(q).probe # Absent)'
               /\ (Passed(q) => ~ProbeThere)'
               /\ Known(q)' /\ ReadyInv(q)'
      BY <2>1, FillingStep, PassedStep, KnownStep, ReadyStep
  <2> QED  BY <2>2, <2>3 DEF ProbeInv
<1> QED  BY <1>1, <1>2

\* What a release lists of the probe while drafts overlap, stop and follow each
\* other.
THEOREM ProbeInvariance == Spec => []ProbeInv
<1>1. IInv /\ ProbeInv /\ IInv' /\ [Next]_vars => ProbeInv'
    BY ProbeStep
<1> QED  BY ProbeInit, <1>1, Invariance, PTL DEF Spec

\* A release that readiness lets pass while its coverage reports missing
\* adapters lists the probe, and the probe on disk is the one it lists, though
\* the gate asks the manifest of the first reading: unless its draft was
\* disturbed, or something was written after the second reading.
THEOREM ReadyOnlyWithProbeHolds == Spec => []ReadyOnlyWithProbe
<1>1. ASSUME IInv, ProbeInv, NEW p \in Process, pc[p] = "ready", p \notin touched, MissingAdapters,
             manifest.by \notin disturbed
      PROVE  manifest.listed["probe"] # Absent /\ file["probe"] = manifest.listed["probe"]
  <2>1. held[p] = manifest /\ Compared(p, ListedIn(manifest))
      BY <1>1, VerdictsJudge DEF IInv, JudgeInv, Judgement, Verdict
  <2>2. "probe" \in ListedIn(manifest)
      BY <1>1 DEF ProbeInv, ReadyInv
  <2> QED  BY <2>1, <2>2 DEF Compared, ListedIn
<1>2. IInv /\ ProbeInv => ReadyOnlyWithProbe
    BY <1>1 DEF ReadyOnlyWithProbe, MissingAdapters
<1> QED  BY <1>2, Invariance, ProbeInvariance, PTL
=============================================================================
