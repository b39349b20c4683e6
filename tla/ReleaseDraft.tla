----------------------------- MODULE ReleaseDraft -----------------------------
(***************************************************************************)
(* A local registry release (internal/cli/cli.go: writeReleaseDraft,       *)
(* writeReleaseManifest) and the commands that judge it from disk          *)
(* (verifyReleaseManifest, releaseReadinessReportForManifest).             *)
(*                                                                         *)
(* A draft writes its artifacts in place, one after the other, into a      *)
(* directory that may hold an earlier release, then hashes them from disk  *)
(* and writes the manifest.  `catalog verify --probe-unadapted --output`   *)
(* puts its evidence into the directory before a draft, and `catalog       *)
(* verify plan --output` rewrites one of the reports after it.             *)
(*                                                                         *)
(* Artifacts that are always written together are one: "registry" stands   *)
(* for schemas, Registry and provider index, "coverage" for what is        *)
(* derived from Registry and probe up to the coverage report, "plan" for   *)
(* the verification plan and what follows it.  "diff" stands for the two   *)
(* artifacts an option includes (the other one is the verification report).*)
(***************************************************************************)
EXTENDS Naturals

CONSTANTS
    Process,      \* commands that may run at the same time
    Source,       \* Registries a release is drafted from
    Unadapted,    \* those with operations of hosts that have no adapter
    Absent,       \* no such file
    Torn,         \* a file that was truncated and not written in full
    MaxCommands   \* bound on the commands that write

Command == 1..MaxCommands
Earlier == 0      \* the command that left the probe of the initial state
Evidence == {Earlier} \cup Command

Kind == {"registry", "diff", "probe", "coverage", "plan"}

\* A Registry is the source it was drafted from, any other file the command
\* that wrote it; a draft that normalizes the probe leaves its evidence alone.
Content == Source \cup Evidence \cup {Absent, Torn}

\* A manifest lists the artifacts whose content is not Absent.
Manifest == [by : Command, listed : [Kind -> Content]]

ASSUME ConstantsAssumption ==
    /\ MaxCommands \in Nat \ {0}
    /\ Absent # Torn
    /\ Unadapted \subseteq Source
    /\ Source \cap (Evidence \cup {Absent, Torn}) = {}
    /\ Evidence \cap {Absent, Torn} = {}
    /\ Manifest \cap {Absent, Torn} = {}

\* The order in which writeReleaseDraft writes, and that of the manifest.
Written == [registry |-> 1, diff |-> 2, probe |-> 3, coverage |-> 4, plan |-> 5]
Listing == [registry |-> 1, diff |-> 2, coverage |-> 3, plan |-> 4, probe |-> 5]

VARIABLES
    file,        \* the artifacts of the release directory
    manifest,    \* manifest.json: who wrote it and the bytes it lists
    pc,          \* per process: its location, or the verdict it has come to
    me,          \* per process: the writing command it runs
    todo,        \* per process: the artifacts still to be written, hashed or checked
    held,        \* per process: the manifest it assembles, or has read
    first,       \* per process: the manifest `readiness` has read for its gates
    draft,       \* per command: what a draft was given and has found
    started,     \* the number of writing commands so far
    orderly,     \* history: drafts and plans only, none of them stopped or overlapped
    disturbed,   \* history: drafts during which another command wrote
    touched,     \* history: processes judging while a command wrote, `readiness`
                 \* from its second reading of the manifest on
    intact       \* history: nothing was written since an undisturbed draft ended

job == <<pc, me, todo, held, first, draft, started>>
history == <<orderly, disturbed, touched, intact>>
vars == <<file, manifest, job, history>>

\* The source is Absent for a command that is not a draft.
Draft == [source : Source \cup {Absent}, previous : BOOLEAN, probe : Evidence \cup {Absent}]

Verdict == {"verified", "rejected", "ready", "notReady", "failed"}
Drafting == {"writing", "filling", "hashing", "listing", "publishing"}
Judging == {"rereading", "checking", "gating"} \cup Verdict

NoManifest == [by |-> 1, listed |-> [k \in Kind |-> Absent]]
NoDraft == [source |-> Absent, previous |-> FALSE, probe |-> Absent]

TypeOK ==
    /\ file \in [Kind -> Content]
    /\ manifest \in {Absent, Torn} \/ manifest \in Manifest
    /\ pc \in [Process -> {"idle"} \cup Drafting \cup Judging]
    /\ me \in [Process -> Command]
    /\ todo \in [Process -> SUBSET Kind]
    /\ held \in [Process -> Manifest]
    /\ first \in [Process -> Manifest \cup {Absent}]
    /\ draft \in [Command -> Draft]
    /\ started \in 0..MaxCommands
    /\ orderly \in BOOLEAN /\ intact \in BOOLEAN
    /\ disturbed \in SUBSET Command
    /\ touched \in SUBSET Process

Init ==
    /\ \E e \in {Absent, Earlier} :
          file = [k \in Kind |-> IF k = "probe" THEN e ELSE Absent]
    /\ manifest = Absent
    /\ pc = [p \in Process |-> "idle"]
    /\ me = [p \in Process |-> 1]
    /\ todo = [p \in Process |-> {}]
    /\ held = [p \in Process |-> NoManifest]
    /\ first = [p \in Process |-> Absent]
    /\ draft = [c \in Command |-> NoDraft]
    /\ started = 0
    /\ orderly = TRUE /\ intact = FALSE
    /\ disturbed = {} /\ touched = {}

-----------------------------------------------------------------------------
Goto(p, location) == pc' = [pc EXCEPT ![p] = location]
Set(field, p, value) == [field EXCEPT ![p] = value]

InTurn(p) == orderly /\ \A q \in Process \ {p} : pc[q] = "idle"

\* The bookkeeping of a write by p: who is disturbed by it.
Touches(p) ==
    LET others == {q \in Process \ {p} : pc[q] # "idle"}
    IN /\ touched' = touched \cup {q \in others : pc[q] \in Judging}
       /\ disturbed' = disturbed \cup {me[q] : q \in {r \in others : pc[r] \in Drafting}}

Write(p, kind, content) ==
    /\ file' = [file EXCEPT ![kind] = content]
    /\ intact' = FALSE
    /\ Touches(p)
    /\ UNCHANGED <<manifest, orderly>>

WriteManifest(p, content) ==
    /\ manifest' = content
    /\ Touches(p)
    /\ UNCHANGED <<file, orderly>>

-----------------------------------------------------------------------------
(* The writers *)

\* mutant: whatever lies in the directory is included
IncludedIfThere(d) ==
    {"registry", "coverage", "plan"} \cup {k \in {"diff", "probe"} : file[k] # Absent}

\* releaseManifestArtifacts: what the draft has written, by its own flags.
Included(d) ==
    {"registry", "coverage", "plan"}
      \cup (IF d.previous THEN {"diff"} ELSE {})
      \cup (IF d.probe # Absent THEN {"probe"} ELSE {})

Begin(p, d, kinds) ==
    /\ pc[p] = "idle"
    /\ started < MaxCommands
    /\ started' = started + 1
    /\ me' = Set(me, p, started')
    /\ draft' = [draft EXCEPT ![started'] = d]
    /\ todo' = Set(todo, p, kinds)
    /\ Goto(p, "writing")
    /\ UNCHANGED <<file, manifest, held, first, disturbed, touched, intact>>

\* catalogReleaseDraft, once the Registry is loaded.  It will look for a probe.
BeginDraft(p) ==
    \E s \in Source, previous \in BOOLEAN :
        LET d == [source |-> s, previous |-> previous, probe |-> Absent]
        IN /\ Begin(p, d, {"registry", "probe", "coverage", "plan"}
                            \cup (IF previous THEN {"diff"} ELSE {}))
           /\ orderly' = InTurn(p)

\* catalogVerify --probe-unadapted --output, after the last probe.
BeginProbe(p) ==
    /\ started < MaxCommands
    /\ Begin(p, [NoDraft EXCEPT !.probe = started + 1], {"probe"})
    /\ orderly' = FALSE

\* catalogVerifyPlan --output into the directory: the same plan, but its source
\* is "flag" and not "release".
BeginPlan(p) == Begin(p, NoDraft, {"plan"}) /\ orderly' = InTurn(p)

FirstOf(place, kinds) == CHOOSE k \in kinds : \A l \in kinds : place[k] <= place[l]

\* The artifact whose turn it is, and those that follow.
Current(p) == FirstOf(IF pc[p] \in {"writing", "filling"} THEN Written ELSE Listing, todo[p])
Later(p) == todo[p] \ {Current(p)}
Mine(p) == draft[me[p]]

\* writeRegistryAtomic
WriteRegistry(p) ==
    /\ pc[p] = "writing" /\ Current(p) = "registry"
    /\ Write(p, "registry", Mine(p).source)
    /\ todo' = Set(todo, p, Later(p))
    /\ UNCHANGED <<pc, me, held, first, draft, started>>

\* fileExists and readVerificationReport: a draft takes in the probe it finds.
\* One that is torn ends the draft (Stop).
ReadProbe(p) ==
    /\ pc[p] = "writing" /\ Current(p) = "probe"
    /\ Mine(p).probe = Absent
    /\ file["probe"] # Torn
    /\ IF file["probe"] = Absent
       THEN todo' = Set(todo, p, Later(p)) /\ UNCHANGED draft
       ELSE draft' = [draft EXCEPT ![me[p]].probe = file["probe"]] /\ UNCHANGED todo
    /\ UNCHANGED <<file, manifest, pc, me, held, first, started, history>>

\* writeOutput: os.WriteFile truncates the file, and then writes it.
Truncate(p) ==
    /\ pc[p] = "writing" /\ Current(p) # "registry"
    /\ Current(p) = "probe" => Mine(p).probe # Absent
    /\ Write(p, Current(p), Torn)
    /\ Goto(p, "filling")
    /\ UNCHANGED <<me, todo, held, first, draft, started>>

Fill(p) ==
    /\ pc[p] = "filling"
    /\ Write(p, Current(p), IF Current(p) = "probe" THEN Mine(p).probe ELSE me[p])
    /\ IF Later(p) # {}
       THEN todo' = Set(todo, p, Later(p)) /\ Goto(p, "writing")
       ELSE IF Mine(p).source = Absent
       THEN todo' = Set(todo, p, {}) /\ Goto(p, "idle")
       ELSE todo' = Set(todo, p, Included(Mine(p))) /\ Goto(p, "hashing")
    /\ UNCHANGED <<me, held, first, draft, started>>

\* mutant: the checksum of what the draft would have written
HashedAsWritten(p, kind) == IF kind = "registry" THEN Mine(p).source ELSE me[p]

\* releaseArtifactMetadata: an artifact is hashed as it is on disk by now.
Hashed(p, kind) == file[kind]

Hash(p) ==
    /\ pc[p] = "hashing"
    /\ file[Current(p)] # Absent
    /\ LET added == Set(held[p].listed, Current(p), Hashed(p, Current(p)))
       IN held' = Set(held, p, [by |-> me[p], listed |-> added])
    /\ todo' = Set(todo, p, Later(p))
    /\ Goto(p, IF Later(p) # {} THEN "hashing" ELSE "listing")
    /\ UNCHANGED <<file, manifest, me, first, draft, started, history>>

TruncateManifest(p) ==
    /\ pc[p] = "listing"
    /\ WriteManifest(p, Torn)
    /\ intact' = FALSE
    /\ Goto(p, "publishing")
    /\ UNCHANGED <<me, todo, held, first, draft, started>>

ArtifactsOnly(p) == held[p].listed   \* mutant: the list without its header

\* writeReleaseManifest
Assembled(p) == held[p]

Publish(p) ==
    /\ pc[p] = "publishing"
    /\ WriteManifest(p, Assembled(p))
    /\ intact' = (me[p] \notin disturbed)
    /\ Goto(p, "idle")
    /\ held' = Set(held, p, NoManifest)
    /\ UNCHANGED <<me, todo, first, draft, started>>

\* A writing command is killed, or one of its calls fails.
Stop(p) ==
    /\ pc[p] \in Drafting
    /\ Goto(p, "idle")
    /\ orderly' = FALSE
    /\ todo' = Set(todo, p, {})
    /\ held' = Set(held, p, NoManifest)
    /\ UNCHANGED <<file, manifest, me, first, draft, started, disturbed, touched, intact>>

-----------------------------------------------------------------------------
(* The judges *)

Readable == manifest \notin {Absent, Torn}

ListedIn(m) == {k \in Kind : m.listed[k] # Absent}

\* Reading the manifest and starting on its artifacts.
ReadManifest(p) ==
    IF Readable
    THEN /\ held' = Set(held, p, manifest)
         /\ todo' = Set(todo, p, ListedIn(manifest))
         /\ Goto(p, "checking")
    ELSE UNCHANGED <<held, todo>> /\ Goto(p, "failed")

\* catalogReleaseVerify
BeginVerify(p) ==
    /\ pc[p] = "idle"
    /\ ReadManifest(p)
    /\ orderly' = InTurn(p)
    /\ UNCHANGED <<file, manifest, me, first, draft, started, disturbed, touched, intact>>

\* releaseReadinessReportForManifest reads the manifest for its gates, and
\* then has verifyReleaseManifest read it again.
BeginReadiness(p) ==
    /\ pc[p] = "idle"
    /\ Readable
    /\ first' = Set(first, p, manifest)
    /\ Goto(p, "rereading")
    /\ orderly' = InTurn(p)
    /\ UNCHANGED <<file, manifest, me, todo, held, draft, started, disturbed, touched, intact>>

Reread(p) ==
    /\ pc[p] = "rereading"
    /\ ReadManifest(p)
    /\ touched' = touched \ {p}
    /\ UNCHANGED <<file, manifest, me, first, draft, started, orderly, disturbed, intact>>

\* verifyReleaseManifestArtifact: the checksum, and the schema, which a file
\* cut short does not satisfy.
Matches(p, kind) ==
    /\ file[kind] = held[p].listed[kind]
    /\ file[kind] # Torn

Check(p) ==
    /\ pc[p] = "checking"
    /\ IF ~Matches(p, Current(p))
       THEN Goto(p, IF first[p] = Absent THEN "rejected" ELSE "notReady") /\ todo' = Set(todo, p, {})
       ELSE /\ todo' = Set(todo, p, Later(p))
            /\ Goto(p, IF Later(p) # {} THEN "checking"
                       ELSE IF first[p] = Absent THEN "verified" ELSE "gating")
    /\ UNCHANGED <<file, manifest, me, held, first, draft, started, history>>

\* mutant: a probe is required only if there is one
MissingWithProbe ==
    /\ file["coverage"] \in Command /\ draft[file["coverage"]].source \in Unadapted
    /\ file["probe"] # Absent

\* releaseCoverageMissingAdapterOperations: a coverage report that cannot be
\* read counts as one without missing adapters.
MissingAdapters == file["coverage"] \in Command /\ draft[file["coverage"]].source \in Unadapted

Gate(p) ==
    /\ pc[p] = "gating"
    /\ Goto(p, IF MissingAdapters => "probe" \in ListedIn(first[p]) THEN "ready" ELSE "notReady")
    /\ UNCHANGED <<file, manifest, me, todo, held, first, draft, started, history>>

End(p) ==
    /\ pc[p] \in Verdict
    /\ Goto(p, "idle")
    /\ todo' = Set(todo, p, {})
    /\ held' = Set(held, p, NoManifest)
    /\ first' = Set(first, p, Absent)
    /\ touched' = touched \ {p}
    /\ UNCHANGED <<file, manifest, me, draft, started, orderly, disturbed, intact>>

-----------------------------------------------------------------------------
Next ==
    \E p \in Process :
        \/ BeginDraft(p) \/ BeginProbe(p) \/ BeginPlan(p)
        \/ WriteRegistry(p) \/ ReadProbe(p) \/ Truncate(p) \/ Fill(p)
        \/ Hash(p) \/ TruncateManifest(p) \/ Publish(p) \/ Stop(p)
        \/ BeginVerify(p) \/ BeginReadiness(p) \/ Reread(p) \/ Check(p) \/ Gate(p) \/ End(p)

Spec == Init /\ [][Next]_vars

-----------------------------------------------------------------------------
(* Properties *)

\* The manifest m lists what the draft d included, and nothing else, and this
\* is on disk.
Describes(m, d) ==
    /\ "diff" \in ListedIn(m) <=> d.previous
    /\ "probe" \in ListedIn(m) <=> d.probe # Absent
    /\ file["registry"] = d.source
    /\ file["coverage"] = m.by
    /\ file["plan"] = m.by
    /\ d.previous => file["diff"] = m.by
    /\ d.probe # Absent => file["probe"] = d.probe

\* A release that `release verify` or `release readiness` accepts is that of one
\* draft: its reports were derived from the Registry and from the probe beside
\* them, whatever earlier or stopped drafts have left in the directory.  Only a
\* draft during which another command wrote there may have hashed its files.
VerifiedIsCoherent ==
    \A p \in Process :
        pc[p] \in {"verified", "ready"} /\ p \notin touched =>
            manifest.by \in disturbed \/ Describes(manifest, draft[manifest.by])

\* The release of a draft that nobody disturbed is accepted, until something is
\* written into its directory: the manifest lists no artifact that is missing
\* or that the draft itself has changed after it was hashed.
IntactReleaseVerifies ==
    \A p \in Process : pc[p] = "rejected" /\ p \notin touched => ~intact

\* "when coverage still reports missing adapter operations,
\* reports/unadapted-external-probe.json ... must be present and
\* manifest-bound" (docs/registry-release.md).  The gate looks for the probe in
\* the manifest that readiness has read first and for the missing adapters in
\* the coverage of the one it has verified, which another command may have
\* written in between: a later draft, or the rest of one.  It holds all the
\* same, because no draft leaves out a probe that is there, unless another
\* command writes during that draft, or after the second reading.
ReadyOnlyWithProbe ==
    \A p \in Process :
        pc[p] = "ready" /\ p \notin touched
          /\ file["coverage"] \in Command /\ draft[file["coverage"]].source \in Unadapted =>
            \/ manifest.by \in disturbed
            \/ /\ manifest.listed["probe"] # Absent
               /\ file["probe"] = manifest.listed["probe"]

\* "catalog release verify ... must pass checksum and schema-bound artifact
\* validation before publishing" (docs/registry-release.md), after the commands
\* of its Local Release Draft: a draft, and the reports written again, one
\* after the other.
DocumentedReleaseVerifies ==
    \A p \in Process : pc[p] = "rejected" /\ p \notin touched => ~orderly
=============================================================================
