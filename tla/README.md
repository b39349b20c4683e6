# datapan-cli: verification project

TLA+ models of the parts of `datapan` that keep state on disk, TLC runs that
check them on small instances, and TLAPS proofs of the properties that matter
most for every instance.

`datapan` is a command line program: one process per command, no goroutines,
no daemon and no lock file. What makes it hard is therefore not threads but

* a command that is killed, or whose file-system calls fail, between two
  renames that belong together;
* two commands on the same `.datapan` directory at the same time;
* files that vouch for one another (a Registry and its provenance, an artifact
  and its sidecar, a cached response and its manifest) and that are replaced
  one after the other;
* answers of data.go.kr and of some hundred and forty other providers that are
  lost, late, blank, contradictory, or a page in place of data, and a list that
  changes while it is paged through.

## The system

| Part | State | Operations | Hard behaviour | What makes it correct |
|---|---|---|---|---|
| Registry install and recovery (`cli.go` 2886-3354) | the Registry file, the release evidence directory, the provenance; staged and backup copies; the journal | `catalog install`, `init`; recovery at the start of every command | kills and failing calls at every step, a recovery that is interrupted itself, two commands at once | the three targets change together or not at all; a command never loads a mixture; recovery always gets through; nothing is left behind |
| Command start (`Run`, `cli.go` 161-535) | none of its own | recovery, choice and load of a Registry, dispatch | two parsers of the same flags | nothing is loaded before the recovery |
| Registry download (`cli.go` 1686-2963) | the snapshot in memory | release lookup, downloads, archive and shard checks | partial or inconsistent releases | only a snapshot whose parts agree begins an install |
| Catalog update, enrichment (`cli.go` 1225-1480, 13768-13850) | the Registry file | replace the Registry file, with a backup copy | a rename that fails and is retried after a removal; provenance left stale | a Registry is never lost; the trust decision notices the staleness |
| Registry trust and failure routing (`cli.go` 7990-10480) | none | decides from Registry, provenance and evidence whether calls are allowed | evidence that has expired or belongs to another Registry | no call is allowed on evidence of another Registry |
| Response classification (`datago/response.go`) | none | says of an answer whether it is data, a refusal or a page | two status codes that disagree, met in the random order of a Go map | an error page is not data |
| Provider adapters (`provider/`) | the registry of adapters | `Verify` and `Call` of 138 adapters; who answers for a host | thirty copies of the same checks and readers; one conflict empties the registry | what was verified can be fetched; no host loses its adapter |
| Sync cache (`cli.go` 11361-11641, 11799-11860) | one directory per cache | `sync`; `preview`, `export` read it | overlapping syncs, a reader during a replacement, a kill | a generation is whole and never lost; readers notice a mixture |
| Generated artifacts (`cli.go` 7709-7796) | artifact and sidecar | the standalone generators | kills and double failures, no journal | an artifact is not left beside the provenance of another |
| Local access state (`access_state.go`) | `.datapan/access-state.json` | `access record`, `access status` | overlapping read-modify-writes | newer evidence is not overwritten by older |
| Approval batches (`access_batch.go`) | plan and checkpoint files, the browser's session | `access login`, `access plan`, `access apply --resume` | resumption, limits, early stop, a Registry replaced in between | no submission is forgotten, the summary adds up |
| Health probe (`health_probe.go`, `catalogVerify`, `execute`) | a receipt or report file | one operation verified, with at most one request | deadlines, an install meanwhile, a receipt derived from the result alone | a receipt claims what was seen, of one release, and counts its request |
| Health operation plan (`health_operation_*.go`, `health_response_assertion*.go`) | receipts | observations admitted by an index and policies | documents that have to agree | bounds are kept, secrets are not sent |
| Catalog import (`datago/importer.go`) | the Registry file | paging, retries, enrichment of link details | changing totals, failing and blank pages, a deadline | the import is complete or fails |
| Verification campaign (`cli.go` 5980-6897) | report files | plan, merge, summary | overlapping batches | no operation counted twice |
| Release draft (`cli.go` 6253-6673, 14299-14557) | the release directory and its manifest | `catalog release draft`, `verify`, `readiness`; probes and reports written into the directory | a draft over an earlier release, kills between twenty writes in place, a judge during a draft | an accepted release is that of one draft and describes itself |
| Catalog reports (`datago/`, `cli.go`) | report files | pure functions of a Registry | none to speak of | |
| Browser and portal access | browser profile | login, form inspection | submission is closed in this version | |

The parts meet on disk only. `catalog install` writes what `Run` loads and what
the trust decision reads; `catalog update`, `import` and `enrich` replace one
of the three files an install has written; `sync`, the generators and the probe
copy the trust decision into what they write; a probe, `sync` and `call` ask
through the adapters or the gateway executor, and read the answer with the same
classification; an approval plan starts from the verification report that
probes have written; `rollbackRegistryInstallTargets` is shared by the install,
the generators and the sync cache.

## Modules

| Module | Models | Checked by |
|---|---|---|
| `AtomicInstall` | what an install promises: three targets that are one value, replaced and loaded in one step | as a property of `RegistryInstall` |
| `RegistryInstall` | the journaled install, its rollback, the recovery, and `Run` as far as it recovers and loads; one command at a time, killed at any step, any call failing | `MCRegistryInstall` |
| `RegistryInstallRace` | the same functions by several commands at a time, without faults of their own | `MCLocalFiles`, `MCRegistryInstallRace` |
| `SyncCache` | replacement of a sync cache directory by several syncs, with kills and failing calls, and the readers of the cache | `MCLocalFiles` |
| `ArtifactPair` | replacement of a generated file and its sidecar, with kills and failing calls | `MCLocalFiles` |
| `AccessState` | `access record` by several commands at a time | `MCLocalFiles`, `MCAccessState` |
| `RegistryTrust` | the decision whether a command may call a provider, read file after file while installs (with their undoing) and `catalog update --apply` replace those files; several commands at a time | `MCRegistryTrust` |
| `ReleaseDraft` | the drafting of a local release, the commands that write into its directory before and after, and the two commands that judge it; several commands at a time, stopped at any step | `MCReleaseDraft` |
| `ApprovalBatch` | approval plans and resumed batches over Registries that are replaced in between, with kills and failing writes | `MCPortalCommands` |
| `CatalogImport` | `catalog import`, `update` and `enrich` as far as they fetch: pages of a changing list, retries, a deadline, link details, the write of the Registry | `MCPortalCommands` |
| `PortalCommands` | `CatalogImport` and `ApprovalBatch` side by side | `MCPortalCommands` |
| `Ranks` | helper: lists and their sorting as sets of places, so that both can be proved about | `MCPortalCommands` |
| `ResponseClassification` | how an answer is read | through `HealthProbe` |
| `ProviderAdapters` | what every adapter does: the checks before a request, the reading of the answer, the result | through `HealthProbe` |
| `ProbingAdapters`, `LandingAdapters` | one record per adapter of the choices in which it differs: those that probe a data endpoint, those that only look at a landing page | through `HealthProbe` |
| `AdapterRegistry` | the order of registration, refusals, and who answers for a host | through `HealthProbe` |
| `HealthProbe` | one operation verified, from the trust gate over the request to the receipt on disk, while another release is installed | `MCHealthProbe` |
| `LocalFiles` | the four parts that keep files of their own, side by side: `AccessState`, `SyncCache`, `ArtifactPair` and `RegistryInstallRace` | `MCLocalFiles` |
| `RegistryInstallProofs`, `RegistryInstallRaceProofs`, `ArtifactPairProofs`, `LocalFilesProofs`, `PortalCommandsProofs`, `RegistryTrustProofs`, `ReleaseDraftProofs`, `HealthProbeProofs` | theorems | TLAPS |

`HealthProbe` EXTENDS `AdapterRegistry`, which EXTENDS the two modules of
adapters, those `ProviderAdapters`, and that `ResponseClassification`.
`LocalFiles` EXTENDS `SyncCache` and has the other three as instances with
variables of their own, `PortalCommands` EXTENDS `CatalogImport` and has
`ApprovalBatch` as an instance; `MCLocalFiles` adds nothing but the sets of the
run, `MCPortalCommands` the sets and a comparison of `Ranks` with the sorting
and selecting of the community modules.

### How the models correspond to the code

**Files.** A file's content is the thing it was written from: a snapshot, a
cache generation, a run of a generator, a set of observation times. `Absent` is
a path that does not exist. A rename moves content in one step; a rename onto a
directory that has entries fails, onto an empty directory or a file it
replaces. `os.RemoveAll` of a directory that fails may have removed part of it
(`Torn`). Staged and backup files have random names, which nobody knows but the
running command and the journal. `RegistryInstall` keeps them in their slots
until the next install takes new names, so that what is left behind can be seen;
`excused` (history) lists those whose own removal failed or that a kill left with
no journal to name them.

**Control.** Every loop over `targets` is a loop over `i`, one file-system call
per step; `pc` names the loop or the call. `StageOrder` keeps the order in
which `commitRegistryInstall` stages, which is not the order in which it
commits. Where failing calls are in question, a call that can fail has an
action `...Fails` with what the code does then, and `Crash` (`Kill`) ends the
command between any two calls. The removals of a cleanup, whose errors the code
ignores, are among these in `RegistryInstall`, `SyncCache` and `RegistryTrust`.
They are not in `ArtifactPair`, where what a cleanup leaves has a name no later
command knows and no property speaks of it, nor in `RegistryInstallRace`, where
a call fails only because another command has been there.
`os.Lstat` and the reservation of a backup name are one step (`Reserve`): the
reserved file is created and removed before anyone can look. In
`RegistryInstallRace` staging is one step as well, since a staged file is
invisible until a journal names it; everything after it is one call per step,
and recovery's look-up of the backup and staged paths (`Look`) is apart from
the removal it decides (`Remove`).

**RegistryInstall.** `target`, `staged`, `backup` and `journal` are the disk.
`had`, `backedUp` and `committed` are the fields `HadTarget`, `BackedUp` and
`Committed` of `registryInstallTarget`, `failed` says whether `rollbackErrors`
or `recoveryErrors` is non-empty, `view` is what the last command loaded.
`DiscardBackupFails` is the branch in which the backup of a committed install
stays; `Unstage` and `UnstageFails` are the deferred removals, one target per
step, and also those of a staging that failed.
`LoadUnrecovered` is a command line with `--health-plan-index=VALUE`:
`hasAnyArg` accepts it and `Run` skips the recovery, while
`healthOperationPlanInvocation` ignores it, so that the default Registry is
loaded. `Spec` is of users who do not write that form, `SpecWithPlanFlag` adds
it.

**AccessState.** An observation is its time, a second and a fraction; the
observed state decides nothing. The file keeps the whole second (`stored`, which
is what `Predates` compares with); `made`, the time itself, is history. `read`
is the file as the command read it; `Write` replaces the file by `read` with one
record merged, whatever the file is by then. The constants `Given` and
`Observable` are the fields and times that commands may be given.

**SyncCache.** The directory's content is the sync that wrote it. A reader reads
an artifact and then the manifest: two steps, with the directory possibly
replaced in between. A sync that returns an error removes its staging directory
(`Clean`), or fails to (`CleanFails`); `unclean` is history.

**RegistryTrust.** A file is the release it comes from, `Updated` if `catalog
update` fetched it, `Torn` if an import was killed while it wrote in place. A
digest comparison is therefore a comparison of releases. A command's reads are
one step each, in the order of the code: `Load` (`Run`), `ReadProvenance`,
`CheckDigest`, `ReadDecision`, `CheckBinding` (which reads provenance and
manifest a second time, as `readManifestBoundReleaseArtifact` does). What the
evidence says (not ready, not compatible, block) is the nondeterministic
`refused`. A default Registry that is missing is silently replaced by the
embedded one, which is the verdict `embedded`. An install is `BackUp` and
`Commit` per target, and its rollback, after `Interrupt`, `Undo` and `Restore`:
the removal and the rename are two steps, each of which may fail, and the
command may be killed at any of them. `install` is then the journal with the
files it names, and the next command recovers (`Recover`, and per target
`RecoverTarget`, `Reinstate`, `DropStaged`), again with failures and kills. Of
the staged files only their being there is kept. A command that starts while an
install is under way would recover it at once, and two might recover together:
both are in `RegistryInstallRace`, not here. An update is `MakeCopy`
(`--backup`), `Replace`, and after a failed rename `Drop` and a second
`Replace`. `touched`, `since` and `swapped` record which files were written
since a command loaded its Registry, `dropped` which Registry files an update
has removed; no guard reads them. Outside the model are the in-place writes of
`catalog import` and `catalog enrich` while other commands run (`CatalogImport`
has them, and their results are among the initial states here), and two backups
in the same second, which share a name.

**ReleaseDraft.** A Registry is the source it was drafted from, any other file
the command that wrote it, so that a checksum comparison is a comparison of
authors. The some twenty artifacts and thirty schemas are five: those an
unconditional stretch of `writeReleaseDraft` writes are one, and "diff" stands
for both artifacts an option includes (catalog diff, verification report). Each
write but that of the Registry is `Truncate` and `Fill`, because `writeOutput`
writes in place; the retry of the Registry's rename is in `RegistryTrust`. A
probe is read, normalized and written back: its evidence stays that of the
command that collected it. `Hash` reads one artifact from disk, `Check` one
more. What a command has still to write, to hash or to check is the set `todo`,
taken in the order of `Written` (`writeReleaseDraft`) or `Listing` (the
manifest): `Current` is the first of them, `Later` the rest. Which Registries
have operations without an adapter is the constant `Unadapted`. `BeginPlan`
stands for the report commands that write into the directory after a draft.
Gates that the manifest of a draft passes by construction (required kinds,
schema set, non-empty Registry, evidence growth) are left out of `Gate`: they
can only refuse more, while another command writes. `orderly`, `disturbed`,
`touched` and `intact` are history; readiness reads the manifest twice
(`Reread`), and `touched` speaks of what was written since the second time.

**ArtifactPair.** `before` is a history variable: the pair when the command
began. `outcome` is what the command told its user.

**ApprovalBatch.** A portal page is the set of markers the inspection looks for
(`Pages`), of which `Shown` says what data.go.kr may show. `StartPlan`,
`PlanItem` and `WritePlan` are `accessPlan`; `StartApply` chooses between a
fresh start and the checkpoint, `Skip`, `PassCarried`, `ResolveFails` and
`HandOff` are the branches of the loop, `Checkpoint` and `Finish` its two
writes. The workflow apply hands a dataset to is closed in this version and
answers with a blocked receipt at once, so a batch makes one attempt and
submissions come only from checkpoints of earlier versions (`OldReports`).
`RegistryReplaced` is any command that puts another Registry in place. What
`--resume` takes over and what a plan selects are subsequences, in the form of
`Ranks`: the places of the entries that stay, in their order.
`carried` and `handed` are history, except that `carried` is also the code's
set of completed ids.

**CatalogImport.** A row is a dataset, the list its rows in ascending order, a
page the rows whose rank in the list falls on it (`OnPage`, `Rank`). `PageTaken`
is the loop of `FetchOpenDataList`: what it makes of an answer, blank or not.
`UpstreamChanges` may come between any two pages. `PageFails` counts attempts;
the delays between them are the fact that `Expire` may happen. `Truncate` and
`Encode` are the in-place write of import and enrich, `Replace` the atomic one
of update. `stayed`, `withdrawn` and `blank` are history.

**Answers and adapters.** A body is kept as what the readers tell apart: the
form of its text, whether the header calls it HTML, its envelope, what its
status codes say, its message and whether it has an item list. `rulings` holds
both values when members of a JSON object disagree, and `ruling` is the one that
the walk of a Go map met. An adapter is two records, `Asks` and `Reads`, of the
choices in which the files of `provider/` differ; the operators of
`ProviderAdapters` are what all files do; where a file takes the first check
that blocks, rule that matches or part that gives a reason, `FirstAt` does. A
`Reason` keeps who speaks, since the receipt searches words in it. Parameter
values and URLs are reduced to the kinds of parameters for which an adapter has
a value. The `C00` of one endpoint is an envelope of its own (`c00`: in a header
beside a body), and a success only with a normal message (`NormalC00`).

**HealthProbe.** `phase` follows `catalogVerify`: the Registry loaded, the
trust context computed (`Trust`, `Block`), the request sent (`Send`) or the
result known without one (`Settle`), the answer (`Receive`) or its absence
(`Break`), the receipt made (`Make`) or refused (`Refuse`), and the write:
atomic for a receipt (`Replace`, after a failed rename `Remove`), in place for a
report (`Truncate`, `Fill`). `Early` is everything that ends an operation
before a request. `Offered` and `FetchStop` are what `datapan call` would do with
the same operation before `Call`: whether it is offered
(`unsupportedOperationError`), and the credential and checks of
`requestPlanForOperation`. `Assess` is `classifyHealthProbe`, with its cases in
their order.
`InstallRegistry` and `InstallProvenance` are an install by another command,
which replaces the Registry first.

## Runs

| Run | What it checks | Bounds |
|---|---|---|
| `install_faults` | `TypeOK`; `WriteAhead`: a target is in its backup only under a journal that says so, or after the commit point; `ReturnsClean`: without a journal no path leaves staged or backup files but those whose removal failed; `InstallsWholeSet`: the recoverable set changes only to one whole snapshot; `ImplementsPromise`: refinement of `AtomicInstall`; `LoadsWholeSet`; `RecoveryConverges` (liveness). 508,036 states | two snapshots, one of them without release evidence (its directory is empty, so that a rename onto it succeeds), four crashes or failing calls, those of cleanups included, any number of commands |
| `install_plan_flag` | finding: `LoadsWholeSet` fails with `--health-plan-index=VALUE` (`SpecWithPlanFlag`) | one crash |
| `recovery_race_loss` | finding: `LoadsPreviousSet` fails when two commands recover at once | two commands |
| `access_record_overlap` | finding: `OlderNeverOverwritesNewer` fails when commands overlap | two commands, whole seconds 1 and 2 |
| `access_record_seconds` | finding: it fails without overlap, within a second | one command at a time, fractions 0, 5 and 9 of one second |
| `registry_trust` | `TypeOK`; `VerifiedIsWhatWasLoaded`: a command executes on a Registry other than the one it vouches for only if an install replaced the file it had loaded; `DecisionIsOfTheRelease`: an accepted consumer decision is that of the hashed release or of one whose provenance came later; `BackupKeepsReplaced`; `GoneOnlyByRetry`: a Registry that is there or in a backup is lost only by the retry of an update or by the undoing of a first install. 2,382,805 states | two commands at a time (interchangeable, `Symmetry`), any number one after another, two releases of which one has a decision, both paths, two installs or updates, any number of failing calls and kills in an install, its rollback or its recovery |
| `release_draft` | `TypeOK`; `VerifiedIsCoherent`: an accepted release is that of one draft, its reports derived from the Registry and the probe beside them, unless another command wrote during the draft; `IntactReleaseVerifies`: no false alarm; `ReadyOnlyWithProbe`: a release that still misses adapters is ready only with a probe its manifest lists. 3,361,193 states | two Registries, one with operations that lack an adapter; a directory with or without a probe; two writing commands, any number of judges, two at a time, any stop |
| `release_documented` | finding: `DocumentedReleaseVerifies` fails | as above |
| `local_files` | the four parts that keep files of their own. Access state: `RegressesOnlyOverUnreadFile`, `TouchesOnlyItsFields`. Sync cache: `FailureLeavesNothing`, `MissingOnlyInWindow`, `UnverifiedOnlyInWindow`. Generated artifacts: `Transactional`, `MismatchOnlyFromRollback`. Commands at one journal: `NeverLoadsInterrupted`, `EveryoneReturns` (liveness). `TypesOK` is the type invariant of the part that runs. 410,264 states | two access commands at a time, any number one after another, given the application, the quota or both, at two seconds with and without a fraction; three syncs, one reader, two kills or failing calls; three generations of an artifact, four failing calls, any number of kills; an installer and another command, from a clean disk and from disks that a killed install leaves: all three targets or none existed, and the kill came between any two of its renames (`LeftBehind`) |
| `portal_commands` | `TypesOK`. Approval batches: `SummaryAddsUp`; `SubmissionsStayRecorded`: a recorded submission is dropped only by a run without `--resume` or a plan that no longer wants the dataset. Import: `MissesOnlyOverWithdrawals`: an import of all pages misses a row that was listed all along only if another was withdrawn or a page was blank; `EveryCommandEnds` (liveness) | two Registries of three and one datasets, one of them forbidden, limits 0 to 2, one fault, every report of one result that an earlier version can have left; three rows in pages of one, three pages at most, one retry, one change upstream, two faults |
| `health_probe` | `TypeOK`; `HealthyIsAnswered`: a healthy receipt is of an answer that refuses nothing; `SpendsWithinBudget`: a receipt without an attempt spent no request; `RetriesOnlyTransient`; `VerifiedCanBeFetched`: `datapan call` gets through wherever `verify` did, of what it offers and has a credential for, but for pages; `NoHostIsOrphaned`; `MixesOnlyAcrossInstall`: a receipt names one release unless an install replaced the loaded Registry; `EveryProbeEnds` (liveness). 760,870 states | every host of the adapters that probe, two landing hosts, a host nobody owns, the gateway; what an operation wants one thing at a time and one pair; every form of a body with every envelope; HTTP 200, 302, 401, 404, 429 and 500; two releases |
| `health_levels` | finding: `LevelsAreMonotonic` fails | as above |

In `local_files` (module `LocalFiles`) and `portal_commands` (module
`PortalCommands`) the parts share no
file. The initial state chooses the part that runs (`part`), and the others
stand still, so that each is explored by itself under the bounds of its row.

Why the bounds are enough. The three install targets are the code's own number.
Two snapshots tell a new set from an old one, and a mixture from either; a
third brings nothing because only two are ever on disk for one transaction.
Four faults let a commit fail, its rollback fail, the recovery fail and a crash
come on top. Two seconds, each with and without a fraction, are all the orders
that two observations can have. Three syncs are the
fewest in which one restores a generation while another has moved away a third.
A release with a decision and one without are the two kinds the trust decision
tells apart, and two writes let an update come between an install and its use,
or two installs between two reads of one command. Two writing commands are an
earlier release and a draft over it, two overlapping drafts, or a draft and
what comes before or after it; the probe of the initial state saves a third.
Four failing calls are more than one generator run can survive without
reporting that its rollback failed. Three rows in pages of one give a first, a
middle and a last page, and one change can move any row over any page boundary.
Two faults are one more than the retry repairs. Three datasets let a batch skip
one, pass one it carries over and hand on the third. A probe asks once, so one
operation at a time is all there is; the adapters are all of those with a
reader of their own, while the 107 landing adapters left out differ from the
two kept in nothing but their name and hosts, which `NoHostIsOrphaned` does not
need a probe for: the registry itself holds all 138 in every run.

Deadlock is checked in all runs except `recovery_race_loss`, `local_files`,
`health_probe` and `health_levels`, where commands run once and the system then
stops.

### Fairness

`RegistryInstall` assumes weak fairness of everything but `Crash`: a command
that has started goes on to its next call, and the user goes on issuing
commands. Faults are bounded, which is what "once faults cease" means.
`RegistryInstallRace` assumes weak fairness of every process: there is no lock
in the program on which one command could wait for another, so the operating
system's scheduling is all it needs. `CatalogImport` assumes weak fairness of
the steps of a running command (`Step`); nobody has to start one, upstream owes
no stable list and no answer, and what ends a command is the page limit, the
bounded attempts and the deadline. `HealthProbe` assumes weak fairness of the
command's own steps (`Progress`), among them the time-out of a request, since
every request carries the deadline of a context (`cli.go:12955`); a provider
owes nothing. The other modules state no liveness.

## Findings

1. `install_plan_flag` (`cli.go:164`). `datapan ls --health-plan-index=x`
   skips the recovery and then loads the default Registry, against
   docs/cli-contract.md:112-114.
2. `recovery_race_loss` (`cli.go:3198`). Two commands that recover the same
   journal can destroy the previous set: one looks up the backup, the other
   restores it and goes on, the first removes the target it has just been told
   to restore. Against the comment at `cli.go:181`.
3. `access_record_overlap` (`access_state.go:98`). Of two overlapping
   `access record` commands the older observation can win, against
   docs/cli-contract.md:144-145.
4. `access_record_seconds` (`access_state.go:282`). The file keeps whole seconds,
   but a new observation is compared with its fraction: an observation of .0 s
   replaces one of .5 s of the same second, with no other command about, against
   the same sentence. `RegressesOnlyOverUnreadFile` says that no more than the
   fraction is lost that way.
5. `release_documented` (`cli.go:6054`). The documented local release draft
   writes reports into the release directory again after the draft has listed
   their checksums; `catalog release verify`, which follows, then rejects the
   release, against docs/registry-release.md:603-604. The verification plan
   differs whatever the time, because its `source` is "flag" and not "release".
6. `health_levels` (`health_probe.go:241`). A probe that the korad or the tour
   adapter stops before any request (WADL metadata, a service root) has a body
   shape all the same, and its receipt claims level L3 without an attempt,
   against docs/health-probe-feasibility.md:92-93.

Weaker observations are not runs of their own. The trust decision
(`cli.go:9323`) hashes the Registry file again instead of the bytes the command
has loaded, so that an install in between makes it vouch for a file it has not
loaded (`VerifiedIsWhatWasLoaded` says when). In `health_probe`
(`MixesOnlyAcrossInstall`) releases only move forward: an install that is undone
between the request and the receipt is in `RegistryTrust` alone. In
`portal_commands` the upstream list keeps its ascending order, whatever is
added or withdrawn. Three kinds of verified operations are not fetched by
`datapan call`, which `VerifiedCanBeFetched` names: those it does not offer (an
adapter that only verifies, and a service root, which the Tour adapter verifies),
those without a credential, and those whose answer was a page. Of the second
kind NAQS stands out: docs/provider-adapters.md:610-613 calls its endpoint
no-auth and usable with `datapan get`, but `requestPlanForOperation`
(`cli.go:12874-12880`) wants a credential for every operation.

`ReadyOnlyWithProbe` has two exceptions. A write after the second reading of the
manifest may replace what readiness judges. And a draft that another command
wrote into may leave out a probe: with three commands, a draft that sees no
probe, a probe written meanwhile, and readiness that has read the manifest of
another draft with that probe before it reads the disturbed one, a release is
ready without its probe. Two commands cannot do this, so that in the run the
property holds without the second exception; the theorem, which is of any
number, needs it.

Two drafts into one directory at
the same time may both succeed, with a manifest that lists files of either
(`VerifiedIsCoherent`). Two failing calls (the
rename of a new sidecar, then the removal of the new artifact) leave a new
artifact without predecessor beside an old sidecar; the command reports
"rollback failed", which is what `MismatchOnlyFromRollback` allows. And a
reader that has read an artifact before a sync moved the directory away passes
it without comparing it, since the manifest is missing at that moment
(`UnverifiedOnlyInWindow`). `catalog enrich --enrich-limit N`, which README.md:525
recommends in batches, always begins with the first rows that lack an
operation; detail pages without links use up the limit again in every batch
(`CatalogImport!Candidates`). A gateway body over 2 MiB becomes an error
without its HTTP status (`cli.go:12981`), which the receipt then calls a
retryable transport failure (the last line of `RetriesOnlyTransient`). And the
receipt of an operation whose Registry has no provenance is refused only after
its request was sent (`Refuse`).

## Proofs

`RegistryInstallProofs` proves, for any sets of snapshots and any number of
faults:

* `TypeCorrect`, `Invariance`: `TypeOK` and the inductive invariant `IInv`.
  None of the properties is inductive by itself, because each depends on where
  the command is: `IInv` says for every location what the journal, the three
  kinds of files and the command's own fields look like, in particular that
  while the journal is open every target is either untouched, or in its
  backup, or was absent before and can be told from a staged one.
* `ReturnsCleanHolds` from `IInv`, which says of every location which staged and
  backup files may be there without being `excused` (`Accounted`, `QuietInv`),
  and `WriteAheadHolds` with the addition that a backup which stays without a
  journal is that of an install whose targets are whole (`LeftoverInv`).
* `InstallsWholeSetHolds`: each step leaves `Restorable` (what recovery would
  make of the disk) alone, except `CommitPoint`, where `IInv` gives that all
  three targets are the new snapshot.
* `LoadsWholeSetHolds` and `Refinement` (`Spec => ImplementsPromise`), with the
  refinement mapping `set <- Restorable`. Both are of `Spec`: `install_plan_flag`
  refutes them for `SpecWithPlanFlag`.

`RegistryInstallRaceProofs` proves `NeverLoadsInterruptedHolds` for any number
of commands that meet at the journal of a killed installer, any of which may
install themselves. The invariant says that as long as that journal is on disk
each target is either no longer the killed installer's or can be told from
the disk to be (`Recognizable`), that nothing brings such a target back
(`BackupInv`), and what a command that recovers has dealt with, index by index
(`Dealt`), unless another one has recovered meanwhile: a command gets past the
recovery only when all of them are gone. It holds in spite of the
race of `recovery_race_loss`, in which the previous set is lost: what is loaded
then is nothing, not a part of the interrupted install. Assumed of the
constants is that the killed installer is no running command and that its name
differs from the model values.

`ArtifactPairProofs` proves `TransactionalHolds` and
`MismatchOnlyFromRollbackHolds` for any generations and failing calls. Both
speak of the moment a command ends. The invariant follows it from location to
location: until a call of the rollback itself fails, what was there before is in
the backup, still in place, or was nothing (`Recoverable`), and the rollback,
which goes down, has settled the targets above its index (`Settled`).

`LocalFilesProofs` has three parts. One proves, of `SyncCache`,
`FailureLeavesNothingHolds`, `MissingOnlyInWindowHolds` and
`UnverifiedOnlyInWindowHolds` for any number of syncs, readers, kills and
failing calls. Each sync is alone with its staging directory and its backup;
what the properties need of the others is that no generation shows up anywhere
before its sync has committed it (`GenerationInv`), so that two syncs never
hold the same one; that a staging directory outlives its sync only when its
removal failed is part of the invariant. Another proves, of `AccessState`,
`RegressesOnlyOverUnreadFileHolds` and `TouchesOnlyItsFieldsHolds` for any
commands, subjects and times, from the invariant that a command about to write
has evidence that does not predate what it read: what is stored then, its whole
second, is not earlier than what was, because a stored time has no fraction.
The rest is about `LocalFiles`: `Spec0` implements the specification of each
part (of `RegistryInstallRace` without its fairness, which only its liveness
needs), because a step of the whole is a step of one part, and the others
stutter. So the theorems of `RegistryInstallRaceProofs` and
`ArtifactPairProofs`, proved about those modules by themselves, carry over to
the properties that `local_files` checks.

`PortalCommandsProofs` proves `TypesCorrect`, `MissesOnlyOverWithdrawalsHolds`,
`SummaryAddsUpHolds` and `SubmissionsStayRecordedHolds` for any page size, number
of rows, Registries, limits, retries and faults.

* Of `CatalogImport` the invariant says where rows stand (`FetchInv`): the rows
  an import holds are no more than the places on the pages before the one it
  asks for, and every row that was listed all along and has its place there is
  held. A row that is listed meanwhile only moves others to later places. So a
  total that the rows held have reached leaves no place ahead, and the import
  may end. A withdrawal would break the second half, a blank page the first.
* Of `ApprovalBatch` it says that the counters are the numbers of results with
  each outcome (`CountInv`), and that a resumed batch has taken over every
  recorded submission its plan still wants (`TakenOverInv`), so that no
  checkpoint drops one.

The lemmas before these prove of `Rank`, `Nth` and `Subsequence` what the
recursive operators of the community modules would have to be taken on trust
for: ranks number a finite set from 1, and a subsequence has exactly the entries
at its places. The constants are assumed to be what `ConstantsAssumption` of
either module says.

`RegistryTrustProofs` proves `TypeCorrect`, `VerifiedIsWhatWasLoadedHolds` and
`DecisionIsOfTheReleaseHolds` for any commands, releases and number of writes.
These two speak of the moment of the verdict. The inductive invariant says what
a command may still believe on its way there (`JudgeInv`: the file is the one it
loaded unless an install wrote it or no provenance can name it, the provenance
is the one it read unless one was written since), and that at most one install
is under way, with files of the right kind in its backups (`OwnerInv`). Of each
step, `BackupKeepsReplacedHolds` (an update with `--backup` has copied the
Registry it replaces, unless another command wrote it since) follows from where
an update is (`CopyInv`). `GoneOnlyByRetryHolds` (a Registry that is there or in
a backup is lost only by the retried rename of an update or by the undoing of a
first install) needs what every location of an install, a rollback and a recovery
says of the Registry (`StageInv`): when the journal goes, after the commit, a
complete rollback or a recovery without errors, nothing is left in the backup,
whichever calls have failed before; and what is in the backup is a Registry
(`BackupInv`). The assumptions on the constants are that the model values
differ from releases and from one another.

`ReleaseDraftProofs` proves `TypeCorrect`, `VerifiedIsCoherentHolds`,
`IntactReleaseVerifiesHolds` and `ReadyOnlyWithProbeHolds` for any Registries,
processes and number of commands. The invariant follows a draft that nobody
disturbs from its first write to its manifest: what it has written is on disk,
what it has hashed is what it has written, hence so is what its manifest lists
(`DraftInv`, `ManifestInv`); as long as nothing was written since, the files are
still those (`IntactInv`); and a judge that was not disturbed either has in
hand the manifest on disk, and what it has compared is still there
(`JudgeInv`). `CommandInv` keeps the drafts apart: a number belongs to one
command, from its start to its manifest. `ReadyOnlyWithProbeHolds`, across the two
readings of the manifest, rests on a second invariant (`ProbeInv`): an undisturbed
draft that has passed over the probe had none to see, so that once a manifest
has listed a probe every later one does, or is that of a disturbed draft. The
proof asks of the constants, beyond
what the runs had shown to be needed, that there is a command at all and that a
manifest is never taken for one that is absent or torn.

`HealthProbeProofs` proves `TypeCorrect`, `HealthyIsAnsweredHolds`,
`SpendsWithinBudgetHolds`, `MixesOnlyAcrossInstallHolds`,
`RetriesOnlyTransientHolds` and `VerifiedCanBeFetchedHolds` for any operations,
any answers that a provider can give, all 138 adapters and any number of
releases. The inductive invariant follows the command: nothing is sent before
the trust gate and one request before an answer (`SpentInv`); the result is
that of the answer, or of what ended the operation before one came
(`AnswerInv`); a receipt says of attempt, assessment and releases what held when
it was made (`ReceiptInv`); as long as the loaded Registry is installed no
provenance is that of another release (`BoundInv`). `BoundInv` needs the
assumption that releases differ from one another, since an install of an
earlier release would bring the loaded Registry back. The rest is in lemmas
about the readers of answers:

* What stops a request is never a verification, no answer and no broken request
  is ever a skip, what is verified carries no refusal and no page (with the two
  exceptions the property states, pages and a normal C00), and a receipt is
  healthy only at the end of the cases of `classifyHealthProbe`.
* Every adapter is `Reasonable`. Of the words that a receipt takes for a timeout
  its rules give none but to a phrase about the provider's deadline, so that
  whatever it makes of a body is `Honest`; its `Call` checks no more before
  its request than its `Verify` (`AsksNoMore`); and what it offers it can call
  (`OfferIsMeant`). All but two check the same for
  both. `Humetro` leaves out the approval; `SeoulOpenData` asks for its key and
  parameters where `Verify` does so only for an operation with a key, and an
  operation without one is answered with a page, which the property excludes.
* The first of several places (`FirstAt`) is one of them (`Least`,
  `FoundAtPlace`), so that the adapter of a host is one that is registered and
  the reason of a failure one that the adapter gives.

The proofs made two properties more precise. `HealthyIsAnswered`: an envelope
that only one adapter knows is read whatever the Content-Type says.
`RetriesOnlyTransient`: a status of 600 and above counts as a 5xx.

`NoHostIsOrphanedHolds` is proved given `DefaultRegistry = Registered`, that is,
that no registration is refused. This is a closed statement, that the 138 sets
of hosts are disjoint. The SMT solver did not find a proof of it, so that it
rests on TLC: with a conflict no host has an adapter, and `health_probe` fails.

Only model-checked: that the registrations do not conflict, as just said, and
the liveness properties `RecoveryConverges`, `EveryoneReturns`,
`EveryCommandEnds` and `EveryProbeEnds` (liveness is out of the prover's reach).
Every other property of a passing run has a theorem.

## Not modelled

* Power loss. A crash is the death of the process; which unsynced writes survive
  a power failure is up to the file system. The code syncs staged files and
  parent directories but not the files of the staged release directory.
* A journal that does not parse or names unexpected targets: the program never
  writes one.
* The health operation plan (`--health-plan-index`; `health_operation_*.go`,
  `health_response_assertion*.go`, `health_request_transport.go`, some seven
  thousand lines): it judges an index, policies, catalogs and receipts by one
  another, with no state between commands. A model faithful to it would be a
  transliteration of its comparisons of documents.
* The verification campaign (`catalog verify plan`, `merge`, `summary`,
  `--exclude-input`), catalog reports, diff, audit and route disposition,
  diagnostics: functions of files to files.
* The gates before an install: which downloads make a snapshot.
* Browser control (CDP) with its profile on disk, and the HTTP submission code
  (`data_go_kr_http_access.go`) that no command reaches in this version.
* The content of requests, archives and reports beyond what the properties tell
  apart; formats.

## Plan

What a continuation would take up, in this order.

1. Verification campaign: `catalog verify --exclude-input` (what was seen is
   read at the start, the report written at the end) and `catalog verify merge`
   (reads all inputs, writes in place, removes no duplicates). An operation is
   counted twice only if the accumulated report was written since the batch
   began, and evidence is lost only to a kill within the write or an overlap.
2. Health operation plan: the one request it sends and its deadlines and
   redirects, beside `HealthProbe`; then its admission as operators.
3. Pure decisions (route disposition, catalog diff, failure routing) as
   operators, compared with reference definitions in one run.
4. Install gates: which releases begin an install.
5. A proof that no registration is refused: an owner for each host in a form
   that does not repeat the table.
