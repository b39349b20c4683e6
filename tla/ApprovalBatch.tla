---------------------------- MODULE ApprovalBatch ----------------------------
(***************************************************************************)
(* Batches of API applications: `access login`, `access plan` and          *)
(* `access apply [--resume]` (internal/cli/access_batch.go,                *)
(* browser_workflow.go, portal_compatibility.go).                          *)
(*                                                                         *)
(* A plan lists datasets with a status: taken from the Registry (--all),   *)
(* or from an inspection of the portal page of every dataset that a        *)
(* verification report found forbidden (--input).  Apply hands the planned *)
(* datasets to the browser workflow one by one and rewrites its report     *)
(* after each, as the checkpoint --resume starts from.  The workflow no    *)
(* longer submits anything: it answers every hand-off with a blocked       *)
(* receipt, at which the batch stops.  Checkpoints may still hold          *)
(* submissions of earlier versions.                                        *)
(*                                                                         *)
(* Both commands first pass the trust gate that RegistryTrust models.      *)
(* Portal pages are reduced to the markers the inspection looks for.       *)
(***************************************************************************)
EXTENDS Naturals, Sequences, Functions, Ranks

CONSTANTS
    Listings,   \* the Registries that get installed: their datasets, in order
    Forbidden,  \* the datasets of the verification report with status 403, in its order
    Gateway,    \* datasets with an operation behind the data.go.kr gateway
    External,   \* datasets with an operation at another provider
    Shown,      \* what the portal's pages may show
    Absent,     \* no such file
    MaxFaults   \* bound on failing writes and kills

Dataset == UNION {Range(l) : l \in Listings} \cup Range(Forbidden)
Path == {"plan", "other plan"}

Required == "access_user_action_required"
Requested == "access_requested_not_confirmed"
Already == "access_already_requested"
Blocked == "portal_submission_blocked_pending_form_contract"

PortalStates ==
    {"logged_out", "eligible_to_apply", "already_requested_or_approved",
     "unsupported_form", "human_gate", "unknown"}
Statuses ==
    PortalStates \cup {Required, "external_provider_review", "not_applicable", "inspection_failed"}

Items == [id : Dataset, status : Statuses]

\* A result of apply; reinspect: its URL is that of the old request form.
Results == [id : Dataset, action : {Requested, Already, Blocked, "not_submitted"}, reinspect : BOOLEAN]

Counts == [eligible : Nat, attempted : Nat, submitted : Nat, already : Nat, skipped : Nat, failed : Nat]
NoCounts == [eligible |-> 0, attempted |-> 0, submitted |-> 0, already |-> 0, skipped |-> 0, failed |-> 0]

\* The checkpoint, and the report of a batch that has ended.
Reports == [path : Path, results : Seq(Results), counts : Counts]

\* What a portal page shows, as far as the inspection looks: markers of a
\* human gate, of the login page, of a duplicate or running request, a visible
\* control labelled as the application button, the application's markup.  A
\* control is read with its text alone, so none is ever bound to a service.
Pages == [gate : BOOLEAN, login : BOOLEAN, duplicate : BOOLEAN, requested : BOOLEAN,
          control : {"none", "text"}, markup : BOOLEAN]

ConstantsAssumption ==
    /\ Forbidden \in Seq(Dataset) /\ IsInjective(Forbidden)
    /\ \A l \in Listings : l \in Seq(Dataset) /\ IsInjective(l)
    /\ Gateway \subseteq Dataset /\ External \subseteq Dataset
    /\ Shown \subseteq Pages
    /\ Absent \notin Reports
    /\ MaxFaults \in Nat

VARIABLES
    listed,    \* the datasets of the Registry
    session,   \* the browser profile is logged in
    plan,      \* the plan files
    report,    \* the apply report, which is also the checkpoint
    pc,        \* where the running command is
    todo,      \* applying: planned items still to visit
    items,     \* planning: the items so far
    run,       \* applying: its options and attempts
    results,   \* applying: the results so far
    counts,    \* applying: the summary so far
    faults,
    carried,   \* history: the datasets apply took over from its checkpoint
    handed     \* history: the datasets apply has handed to the browser workflow

job == <<todo, items, run, results, counts>>
vars == <<listed, session, plan, report, pc, job, faults, carried, handed>>

Runs == [path : Path, all : BOOLEAN, resume : BOOLEAN, limit : 0..2, attempts : 0..2]

TypeOK ==
    /\ listed \in Listings
    /\ session \in BOOLEAN
    /\ plan \in [Path -> Seq(Items) \cup {Absent}]
    /\ report \in Reports \cup {Absent}
    /\ pc \in {"idle", "planning", "applying", "checkpoint", "last checkpoint", "finished"}
    /\ todo \in Seq(Items)
    /\ items \in Seq(Items)
    /\ run \in Runs
    /\ results \in Seq(Results)
    /\ counts \in Counts
    /\ faults \in 0..MaxFaults
    /\ carried \in SUBSET Dataset /\ handed \in SUBSET Dataset

\* A report left by an earlier version of the program.
OldReports ==
    { [path |-> "plan", results |-> <<[id |-> d, action |-> a, reinspect |-> r]>>, counts |-> NoCounts] :
        d \in Gateway, a \in {Requested, Already}, r \in BOOLEAN }

Init ==
    /\ listed \in Listings
    /\ session \in BOOLEAN
    /\ plan = [p \in Path |-> Absent]
    /\ report \in OldReports \cup {Absent}
    /\ pc = "idle"
    /\ todo = <<>> /\ items = <<>> /\ results = <<>>
    /\ run = [path |-> "plan", all |-> FALSE, resume |-> FALSE, limit |-> 0, attempts |-> 0]
    /\ counts = NoCounts
    /\ faults = MaxFaults
    /\ carried = {} /\ handed = {}

Fault == faults > 0 /\ faults' = faults - 1

End ==
    /\ pc' = "idle"
    /\ todo' = <<>> /\ items' = <<>> /\ results' = <<>> /\ counts' = NoCounts
    /\ run' = [path |-> "plan", all |-> FALSE, resume |-> FALSE, limit |-> 0, attempts |-> 0]
    /\ carried' = {} /\ handed' = {}

-----------------------------------------------------------------------------
(* The portal *)

PortalStateAsAction(page) ==   \* mutant: a state is named as apply names its result
    CASE page.gate -> "human_gate"
      [] ~page.gate /\ page.login -> "logged_out"
      [] ~page.gate /\ ~page.login /\ (page.duplicate \/ page.requested) -> Already
      [] OTHER -> IF page.control = "text" \/ page.markup THEN "unsupported_form" ELSE "unknown"

PortalState(page) ==
    CASE page.gate -> "human_gate"
      [] ~page.gate /\ page.login -> "logged_out"
      [] ~page.gate /\ ~page.login /\ (page.duplicate \/ page.requested) -> "already_requested_or_approved"
      [] OTHER -> IF page.control = "evidenced" THEN "eligible_to_apply"
                  ELSE IF page.control = "text" \/ page.markup THEN "unsupported_form"
                  ELSE "unknown"

\* `access login`: the user completes it in time, or the wait ends.
Login ==
    /\ pc = "idle"
    /\ session' = TRUE
    /\ UNCHANGED <<listed, plan, report, pc, job, faults, carried, handed>>

SessionExpires ==
    /\ session
    /\ session' = FALSE
    /\ UNCHANGED <<listed, plan, report, pc, job, faults, carried, handed>>

\* The status of a plan item that the workflow, started without --apply, comes
\* to: the state of the page once the session is found logged in; the browser
\* may not start, and a page may not open.
Inspected ==
    {"inspection_failed"} \cup (IF session THEN {PortalState(page) : page \in Shown} ELSE {})

\* `catalog install` or `catalog update` puts another Registry in place.  A
\* command has read the one it found when it started.
RegistryReplaced ==
    /\ pc = "idle"
    /\ listed' \in Listings \ {listed}
    /\ UNCHANGED <<session, plan, report, pc, job, faults, carried, handed>>

-----------------------------------------------------------------------------
(* access plan *)

StartPlan ==
    /\ pc = "idle"
    /\ \E path \in Path, all \in BOOLEAN, limit \in 0..1 :
          run' = [path |-> path, all |-> all, resume |-> FALSE, limit |-> limit, attempts |-> 0]
    /\ pc' = "planning"
    /\ UNCHANGED <<listed, session, plan, report, todo, items, results, counts, faults, carried, handed>>

\* The datasets to plan; without a limit, all of them.
Candidates ==
    LET ids == IF run.all THEN listed ELSE Forbidden IN
    IF run.limit > 0 /\ run.limit < Len(ids) THEN SubSeq(ids, 1, run.limit) ELSE ids

\* The Registry alone decides with --all.
RegistryStatus(id) ==
    IF id \in Gateway THEN Required
    ELSE IF id \in External THEN "external_provider_review" ELSE "not_applicable"

PlanItem ==
    /\ pc = "planning" /\ Len(items) < Len(Candidates)
    /\ LET id == Candidates[Len(items) + 1] IN
       \E status \in IF id \notin Range(listed) THEN {"inspection_failed"}
                     ELSE IF run.all THEN {RegistryStatus(id)} ELSE Inspected :
          items' = Append(items, [id |-> id, status |-> status])
    /\ UNCHANGED <<listed, session, plan, report, pc, todo, run, results, counts, faults, carried, handed>>

WritePlan ==
    /\ pc = "planning" /\ Len(items) = Len(Candidates)
    /\ \/ plan' = [plan EXCEPT ![run.path] = items] /\ UNCHANGED faults
       \/ Fault /\ UNCHANGED plan
    /\ End
    /\ UNCHANGED <<listed, session, report>>

-----------------------------------------------------------------------------
(* access apply *)

EligibleIn(planned) == {item.id : item \in {i \in Range(planned) : i.status = Required}}

IsDoneUnlessReinspected(planned, r) ==   \* mutant: every result is held against the old request form
    r.id \in EligibleIn(planned) /\ r.action \in {Requested, Already} /\ ~r.reinspect

\* A result that counts as done: of a dataset the plan still wants, submitted,
\* or requested before as seen on another page than the old request form.
IsDone(planned, r) ==
    /\ r.id \in EligibleIn(planned)
    /\ r.action = Requested \/ (r.action = Already /\ ~r.reinspect)

\* What --resume takes over of its checkpoint.
Completed(planned) ==
    Subsequence(report.results, {i \in DOMAIN report.results : IsDone(planned, report.results[i])})

Number(seq, action) == Cardinality({i \in DOMAIN seq : seq[i].action = action})

CountsAnew(seq) == NoCounts   \* mutant: results are carried over, their counts are not

CountsOf(seq) ==
    [NoCounts EXCEPT !.submitted = Number(seq, Requested),
                     !.already = Number(seq, Already),
                     !.attempted = Len(seq)]

\* Without --resume, and with it when there is no checkpoint, apply starts
\* from nothing.  A checkpoint of another plan path ends the command.
StartApply ==
    /\ pc = "idle"
    /\ \E path \in Path, resume \in BOOLEAN, limit \in 1..2 :
          /\ plan[path] # Absent
          /\ run' = [path |-> path, all |-> FALSE, resume |-> resume, limit |-> limit, attempts |-> 0]
          /\ todo' = plan[path]
          /\ IF resume /\ report # Absent
             THEN /\ report.path = path
                  /\ results' = Completed(plan[path])
                  /\ counts' = CountsOf(results')
             ELSE results' = <<>> /\ counts' = NoCounts
    /\ carried' = {r.id : r \in Range(results')}
    /\ pc' = "applying"
    /\ UNCHANGED <<listed, session, plan, report, items, faults, handed>>

Skip ==
    /\ pc = "applying" /\ todo # <<>>
    /\ Head(todo).status # Required \/ run.attempts >= run.limit
    /\ counts' = [counts EXCEPT !.skipped = @ + 1]
    /\ todo' = Tail(todo)
    /\ UNCHANGED <<listed, session, plan, report, pc, items, run, results, faults, carried, handed>>

Wanted ==
    pc = "applying" /\ todo # <<>> /\ Head(todo).status = Required /\ run.attempts < run.limit

PassCarried ==
    /\ Wanted
    /\ Head(todo).id \in carried
    /\ counts' = [counts EXCEPT !.eligible = @ + 1]
    /\ todo' = Tail(todo)
    /\ UNCHANGED <<listed, session, plan, report, pc, items, run, results, faults, carried, handed>>

ResolveFails ==
    /\ Wanted
    /\ Head(todo).id \notin carried \cup Range(listed)
    /\ counts' = [counts EXCEPT !.eligible = @ + 1, !.failed = @ + 1]
    /\ results' = Append(results, [id |-> Head(todo).id, action |-> "not_submitted", reinspect |-> FALSE])
    /\ todo' = Tail(todo)
    /\ pc' = "checkpoint"
    /\ UNCHANGED <<listed, session, plan, report, items, run, faults, carried, handed>>

\* The workflow answers at once with the blocked receipt, before it starts a
\* browser; the batch stops there.
HandOff ==
    /\ Wanted
    /\ Head(todo).id \in Range(listed) \ carried
    /\ handed' = handed \cup {Head(todo).id}
    /\ run' = [run EXCEPT !.attempts = @ + 1]
    /\ counts' = [counts EXCEPT !.eligible = @ + 1, !.attempted = @ + 1, !.failed = @ + 1]
    /\ results' = Append(results, [id |-> Head(todo).id, action |-> Blocked, reinspect |-> FALSE])
    /\ todo' = Tail(todo)
    /\ pc' = "last checkpoint"
    /\ UNCHANGED <<listed, session, plan, report, items, faults, carried>>

Written == [path |-> run.path, results |-> results, counts |-> counts]

Checkpoint ==
    /\ pc \in {"checkpoint", "last checkpoint"}
    /\ report' = Written
    /\ pc' = IF pc = "checkpoint" THEN "applying" ELSE "finished"
    /\ UNCHANGED <<listed, session, plan, job, faults, carried, handed>>

Finish ==
    /\ pc = "finished" \/ (pc = "applying" /\ todo = <<>>)
    /\ report' = Written
    /\ End
    /\ UNCHANGED <<listed, session, plan, faults>>

\* writeAtomicJSON fails, and the command with it; or the process is killed.
ApplyInterrupted ==
    /\ pc # "idle"
    /\ Fault
    /\ End
    /\ UNCHANGED <<listed, session, plan, report>>

-----------------------------------------------------------------------------
Next ==
    \/ Login \/ SessionExpires \/ RegistryReplaced
    \/ StartPlan \/ PlanItem \/ WritePlan
    \/ StartApply \/ Skip \/ PassCarried \/ ResolveFails \/ HandOff
    \/ Checkpoint \/ Finish \/ ApplyInterrupted

Spec == Init /\ [][Next]_vars

-----------------------------------------------------------------------------
(* Properties *)

Submissions(r) == IF r = Absent THEN {} ELSE {x.id : x \in {y \in Range(r.results) : y.action = Requested}}

\* What a checkpoint records as submitted stays recorded, whichever step of a
\* resumed batch is killed or fails to write: it is dropped only by a run
\* without --resume, or when the plan at the same path no longer wants the
\* dataset (accessApplyPlan, whose checkpoint knows its plan by path alone).
SubmissionsStayRecorded ==
    [][\A d \in Submissions(report) \ Submissions(report') :
          ~run.resume \/ d \notin EligibleIn(plan[run.path])]_vars

\* The summary of a report that apply writes adds up: every result is counted
\* once as submitted, requested before, or failed, and every planned item that
\* was visited is either eligible or skipped (accessApplyPlan's counters, some
\* taken over from the checkpoint and some started anew).
SummaryAddsUp ==
    pc \in {"checkpoint", "last checkpoint", "finished"} =>
        /\ counts.submitted + counts.already + counts.failed = Len(results)
        /\ counts.submitted = Number(results, Requested)
        /\ counts.eligible + counts.skipped + Len(todo) = Len(plan[run.path])
        /\ run.attempts <= run.limit

=============================================================================
