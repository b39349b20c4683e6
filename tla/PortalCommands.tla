---------------------------- MODULE PortalCommands ----------------------------
(***************************************************************************)
(* The commands that talk to data.go.kr and keep what they learn, side by  *)
(* side: CatalogImport and ApprovalBatch.  They share no file here (what   *)
(* an import leaves is one of the Registries that ApprovalBatch finds), so *)
(* that which of them runs is chosen at first, and the other stands still. *)
(***************************************************************************)
EXTENDS CatalogImport

CONSTANTS
    Listings, Forbidden, Gateway, External, Shown, \* ApprovalBatch
    MaxFailures                                    \* its bound on failing writes and kills

VARIABLES
    part,   \* the part that runs
    approval_listed, approval_session, approval_plan, approval_report,
    approval_pc, approval_todo, approval_items, approval_run,
    approval_results, approval_counts, approval_faults, approval_carried,
    approval_handed

Approval ==
    INSTANCE ApprovalBatch WITH
        MaxFaults <- MaxFailures,
        listed <- approval_listed, session <- approval_session,
        plan <- approval_plan, report <- approval_report, pc <- approval_pc,
        todo <- approval_todo, items <- approval_items, run <- approval_run,
        results <- approval_results, counts <- approval_counts,
        faults <- approval_faults, carried <- approval_carried,
        handed <- approval_handed

ASSUME PortalCommandsAssumption == ConstantsAssumption /\ Approval!ConstantsAssumption

approvalVars == <<approval_listed, approval_session, approval_plan, approval_report,
    approval_pc, approval_todo, approval_items, approval_run,
    approval_results, approval_counts, approval_faults, approval_carried,
    approval_handed>>
everything == <<part, vars, approvalVars>>

\* Of a part that stands still one initial state is enough.
Init0 ==
    /\ part \in {"approval", "import"}
    /\ Approval!Init
    /\ part # "approval" =>
          /\ Len(approval_listed) = 1
          /\ ~approval_session /\ approval_report = Absent
    /\ Init
    /\ part # "import" => listing = {} /\ registry = Absent

ApprovalOnly == part = "approval" /\ UNCHANGED <<part, vars>>
ImportOnly == part = "import" /\ UNCHANGED <<part, approvalVars>>

ApprovalStep ==
  \/ ApprovalOnly /\ Approval!Login
  \/ ApprovalOnly /\ Approval!SessionExpires
  \/ ApprovalOnly /\ Approval!RegistryReplaced
  \/ ApprovalOnly /\ Approval!StartPlan
  \/ ApprovalOnly /\ Approval!PlanItem
  \/ ApprovalOnly /\ Approval!WritePlan
  \/ ApprovalOnly /\ Approval!StartApply
  \/ ApprovalOnly /\ Approval!Skip
  \/ ApprovalOnly /\ Approval!PassCarried
  \/ ApprovalOnly /\ Approval!ResolveFails
  \/ ApprovalOnly /\ Approval!HandOff
  \/ ApprovalOnly /\ Approval!Checkpoint
  \/ ApprovalOnly /\ Approval!Finish
  \/ ApprovalOnly /\ Approval!ApplyInterrupted

ImportStep ==
  \/ ImportOnly /\ UpstreamChanges
  \/ ImportOnly /\ StartFetch
  \/ ImportOnly /\ PageAnswered
  \/ ImportOnly /\ PageBlank
  \/ ImportOnly /\ PageFails
  \/ ImportOnly /\ Expire
  \/ ImportOnly /\ StartEnrich
  \/ ImportOnly /\ DetailAnswered
  \/ ImportOnly /\ DetailFails
  \/ ImportOnly /\ Enriched
  \/ ImportOnly /\ Truncate
  \/ ImportOnly /\ Encode
  \/ ImportOnly /\ Replace
  \/ ImportOnly /\ WriteFails
  \/ ImportOnly /\ Kill

Next0 == ApprovalStep \/ ImportStep

\* The fairness that CatalogImport states.
Spec0 ==
    /\ Init0 /\ [][Next0]_everything
    /\ WF_vars(ImportOnly /\ Step)

\* The type invariant of the part that runs.
TypesOK == IF part = "approval" THEN Approval!TypeOK ELSE TypeOK

\* ApprovalBatch: the summary counts every result once, and a submission once
\* recorded is not lost over a resumed batch.
SummaryAddsUp == Approval!SummaryAddsUp
SubmissionsStayRecorded == Approval!SubmissionsStayRecorded
=============================================================================
