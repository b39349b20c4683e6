---------------------------- MODULE CatalogImport ----------------------------
(***************************************************************************)
(* Commands that fetch a Registry from data.go.kr: `catalog import`,       *)
(* `catalog update` and `catalog enrich` (internal/cli/cli.go), with the   *)
(* paging, the retries and the link-detail enrichment of                   *)
(* internal/datago/importer.go.                                            *)
(*                                                                         *)
(* Upstream lists rows, ascending, in pages of PerPage; its list may       *)
(* change while it is being paged through.  A request may fail, may be     *)
(* answered by a body that decodes to an empty page, and fails for good    *)
(* once the deadline of the command has passed.  A row stands for one      *)
(* dataset; the rows of LinkRow name no operation, and those of Linked     *)
(* have external links on their detail page, which enrichment turns into   *)
(* operations.                                                             *)
(*                                                                         *)
(* Decoding, normalising (NormalizeOpenDataRows keeps one dataset per list *)
(* id) and the extraction of links from HTML are abstracted to the sets    *)
(* of rows they yield; the delays between attempts to the fact that the    *)
(* deadline may pass in them.                                              *)
(***************************************************************************)
EXTENDS Naturals, FiniteSets, Sequences, Functions, Ranks

CONSTANTS
    MaxRow,     \* rows are 1..MaxRow
    LinkRow,    \* rows without an operation of their own (api_type LINK)
    Linked,     \* those of them whose detail page has external links
    PerPage,    \* --per-page
    MaxPages,   \* --max-pages
    Retries,    \* --retries
    MaxChanges, \* bound on the changes of the upstream list
    MaxFaults,  \* bound on failing or blank answers, failing writes and kills
    Absent,     \* no Registry file
    Torn        \* a Registry file cut short

Row == 1..MaxRow

ConstantsAssumption ==
    /\ MaxRow \in Nat /\ PerPage \in Nat \ {0} /\ MaxPages \in Nat \ {0}
    /\ Retries \in Nat /\ MaxChanges \in Nat /\ MaxFaults \in Nat
    /\ LinkRow \subseteq Row /\ Linked \subseteq LinkRow
    /\ Absent # Torn

Registry == [rows : SUBSET Row, linked : SUBSET Linked]

VARIABLES
    listing,   \* the rows upstream lists
    registry,  \* the Registry file
    pc,        \* where the running command is
    cmd,       \* its options
    page,      \* the page it asks for
    attempt,   \* failed attempts at the request under way
    rows,      \* rows fetched so far, or read from the Registry
    at,        \* candidates of the enrichment already visited
    linked,    \* rows with operations made from their links
    expired,   \* its deadline has passed
    changes, faults,
    stayed,    \* history: rows listed ever since the command started
    withdrawn, \* history: upstream has withdrawn a row since
    blank      \* history: an empty page was received that upstream did not mean

command == <<pc, cmd, page, attempt, rows, at, linked, expired>>
history == <<stayed, withdrawn, blank>>
vars == <<listing, registry, command, changes, faults, history>>

\* The options of a command that fetches pages, and of one that enriches:
\* how many of the details it asks for.
Details == {"none", "one", "all"}
Fetches ==
    [kind : {"import"}, all : {FALSE}, first : 1..2, pages : 1..2, details : Details, apply : {TRUE}]
    \cup [kind : {"import"}, all : {TRUE}, first : 1..2, pages : {1}, details : Details, apply : {TRUE}]
    \cup [kind : {"update"}, all : {TRUE}, first : {1}, pages : {1}, details : Details, apply : BOOLEAN]
Enrichments ==
    [kind : {"enrich"}, all : {FALSE}, first : {1}, pages : {1}, details : {"one", "all"}, apply : {TRUE}]

NoCommand ==
    [kind |-> "import", all |-> FALSE, first |-> 1, pages |-> 1, details |-> "none", apply |-> TRUE]

TypeOK ==
    /\ listing \in SUBSET Row
    /\ registry \in Registry \cup {Absent, Torn}
    /\ pc \in {"idle", "fetch", "enrich", "write", "writing"}
    /\ cmd \in Fetches \cup Enrichments
    /\ page \in 1..MaxPages + 2 /\ attempt \in 0..Retries
    /\ rows \in Seq(Row) /\ at \in 0..Len(rows)
    /\ linked \in SUBSET Linked
    /\ expired \in BOOLEAN /\ withdrawn \in BOOLEAN /\ blank \in BOOLEAN
    /\ stayed \in SUBSET Row
    /\ changes \in 0..MaxChanges /\ faults \in 0..MaxFaults

Init ==
    /\ listing \in SUBSET Row
    /\ registry \in {Absent, [rows |-> Row, linked |-> {}]}
    /\ pc = "idle"
    /\ cmd = NoCommand
    /\ page = 1 /\ attempt = 0
    /\ rows = <<>> /\ at = 0 /\ linked = {}
    /\ expired = FALSE
    /\ changes = MaxChanges /\ faults = MaxFaults
    /\ stayed = {} /\ withdrawn = FALSE /\ blank = FALSE

Fault == faults > 0 /\ faults' = faults - 1

\* The command ends, and with it all it held in memory.
End ==
    /\ pc' = "idle"
    /\ page' = 1 /\ attempt' = 0 /\ rows' = <<>> /\ at' = 0 /\ linked' = {}
    /\ expired' = FALSE
    /\ cmd' = NoCommand

-----------------------------------------------------------------------------
(* Upstream *)

\* A dataset is listed or withdrawn.
UpstreamChanges ==
    /\ changes > 0
    /\ changes' = changes - 1
    /\ \/ \E r \in Row \ listing : listing' = listing \cup {r} /\ UNCHANGED withdrawn
       \/ \E r \in listing : listing' = listing \ {r} /\ withdrawn' = (pc # "idle")
    /\ stayed' = stayed \cap listing'
    /\ UNCHANGED <<registry, command, faults, blank>>

\* The p-th page of the list.
OnPage(p) == {r \in listing : (p - 1) * PerPage < Rank(listing, r) /\ Rank(listing, r) <= p * PerPage}
PageOf(p) == Ascending(OnPage(p))

-----------------------------------------------------------------------------
(* Fetching the pages *)

\* catalog import, catalog update.  An update first reads the Registry it is
\* to replace, and a Registry it cannot read ends it.
StartFetch ==
    /\ pc = "idle"
    /\ \E c \in Fetches :
          /\ c.kind = "update" => registry # Torn
          /\ cmd' = c /\ page' = c.first
    /\ pc' = "fetch"
    /\ stayed' = listing /\ withdrawn' = FALSE /\ blank' = FALSE
    /\ UNCHANGED <<listing, registry, attempt, rows, at, linked, expired, changes, faults>>

PageTakenEarly(data, total) ==   \* mutant: the last page is counted twice
    LET got == rows \o data
        count == page + 1 - cmd.first
        complete == data = <<>> \/ Len(got) + Len(data) >= total
        limit == IF cmd.all THEN MaxPages ELSE cmd.pages
    IN
    \/ /\ complete \/ (~cmd.all /\ count >= limit)
       /\ pc' = IF cmd.details = "none" THEN "write" ELSE "enrich"
       /\ rows' = got /\ attempt' = 0
       /\ UNCHANGED <<cmd, page, at, linked, expired>>
    \/ /\ ~complete /\ count < limit
       /\ page' = page + 1
       /\ rows' = got /\ attempt' = 0
       /\ UNCHANGED <<pc, cmd, at, linked, expired>>

\* What the loop makes of an answered page: it stops at an empty page or when
\* upstream's count is reached; --all gives up after MaxPages pages, and
\* without it the command stops after cmd.pages.
PageTaken(data, total) ==
    LET got == rows \o data
        count == page + 1 - cmd.first
        complete == data = <<>> \/ Len(got) >= total
        limit == IF cmd.all THEN MaxPages ELSE cmd.pages
    IN
    \/ /\ complete \/ (~cmd.all /\ count >= limit)
       /\ pc' = IF cmd.details = "none" THEN "write" ELSE "enrich"
       /\ rows' = got /\ attempt' = 0
       /\ UNCHANGED <<cmd, page, at, linked, expired>>
    \/ /\ ~complete /\ cmd.all /\ count >= limit
       /\ End
    \/ /\ ~complete /\ count < limit
       /\ page' = page + 1
       /\ rows' = got /\ attempt' = 0
       /\ UNCHANGED <<pc, cmd, at, linked, expired>>

PageAnswered ==
    /\ pc = "fetch" /\ ~expired
    /\ PageTaken(PageOf(page), Cardinality(listing))
    /\ UNCHANGED <<listing, registry, changes, faults, history>>

\* A body that decodes to a page without rows: any JSON object without data,
\* as the error bodies sent with status 200, counts none; upstream may also
\* send its count without the rows.
PageBlank ==
    /\ pc = "fetch" /\ ~expired
    /\ Fault
    /\ \E total \in {0, Cardinality(listing)} : PageTaken(<<>>, total)
    /\ blank' = TRUE
    /\ UNCHANGED <<listing, registry, changes, stayed, withdrawn>>

PageFailsForEver ==   \* mutant: the attempts at a page are never used up
    /\ pc = "fetch"
    /\ expired \/ faults > 0
    /\ faults' = IF expired THEN faults ELSE faults - 1
    /\ attempt' = IF attempt < Retries THEN attempt + 1 ELSE 0
    /\ UNCHANGED <<pc, cmd, page, rows, at, linked, expired>>
    /\ UNCHANGED <<listing, registry, changes, history>>

\* A failed attempt is repeated after a delay, in which the deadline may be
\* found to have passed.
PageFails ==
    /\ pc = "fetch"
    /\ expired \/ faults > 0
    /\ faults' = IF expired THEN faults ELSE faults - 1
    /\ IF attempt < Retries /\ ~expired
       THEN attempt' = attempt + 1 /\ UNCHANGED <<pc, cmd, page, rows, at, linked, expired>>
       ELSE End
    /\ UNCHANGED <<listing, registry, changes, history>>

Expire ==
    /\ pc \in {"fetch", "enrich"} /\ ~expired
    /\ expired' = TRUE
    /\ UNCHANGED <<listing, registry, pc, cmd, page, attempt, rows, at, linked, changes, faults, history>>

-----------------------------------------------------------------------------
(* Link details *)

\* catalog enrich reads the Registry, and a Registry it cannot read ends it.
StartEnrich ==
    /\ pc = "idle"
    /\ registry \in Registry
    /\ cmd' \in Enrichments
    /\ rows' = Ascending(registry.rows)
    /\ linked' = registry.linked
    /\ pc' = "enrich"
    /\ stayed' = listing /\ withdrawn' = FALSE /\ blank' = FALSE
    /\ UNCHANGED <<listing, registry, page, attempt, at, expired, changes, faults>>

\* The rows whose detail page is wanted: those without an operation when the
\* enrichment starts.
Candidates ==
    LET had == IF cmd.kind = "enrich" THEN registry.linked ELSE {} IN
    Subsequence(rows, {i \in DOMAIN rows : rows[i] \in LinkRow \ had})

MoreDetails ==
    /\ pc = "enrich"
    /\ at < Len(Candidates)
    /\ cmd.details = "one" => at < 1

\* A detail page is read once; one without links counts towards the limit and
\* leaves the row without an operation.
DetailAnswered ==
    /\ MoreDetails /\ ~expired
    /\ at' = at + 1
    /\ linked' = linked \cup ({Candidates[at + 1]} \cap Linked)
    /\ UNCHANGED <<listing, registry, pc, cmd, page, attempt, rows, expired, changes, faults, history>>

\* It is not asked for again when the request fails: the command ends, and
\* what it had fetched is lost.
DetailFails ==
    /\ MoreDetails
    /\ expired \/ faults > 0
    /\ faults' = IF expired THEN faults ELSE faults - 1
    /\ End
    /\ UNCHANGED <<listing, registry, changes, history>>

Enriched ==
    /\ pc = "enrich" /\ ~MoreDetails
    /\ pc' = "write"
    /\ UNCHANGED <<listing, registry, cmd, page, attempt, rows, at, linked, expired, changes, faults, history>>

-----------------------------------------------------------------------------
(* Writing the Registry *)

Result == [rows |-> Range(rows), linked |-> linked]

\* writeRegistryOutput truncates the file, then encodes into it.
Truncate ==
    /\ pc = "write" /\ cmd.kind # "update"
    /\ registry' = Torn
    /\ pc' = "writing"
    /\ UNCHANGED <<listing, cmd, page, attempt, rows, at, linked, expired, changes, faults, history>>

Encode ==
    /\ pc = "writing"
    /\ registry' = Result
    /\ End
    /\ UNCHANGED <<listing, changes, faults, history>>

\* catalog update without --apply only reports; with it, writeRegistryAtomic
\* replaces the file.
Replace ==
    /\ pc = "write" /\ cmd.kind = "update"
    /\ registry' = IF cmd.apply THEN Result ELSE registry
    /\ End
    /\ UNCHANGED <<listing, changes, faults, history>>

\* A write that fails leaves what it finds, except that writeRegistryAtomic
\* removes the file when the rename over it fails, and may then fail again.
WriteFails ==
    /\ pc \in {"write", "writing"} /\ cmd.apply
    /\ Fault
    /\ registry' \in {registry} \cup (IF cmd.kind = "update" THEN {Absent} ELSE {})
    /\ End
    /\ UNCHANGED <<listing, changes, history>>

\* The process is killed.
Kill ==
    /\ pc # "idle"
    /\ Fault
    /\ End
    /\ UNCHANGED <<listing, registry, changes, history>>

-----------------------------------------------------------------------------
Step ==
    \/ PageAnswered \/ PageFails
    \/ DetailAnswered \/ DetailFails \/ Enriched
    \/ Truncate \/ Encode \/ Replace

Next ==
    \/ UpstreamChanges
    \/ StartFetch \/ StartEnrich
    \/ Step
    \/ PageBlank \/ Expire \/ WriteFails \/ Kill

\* A command that runs takes its next step; nobody has to start one.
Spec == Init /\ [][Next]_vars /\ WF_vars(Step)

-----------------------------------------------------------------------------
(* Properties *)

\* The paging of importer.go counts the rows it has, twice if it was sent them
\* twice, against a total that upstream sends anew with every page, while rows
\* move to other pages.  Even so, what `--all` from the first page is about to
\* write holds every row that upstream listed all along, unless a row was
\* withdrawn meanwhile or a page came back blank.
MissesOnlyOverWithdrawals ==
    pc \in {"write", "writing"} /\ cmd.all /\ cmd.first = 1 /\ ~withdrawn /\ ~blank
        => stayed \subseteq Range(rows)

\* Every command ends, however upstream's list and count change and whichever
\* requests fail (the --max-pages guard, the bounded attempts of
\* fetchOpenDataListPageWithRetry, the deadline).
EveryCommandEnds == pc # "idle" ~> pc = "idle"
=============================================================================
