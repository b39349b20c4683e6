----------------------------- MODULE HealthProbe -----------------------------
(***************************************************************************)
(* One operation verified (`datapan verify REF --operation NAME`, with     *)
(* --health or with --probe-unadapted): internal/cli/cli.go catalogVerify, *)
(* requestPlanForOperation and execute, internal/cli/health_probe.go.      *)
(*                                                                         *)
(* The command loads a Registry, judges what is installed, finds who asks  *)
(* the operation's host (an adapter, the gateway executor, or nobody),     *)
(* sends at most one request, and writes what it saw: a receipt under      *)
(* --health, a report otherwise.  Meanwhile `datapan init` may install     *)
(* another release.  An installed Registry and its provenance are the      *)
(* release they come from.                                                 *)
(***************************************************************************)
EXTENDS AdapterRegistry

CONSTANTS
    Probes,     \* the commands and what they are asked to verify
    Answers,    \* what a provider may answer
    Release,    \* Registry releases, the first one installed at first
    Absent      \* no such file

Credentials == {"data_go_kr", "opendart", "seoul_open_data"}
Classes == {"external_endpoint", "service_root", "data_go_kr_gateway",
            "no_endpoint", "malformed_endpoint", "soap", "wms"}
Subjects ==
    [mode: {"health", "report"}, unadapted: BOOLEAN, class: Classes,
     host: STRING, asked: Questions, keys: SUBSET Credentials, c00: BOOLEAN]

Releases == {Release[i] : i \in DOMAIN Release}

ASSUME HealthProbeAssumption ==
    /\ Probes \subseteq Subjects
    /\ \A p \in Probes : p.mode = "health" => ~ p.unadapted
    /\ Answers \subseteq [http: 100 .. 999, body: Bodies, ruling: BOOLEAN]
    /\ \A a \in Answers : a.ruling \in a.body.rulings
    /\ Release \in Seq(STRING) /\ Len(Release) >= 1
    /\ \A i, j \in DOMAIN Release : Release[i] = Release[j] => i = j
    /\ Absent \notin Releases

Pending == Result("pending", NoReason, 0, "", "", NoStatus)
NoAnswer == [http |-> 0]

\* A file that is none of this run's: absent, left by an earlier run, or torn.
Of(kind) == [kind |-> kind]

VARIABLES
    registry,    \* the default Registry file
    provenance,  \* the provenance of the last install
    probe,       \* what the command is asked
    phase,       \* where the command stands
    loaded,      \* the Registry it has loaded
    trusted,     \* the release its trust context names
    sent,        \* the requests that have left
    answer,      \* the answer that arrived
    result,      \* the verification result
    receipt,     \* the receipt or report made of it
    file,        \* the file at --output
    exit         \* the exit code, "" before

installation == <<registry, provenance>>
judged == <<probe, loaded, trusted>>
vars == <<installation, judged, phase, sent, answer, result, receipt, file, exit>>

----------------------------------------------------------------------------
(* Who asks *)

\* Host by host, the adapter that answers for it.
AdapterFor == [host \in {p.host : p \in Probes} |-> MatchHost(DefaultRegistry, host)]
AdapterOf(p) == AdapterFor[p.host]

CredentialGroup(ad) ==
    CASE ad.asks.name = "opendart" -> "opendart"
      [] ad.asks.name = "seoul-open-data" -> "seoul_open_data"
      [] OTHER -> "data_go_kr"

HasKey(p, ad) == CredentialGroup(ad) \in p.keys
Question(p) == [p.asked EXCEPT !.key = HasKey(p, AdapterOf(p))]

Adapted(p) ==
    AdapterOf(p) # NoAdapter /\ p.class \in {"external_endpoint", "service_root"}

\* VerificationSkipReason, for operations no adapter verifies.
SkipReason(p) ==
    CASE p.class = "external_endpoint"  -> "external_provider_adapter_missing"
      [] p.class = "service_root"       -> "service_root_only"
      [] p.class = "no_endpoint"        -> "missing_endpoint"
      [] p.class = "malformed_endpoint" -> "malformed_endpoint"
      [] p.class \in {"soap", "wms"}    -> "unsupported_protocol"
      [] p.asked.approval               -> "approval_required"
      [] p.asked.missing # {}           -> "missing_required_params"
      [] OTHER                          -> ""

Unadapted(p) ==
    ~ Adapted(p) /\ p.unadapted /\ p.class = "external_endpoint"

Skipped(reason) == Result("skipped", Reason("cli", reason), 0, "", "", NoStatus)

\* The result reached before a request leaves, Pending when one does: what an
\* adapter stops and what only the HTTP client refuses (a relative URL); what is
\* skipped, and a request that cannot be planned.
EarlyOf(ad, q) ==
    LET stop == FirstStop(ad.asks.gates, ad, q)
    IN  IF stop # "open" THEN Stopped(stop, ad)
        ELSE IF q.endpoint = "relative" /\ ad.asks.url = "client" THEN Broken(ad, "lost")
        ELSE Pending

Early(p) ==
    IF Adapted(p) THEN EarlyOf(AdapterOf(p), Question(p))
    ELSE IF Unadapted(p)
    THEN IF p.asked.endpoint = "absolute" THEN Pending
         ELSE Result("failed", Reason("cli", "unadapted_probe_invalid_url"),
                     0, "", "", NoStatus)
    ELSE IF SkipReason(p) # "" THEN Skipped(SkipReason(p))
    ELSE IF "data_go_kr" \notin p.keys THEN Skipped("missing_auth")
    ELSE IF DefaultRegistry = <<>>
    THEN Result("failed", Reason("error", "conflict"), 0, "", "", NoStatus)
    ELSE Pending

----------------------------------------------------------------------------
(* The same operation fetched *)

\* operationSupport of an operation that is not the gateway's: its endpoint is
\* written, and the host's adapter has the capability.
Offered(p, ad) == p.class = "external_endpoint" /\ ad.reads.offers

\* What stops `datapan call` of it, "open" when nothing does: requestPlanForOperation
\* refuses what is not offered, then what has no credential, and Call checks again.
FetchStop(p, ad, q) ==
    IF ~ Offered(p, ad) THEN "unsupported"
    ELSE IF ~ HasKey(p, ad) THEN "missing_auth"
    ELSE CallStop(ad, q)

----------------------------------------------------------------------------
(* What is made of an answer *)

\* verificationBodyShape: rows of JSON, else what the Content-Type says.
GatewayShape(body) ==
    CASE body.form = "json" /\ body.items = "some"  -> "rows:n"
      [] body.form = "json" /\ body.items = "empty" -> "rows:0"
      [] body.typedHTML                   -> "html"
      [] body.form \in {"json", "cut"}    -> "json"
      [] body.form \in {"xml", "wadl"}    -> "xml"
      [] body.form = "empty"              -> "empty"
      [] OTHER                            -> "raw"

\* execute: a body over the ceiling is an error, and its status is lost.
GatewayResult(p, a) ==
    LET verdict == ClassifyEndpointResponse(p.c00, a.http, a.body, a.ruling)
    IN  IF a.body.form = "cut"
        THEN Result("failed", Reason("error", "ceiling"), 0, "", "", NoStatus)
        ELSE Result(IF verdict.ok THEN "verified" ELSE "failed",
                    IF verdict.ok THEN NoReason
                    ELSE Reason("text", verdict.message),
                    a.http, GatewayShape(a.body), verdict.semantic,
                    verdict.status)

\* probeUnadaptedExternal: nothing but the HTTP status is looked at.
UnadaptedResult(a) ==
    Result(IF Success(a.http) THEN "unknown" ELSE "failed",
           Reason("cli", "unadapted_probe_http"), a.http, GatewayShape(a.body),
           "", NoStatus)

AnswerResult(p, a) ==
    IF Adapted(p) THEN Answered(AdapterOf(p), Question(p), a.http, a.body, a.ruling)
    ELSE IF Unadapted(p) THEN UnadaptedResult(a)
    ELSE GatewayResult(p, a)

\* A request without an answer.  The unadapted probe ignores an error while it
\* reads the body: the answer is what has arrived.
NoDeadline(p) == Breaks \ LateBreaks   \* mutant: the request has no deadline
BreaksOf(p) == IF Unadapted(p) THEN Breaks \ BodyBreaks ELSE Breaks

LateIsSkipped(p, break) == Skipped("request_timeout")   \* mutant: a timeout counts as a skip

BreakWord(unadapted, break) ==
    CASE ~ unadapted -> Reason("error", IF break \in LateBreaks THEN "timeout" ELSE "lost")
      [] unadapted /\ break = "timeout" -> Reason("cli", "unadapted_probe_timeout")
      [] unadapted /\ break = "refused" -> Reason("cli", "unadapted_probe_connection_refused")
      [] OTHER -> Reason("cli", "unadapted_probe_request_error")

BreakResult(p, break) ==
    IF Adapted(p) THEN Broken(AdapterOf(p), break)
    ELSE Result("failed", BreakWord(Unadapted(p), break), 0, "", "", NoStatus)

----------------------------------------------------------------------------
(* The receipt *)

\* The words searched in a reason.
SaysTimeout(r) ==
    \/ r.by = "text" /\ r.what \in Saying("DEADLINE")
    \/ r.what \in {"timeout", "request_timeout", "deadline_expired",
                   "unadapted_probe_timeout"}
SaysRejected(r) ==
    r.by = "text" /\ r.what \in Saying("NOT REGISTERED") \cup Saying("CREDENTIAL")

Assessment(outcome, category, retryable) ==
    [outcome |-> outcome, category |-> category, retryable |-> retryable]

\* classifyHealthProbe: the first case that fits.  A skip by the parameter or
\* approval check is parameter_blocked only in the CLI's own words.
SkipCategory(reason) ==
    CASE reason = Reason("cli", "missing_auth") -> "credential_missing"
      [] reason \in {Reason("cli", "missing_required_params"),
                     Reason("cli", "approval_required")} -> "parameter_blocked"
      [] OTHER -> "unsupported"

Unhealthy(category, retryable) == Assessment("unhealthy", category, retryable)

RetriesRefusals(r) ==   \* mutant: a 4xx is retried like a 5xx
    IF r.status = "skipped" THEN Assessment("skipped", SkipCategory(r.reason), FALSE)
    ELSE IF r.http >= 400 THEN Unhealthy("provider_failure", TRUE)
    ELSE Assessment("healthy", "healthy", FALSE)

Assess(r) ==
    IF r.status = "skipped" THEN Assessment("skipped", SkipCategory(r.reason), FALSE)
    ELSE IF r.http = 429 THEN Unhealthy("rate_limited", TRUE)
    ELSE IF r.http \in {401, 403} \/ SaysRejected(r.reason)
    THEN Unhealthy("credential_rejected", FALSE)
    ELSE IF SaysTimeout(r.reason) THEN Unhealthy("timeout", TRUE)
    ELSE IF r.http >= 400 THEN Unhealthy("provider_failure", r.http >= 500)
    ELSE IF r.provider # NoStatus /\ ~ r.provider.ok THEN Unhealthy("provider_failure", FALSE)
    ELSE IF r.semantic \in {"html_response", "provider_error"}
    THEN Unhealthy("semantic_failure", FALSE)
    ELSE IF r.semantic = "unclassified_response" THEN Unhealthy("schema_drift", FALSE)
    ELSE IF r.status = "failed" /\ r.http = 0 THEN Unhealthy("transport_failure", TRUE)
    ELSE IF r.status = "verified" THEN Assessment("healthy", "healthy", FALSE)
    ELSE IF r.status = "failed" THEN Unhealthy("semantic_failure", FALSE)
    ELSE Assessment("indeterminate", "indeterminate", FALSE)

\* healthMaxLevel
MaxLevel(r) ==
    IF r.provider.ok THEN 4
    ELSE IF r.shape \notin {"", "html", "html_portal"} THEN 3
    ELSE IF r.http # 0 THEN 2
    ELSE 0

\* healthDataPresence
DataPresence(r) ==
    IF r.semantic = "empty_response" \/ r.shape = "rows:0" THEN "empty"
    ELSE IF r.shape \in {"rows:n", "items"} THEN "present"
    ELSE IF r.status = "skipped" \/ r.http = 0 THEN "not_observed"
    ELSE "indeterminate"

\* A report keeps the result; a receipt says what is claimed of it and binds it
\* to the installed release: the trust context's digest, and the manifest of
\* the provenance as it is when the receipt is made.
Report(r) == [kind |-> "report", result |-> r]

Receipt(r) ==
    [kind |-> "receipt", assessment |-> Assess(r), level |-> MaxLevel(r),
     presence |-> DataPresence(r), http |-> r.http,
     attempted |-> r.status # "skipped", registry |-> trusted,
     manifest |-> provenance]

\* verificationExitCode and healthProbeExitCode
ExitCode(made) ==
    IF made.kind = "receipt"
    THEN CASE made.assessment.outcome = "healthy" -> "ok"
           [] made.assessment.outcome \in {"skipped", "indeterminate"} -> "auth"
           [] OTHER -> "request"
    ELSE IF made.result.reason = Reason("cli", "missing_auth") THEN "auth"
    ELSE IF made.result.status = "failed" THEN "request"
    ELSE "ok"

----------------------------------------------------------------------------
(* The command *)

\* The default Registry comes from an install, whose provenance may since
\* have been removed; an earlier run may have left a file at --output.
Init ==
    /\ registry = Release[1]
    /\ provenance \in {Release[1], Absent}
    /\ probe \in Probes
    /\ phase = "loaded"
    /\ loaded = registry
    /\ trusted = Absent
    /\ sent = 0
    /\ answer = NoAnswer
    /\ result = Pending
    /\ receipt = Absent
    /\ file \in {Of("absent"), Of("earlier")}
    /\ exit = ""

Ends(code) == phase' = "done" /\ exit' = code

\* localRegistryTrust: a Registry that is not the one of the provenance blocks
\* the command; one without provenance does not.
Trust ==
    /\ phase = "loaded"
    /\ provenance \in {Absent, registry}
    /\ phase' = "trusted"
    /\ trusted' = provenance
    /\ UNCHANGED <<installation, probe, loaded, sent, answer, result, receipt, file, exit>>

Block ==
    /\ phase = "loaded"
    /\ provenance \notin {Absent, registry}
    /\ Ends("request")
    /\ UNCHANGED <<installation, judged, sent, answer, result, receipt, file>>

\* The request leaves, or the result is known without one.
SendAndStay ==   \* mutant: the command does not notice that it has sent
    /\ phase = "trusted"
    /\ Early(probe) = Pending
    /\ sent < 2
    /\ sent' = sent + 1
    /\ UNCHANGED <<installation, judged, phase, answer, result, receipt, file, exit>>

Send ==
    /\ phase = "trusted"
    /\ Early(probe) = Pending
    /\ phase' = "waiting"
    /\ sent' = sent + 1
    /\ UNCHANGED <<installation, judged, answer, result, receipt, file, exit>>

Settle ==
    /\ phase = "trusted"
    /\ phase' = "observed"
    /\ result' = Early(probe)
    /\ result' # Pending
    /\ UNCHANGED <<installation, judged, sent, answer, receipt, file, exit>>

\* healthSingleRequestClient: a redirect is the answer under --health, and is
\* followed otherwise.
Redirects(http) == http \in 300 .. 399

Receive(a) ==
    /\ phase = "waiting"
    /\ probe.mode = "report" => ~ Redirects(a.http)
    /\ phase' = "observed"
    /\ answer' = a
    /\ result' = AnswerResult(probe, a)
    /\ UNCHANGED <<installation, judged, sent, receipt, file, exit>>

Break(break) ==
    /\ phase = "waiting"
    /\ break \in BreaksOf(probe)
    /\ phase' = "observed"
    /\ result' = BreakResult(probe, break)
    /\ UNCHANGED <<installation, judged, sent, answer, receipt, file, exit>>

\* healthProbeReceipt refuses an operation whose Registry has no provenance,
\* after the request.
AlwaysBinds == TRUE   \* mutant: no provenance, no refusal
Binds == probe.mode = "report" \/ Absent \notin {trusted, provenance}

Make ==
    /\ phase = "observed"
    /\ Binds
    /\ receipt' = IF probe.mode = "report" THEN Report(result) ELSE Receipt(result)
    /\ phase' = "made"
    /\ UNCHANGED <<installation, judged, sent, answer, result, file, exit>>

Refuse ==
    /\ phase = "observed"
    /\ ~ Binds
    /\ Ends("request")
    /\ UNCHANGED <<installation, judged, sent, answer, result, receipt, file>>

\* writeOutputAtomic: a temporary file is renamed; when that fails the old file
\* is removed and the rename tried again.  writeOutput opens and truncates.
Replace ==
    /\ phase \in {"made", "removed"}
    /\ probe.mode = "health"
    /\ file' = receipt
    /\ Ends(ExitCode(receipt))
    /\ UNCHANGED <<installation, judged, sent, answer, result, receipt>>

Remove ==
    /\ phase = "made"
    /\ probe.mode = "health"
    /\ phase' = "removed"
    /\ file' = Of("absent")
    /\ UNCHANGED <<installation, judged, sent, answer, result, receipt, exit>>

Truncate ==
    /\ phase = "made"
    /\ probe.mode = "report"
    /\ phase' = "truncated"
    /\ file' = Of("torn")
    /\ UNCHANGED <<installation, judged, sent, answer, result, receipt, exit>>

Fill ==
    /\ phase = "truncated"
    /\ file' = receipt
    /\ Ends(ExitCode(receipt))
    /\ UNCHANGED <<installation, judged, sent, answer, result, receipt>>

\* The temporary file cannot be written, a rename fails for good, the disk is
\* full, or the process is killed.
GiveUp ==
    /\ phase \in {"made", "removed", "truncated"}
    /\ Ends("request")
    /\ UNCHANGED <<installation, judged, sent, answer, result, receipt, file>>

Kill ==
    /\ phase # "done"
    /\ Ends("killed")
    /\ UNCHANGED <<installation, judged, sent, answer, result, receipt, file>>

\* Another command installs the next release: the Registry, then provenance.
InstallRegistry ==
    /\ \E i \in 1 .. Len(Release) - 1 :
          registry = Release[i] /\ registry' = Release[i + 1]
    /\ provenance \in {registry, Absent}
    /\ UNCHANGED <<provenance, judged, phase, sent, answer, result, receipt, file, exit>>

InstallProvenance ==
    /\ registry # Release[1]
    /\ provenance # registry
    /\ provenance' = registry
    /\ UNCHANGED <<registry, judged, phase, sent, answer, result, receipt, file, exit>>

\* What the command does by itself.  The deadline of the context ends a request
\* that is never answered; the provider owes nothing.
Progress ==
    \/ Trust \/ Block \/ Send \/ Settle \/ Break("timeout")
    \/ Make \/ Refuse \/ Replace \/ Remove \/ Truncate \/ Fill \/ GiveUp

Next ==
    \/ Progress \/ Kill
    \/ \E a \in Answers : Receive(a)
    \/ \E break \in Breaks \ {"timeout"} : Break(break)
    \/ InstallRegistry \/ InstallProvenance

Spec == Init /\ [][Next]_vars /\ WF_vars(Progress)

----------------------------------------------------------------------------
(* Properties *)

\* What names a release, what was observed, and what is written of it.
ReleasesOK ==
    /\ {registry, loaded} \subseteq Releases
    /\ {provenance, trusted} \subseteq Releases \cup {Absent}

ObservedOK ==
    /\ probe.mode \in {"health", "report"} /\ probe.class \in Classes
    /\ phase \in {"loaded", "trusted", "waiting", "observed", "made", "removed",
                  "truncated", "done"}
    /\ sent \in {0, 1}
    /\ answer = NoAnswer \/ answer.body.form \in Forms
    /\ result.status \in {"pending", "verified", "failed", "skipped", "unknown"}

WrittenOK ==
    /\ receipt = Absent \/ receipt.kind \in {"report", "receipt"}
    /\ file \in {Of("absent"), Of("earlier"), Of("torn"), receipt}
    /\ exit \in {"", "ok", "auth", "request", "killed"}

TypeOK == ReleasesOK /\ ObservedOK /\ WrittenOK

Finished == phase = "done" /\ file = receipt /\ receipt # Absent
Claimed == Finished /\ probe.mode = "health"

\* What a provider says against the request, whoever reads it.  An envelope that
\* only an adapter knows is read whatever the Content-Type calls it.
Refuses(a) ==
    \/ CarriesStatus(a.body) /\ ~ a.ruling
    \/ IsHTML(a.body) /\ a.body.envelope # "own"

\* A receipt that says healthy is of an answer: one request left, and what came
\* back is no HTTP error and carries neither a refusal nor a page in place of
\* data, unless an adapter takes pages or it is the one endpoint's C00.
HealthyIsAnswered ==
    Claimed /\ file.assessment.outcome = "healthy" =>
      /\ sent = 1 /\ answer # NoAnswer
      /\ answer.http < 400
      /\ Refuses(answer) => \/ AdapterOf(probe).reads.landing # "never"
                            \/ probe.c00 /\ NormalC00(answer.body)

\* A receipt without an attempt spent no request (health_probe.go derives
\* attempted and request_budget from the result, not from the client): the
\* scheduler that counts them never counts too few.
SpendsWithinBudget == Claimed /\ ~ file.attempted => sent = 0

\* What a receipt calls retryable is no answer that would come again: no answer
\* arrived, or a 429, a 5xx or a status of no class (which counts as a 5xx), or
\* the provider's own deadline, or a body over the reader's limit (which does
\* come again: execute has lost its status).
RetriesOnlyTransient ==
    Claimed /\ file.assessment.retryable =>
      \/ answer = NoAnswer
      \/ answer.http = 429 \/ answer.http >= 500
      \/ answer.body.says \in Saying("DEADLINE")
      \/ answer.body.form = "cut"

\* What an adapter has verified, `datapan call` fetches: nothing on the way stops
\* the same question, and Call's reader takes the same answer.  Three things are
\* verified that it does not fetch, and the property says there is no fourth: an
\* operation it does not offer (one that an adapter only verifies, or a service
\* root); one without a credential, which Verify may not need (NAQS, Jeju, the
\* portals that ask only some operations for it) and requestPlanForOperation
\* wants for all; and a page that Verify takes for an answer.
Fetchable(p, ad, q) == Offered(p, ad) /\ HasKey(p, ad) /\ ~ LandsOn(ad.reads, q)
Fetches(p, ad, q, a) ==
    /\ FetchStop(p, ad, q) = "open"
    /\ CallVerdict(ad, a.http, a.body, a.ruling).ok
VerifiedCanBeFetched ==
    /\ Finished /\ Adapted(probe) /\ result.status = "verified"
    /\ Fetchable(probe, AdapterOf(probe), Question(probe))
    => Fetches(probe, AdapterOf(probe), Question(probe), answer)

\* An operation on a host some adapter names is never reported as lacking an
\* adapter: one conflict among 138 registrations empties the registry, and
\* catalogVerify drops the error.
Owned(host) == \E i \in DOMAIN Registered : host \in Registered[i].asks.hosts
NoHostIsOrphaned ==
    Finished /\ probe.class = "external_endpoint" /\ Owned(probe.host) =>
       result.reason # Reason("cli", "external_provider_adapter_missing")

\* The Registry whose operation was probed, the digest of the trust context and
\* the manifest read when the receipt is made are of one release, unless an
\* install has replaced the loaded Registry meanwhile.
MixesOnlyAcrossInstall ==
    Claimed /\ ~ (file.registry = loaded /\ file.manifest = loaded)
    => registry # loaded

\* A command ends, answered or not: the provider may stay silent, the deadline
\* of the request does not.
EveryProbeEnds == <>(phase = "done")

\* docs/health-probe-feasibility.md: "a higher level implies that the
\* lower-level observation was made", so a level above 1 has an HTTP answer.
LevelsAreMonotonic == Claimed => (file.level >= 2 => file.http # 0)
=============================================================================
