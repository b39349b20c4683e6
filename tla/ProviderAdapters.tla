-------------------------- MODULE ProviderAdapters --------------------------
(***************************************************************************)
(* What every provider adapter does (internal/provider): the checks made   *)
(* before a request leaves, how the answer is read, and the result a       *)
(* verification makes of it.  An adapter is a record of the choices in     *)
(* which the adapters' files differ; ProbingAdapters and LandingAdapters   *)
(* hold one record per adapter, AdapterRegistry the order they register in.*)
(***************************************************************************)
EXTENDS ResponseClassification, Sequences

\* Why a result failed or was skipped: a word of the adapter (the code
\* prefixes it with the adapter's name), a word of the CLI, a text the
\* provider sent or a reader made, or the text of an error.
Reason(by, what) == [by |-> by, what |-> what]
NoReason == Reason("none", "")

\* What an adapter's Verify and Call are asked: whether the portal wants an
\* approval first, the kinds of required parameters nobody gave a value, the
\* credential, whether this operation asks for one, whether it lists, how the
\* endpoint is written, and which of the special cases the adapter knows it is.
ParamKinds == {"alias", "sample", "filter", "own"}
SpecialCases == {"none", "metadata", "mutation", "soap", "nonSoap", "noAction",
                 "detail", "root", "otherKey"}
Questions ==
  [approval: BOOLEAN, missing: SUBSET ParamKinds, key: BOOLEAN,
   keyed: BOOLEAN, listing: BOOLEAN, endpoint: {"absolute", "relative"},
   special: SpecialCases]

StandardGates == <<"approval", "params", "key", "url">>

\* Before the request: who the adapter is and for which hosts, the kinds of
\* parameters it has a value for (listFills: only for operations that list),
\* the checks in their order, whether a relative endpoint is an error before
\* the request ("error": its text, "named": the adapter's word) or only to the
\* HTTP client ("client"), or is completed ("inferred"), and how a failed request is reported.
Asks(name, hosts) ==
  [name |-> name, hosts |-> hosts, fills |-> {}, listFills |-> {},
   gates |-> StandardGates, url |-> "client", transport |-> "raw"]

\* After the answer: the shape of HTML, the forms whose item list shows in the
\* shape (hollow: also when it is empty; itemsAfterStatus: not behind a status
\* code), the envelope only this adapter reads and in which forms, whether a
\* WADL body is refused, the HTTP statuses that have a word of their own, whether
\* HTML is an accepted landing page, whether any other HTTP status is reported
\* by its number, the phrases looked for in a message, the order in which the
\* parts of a status are tried for a reason, and the Call side (whether it is
\* enabled, whether Capabilities offers it, its checks).
Reads ==
  [html |-> "xml", items |-> {}, hollow |-> {}, itemsAfterStatus |-> TRUE,
   own |-> "none", ownForms |-> {}, refusesWADL |-> FALSE, absent |-> {},
   landing |-> "never", numbersHTTP |-> FALSE, phrases |-> <<>>,
   order |-> <<"reasonCode", "phrase", "code">>,
   calls |-> TRUE, offers |-> TRUE, callGates |-> StandardGates]

Adapter(asks, reads) == [asks |-> asks, reads |-> reads]

----------------------------------------------------------------------------
(* Before the request *)

Fills(ad, q) ==
  ad.asks.fills \cup (IF q.listing THEN ad.asks.listFills ELSE {})

\* xVerificationParams leaves in the list what xSafeDefault has no value for.
StillMissing(ad, q) == q.missing \ Fills(ad, q)

Blocks(gate, ad, q) ==
  \/ gate = "approval" /\ q.approval
  \/ gate = "params"   /\ StillMissing(ad, q) # {}
  \/ gate = "key"      /\ ~ q.key
  \/ gate = "keyIfAsked"    /\ q.keyed /\ ~ q.key
  \/ gate = "paramsIfAsked" /\ q.keyed /\ StillMissing(ad, q) # {}
  \/ gate = "url"      /\ ad.asks.url \in {"error", "named"} /\ q.endpoint = "relative"
  \/ gate \in SpecialCases /\ gate = q.special

\* The element at the first of these places of a sequence.
FirstAt(seq, places) == seq[CHOOSE i \in places : \A j \in places : i <= j]

\* The first check that stops the request, "open" when none does.
FirstStop(gates, ad, q) ==
  LET stops == {i \in DOMAIN gates : Blocks(gates[i], ad, q)}
  IN  IF stops = {} THEN "open" ELSE FirstAt(gates, stops)

Result(status, reason, http, shape, semantic, provider) ==
  [status |-> status, reason |-> reason, http |-> http, shape |-> shape,
   semantic |-> semantic, provider |-> provider]

\* Three special cases are given a shape although no body was seen.
UnseenShape(gate, ad) ==
  CASE gate = "metadata" /\ ad.asks.name = "korad" -> "wadl"
    [] gate = "mutation" -> "html_portal"
    [] gate = "root"     -> "service_root"
    [] OTHER             -> ""

\* The result of a request that was stopped.
Stopped(gate, ad) ==
  LET Skipped(reason) == Result("skipped", reason, 0, UnseenShape(gate, ad), "", NoStatus)
  IN  CASE gate = "approval"  -> Skipped(Reason("cli", "approval_required"))
        [] gate \in {"key", "keyIfAsked"} -> Skipped(Reason("cli", "missing_auth"))
        [] gate \in {"params", "paramsIfAsked", "detail"} ->
             Skipped(Reason("adapter", "missing_required_params"))
        [] gate = "url" ->
             Result("failed", IF ad.asks.url = "named"
                              THEN Reason("adapter", "bad_endpoint")
                              ELSE Reason("error", "not absolute"),
                    0, "", "", NoStatus)
        [] gate = "noAction" ->
             Result("failed", Reason("error", "no operation_url"), 0, "", "", NoStatus)
        [] OTHER -> Skipped(Reason("adapter", gate))

----------------------------------------------------------------------------
(* After the request *)

\* How a request ends without an answer that can be read: before a response
\* (timeout, refused, lost) or in the middle of its body.
Breaks == {"timeout", "refused", "lost", "bodyTimeout", "bodyLost"}
LateBreaks == {"timeout", "bodyTimeout"}
BodyBreaks == {"bodyTimeout", "bodyLost"}

\* xTransportReason.  An error while the body is read is reported by its text,
\* except by the adapter that sends and reads in one function.
BreakReason(ad, break) ==
  LET late == break \in LateBreaks
      named == IF late THEN "request_timeout" ELSE "request_failed"
      text  == Reason("error", IF late THEN "timeout" ELSE "lost")
  IN  CASE ad.asks.transport = "raw" -> text
        [] ad.asks.transport = "named" /\ break \in BodyBreaks -> text
        [] ad.asks.transport = "refusal" /\ break = "refused" ->
             Reason("adapter", "connection_refused")
        [] OTHER -> Reason("adapter", named)

Broken(ad, break) ==
  Result("failed", BreakReason(ad, break), 0, "", "", NoStatus)

\* xBodyShape, which looks at the text of the body; only the shapes that are
\* told apart later are kept ("" is the shape of a body nobody saw).  The landing reader also takes the word of the
\* Content-Type header ("typed").
ShowsItems(reads, body) ==
  /\ \/ body.items = "some"  /\ body.form \in reads.items
     \/ body.items = "empty" /\ body.form \in reads.hollow
  /\ reads.itemsAfterStatus \/ body.envelope \notin Coded

Shape(reads, body) ==
  CASE body.form = "empty" -> "empty"
    [] reads.html = "typed" /\ IsHTML(body) -> "html"
    [] reads.html # "typed" /\ body.form = "html" -> reads.html
    [] ShowsItems(reads, body) -> "items"
    [] body.form \in {"json", "cut"} -> "json"
    [] body.form \in {"xml", "wadl", "html"} -> "xml"
    [] OTHER -> "text"

\* xClassifyResponse: the adapter's own envelope first, before or after the
\* HTTP status is looked at; a complaint is a message that reports an error.
ReadsOwn(reads, http, body) ==
  /\ body.envelope = "own" /\ body.form \in reads.ownForms
  /\ \/ reads.own = "beforeStatus"
     \/ reads.own = "afterStatus" /\ Success(http)
     \/ reads.own = "complaint"
        /\ body.says \in Saying("ERROR") \cup Saying("NOT REGISTERED")

Classify(reads, http, body, ruling) ==
  IF ReadsOwn(reads, http, body)
  THEN StatusVerdict("own", ruling /\ reads.own # "complaint", body.says)
  ELSE ClassifyResponse(http, body, ruling)

\* xMessageReason: the word of the first phrase found.
PhraseReason(reads, text) ==
  LET found == {i \in DOMAIN reads.phrases : text \in Saying(reads.phrases[i][1])}
      word  == FirstAt(reads.phrases, found)[2]
  IN  IF found = {} \/ word = "" THEN NoReason ELSE Reason("adapter", word)

\* xFailureReason: the first of the parts of a status, then of the message,
\* that gives a reason.  "body" is the one reader that searches the whole body.
Candidate(part, reads, body, status) ==
  CASE part = "body" -> PhraseReason(reads, body.says)
    [] part = "reasonCode" /\ status.kind = "header" ->
         Reason("adapter", "reason_code")
    [] part = "code" /\ status.kind \in {"code", "own"} ->
         Reason("adapter", "result_code")
    [] part = "complaint" /\ status.kind = "own" ->
         Reason("adapter", "message_error")
    [] part = "phrase" /\ status.kind # "none" -> PhraseReason(reads, status.says)
    [] OTHER -> NoReason

FailureReason(reads, http, body, verdict) ==
  LET parts == [i \in DOMAIN reads.order |->
                  Candidate(reads.order[i], reads, body, verdict.status)]
      all == parts \o << PhraseReason(reads, verdict.message),
                         IF verdict.message = "" THEN NoReason
                         ELSE Reason("text", verdict.message),
                         Reason("adapter", "provider_error") >>
      given == {i \in DOMAIN all : all[i] # NoReason}
  IN  IF http \in reads.absent THEN Reason("adapter", "endpoint_not_found")
      ELSE FirstAt(all, given)

\* Verify, from the answer on.
LandsOn(reads, q) ==
  reads.landing = "always" \/ (reads.landing = "unkeyed" /\ ~ q.keyed)

Answered(ad, q, http, body, ruling) ==
  LET reads   == ad.reads
      shape   == Shape(reads, body)
      verdict == Classify(reads, http, body, ruling)
  IN  IF reads.numbersHTTP /\ ~ Success(http)
      THEN Result("failed", Reason("adapter", "http_status"), http, shape,
                  "http_error", NoStatus)
      ELSE IF LandsOn(reads, q) /\ shape = "html"
      THEN Result("verified", NoReason, http, shape, "html_landing_page", NoStatus)
      ELSE IF reads.refusesWADL /\ body.form = "wadl"
      THEN Result("failed", Reason("adapter", "wadl_metadata_response"), http,
                  shape, "metadata_response", NoStatus)
      ELSE IF verdict.ok
      THEN Result("verified", NoReason, http, shape, verdict.semantic,
                  verdict.status)
      ELSE Result("failed", FailureReason(reads, http, body, verdict), http,
                  shape, verdict.semantic, verdict.status)

AskedAgain(ad, q) ==   \* mutant: Call does not fill in the adapter's values
  IF q.missing # {} THEN "params"
  ELSE IF ad.reads.calls THEN FirstStop(ad.reads.callGates, ad, q) ELSE "disabled"

\* Call, for the adapters that have it: its own checks (those of the command come
\* before it), and a verdict that knows neither landing pages nor WADL bodies.
CallStop(ad, q) ==
  IF ad.reads.calls THEN FirstStop(ad.reads.callGates, ad, q) ELSE "disabled"

CallVerdict(ad, http, body, ruling) == Classify(ad.reads, http, body, ruling)
=============================================================================
