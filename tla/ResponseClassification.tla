----------------------- MODULE ResponseClassification -----------------------
(***************************************************************************)
(* How an answer of a provider is read (internal/datago/response.go).      *)
(*                                                                         *)
(* A body is kept as what the readers below tell apart: the form of its    *)
(* text, whether the Content-Type header calls it HTML, the status         *)
(* envelope it carries and the item list it carries.  A text is one of the *)
(* messages providers send, and a search for a needle in it is a lookup    *)
(* (Saying): case and spelling variants of a needle are one needle.        *)
(***************************************************************************)
EXTENDS Integers

\* The forms of a body.  "cut" is a JSON text longer than the reader's limit:
\* what is left of it does not parse.
Forms == {"empty", "html", "json", "xml", "wadl", "text", "cut"}

\* The envelopes a body may carry: none, a resultCode (c00: it is C00, in the
\* header of a response that has a body), the gateway's cmmMsgHeader (XML, with
\* or without its reason code), or one that only one provider's adapter reads.
Envelopes == {"none", "code", "c00", "header", "bareHeader", "own"}
Coded == {"code", "c00"}

\* What a provider says in the message of its envelope.
Unregistered == "SERVICE KEY IS NOT REGISTERED"
Messages == {"", "NORMAL SERVICE", Unregistered, "SERVICE KEY IS MISSING",
             "SERVICE ACCESS DENIED", "DEADLINE HAS EXPIRED",
             "INVALID REQUEST PARAMETER", "INVALID PARAMETER",
             "NO OPENAPI SERVICE", "SQL ERROR", "UNSUPPORTED AUTH",
             "FAILED TO VALIDATE", "CREDENTIAL REFUSED", "ANOTHER MESSAGE"}

\* The texts the readers themselves make.
NotData     == "provider returned HTML instead of data"
StatusText  == "HTTP status"
CodeText    == "provider returned code"

\* The messages in which a needle is found.
Saying(needle) ==
  CASE needle = "UNREGISTERED"       -> {Unregistered}
    [] needle = "SERVICE KEY"        -> {Unregistered, "SERVICE KEY IS MISSING"}
    [] needle = "NOT REGISTERED"     -> {Unregistered}
    [] needle = "ACCESS DENIED"      -> {"SERVICE ACCESS DENIED"}
    [] needle = "DEADLINE"           -> {"DEADLINE HAS EXPIRED"}
    [] needle = "INVALID"            -> {"INVALID REQUEST PARAMETER", "INVALID PARAMETER"}
    [] needle = "INVALID REQUEST PARAMETER" -> {"INVALID REQUEST PARAMETER"}
    [] needle = "INVALID PARAMETER"  -> {"INVALID PARAMETER"}
    [] needle = "NO SERVICE"         -> {"NO OPENAPI SERVICE"}
    [] needle = "NORMAL SERVICE"     -> {"NORMAL SERVICE"}
    [] needle = "SQL"                -> {"SQL ERROR"}
    [] needle = "ERROR"              -> {"SQL ERROR"}
    [] needle = "UNSUPPORTED"        -> {"UNSUPPORTED AUTH"}
    [] needle = "FAILED TO VALIDATE" -> {"FAILED TO VALIDATE"}
    [] needle = "CREDENTIAL"         -> {"CREDENTIAL REFUSED"}
    [] needle = "HTML"               -> {NotData}
    [] OTHER                         -> {}

\* A body.  rulings holds what its status codes say, TRUE for an accepted
\* one; it has both values when members of a JSON object disagree.
Bodies ==
  [form: Forms, typedHTML: BOOLEAN, envelope: Envelopes,
   rulings: (SUBSET BOOLEAN) \ {{}}, says: Messages,
   items: {"none", "empty", "some"}]

\* The structured status a reader returns next to its verdict.
NoStatus == [kind |-> "none", ok |-> FALSE, says |-> ""]

Verdict(ok, semantic, message, status) ==
  [ok |-> ok, semantic |-> semantic, message |-> message, status |-> status]

\* A status that was read decides the verdict, and an error never goes
\* without a text.
StatusVerdict(kind, ok, says) ==
  LET status == [kind |-> kind, ok |-> ok, says |-> says]
  IN  IF ok THEN Verdict(TRUE, "provider_ok", says, status)
            ELSE Verdict(FALSE, "provider_error",
                         IF says = "" THEN CodeText ELSE says, status)

Success(http) == http \in 200 .. 299

IsHTML(body) == body.form # "empty" /\ (body.typedHTML \/ body.form = "html")

\* providerResult walks the members of an object in the random order of a Go
\* map: which of two codes that disagree it meets first is not determined.
\* xmlProviderStatus takes the first tag.  ruling is the code that was met.
CarriesStatus(body) ==
  \/ body.envelope \in Coded /\ body.form \in {"json", "xml"}
  \/ body.envelope \in {"header", "bareHeader"} /\ body.form = "xml"

PagesAsData(http, body, ruling) ==   \* mutant: HTML is not looked for
  IF ~ Success(http) THEN Verdict(FALSE, "http_error", StatusText, NoStatus)
  ELSE IF body.form = "json" THEN Verdict(TRUE, "json_response", "", NoStatus)
  ELSE Verdict(TRUE, "xml_response", "", NoStatus)

\* ClassifyResponse.
ClassifyResponse(http, body, ruling) ==
  IF ~ Success(http) THEN Verdict(FALSE, "http_error", StatusText, NoStatus)
  ELSE IF body.form = "empty" THEN Verdict(TRUE, "empty_response", "", NoStatus)
  ELSE IF IsHTML(body) THEN Verdict(FALSE, "html_response", NotData, NoStatus)
  ELSE IF CarriesStatus(body)
       THEN StatusVerdict(IF body.envelope \in Coded THEN "code" ELSE body.envelope,
                          ruling /\ body.envelope # "bareHeader", body.says)
  ELSE IF body.form = "json" THEN Verdict(TRUE, "json_response", "", NoStatus)
  ELSE IF body.form \in {"xml", "wadl"}
       THEN Verdict(TRUE, "xml_response", "", NoStatus)
  ELSE Verdict(TRUE, "unclassified_response", "", NoStatus)

\* ClassifyEndpointResponse: one endpoint's code C00 in the header of a response
\* that has a body is its normal service, when the message says so too.
NormalC00(body) ==
  body.form = "json" /\ body.envelope = "c00" /\ body.says = "NORMAL SERVICE"

ClassifyEndpointResponse(normalC00, http, body, ruling) ==
  LET plain == ClassifyResponse(http, body, ruling)
  IN  IF /\ normalC00
         /\ plain.semantic = "provider_error"
         /\ NormalC00(body)
      THEN StatusVerdict("code", TRUE, body.says)
      ELSE plain
=============================================================================
