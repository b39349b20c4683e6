-------------------------- MODULE HealthProbeProofs --------------------------
(***************************************************************************)
(* Theorems about HealthProbe, for any operations, any answers of a        *)
(* provider and any number of releases.                                    *)
(***************************************************************************)
EXTENDS HealthProbe, WellFoundedInduction, TLAPS

Written == {"made", "removed", "truncated", "done"}

\* Nothing is sent or known before the trust gate, and a result that counts as
\* no attempt was reached without a request.
SpentInv ==
    /\ phase \in {"loaded", "trusted"} => sent = 0
    /\ phase = "waiting" => sent = 1
    /\ phase \in {"loaded", "trusted", "waiting"} => result = Pending
    /\ result.status = "skipped" => sent = 0

\* While the Registry is still the one that was loaded, which is that of the
\* first release, no file names a later release.
BoundInv ==
    /\ loaded = Release[1]
    /\ registry = loaded => {provenance, trusted} \subseteq {loaded, Absent}

\* A receipt says of the attempt what the result says, and of the releases what
\* was installed when it was made.
ReceiptInv ==
    receipt # Absent =>
       /\ phase \in Written
       /\ probe.mode = "health" =>
             /\ receipt.attempted = (result.status # "skipped")
             /\ receipt.assessment = Assess(result)
             /\ registry = loaded => receipt.registry = loaded /\ receipt.manifest = loaded

\* Before that the file at --output is none of this command's.
FileInv == phase \notin Written => file \in {Of("absent"), Of("earlier")}

\* A request is sent only when nothing ends the operation before, and an answer
\* or its absence makes the result.
AnswerInv ==
    /\ probe \in Probes
    /\ phase \in {"loaded", "trusted", "waiting"} => answer = NoAnswer
    /\ phase = "waiting" => Early(probe) = Pending
    /\ answer = NoAnswer =>
          \/ result \in {Pending, Early(probe)}
          \/ \E break : result = BreakResult(probe, break)
    /\ answer # NoAnswer =>
          /\ sent = 1 /\ answer \in Answers
          /\ Early(probe) = Pending
          /\ result = AnswerResult(probe, answer)

IInv == TypeOK /\ SpentInv /\ BoundInv /\ ReceiptInv /\ FileInv /\ AnswerInv

----------------------------------------------------------------------------
(* Results *)

\* No result yet is no skip.
LEMMA PendingIsNoSkip == Pending.status = "pending"
  BY DEF Pending, Result

\* What stops a request before it leaves is a skip or a failure.
LEMMA EarlyStatus ==
    ASSUME NEW p
    PROVE  Early(p).status \in {"pending", "failed", "skipped"}
<1>1. \A gate, ad : Stopped(gate, ad).status \in {"failed", "skipped"}
  BY DEF Stopped, Result
<1>2. \A ad : Broken(ad, "lost").status = "failed"
  BY DEF Broken, Result
<1>3. Pending.status = "pending"
  BY DEF Pending, Result
<1>4. \A reason : Skipped(reason).status = "skipped"
  BY DEF Skipped, Result
<1>5. \A reason : Result("failed", reason, 0, "", "", NoStatus).status = "failed"
  BY DEF Result
<1> QED
  BY <1>1, <1>2, <1>3, <1>4, <1>5 DEF Early, EarlyOf

\* An answer never makes a skip: verification, failure, or, for an operation
\* without an adapter, not known.
LEMMA AnswerStatus ==
    ASSUME NEW p, NEW a
    PROVE  AnswerResult(p, a).status \in {"verified", "failed", "unknown"}
<1>1. \A ad, q, http, body, ruling :
         Answered(ad, q, http, body, ruling).status \in {"verified", "failed"}
  BY DEF Answered, Result
<1>2. UnadaptedResult(a).status \in {"unknown", "failed"}
  BY DEF UnadaptedResult, Result
<1>3. GatewayResult(p, a).status \in {"verified", "failed"}
  BY DEF GatewayResult, Result
<1> QED
  BY <1>1, <1>2, <1>3 DEF AnswerResult

\* Nor does the lack of one.
LEMMA BreakStatus ==
    ASSUME NEW p, NEW break
    PROVE  BreakResult(p, break).status = "failed"
<1>1. \A ad : Broken(ad, break).status = "failed"
  BY DEF Broken, Result
<1>2. \A reason : Result("failed", reason, 0, "", "", NoStatus).status = "failed"
  BY DEF Result
<1> QED
  BY <1>1, <1>2 DEF BreakResult

\* What a reader of answers accepts carries no refusal and is no page, but for
\* the envelopes of one adapter.
LEMMA AcceptedIsNoRefusal ==
    ASSUME NEW http, NEW body, NEW ruling, ClassifyResponse(http, body, ruling).ok
    PROVE  ~ (CarriesStatus(body) /\ ~ ruling) /\ ~ IsHTML(body)
<1>1. ASSUME NEW kind, NEW ok, StatusVerdict(kind, ok, body.says).ok
      PROVE  ok
  <2>1. ~ ok => ~ StatusVerdict(kind, ok, body.says).ok
    BY DEF StatusVerdict, Verdict
  <2> QED
    BY <1>1, <2>1
<1>2. \A message : ~ Verdict(FALSE, "http_error", message, NoStatus).ok
                  /\ ~ Verdict(FALSE, "html_response", message, NoStatus).ok
  BY DEF Verdict
<1>3. CASE body.form = "empty"
  BY <1>3 DEF CarriesStatus, IsHTML
<1>4. CASE body.form # "empty"
  <2>1. Success(http) /\ ~ IsHTML(body)
    BY <1>2, <1>4 DEF ClassifyResponse
  <2>2. CarriesStatus(body) =>
           (StatusVerdict(IF body.envelope \in Coded THEN "code" ELSE body.envelope,
                          ruling /\ body.envelope # "bareHeader", body.says)).ok
    BY <1>4, <2>1 DEF ClassifyResponse
  <2> QED
    BY <1>1, <2>1, <2>2
<1> QED
  BY <1>3, <1>4

\* An adapter reads as everyone does what is not in its own envelope.
LEMMA AdapterAccepts ==
    ASSUME NEW reads, NEW http, NEW body, NEW ruling, Classify(reads, http, body, ruling).ok
    PROVE  /\ ~ (CarriesStatus(body) /\ ~ ruling)
           /\ IsHTML(body) => body.envelope = "own"
<1>1. CASE ReadsOwn(reads, http, body)
  BY <1>1 DEF ReadsOwn, CarriesStatus, Coded
<1>2. CASE ~ ReadsOwn(reads, http, body)
  BY <1>2, AcceptedIsNoRefusal DEF Classify
<1> QED
  BY <1>1, <1>2

\* The two exceptions: an adapter that takes pages, and the endpoint whose C00
\* is its success.
LEMMA VerifiedIsTaken ==
    ASSUME NEW p, NEW a, AnswerResult(p, a).status = "verified"
    PROVE  /\ AnswerResult(p, a).http = a.http
           /\ Refuses(a) => \/ AdapterOf(p).reads.landing # "never"
                            \/ p.c00 /\ NormalC00(a.body)
<1>1. CASE Adapted(p)
  <2> DEFINE ad == AdapterOf(p)
  <2>1. AnswerResult(p, a) = Answered(ad, Question(p), a.http, a.body, a.ruling)
    BY <1>1 DEF AnswerResult
  <2>2. /\ Answered(ad, Question(p), a.http, a.body, a.ruling).http = a.http
        /\ \/ LandsOn(ad.reads, Question(p))
           \/ Classify(ad.reads, a.http, a.body, a.ruling).ok
    BY <2>1 DEF Answered, Result
  <2>3. LandsOn(ad.reads, Question(p)) => ad.reads.landing # "never"
    BY DEF LandsOn
  <2> QED
    BY <2>1, <2>2, <2>3, AdapterAccepts DEF Refuses
<1>2. CASE ~ Adapted(p) /\ Unadapted(p)
  BY <1>2 DEF AnswerResult, UnadaptedResult, Result
<1>3. CASE ~ Adapted(p) /\ ~ Unadapted(p)
  <2>1. AnswerResult(p, a) = GatewayResult(p, a)
    BY <1>3 DEF AnswerResult
  <2>2. /\ GatewayResult(p, a).http = a.http
        /\ ClassifyEndpointResponse(p.c00, a.http, a.body, a.ruling).ok
    <3> DEFINE verdict == ClassifyEndpointResponse(p.c00, a.http, a.body, a.ruling)
    <3>1. GatewayResult(p, a).status = "verified"
      BY <2>1
    <3>2. a.body.form = "cut" => GatewayResult(p, a).status = "failed"
      BY DEF GatewayResult, Result
    <3>3. ~ verdict.ok => GatewayResult(p, a).status = "failed"
      BY DEF GatewayResult, Result
    <3>4. a.body.form # "cut" => GatewayResult(p, a).http = a.http
      BY DEF GatewayResult, Result
    <3> QED
      BY <3>1, <3>2, <3>3, <3>4
  <2>3. (p.c00 /\ NormalC00(a.body)) \/ ClassifyResponse(a.http, a.body, a.ruling).ok
    BY <2>2 DEF ClassifyEndpointResponse
  <2> QED
    BY <2>1, <2>2, <2>3, AcceptedIsNoRefusal DEF Refuses
<1> QED
  BY <1>1, <1>2, <1>3

\* The order of the cases: a receipt is healthy only at the end of them.
LEMMA HealthyIsVerified ==
    ASSUME NEW r, Assess(r).outcome = "healthy"
    PROVE  r.status = "verified" /\ ~ (r.http >= 400)
  BY DEF Assess, Assessment, Unhealthy

----------------------------------------------------------------------------
(* The first of several places *)

\* A set of naturals that is not empty has a least element.
LEMMA Least ==
    ASSUME NEW S \in SUBSET Nat, S # {}
    PROVE  \E i \in S : \A j \in S : i <= j
<1>1. IsWellFoundedOn(OpToRel(<, Nat), Nat)
  BY NatLessThanWellFounded
<1>2. PICK i \in S : \A j \in S : ~ (<<j, i>> \in OpToRel(<, Nat))
  BY <1>1, WFMin
<1>3. \A m, n \in Nat : m < n => <<m, n>> \in OpToRel(<, Nat)
  BY DEF OpToRel
<1>4. \A j \in S : ~ (j < i)
  BY <1>2, <1>3
<1>5. \A j \in S : i <= j
  BY <1>4
<1> QED
  BY <1>5

\* The element that is found is at one of the places.
LEMMA FoundAtPlace ==
    ASSUME NEW seq, NEW places \in SUBSET Nat, places # {}
    PROVE  \E i \in places : FirstAt(seq, places) = seq[i]
BY Least DEF FirstAt

\* A request is let out when no check blocks it.
LEMMA OpenMeansNoneBlocks ==
    ASSUME NEW gates, DOMAIN gates \subseteq Nat, NEW ad, NEW q
    PROVE  FirstStop(gates, ad, q) = "open" <=>
              \A i \in DOMAIN gates : ~ Blocks(gates[i], ad, q)
<1> DEFINE stops == {i \in DOMAIN gates : Blocks(gates[i], ad, q)}
<1>1. ~ Blocks("open", ad, q)
  BY DEF Blocks, SpecialCases
<1>2. stops = {} <=> \A i \in DOMAIN gates : ~ Blocks(gates[i], ad, q)
  OBVIOUS
<1>3. ASSUME stops # {} PROVE FirstAt(gates, stops) # "open"
  <2>1. PICK i \in stops : FirstAt(gates, stops) = gates[i]
    BY <1>3, FoundAtPlace
  <2> QED
    BY <2>1, <1>1
<1>4. FirstStop(gates, ad, q) = IF stops = {} THEN "open" ELSE FirstAt(gates, stops)
  BY DEF FirstStop
<1> QED
  BY <1>2, <1>3, <1>4

----------------------------------------------------------------------------
(* The adapters of the registry *)

\* What a receipt takes for a timeout, an adapter says only of a provider that
\* speaks of a deadline.
LateWords == {"timeout", "request_timeout", "deadline_expired", "unadapted_probe_timeout"}
IsTrue(phrase) == phrase[2] \in LateWords => phrase[1] = "DEADLINE"
TellsTime(phrases) ==
    DOMAIN phrases \subseteq Nat /\ \A i \in DOMAIN phrases : IsTrue(phrases[i])

\* The parts of a status are tried in an order.
IsOrder(parts) == \E n \in Nat : DOMAIN parts = 1..n

\* What lets a request of Verify out, and its answer is no page, lets the request
\* of Call out as well.
AsksNoMore(ad) ==
    \A q : ad.reads.calls /\ ~ LandsOn(ad.reads, q)
           /\ FirstStop(ad.asks.gates, ad, q) = "open"
           => FirstStop(ad.reads.callGates, ad, q) = "open"

\* An adapter that offers to be called has a Call.
OfferIsMeant(reads) == reads.offers => reads.calls

\* What the theorems use of an adapter.
Reasonable(ad) ==
    /\ TellsTime(ad.reads.phrases)
    /\ IsOrder(ad.reads.order)
    /\ AsksNoMore(ad)
    /\ OfferIsMeant(ad.reads)

\* Every rule of an adapter, a phrase and the word for it: only the DEADLINE is
\* called late.
LEMMA PhrasesAreTrue ==
    /\ IsTrue(<<"ACCESS DENIED", "service_access_denied">>)
    /\ IsTrue(<<"COMMON ERROR", "common_error">>)
    /\ IsTrue(<<"DEADLINE", "deadline_expired">>)
    /\ IsTrue(<<"FAILED TO VALIDATE", "connection_validation_failed">>)
    /\ IsTrue(<<"HTML", "html_response">>)
    /\ IsTrue(<<"INVALID PARAMETER", "bad_request_params">>)
    /\ IsTrue(<<"INVALID REQUEST PARAMETER", "invalid_request_parameter">>)
    /\ IsTrue(<<"INVALID REQUEST PARAMETER", "invalid_request_params">>)
    /\ IsTrue(<<"INVALID", "bad_request_params">>)
    /\ IsTrue(<<"INVALID", "invalid_request_parameter">>)
    /\ IsTrue(<<"NO SERVICE", "service_not_registered">>)
    /\ IsTrue(<<"NO SUCH OPERATION", "unknown_soap_operation">>)
    /\ IsTrue(<<"NORMAL SERVICE", "">>) /\ IsTrue(<<"RETURN CODE 1", "return_code_error">>)
    /\ IsTrue(<<"SERVICE KEY", "auth_error">>) /\ IsTrue(<<"SERVICE KEY", "auth_required">>)
    /\ IsTrue(<<"SERVICE KEY", "missing_auth">>)
    /\ IsTrue(<<"SERVICE KEY", "service_key_error">>)
    /\ IsTrue(<<"SQL", "provider_sql_error">>)
    /\ IsTrue(<<"UNREGISTERED", "service_key_not_registered">>)
    /\ IsTrue(<<"UNSUPPORTED", "auth_error">>)
    /\ IsTrue(<<"UNSUPPORTED", "unsupported_auth">>)
BY DEF IsTrue, LateWords

\* A list of such rules, by its length.
LEMMA PhraseLists ==
    /\ TellsTime(<<>>)
    /\ \A a, b : IsTrue(a) /\ IsTrue(b) => TellsTime(<<a, b>>)
    /\ \A a, b, c : IsTrue(a) /\ IsTrue(b) /\ IsTrue(c) => TellsTime(<<a, b, c>>)
    /\ \A a, b, c, d :
          IsTrue(a) /\ IsTrue(b) /\ IsTrue(c) /\ IsTrue(d) => TellsTime(<<a, b, c, d>>)
    /\ \A a, b, c, d, e :
          IsTrue(a) /\ IsTrue(b) /\ IsTrue(c) /\ IsTrue(d) /\ IsTrue(e)
          => TellsTime(<<a, b, c, d, e>>)
BY DEF TellsTime

\* The rules of each adapter are such a list.
LEMMA AllTellTime ==
    /\ TellsTime(AirportReads.phrases) /\ TellsTime(AndongReads.phrases)
    /\ TellsTime(EKAPEReads.phrases) /\ TellsTime(EMuseumReads.phrases)
    /\ TellsTime(EPostReads.phrases) /\ TellsTime(FolkReads.phrases)
    /\ TellsTime(ForestReads.phrases) /\ TellsTime(GBLibReads.phrases)
    /\ TellsTime(GeojeReads.phrases) /\ TellsTime(HumetroReads.phrases)
    /\ TellsTime(ItfindReads.phrases) /\ TellsTime(JejuReads.phrases)
    /\ TellsTime(JeonjuReads.phrases) /\ TellsTime(KoradReads.phrases)
    /\ TellsTime(KPXReads.phrases) /\ TellsTime(LHEBidReads.phrases)
    /\ TellsTime(MyHomeReads.phrases) /\ TellsTime(NAQSReads.phrases)
    /\ TellsTime(OneclickLawReads.phrases) /\ TellsTime(PQISReads.phrases)
    /\ TellsTime(QNetReads.phrases) /\ TellsTime(SafetyDataReads.phrases)
    /\ TellsTime(SeoulBusReads.phrases) /\ TellsTime(SeoulOpenDataReads.phrases)
    /\ TellsTime(SisulReads.phrases) /\ TellsTime(TourReads.phrases)
    /\ TellsTime(UiryeongReads.phrases) /\ TellsTime(UlsanReads.phrases)
    /\ TellsTime(OpenDARTReads.phrases)
BY PhrasesAreTrue, PhraseLists DEF KeyPhrases, KeyOrAccess, Reads,
    AirportReads, AndongReads, EKAPEReads, EMuseumReads, EPostReads, FolkReads,
    ForestReads, GBLibReads, GeojeReads, HumetroReads, ItfindReads, JejuReads,
    JeonjuReads, KoradReads, KPXReads, LHEBidReads, MyHomeReads, NAQSReads,
    OneclickLawReads, PQISReads, QNetReads, SafetyDataReads, SeoulBusReads,
    SeoulOpenDataReads, SisulReads, TourReads, UiryeongReads, UlsanReads, OpenDARTReads

\* Any list of up to four parts is an order of them.
LEMMA Orders ==
    /\ IsOrder(<<>>) /\ (\A a : IsOrder(<<a>>)) /\ (\A a, b : IsOrder(<<a, b>>))
    /\ (\A a, b, c : IsOrder(<<a, b, c>>)) /\ (\A a, b, c, d : IsOrder(<<a, b, c, d>>))
<1>1. IsOrder(<<>>)
  BY 0 \in Nat DEF IsOrder
<1>2. \A a : IsOrder(<<a>>)
  BY 1 \in Nat DEF IsOrder
<1>3. \A a, b : IsOrder(<<a, b>>)
  BY 2 \in Nat DEF IsOrder
<1>4. \A a, b, c : IsOrder(<<a, b, c>>)
  BY 3 \in Nat DEF IsOrder
<1>5. \A a, b, c, d : IsOrder(<<a, b, c, d>>)
  BY 4 \in Nat DEF IsOrder
<1> QED
  BY <1>1, <1>2, <1>3, <1>4, <1>5

\* So each adapter tries the parts of a status in an order.
LEMMA AllHaveOrders ==
    /\ IsOrder(AirportReads.order) /\ IsOrder(AndongReads.order)
    /\ IsOrder(EKAPEReads.order) /\ IsOrder(EMuseumReads.order) /\ IsOrder(EPostReads.order)
    /\ IsOrder(FolkReads.order) /\ IsOrder(ForestReads.order) /\ IsOrder(GBLibReads.order)
    /\ IsOrder(GeojeReads.order) /\ IsOrder(HumetroReads.order)
    /\ IsOrder(ItfindReads.order) /\ IsOrder(JejuReads.order) /\ IsOrder(JeonjuReads.order)
    /\ IsOrder(KoradReads.order) /\ IsOrder(KPXReads.order) /\ IsOrder(LHEBidReads.order)
    /\ IsOrder(MyHomeReads.order) /\ IsOrder(NAQSReads.order)
    /\ IsOrder(OneclickLawReads.order) /\ IsOrder(PQISReads.order)
    /\ IsOrder(QNetReads.order) /\ IsOrder(SafetyDataReads.order)
    /\ IsOrder(SeoulBusReads.order) /\ IsOrder(SeoulOpenDataReads.order)
    /\ IsOrder(SisulReads.order) /\ IsOrder(TourReads.order) /\ IsOrder(UiryeongReads.order)
    /\ IsOrder(UlsanReads.order) /\ IsOrder(OpenDARTReads.order)
BY Orders DEF Reads,
    AirportReads, AndongReads, EKAPEReads, EMuseumReads, EPostReads, FolkReads,
    ForestReads, GBLibReads, GeojeReads, HumetroReads, ItfindReads, JejuReads,
    JeonjuReads, KoradReads, KPXReads, LHEBidReads, MyHomeReads, NAQSReads,
    OneclickLawReads, PQISReads, QNetReads, SafetyDataReads, SeoulBusReads,
    SeoulOpenDataReads, SisulReads, TourReads, UiryeongReads, UlsanReads, OpenDARTReads

\* Each that offers to be called has a Call.
LEMMA AllOffersAreMeant ==
    /\ OfferIsMeant(AirportReads) /\ OfferIsMeant(AndongReads) /\ OfferIsMeant(EKAPEReads)
    /\ OfferIsMeant(EMuseumReads) /\ OfferIsMeant(EPostReads) /\ OfferIsMeant(FolkReads)
    /\ OfferIsMeant(ForestReads) /\ OfferIsMeant(GBLibReads) /\ OfferIsMeant(GeojeReads)
    /\ OfferIsMeant(HumetroReads) /\ OfferIsMeant(ItfindReads) /\ OfferIsMeant(JejuReads)
    /\ OfferIsMeant(JeonjuReads) /\ OfferIsMeant(KoradReads) /\ OfferIsMeant(KPXReads)
    /\ OfferIsMeant(LHEBidReads) /\ OfferIsMeant(MyHomeReads) /\ OfferIsMeant(NAQSReads)
    /\ OfferIsMeant(OneclickLawReads) /\ OfferIsMeant(PQISReads) /\ OfferIsMeant(QNetReads)
    /\ OfferIsMeant(SafetyDataReads) /\ OfferIsMeant(SeoulBusReads) /\ OfferIsMeant(SeoulOpenDataReads)
    /\ OfferIsMeant(SisulReads) /\ OfferIsMeant(TourReads) /\ OfferIsMeant(UiryeongReads)
    /\ OfferIsMeant(UlsanReads) /\ OfferIsMeant(OpenDARTReads)
BY DEF OfferIsMeant, Reads,
    AirportReads, AndongReads, EKAPEReads, EMuseumReads, EPostReads, FolkReads,
    ForestReads, GBLibReads, GeojeReads, HumetroReads, ItfindReads, JejuReads,
    JeonjuReads, KoradReads, KPXReads, LHEBidReads, MyHomeReads, NAQSReads,
    OneclickLawReads, PQISReads, QNetReads, SafetyDataReads, SeoulBusReads,
    SeoulOpenDataReads, SisulReads, TourReads, UiryeongReads, UlsanReads, OpenDARTReads

\* Most adapters check the same before Call as before Verify, or do not call.
SameChecks(ad) == ad.reads.calls => ad.reads.callGates = ad.asks.gates

\* Those with a reader of their own do, but for Humetro and SeoulOpenData.
LEMMA MostCheckTheSame ==
    /\ SameChecks(Airport) /\ SameChecks(Andong) /\ SameChecks(EKAPE) /\ SameChecks(EMuseum)
    /\ SameChecks(EPost) /\ SameChecks(Folk) /\ SameChecks(Forest) /\ SameChecks(GBLib)
    /\ SameChecks(Geoje) /\ SameChecks(Itfind) /\ SameChecks(Jeju) /\ SameChecks(Jeonju)
    /\ SameChecks(Korad) /\ SameChecks(KPX) /\ SameChecks(LHEBid) /\ SameChecks(MyHome)
    /\ SameChecks(NAQS) /\ SameChecks(OneclickLaw) /\ SameChecks(PQIS) /\ SameChecks(QNet)
    /\ SameChecks(SafetyData) /\ SameChecks(SeoulBus) /\ SameChecks(Sisul)
    /\ SameChecks(Tour) /\ SameChecks(Uiryeong) /\ SameChecks(Ulsan) /\ SameChecks(OpenDART)
BY DEF SameChecks, Adapter, Asks, Reads,
    Airport, Andong, EKAPE, EMuseum, EPost, Folk, Forest, GBLib, Geoje, Itfind, Jeju,
    Jeonju, Korad, KPX, LHEBid, MyHome, NAQS, OneclickLaw, PQIS, QNet, SafetyData,
    SeoulBus, Sisul, Tour, Uiryeong, Ulsan, OpenDART,
    AirportAsks, AndongAsks, EKAPEAsks, EMuseumAsks, EPostAsks, FolkAsks, ForestAsks,
    GBLibAsks, GeojeAsks, ItfindAsks, JejuAsks, JeonjuAsks, KoradAsks, KPXAsks,
    LHEBidAsks, MyHomeAsks, NAQSAsks, OneclickLawAsks, PQISAsks, QNetAsks,
    SafetyDataAsks, SeoulBusAsks, SisulAsks, TourAsks, UiryeongAsks, UlsanAsks,
    OpenDARTAsks,
    AirportReads, AndongReads, EKAPEReads, EMuseumReads, EPostReads, FolkReads,
    ForestReads, GBLibReads, GeojeReads, ItfindReads, JejuReads, JeonjuReads,
    KoradReads, KPXReads, LHEBidReads, MyHomeReads, NAQSReads, OneclickLawReads,
    PQISReads, QNetReads, SafetyDataReads, SeoulBusReads, SisulReads, TourReads,
    UiryeongReads, UlsanReads, OpenDARTReads

\* The same checks block the same.
LEMMA SameChecksSuffice == \A ad : SameChecks(ad) => AsksNoMore(ad)
BY DEF SameChecks, AsksNoMore

\* Humetro's Call does not ask for an approval.
LEMMA HumetroAsksNoMore == AsksNoMore(Humetro)
<1> DEFINE before == <<"approval", "params", "key", "url">>
           again == <<"params", "key", "url">>
<1>1. Humetro.asks.gates = before /\ Humetro.reads.callGates = again
  BY DEF Humetro, HumetroAsks, HumetroReads, Adapter, Asks, Reads, StandardGates
<1>2. DOMAIN before \subseteq Nat /\ DOMAIN again \subseteq Nat
  OBVIOUS
<1>3. \A i \in DOMAIN again : i + 1 \in DOMAIN before /\ before[i + 1] = again[i]
  OBVIOUS
<1> HIDE DEF before, again
<1> QED
  BY <1>1, <1>2, <1>3, OpenMeansNoneBlocks DEF AsksNoMore

\* An operation of Seoul's portal that asks for a key is verified only with the
\* key and the parameters that Call asks for.
LEMMA SeoulOpenDataAsksNoMore == AsksNoMore(SeoulOpenData)
<1> DEFINE before == <<"url", "keyIfAsked", "paramsIfAsked">>
           again == <<"params", "key", "url">>
<1>1. SeoulOpenData.asks.gates = before /\ SeoulOpenData.reads.callGates = again
  BY DEF SeoulOpenData, SeoulOpenDataAsks, SeoulOpenDataReads, Adapter, Asks, Reads
<1>2. SeoulOpenData.reads.landing = "unkeyed"
  BY DEF SeoulOpenData, SeoulOpenDataReads, Adapter, Reads
<1>3. DOMAIN before \subseteq Nat /\ DOMAIN again \subseteq Nat
  OBVIOUS
<1>4. \A q : (\A i \in DOMAIN before : ~ Blocks(before[i], SeoulOpenData, q)) =>
         /\ ~ Blocks("url", SeoulOpenData, q)
         /\ ~ Blocks("keyIfAsked", SeoulOpenData, q)
         /\ ~ Blocks("paramsIfAsked", SeoulOpenData, q)
  <2>1. {1, 2, 3} \subseteq DOMAIN before
        /\ before[1] = "url" /\ before[2] = "keyIfAsked" /\ before[3] = "paramsIfAsked"
    OBVIOUS
  <2> HIDE DEF before
  <2> QED
    BY <2>1
<1>5. \A i \in DOMAIN again : again[i] \in {"params", "key", "url"}
  OBVIOUS
<1>6. ASSUME NEW q, q.keyed, ~ Blocks("keyIfAsked", SeoulOpenData, q),
             ~ Blocks("paramsIfAsked", SeoulOpenData, q)
      PROVE  ~ Blocks("key", SeoulOpenData, q) /\ ~ Blocks("params", SeoulOpenData, q)
  BY <1>6 DEF Blocks, SpecialCases
<1>7. \A q : ~ LandsOn(SeoulOpenData.reads, q) => q.keyed
  BY <1>2 DEF LandsOn
<1> HIDE DEF before, again
<1>8. ASSUME NEW q, ~ LandsOn(SeoulOpenData.reads, q),
             FirstStop(before, SeoulOpenData, q) = "open"
      PROVE  FirstStop(again, SeoulOpenData, q) = "open"
  <2>1. \A i \in DOMAIN before : ~ Blocks(before[i], SeoulOpenData, q)
    BY <1>3, <1>8, OpenMeansNoneBlocks
  <2>2. \A gate \in {"params", "key", "url"} : ~ Blocks(gate, SeoulOpenData, q)
    BY <1>4, <1>6, <1>7, <1>8, <2>1
  <2> QED
    BY <1>3, <1>5, <2>2, OpenMeansNoneBlocks
<1> QED
  BY <1>1, <1>8 DEF AsksNoMore

\* An adapter that takes pages does not call.
LEMMA LandingIsReasonable == \A name, hosts : Reasonable(Landing(name, hosts))
<1> TAKE name, hosts
<1>1. Landing(name, hosts).reads = LandingReads
  BY DEF Landing, Adapter
<1>2. LandingReads.phrases = <<>> /\ LandingReads.order = <<>> /\ ~ LandingReads.calls
      /\ ~ LandingReads.offers
  BY DEF LandingReads, Reads
<1> QED
  BY <1>1, <1>2, PhraseLists, Orders DEF Reasonable, AsksNoMore, OfferIsMeant

\* The adapters with a reader of their own.
LEMMA ProbingAreReasonable ==
    /\ Reasonable(Airport) /\ Reasonable(Andong) /\ Reasonable(EKAPE) /\ Reasonable(EMuseum)
    /\ Reasonable(EPost) /\ Reasonable(Folk) /\ Reasonable(Forest) /\ Reasonable(GBLib)
    /\ Reasonable(Geoje) /\ Reasonable(Humetro) /\ Reasonable(Itfind) /\ Reasonable(Jeju)
    /\ Reasonable(Jeonju) /\ Reasonable(Korad) /\ Reasonable(KPX) /\ Reasonable(LHEBid)
    /\ Reasonable(MyHome) /\ Reasonable(NAQS) /\ Reasonable(OneclickLaw) /\ Reasonable(PQIS)
    /\ Reasonable(QNet) /\ Reasonable(SafetyData) /\ Reasonable(SeoulBus)
    /\ Reasonable(SeoulOpenData) /\ Reasonable(Sisul) /\ Reasonable(Tour)
    /\ Reasonable(Uiryeong) /\ Reasonable(Ulsan) /\ Reasonable(OpenDART)
<1>1. \A asks, reads :
         /\ TellsTime(reads.phrases) /\ IsOrder(reads.order)
         /\ AsksNoMore(Adapter(asks, reads)) /\ OfferIsMeant(reads)
         => Reasonable(Adapter(asks, reads))
  BY DEF Reasonable, Adapter
<1> QED
  BY <1>1, AllTellTime, AllHaveOrders, AllOffersAreMeant, MostCheckTheSame, SameChecksSuffice,
     HumetroAsksNoMore, SeoulOpenDataAsksNoMore
     DEF
    Airport, Andong, EKAPE, EMuseum, EPost, Folk, Forest, GBLib, Geoje, Humetro, Itfind,
    Jeju, Jeonju, Korad, KPX, LHEBid, MyHome, NAQS, OneclickLaw, PQIS, QNet, SafetyData,
    SeoulBus, SeoulOpenData, Sisul, Tour, Uiryeong, Ulsan, OpenDART

\* Every adapter that is registered.
LEMMA RegisteredAreReasonable ==
    DOMAIN Registered \subseteq Nat /\ \A i \in DOMAIN Registered : Reasonable(Registered[i])
<1>1. DOMAIN Registered \subseteq Nat
  BY DEF Registered
<1>2. \A i \in DOMAIN Registered : Reasonable(Registered[i])
  <2>1. /\ Reasonable(Anyang) /\ Reasonable(ATFIS) /\ Reasonable(Calspia)
        /\ Reasonable(Cancer) /\ Reasonable(Car) /\ Reasonable(Car365)
        /\ Reasonable(ChildcareInfo) /\ Reasonable(ChungbukTour) /\ Reasonable(Chungnam)
        /\ Reasonable(Codil) /\ Reasonable(Consumer) /\ Reasonable(Culture)
        /\ Reasonable(Daegu) /\ Reasonable(Daejeon) /\ Reasonable(DataGG)
        /\ Reasonable(DGFCA) /\ Reasonable(Dongjak) /\ Reasonable(ECOS) /\ Reasonable(ECVAM)
        /\ Reasonable(EShare) /\ Reasonable(EX) /\ Reasonable(FairData)
        /\ Reasonable(FoodSafetyKorea) /\ Reasonable(FranchiseFTC) /\ Reasonable(Garak)
        /\ Reasonable(GICOMS) /\ Reasonable(Gimhae) /\ Reasonable(GIMS)
        /\ Reasonable(Gogung) /\ Reasonable(Gwanak) /\ Reasonable(Gwangjin)
        /\ Reasonable(Gwangmyeong) /\ Reasonable(HappySD) /\ Reasonable(HRFCO)
        /\ Reasonable(HUG) /\ Reasonable(I815) /\ Reasonable(Icheon) /\ Reasonable(Incheon)
        /\ Reasonable(Ins24) /\ Reasonable(IPNavi) /\ Reasonable(ITS) /\ Reasonable(IWest)
        /\ Reasonable(JejuAir) /\ Reasonable(JejuDataHub) /\ Reasonable(JejuITS)
        /\ Reasonable(JejuWWW) /\ Reasonable(JeonnamRedtable) /\ Reasonable(Juso)
        /\ Reasonable(KEIT) /\ Reasonable(KHOA) /\ Reasonable(KIPRISPlus)
        /\ Reasonable(KISTEP) /\ Reasonable(KISTI) /\ Reasonable(KMAAPIHub)
        /\ Reasonable(KOAGI) /\ Reasonable(KOFPI) /\ Reasonable(KOPIS)
        /\ Reasonable(KoreaPost) /\ Reasonable(KOROAD) /\ Reasonable(KOSIS)
        /\ Reasonable(KRIC) /\ Reasonable(Lofin365) /\ Reasonable(MAFRA)
        /\ Reasonable(MAFRALegacy) /\ Reasonable(Milipass) /\ Reasonable(MNDOpenData)
        /\ Reasonable(MPVAEgonghun) /\ Reasonable(MUCH) /\ Reasonable(NAA)
        /\ Reasonable(NABIC) /\ Reasonable(NCPMS) /\ Reasonable(NFQS)
        /\ Reasonable(NIEEcobank) /\ Reasonable(NierNesc) /\ Reasonable(NIHC)
        /\ Reasonable(Nongsaro) /\ Reasonable(NOSC) /\ Reasonable(NRF) /\ Reasonable(NRich)
        /\ Reasonable(OpenAssembly) /\ Reasonable(OpenFiscalData) /\ Reasonable(OpenLaw)
        /\ Reasonable(PSIS) /\ Reasonable(QIA) /\ Reasonable(RecyclingInfo)
        /\ Reasonable(Safe182) /\ Reasonable(SafeMap) /\ Reasonable(Seogu)
        /\ Reasonable(Seogwipo) /\ Reasonable(SeoulTData) /\ Reasonable(SeoulMap)
        /\ Reasonable(Jongno) /\ Reasonable(KOSMES) /\ Reasonable(SexOffender)
        /\ Reasonable(SGIS) /\ Reasonable(SisulWWW) /\ Reasonable(SmartFarmKorea)
        /\ Reasonable(STCIS) /\ Reasonable(Tashu) /\ Reasonable(UlsanWWW)
        /\ Reasonable(UniPass) /\ Reasonable(UTIC) /\ Reasonable(VWorld)
        /\ Reasonable(WAMIS) /\ Reasonable(Work) /\ Reasonable(Work24)
        /\ Reasonable(WorldJob) /\ Reasonable(YouthCenter) /\ Reasonable(Yuseong)
    BY LandingIsReasonable DEF
        Anyang, ATFIS, Calspia, Cancer, Car, Car365, ChildcareInfo, ChungbukTour,
        Chungnam, Codil, Consumer, Culture, Daegu, Daejeon, DataGG, DGFCA, Dongjak,
        ECOS, ECVAM, EShare, EX, FairData, FoodSafetyKorea, FranchiseFTC, Garak, GICOMS,
        Gimhae, GIMS, Gogung, Gwanak, Gwangjin, Gwangmyeong, HappySD, HRFCO, HUG, I815,
        Icheon, Incheon, Ins24, IPNavi, ITS, IWest, JejuAir, JejuDataHub, JejuITS,
        JejuWWW, JeonnamRedtable, Juso, KEIT, KHOA, KIPRISPlus, KISTEP, KISTI,
        KMAAPIHub, KOAGI, KOFPI, KOPIS, KoreaPost, KOROAD, KOSIS, KRIC, Lofin365, MAFRA,
        MAFRALegacy, Milipass, MNDOpenData, MPVAEgonghun, MUCH, NAA, NABIC, NCPMS, NFQS,
        NIEEcobank, NierNesc, NIHC, Nongsaro, NOSC, NRF, NRich, OpenAssembly,
        OpenFiscalData, OpenLaw, PSIS, QIA, RecyclingInfo, Safe182, SafeMap, Seogu,
        Seogwipo, SeoulTData, SeoulMap, Jongno, KOSMES, SexOffender, SGIS, SisulWWW,
        SmartFarmKorea, STCIS, Tashu, UlsanWWW, UniPass, UTIC, VWorld, WAMIS, Work,
        Work24, WorldJob, YouthCenter, Yuseong
  <2> QED
    BY <2>1, ProbingAreReasonable DEF Registered
<1> QED
  BY <1>1, <1>2

----------------------------------------------------------------------------
(* Reasons *)

\* A reason that is read as a timeout is one of a provider that speaks of its
\* deadline.
Honest(reason, says) ==
    /\ reason.by # "cli"
    /\ SaysTimeout(reason) => says \in Saying("DEADLINE")

\* One message of a provider speaks of a deadline.
LEMMA Deadline == Saying("DEADLINE") = {"DEADLINE HAS EXPIRED"}
  BY DEF Saying

\* What the readers of a body make texts of.
TextsOf(body) == {body.says, NotData, StatusText, CodeText, ""}

\* None of these texts is a word for a timeout, and the message of a deadline is
\* only found where the provider has said it.
LEMMA TextsAreNoWords ==
    ASSUME NEW body \in Bodies, NEW text \in TextsOf(body)
    PROVE  /\ text \notin LateWords
           /\ text \in Saying("DEADLINE") => body.says \in Saying("DEADLINE")
<1>1. body.says \in Messages
  BY DEF Bodies
<1>2. \A message \in Messages \cup {NotData, StatusText, CodeText, ""} :
         message \notin LateWords
  BY DEF Messages, Unregistered, NotData, StatusText, CodeText, LateWords
<1>3. "DEADLINE HAS EXPIRED" \notin {NotData, StatusText, CodeText, ""}
  BY DEF NotData, StatusText, CodeText
<1> QED
  BY <1>1, <1>2, <1>3, Deadline DEF TextsOf

\* What datago.ClassifyResponse passes on is one of them.
LEMMA VerdictTexts ==
    ASSUME NEW http, NEW body, NEW ruling
    PROVE  /\ ClassifyResponse(http, body, ruling).message \in TextsOf(body)
           /\ ClassifyResponse(http, body, ruling).status.says \in TextsOf(body)
<1>1. \A kind, ok : /\ StatusVerdict(kind, ok, body.says).message \in TextsOf(body)
                    /\ StatusVerdict(kind, ok, body.says).status.says \in TextsOf(body)
  BY DEF StatusVerdict, Verdict, TextsOf
<1>2. \A ok, semantic : \A text \in TextsOf(body) :
         /\ Verdict(ok, semantic, text, NoStatus).message \in TextsOf(body)
         /\ Verdict(ok, semantic, text, NoStatus).status.says \in TextsOf(body)
  BY DEF Verdict, NoStatus, TextsOf
<1>3. {NotData, StatusText, ""} \subseteq TextsOf(body)
  BY DEF TextsOf
<1> QED
  BY <1>1, <1>2, <1>3 DEF ClassifyResponse

\* So is what an adapter's reader passes on.
LEMMA ClassifyTexts ==
    ASSUME NEW reads, NEW http, NEW body, NEW ruling
    PROVE  /\ Classify(reads, http, body, ruling).message \in TextsOf(body)
           /\ Classify(reads, http, body, ruling).status.says \in TextsOf(body)
<1>1. \A kind, ok : /\ StatusVerdict(kind, ok, body.says).message \in TextsOf(body)
                    /\ StatusVerdict(kind, ok, body.says).status.says \in TextsOf(body)
  BY DEF StatusVerdict, Verdict, TextsOf
<1> QED
  BY <1>1, VerdictTexts DEF Classify

\* Reasons without a word for a timeout, no reason, and a text of the body.
LEMMA WordsAreHonest ==
    /\ \A word, says : word \notin LateWords => Honest(Reason("adapter", word), says)
    /\ \A says : Honest(NoReason, says)
    /\ \A body \in Bodies : \A text \in TextsOf(body) : Honest(Reason("text", text), body.says)
<1>1. \A word, says : word \notin LateWords => Honest(Reason("adapter", word), says)
  BY DEF Honest, SaysTimeout, Reason, LateWords
<1>2. \A says : Honest(NoReason, says)
  BY DEF Honest, SaysTimeout, Reason, NoReason
<1>3. \A body \in Bodies : \A text \in TextsOf(body) : Honest(Reason("text", text), body.says)
  BY TextsAreNoWords DEF Honest, SaysTimeout, Reason, LateWords
<1> QED
  BY <1>1, <1>2, <1>3

\* What the rules of an adapter make of a text.
LEMMA PhraseReasonIsHonest ==
    ASSUME NEW reads, TellsTime(reads.phrases), NEW body \in Bodies, NEW text \in TextsOf(body)
    PROVE  Honest(PhraseReason(reads, text), body.says)
<1> DEFINE found == {i \in DOMAIN reads.phrases : text \in Saying(reads.phrases[i][1])}
           word == FirstAt(reads.phrases, found)[2]
<1>1. PhraseReason(reads, text) =
         IF found = {} \/ word = "" THEN NoReason ELSE Reason("adapter", word)
  BY DEF PhraseReason
<1>2. CASE found = {} \/ word = ""
  BY <1>1, <1>2, WordsAreHonest
<1>3. CASE found # {} /\ word # ""
  <2>1. found \in SUBSET Nat
    BY DEF TellsTime
  <2>2. PICK i \in found : FirstAt(reads.phrases, found) = reads.phrases[i]
    BY <1>3, <2>1, FoundAtPlace
  <2>3. word \in LateWords => reads.phrases[i][1] = "DEADLINE"
    BY <2>2 DEF TellsTime, IsTrue
  <2>4. word \in LateWords => body.says \in Saying("DEADLINE")
    BY <2>2, <2>3, TextsAreNoWords
  <2>5. PhraseReason(reads, text) = Reason("adapter", word)
    BY <1>1, <1>3
  <2>6. Reason("adapter", word).by = "adapter" /\ Reason("adapter", word).what = word
    BY DEF Reason
  <2> HIDE DEF word, found
  <2> QED
    BY <2>4, <2>5, <2>6 DEF Honest, SaysTimeout, LateWords
<1> QED
  BY <1>2, <1>3

\* What an adapter makes of one part of a status.
LEMMA CandidateIsHonest ==
    ASSUME NEW reads, TellsTime(reads.phrases), NEW body \in Bodies,
           NEW status, status.says \in TextsOf(body), NEW part
    PROVE  Honest(Candidate(part, reads, body, status), body.says)
<1>1. Honest(PhraseReason(reads, body.says), body.says)
  BY PhraseReasonIsHonest DEF TextsOf
<1>2. Honest(PhraseReason(reads, status.says), body.says)
  BY PhraseReasonIsHonest
<1>3. \A word \in {"reason_code", "result_code", "message_error"} :
         Honest(Reason("adapter", word), body.says)
  BY WordsAreHonest DEF LateWords
<1>4. Honest(NoReason, body.says)
  BY WordsAreHonest
<1> QED
  BY <1>1, <1>2, <1>3, <1>4 DEF Candidate

\* The parts of a status and the three of a message, one after another.
LEMMA Joined ==
    ASSUME NEW n \in Nat, NEW F(_), NEW a, NEW b, NEW c
    PROVE  LET all == [i \in 1..n |-> F(i)] \o <<a, b, c>>
           IN  /\ DOMAIN all = 1..n + 3
               /\ all[n + 3] = c
               /\ \A i \in DOMAIN all : all[i] \in {a, b, c} \/ \E k \in 1..n : all[i] = F(k)
<1> DEFINE S == {F(k) : k \in 1..n} \cup {a, b, c}
           front == [i \in 1..n |-> F(i)]
           back == <<a, b, c>>
           all == front \o back
<1>1. front \in Seq(S) /\ Len(front) = n
  OBVIOUS
<1>2. back \in Seq(S) /\ Len(back) = 3
  OBVIOUS
<1>3. all \in Seq(S) /\ Len(all) = n + 3
  BY <1>1, <1>2
<1>4. DOMAIN all = 1..n + 3
  BY <1>3
<1>5. all[n + 3] = c
  BY <1>1, <1>2
<1>6. \A i \in DOMAIN all : all[i] \in S
  BY <1>3, <1>4
<1> QED
  BY <1>4, <1>5, <1>6

\* The first of them that gives a reason.
LEMMA FailureIsHonest ==
    ASSUME NEW reads, TellsTime(reads.phrases), IsOrder(reads.order),
           NEW body \in Bodies, NEW http, NEW verdict,
           verdict.message \in TextsOf(body), verdict.status.says \in TextsOf(body)
    PROVE  Honest(FailureReason(reads, http, body, verdict), body.says)
<1> PICK n \in Nat : DOMAIN reads.order = 1..n
  BY DEF IsOrder
<1> DEFINE F(i) == Candidate(reads.order[i], reads, body, verdict.status)
           a == PhraseReason(reads, verdict.message)
           b == IF verdict.message = "" THEN NoReason ELSE Reason("text", verdict.message)
           c == Reason("adapter", "provider_error")
           all == [i \in 1..n |-> F(i)] \o <<a, b, c>>
           given == {i \in DOMAIN all : all[i] # NoReason}
<1>1. FailureReason(reads, http, body, verdict) =
         IF http \in reads.absent THEN Reason("adapter", "endpoint_not_found")
         ELSE FirstAt(all, given)
  BY DEF FailureReason
<1>2. Honest(a, body.says) /\ Honest(b, body.says)
  BY PhraseReasonIsHonest, WordsAreHonest
<1>3. Honest(c, body.says) /\ Honest(Reason("adapter", "endpoint_not_found"), body.says)
  BY WordsAreHonest DEF LateWords
<1>4. \A k \in 1..n : Honest(F(k), body.says)
  BY CandidateIsHonest
<1>5. c # NoReason
  BY DEF Reason, NoReason
<1>6. /\ DOMAIN all = 1..n + 3
      /\ all[n + 3] = c
      /\ \A i \in DOMAIN all : all[i] \in {a, b, c} \/ \E k \in 1..n : all[i] = F(k)
  <2> HIDE DEF F, a, b, c
  <2> QED
    BY Joined
<1> HIDE DEF F, a, b, c, all
<1>7. given \in SUBSET Nat /\ n + 3 \in given
  BY <1>5, <1>6
<1>8. PICK i \in given : FirstAt(all, given) = all[i]
  BY <1>7, FoundAtPlace
<1>9. Honest(all[i], body.says)
  BY <1>2, <1>3, <1>4, <1>6
<1> QED
  BY <1>1, <1>3, <1>8, <1>9

\* The adapter of an operation is one of those registered.
LEMMA FoundAdapter ==
    ASSUME NEW p \in Probes, AdapterOf(p) # NoAdapter
    PROVE  \E i \in DOMAIN Registered : AdapterOf(p) = Registered[i]
<1> DEFINE owners == {i \in DOMAIN DefaultRegistry : p.host \in DefaultRegistry[i].asks.hosts}
<1>1. AdapterOf(p) = MatchHost(DefaultRegistry, p.host)
  BY DEF AdapterOf, AdapterFor
<1>2. owners # {} /\ AdapterOf(p) = FirstAt(DefaultRegistry, owners)
  BY <1>1 DEF MatchHost
<1>3. DefaultRegistry = Registered
  <2>1. DefaultRegistry \in {<<>>, Registered}
    BY DEF DefaultRegistry, NewRegistry
  <2> QED
    BY <1>2, <2>1
<1>4. owners \in SUBSET Nat
  BY <1>3, RegisteredAreReasonable
<1>5. \E i \in owners : FirstAt(DefaultRegistry, owners) = DefaultRegistry[i]
  BY <1>2, <1>4, FoundAtPlace
<1> HIDE DEF owners
<1> QED
  BY <1>2, <1>3, <1>5 DEF owners

\* So it is reasonable.
LEMMA AdaptersAreReasonable ==
    ASSUME NEW p \in Probes, Adapted(p)
    PROVE  Reasonable(AdapterOf(p))
BY FoundAdapter, RegisteredAreReasonable DEF Adapted

\* What an adapter makes of an answer: its status, and a reason that is honest.
LEMMA AdaptedIsHonest ==
    ASSUME NEW ad, Reasonable(ad), NEW q, NEW http, NEW body \in Bodies, NEW ruling
    PROVE  LET r == Answered(ad, q, http, body, ruling)
           IN  r.http = http /\ Honest(r.reason, body.says)
<1> DEFINE shape == Shape(ad.reads, body)
           verdict == Classify(ad.reads, http, body, ruling)
<1>1. Honest(NoReason, body.says)
  BY WordsAreHonest
<1>2. \A word \in {"http_status", "wadl_metadata_response"} :
         Honest(Reason("adapter", word), body.says)
  BY WordsAreHonest DEF LateWords
<1>3. Honest(FailureReason(ad.reads, http, body, verdict), body.says)
  BY FailureIsHonest, ClassifyTexts DEF Reasonable
<1>4. \A status, reason, s, semantic, provider :
         /\ Result(status, reason, http, s, semantic, provider).http = http
         /\ Result(status, reason, http, s, semantic, provider).reason = reason
  BY DEF Result
<1> HIDE DEF shape, verdict
<1> QED
  BY <1>1, <1>2, <1>3, <1>4 DEF Answered, shape, verdict

\* What the gateway's reader makes of an answer: its status, unless the body is
\* over the limit, and a reason that is honest.
LEMMA GatewayIsHonest ==
    ASSUME NEW p, NEW a, a.body \in Bodies
    PROVE  /\ GatewayResult(p, a).http = a.http \/ a.body.form = "cut"
           /\ Honest(GatewayResult(p, a).reason, a.body.says)
<1> DEFINE verdict == ClassifyEndpointResponse(p.c00, a.http, a.body, a.ruling)
<1>1. verdict.message \in TextsOf(a.body)
  <2>1. StatusVerdict("code", TRUE, a.body.says).message \in TextsOf(a.body)
    BY DEF StatusVerdict, Verdict, TextsOf
  <2> QED
    BY <2>1, VerdictTexts DEF ClassifyEndpointResponse
<1>2. Honest(NoReason, a.body.says) /\ Honest(Reason("text", verdict.message), a.body.says)
  BY <1>1, WordsAreHonest
<1>3. Honest(Reason("error", "ceiling"), a.body.says)
  BY DEF Honest, SaysTimeout, Reason
<1>4. CASE a.body.form = "cut"
  <2>1. GatewayResult(p, a).reason = Reason("error", "ceiling")
    BY <1>4 DEF GatewayResult, Result
  <2> QED
    BY <1>3, <1>4, <2>1
<1>5. CASE a.body.form # "cut"
  <2>1. GatewayResult(p, a) = Result(IF verdict.ok THEN "verified" ELSE "failed",
          IF verdict.ok THEN NoReason ELSE Reason("text", verdict.message),
          a.http, GatewayShape(a.body), verdict.semantic, verdict.status)
    BY <1>5 DEF GatewayResult
  <2> HIDE DEF verdict
  <2>2. /\ GatewayResult(p, a).http = a.http
        /\ GatewayResult(p, a).reason \in {NoReason, Reason("text", verdict.message)}
    BY <2>1 DEF Result
  <2> QED
    BY <1>2, <2>2
<1> QED
  BY <1>4, <1>5

\* Whoever reads it.
LEMMA AnswerIsHonest ==
    ASSUME NEW p \in Probes, NEW a \in Answers
    PROVE  LET r == AnswerResult(p, a)
           IN  /\ r.http = a.http \/ a.body.form = "cut"
               /\ SaysTimeout(r.reason) => a.body.says \in Saying("DEADLINE")
               /\ Adapted(p) => r.reason.by # "cli"
<1>1. a.body \in Bodies
  BY HealthProbeAssumption
<1>2. CASE Adapted(p)
  BY <1>1, <1>2, AdaptersAreReasonable, AdaptedIsHonest DEF AnswerResult, Honest
<1>3. CASE ~ Adapted(p) /\ Unadapted(p)
  <2>1. UnadaptedResult(a).http = a.http /\ ~ SaysTimeout(UnadaptedResult(a).reason)
    BY DEF UnadaptedResult, Result, SaysTimeout, Reason
  <2> QED
    BY <1>3, <2>1 DEF AnswerResult
<1>4. CASE ~ Adapted(p) /\ ~ Unadapted(p)
  BY <1>1, <1>4, GatewayIsHonest DEF AnswerResult, Honest
<1> QED
  BY <1>2, <1>3, <1>4

\* The cases that classifyHealthProbe calls retryable.
LEMMA Retryable ==
    ASSUME NEW r, Assess(r).retryable
    PROVE  r.http = 429 \/ SaysTimeout(r.reason) \/ r.http >= 500 \/ r.http = 0
BY DEF Assess, Assessment, Unhealthy

\* The reader of Call is that of Verify, behind checks that ask no more.
LEMMA CallGetsThrough ==
    ASSUME NEW p \in Probes, NEW a, Adapted(p), Early(p) = Pending,
           AnswerResult(p, a).status = "verified",
           Fetchable(p, AdapterOf(p), Question(p))
    PROVE  Fetches(p, AdapterOf(p), Question(p), a)
<1> DEFINE ad == AdapterOf(p)
           q == Question(p)
<1>1. FirstStop(ad.asks.gates, ad, q) = "open"
  <2>1. \A gate : Stopped(gate, ad).status # "pending"
    BY DEF Stopped, Result
  <2> QED
    BY <2>1, PendingIsNoSkip DEF Early, EarlyOf
<1>2. ad.reads.calls
  BY AdaptersAreReasonable DEF Reasonable, OfferIsMeant, Fetchable, Offered
<1>5. CallStop(ad, q) = "open"
  BY <1>1, <1>2, AdaptersAreReasonable DEF Reasonable, AsksNoMore, CallStop, Fetchable
<1>6. FetchStop(p, ad, q) = "open"
  BY <1>5 DEF FetchStop, Fetchable
<1>3. Answered(ad, q, a.http, a.body, a.ruling).status = "verified"
  BY DEF AnswerResult
<1>4. Classify(ad.reads, a.http, a.body, a.ruling).ok
  BY <1>3 DEF Answered, Result, Fetchable
<1> QED
  BY <1>6, <1>4 DEF Fetches, Fetchable, CallVerdict

----------------------------------------------------------------------------
(* The invariant *)

\* There is a first release.
LEMMA FirstRelease == Release[1] \in Releases
  BY HealthProbeAssumption DEF Releases

\* Before its first step a command has loaded the first release and done nothing.
LEMMA InitInvariant == Init => IInv
<1> SUFFICES ASSUME Init
             PROVE  IInv
  OBVIOUS
<1> USE DEF Init
<1>1. TypeOK
  <2>1. ReleasesOK
    BY FirstRelease DEF ReleasesOK
  <2>2. ObservedOK
    BY PendingIsNoSkip, HealthProbeAssumption DEF ObservedOK, Subjects
  <2>3. WrittenOK
    BY DEF WrittenOK
  <2> QED
    BY <2>1, <2>2, <2>3 DEF TypeOK
<1>2. SpentInv /\ BoundInv /\ ReceiptInv /\ FileInv /\ AnswerInv
  BY PendingIsNoSkip DEF SpentInv, BoundInv, ReceiptInv, FileInv, AnswerInv
<1> QED
  BY <1>1, <1>2 DEF IInv

\* Only an install names other releases, and the trust gate one of those it finds.
LEMMA ReleasesStep ==
    ASSUME ReleasesOK, [Next]_vars
    PROVE  ReleasesOK'
<1> USE DEF ReleasesOK, installation, judged
<1>1. CASE InstallRegistry
  <2>1. registry' \in Releases
    BY <1>1, HealthProbeAssumption DEF InstallRegistry, Releases
  <2> QED
    BY <1>1, <2>1 DEF InstallRegistry
<1>2. CASE InstallProvenance
  BY <1>2 DEF InstallProvenance
<1>3. CASE Trust
  BY <1>3 DEF Trust
<1>4. CASE UNCHANGED <<installation, judged>>
  BY <1>4
<1>5. UNCHANGED <<installation, judged>> \/ Trust \/ InstallRegistry \/ InstallProvenance
  BY DEF Next, Progress, vars, Block, Send, Settle, Receive, Break, Make, Refuse,
     Replace, Remove, Truncate, Fill, GiveUp, Kill
<1> QED
  BY <1>1, <1>2, <1>3, <1>4, <1>5

\* What was observed is of a known kind, since the answer is one of Answers and
\* its result that of a reader.
LEMMA ObservedStep ==
    ASSUME ObservedOK, SpentInv, [Next]_vars
    PROVE  ObservedOK'
<1> USE DEF ObservedOK, installation, judged
<1>1. CASE Send
  BY <1>1 DEF Send, SpentInv
<1>2. CASE Settle
  BY <1>2, EarlyStatus DEF Settle
<1>3. ASSUME NEW a \in Answers, Receive(a)
      PROVE  ObservedOK'
  <2>1. a.body.form \in Forms
    BY HealthProbeAssumption DEF Bodies
  <2> QED
    BY <1>3, <2>1, AnswerStatus DEF Receive
<1>4. ASSUME NEW break, Break(break)
      PROVE  ObservedOK'
  BY <1>4, BreakStatus DEF Break
<1>5. CASE Trust \/ Block \/ Make \/ Refuse \/ Replace \/ Remove \/ Truncate \/ Fill \/ GiveUp \/ Kill
  BY <1>5 DEF Trust, Block, Make, Refuse, Replace, Remove, Truncate, Fill, GiveUp, Kill, Ends
<1>6. CASE InstallRegistry \/ InstallProvenance \/ UNCHANGED vars
  BY <1>6 DEF InstallRegistry, InstallProvenance, vars
<1> QED
  BY <1>1, <1>2, <1>3, <1>4, <1>5, <1>6 DEF Next, Progress

\* Nothing but what was made of the result gets into the file.
LEMMA WrittenStep ==
    ASSUME WrittenOK, FileInv, [Next]_vars
    PROVE  WrittenOK'
<1> USE DEF WrittenOK, installation, judged
<1>1. CASE Make
  <2>1. receipt'.kind \in {"report", "receipt"}
    BY <1>1 DEF Make, Report, Receipt
  <2>2. file \in {Of("absent"), Of("earlier")}
    BY <1>1 DEF Make, FileInv, Written
  <2> QED
    BY <1>1, <2>1, <2>2 DEF Make
<1>2. CASE Replace \/ Fill
  <2>1. ExitCode(receipt) \in {"ok", "auth", "request"}
    BY DEF ExitCode
  <2> QED
    BY <1>2, <2>1 DEF Replace, Fill, Ends
<1>3. CASE Remove \/ Truncate
  BY <1>3 DEF Remove, Truncate
<1>4. CASE Block \/ Refuse \/ GiveUp \/ Kill
  BY <1>4 DEF Block, Refuse, GiveUp, Kill, Ends
<1>5. UNCHANGED <<receipt, file, exit>> \/ Make \/ Replace \/ Fill \/ Remove \/ Truncate
         \/ Block \/ Refuse \/ GiveUp \/ Kill
  BY DEF Next, Progress, vars, Trust, Send, Settle, Receive, Break, InstallRegistry,
     InstallProvenance
<1>6. CASE UNCHANGED <<receipt, file, exit>>
  BY <1>6
<1> QED
  BY <1>1, <1>2, <1>3, <1>4, <1>5, <1>6

\* The file at --output is opened last.
LEMMA FileStep ==
    ASSUME FileInv, [Next]_vars
    PROVE  FileInv'
<1> USE DEF FileInv, Written
<1>1. CASE Trust \/ Send \/ Settle \/ (\E a \in Answers : Receive(a)) \/ (\E break : Break(break))
  BY <1>1 DEF Trust, Send, Settle, Receive, Break
<1>2. CASE Make \/ Block \/ Refuse \/ Replace \/ Remove \/ Truncate \/ Fill \/ GiveUp \/ Kill
  BY <1>2 DEF Make, Block, Refuse, Replace, Remove, Truncate, Fill, GiveUp, Kill, Ends
<1>3. CASE InstallRegistry \/ InstallProvenance \/ UNCHANGED vars
  BY <1>3 DEF InstallRegistry, InstallProvenance, vars
<1> QED
  BY <1>1, <1>2, <1>3 DEF Next, Progress

\* Only a request that leaves counts, and only before its result is known.
LEMMA SpentStep ==
    ASSUME SpentInv, [Next]_vars
    PROVE  SpentInv'
<1> USE DEF SpentInv, installation, judged
<1>1. CASE Trust \/ Block
  BY <1>1 DEF Trust, Block, Ends
<1>2. CASE Send
  BY <1>2, PendingIsNoSkip DEF Send
<1>3. CASE Settle
  BY <1>3 DEF Settle
<1>4. ASSUME NEW a \in Answers, Receive(a)
      PROVE  SpentInv'
  BY <1>4, AnswerStatus DEF Receive
<1>5. ASSUME NEW break, Break(break)
      PROVE  SpentInv'
  BY <1>5, BreakStatus DEF Break
<1>6. CASE Make \/ Refuse \/ Replace \/ Remove \/ Truncate \/ Fill \/ GiveUp \/ Kill
  BY <1>6 DEF Make, Refuse, Replace, Remove, Truncate, Fill, GiveUp, Kill, Ends
<1>7. CASE InstallRegistry \/ InstallProvenance \/ UNCHANGED vars
  BY <1>7 DEF InstallRegistry, InstallProvenance, vars
<1> QED
  BY <1>1, <1>2, <1>3, <1>4, <1>5, <1>6, <1>7 DEF Next, Progress

\* The next release is another one, and the loaded one is not installed again.
LEMMA BoundStep ==
    ASSUME BoundInv, [Next]_vars
    PROVE  BoundInv' /\ (registry' = loaded' => registry = loaded)
<1> USE DEF BoundInv, installation, judged
<1>1. CASE InstallRegistry
  <2>1. registry' # Release[1]
    BY <1>1, HealthProbeAssumption DEF InstallRegistry
  <2> QED
    BY <1>1, <2>1 DEF InstallRegistry
<1>2. CASE InstallProvenance
  BY <1>2 DEF InstallProvenance
<1>3. CASE Trust
  BY <1>3 DEF Trust
<1>4. UNCHANGED <<installation, judged>> \/ Trust \/ InstallRegistry \/ InstallProvenance
  BY DEF Next, Progress, vars, Block, Send, Settle, Receive, Break, Make, Refuse,
     Replace, Remove, Truncate, Fill, GiveUp, Kill
<1> QED
  BY <1>1, <1>2, <1>3, <1>4

\* A receipt is made of releases that have one name while the loaded Registry is
\* installed, and stays as it was made.
LEMMA ReceiptStep ==
    ASSUME BoundInv, ReceiptInv, [Next]_vars
    PROVE  ReceiptInv'
<1>1. registry' = loaded' => registry = loaded
  BY BoundStep
<1>2. CASE Make
  <2>1. ASSUME probe.mode = "health"
        PROVE  /\ receipt'.attempted = (result.status # "skipped")
               /\ receipt'.assessment = Assess(result)
               /\ receipt'.registry = trusted
               /\ receipt'.manifest = provenance
    BY <1>2, <2>1 DEF Make, Receipt
  <2>2. probe.mode = "health" /\ registry = loaded => trusted = loaded /\ provenance = loaded
    BY <1>2 DEF Make, Binds, BoundInv
  <2>3. phase' \in Written /\ UNCHANGED <<probe, result, registry, loaded>>
    BY <1>2 DEF Make, Written, installation, judged
  <2> QED
    BY <2>1, <2>2, <2>3 DEF ReceiptInv
<1>3. CASE UNCHANGED <<receipt, probe, result, loaded>> /\ (phase \in Written => phase' \in Written)
  BY <1>1, <1>3 DEF ReceiptInv
<1>4. CASE receipt = Absent /\ UNCHANGED receipt
  BY <1>4 DEF ReceiptInv
<1>5. CASE Trust \/ Send \/ Settle \/ (\E a \in Answers : Receive(a)) \/ (\E break : Break(break))
  <2>1. phase \in {"loaded", "trusted", "waiting"} /\ UNCHANGED receipt
    BY <1>5 DEF Trust, Send, Settle, Receive, Break
  <2> QED
    BY <1>4, <2>1 DEF ReceiptInv, Written
<1>6. CASE Block \/ Refuse \/ Replace \/ Remove \/ Truncate \/ Fill \/ GiveUp \/ Kill
  BY <1>3, <1>6 DEF Block, Refuse, Replace, Remove, Truncate, Fill, GiveUp, Kill, Ends,
     Written, judged
<1>7. CASE InstallRegistry \/ InstallProvenance \/ UNCHANGED vars
  BY <1>3, <1>7 DEF InstallRegistry, InstallProvenance, vars, judged
<1> QED
  BY <1>2, <1>5, <1>6, <1>7 DEF Next, Progress

\* An adapter is found for a host that one names, unless a conflict has emptied
\* the registry.
LEMMA OwnedIsAdapted ==
    ASSUME NEW p \in Probes, p.class = "external_endpoint", Owned(p.host),
           DefaultRegistry = Registered
    PROVE  Adapted(p)
<1> DEFINE owners == {i \in DOMAIN Registered : p.host \in Registered[i].asks.hosts}
<1>1. owners # {} /\ owners \in SUBSET Nat
  BY RegisteredAreReasonable DEF Owned
<1>2. AdapterOf(p) = FirstAt(Registered, owners)
  BY <1>1 DEF AdapterOf, AdapterFor, MatchHost
<1>3. PICK i \in owners : AdapterOf(p) = Registered[i]
  BY <1>1, <1>2, FoundAtPlace
<1>4. p.host \in AdapterOf(p).asks.hosts
  BY <1>3
<1>5. NoAdapter.asks.hosts = {}
  BY DEF NoAdapter, Adapter, Asks
<1> QED
  BY <1>4, <1>5 DEF Adapted

\* No result of an adapter says that there is none.
LEMMA UnansweredIsNoOrphan ==
    ASSUME NEW p, Adapted(p), NEW r,
           r \in {Pending, Early(p)} \/ \E break : r = BreakResult(p, break)
    PROVE  r.reason # Reason("cli", "external_provider_adapter_missing")
<1> DEFINE orphan == Reason("cli", "external_provider_adapter_missing")
<1>1. Pending.reason # orphan
  BY DEF Pending, Result, NoReason, Reason
<1>2. \A gate, ad : Stopped(gate, ad).reason # orphan
  BY DEF Stopped, Result, Reason
<1>3. \A ad, break : Broken(ad, break).reason # orphan
  BY DEF Broken, BreakReason, Result, Reason
<1> HIDE DEF orphan
<1>4. Early(p).reason # orphan
  BY <1>1, <1>2, <1>3 DEF Early, EarlyOf
<1>5. \A break : BreakResult(p, break).reason # orphan
  BY <1>3 DEF BreakResult
<1> QED
  BY <1>1, <1>4, <1>5 DEF orphan

\* An answer has a status of three digits.
LEMMA StatusOfAnswer == \A a \in Answers : a.http \in Int /\ a.http >= 100
<1> DEFINE codes == 100 .. 999
<1>1. Answers \subseteq [http: codes, body: Bodies, ruling: BOOLEAN]
  BY HealthProbeAssumption
<1>2. \A c \in codes : c \in Int /\ c >= 100
  OBVIOUS
<1> HIDE DEF codes
<1>3. \A a \in Answers : a.http \in codes
  BY <1>1
<1> QED
  BY <1>2, <1>3

\* An answer is not the lack of one.
LEMMA AnswersAreAnswers == NoAnswer \notin Answers
<1>1. \A a \in Answers : a.http \in Int /\ a.http >= 100
  BY StatusOfAnswer
<1>2. NoAnswer.http = 0
  BY DEF NoAnswer
<1> QED
  BY <1>1, <1>2

\* A verified result is of an answer: what ends an operation before a request, and
\* a request without an answer, verify nothing.
LEMMA VerifiedIsAnswered ==
    ASSUME AnswerInv, result.status = "verified"
    PROVE  answer # NoAnswer
BY EarlyStatus, BreakStatus, PendingIsNoSkip DEF AnswerInv

\* A result is made once, of what ended the operation.
LEMMA AnswerStep ==
    ASSUME SpentInv, AnswerInv, [Next]_vars
    PROVE  AnswerInv'
<1> USE DEF AnswerInv, installation, judged
<1>1. CASE Trust \/ Block
  BY <1>1 DEF Trust, Block, Ends
<1>2. CASE Send
  BY <1>2 DEF Send
<1>3. CASE Settle
  BY <1>3 DEF Settle
<1>4. ASSUME NEW a \in Answers, Receive(a)
      PROVE  AnswerInv'
  BY <1>4, AnswersAreAnswers DEF Receive, SpentInv
<1>5. ASSUME NEW break, Break(break)
      PROVE  AnswerInv'
  BY <1>5 DEF Break
<1>6. CASE UNCHANGED <<result, sent, answer, probe>> /\ phase' \notin {"loaded", "trusted", "waiting"}
  BY <1>6
<1>7. CASE UNCHANGED <<result, sent, answer, probe, phase>>
  BY <1>7
<1> QED
  BY <1>1, <1>2, <1>3, <1>4, <1>5, <1>6, <1>7 DEF Next, Progress, vars, Make, Refuse, Replace,
     Remove, Truncate, Fill, GiveUp, Kill, Ends, InstallRegistry, InstallProvenance

----------------------------------------------------------------------------
(* Theorems *)

\* A command that verifies an operation (catalogVerify) keeps the invariant,
\* whatever it is asked, whatever it is answered and whatever is installed.
THEOREM Invariance == Spec => []IInv
<1>1. ASSUME IInv, [Next]_vars
      PROVE  IInv'
  BY <1>1, ReleasesStep, ObservedStep, WrittenStep, FileStep, SpentStep, BoundStep,
     ReceiptStep, AnswerStep
     DEF IInv, TypeOK
<1> QED
  BY InitInvariant, <1>1, PTL DEF Spec

\* The type invariant of the command.
THEOREM TypeCorrect == Spec => []TypeOK
<1>1. IInv => TypeOK
  BY DEF IInv
<1> QED
  BY <1>1, Invariance, PTL

\* A receipt that claims no attempt (healthProbeReceipt) stands for no request,
\* whichever adapter answered and whatever it was answered.
THEOREM SpendsWithinBudgetHolds == Spec => []SpendsWithinBudget
<1>1. IInv => SpendsWithinBudget
  BY DEF IInv, SpendsWithinBudget, Claimed, Finished, SpentInv, ReceiptInv
<1> QED
  BY <1>1, Invariance, PTL

\* A receipt names one release, unless an install has replaced the Registry
\* that the command had loaded (healthProbeReceipt, localRegistryTrust).
THEOREM MixesOnlyAcrossInstallHolds == Spec => []MixesOnlyAcrossInstall
<1>1. IInv => MixesOnlyAcrossInstall
  BY DEF IInv, MixesOnlyAcrossInstall, Claimed, Finished, ReceiptInv
<1> QED
  BY <1>1, Invariance, PTL

\* A healthy receipt is of an answer that refuses nothing: by the order of
\* classifyHealthProbe its result was verified, and a reader verifies only what
\* it has read to the end (datago.ClassifyResponse and the adapters' readers).
THEOREM HealthyIsAnsweredHolds == Spec => []HealthyIsAnswered
<1>1. ASSUME IInv
      PROVE  HealthyIsAnswered
  <2> SUFFICES ASSUME Claimed, file.assessment.outcome = "healthy"
               PROVE  /\ sent = 1 /\ answer # NoAnswer
                      /\ answer.http < 400
                      /\ Refuses(answer) => \/ AdapterOf(probe).reads.landing # "never"
                                            \/ probe.c00 /\ NormalC00(answer.body)
    BY DEF HealthyIsAnswered
  <2>1. Assess(result).outcome = "healthy"
    BY <1>1 DEF IInv, ReceiptInv, Claimed, Finished
  <2>2. result.status = "verified" /\ ~ (result.http >= 400)
    BY <2>1, HealthyIsVerified
  <2>3. answer # NoAnswer
    BY <1>1, <2>2, VerifiedIsAnswered DEF IInv
  <2>4. sent = 1 /\ answer \in Answers /\ result = AnswerResult(probe, answer)
    BY <1>1, <2>3 DEF IInv, AnswerInv
  <2>5. answer.http \in Int
    BY <2>4, StatusOfAnswer
  <2>6. answer.http < 400
    BY <2>2, <2>4, <2>5, VerifiedIsTaken
  <2> QED
    BY <2>2, <2>3, <2>4, <2>6, VerifiedIsTaken
<1> QED
  BY <1>1, Invariance, PTL

\* What a receipt calls retryable got no answer, or one that another attempt may
\* not get: of the words in which classifyHealthProbe reads a timeout, an adapter
\* makes only those of a provider that speaks of its deadline.
THEOREM RetriesOnlyTransientHolds == Spec => []RetriesOnlyTransient
<1>1. ASSUME IInv
      PROVE  RetriesOnlyTransient
  <2> SUFFICES ASSUME Claimed, file.assessment.retryable, answer # NoAnswer
               PROVE  \/ answer.http = 429 \/ answer.http >= 500
                      \/ answer.body.says \in Saying("DEADLINE")
                      \/ answer.body.form = "cut"
    BY DEF RetriesOnlyTransient
  <2>1. Assess(result).retryable
    BY <1>1 DEF IInv, ReceiptInv, Claimed, Finished
  <2>2. result.http = 429 \/ SaysTimeout(result.reason) \/ result.http >= 500 \/ result.http = 0
    BY <2>1, Retryable
  <2>3. probe \in Probes /\ answer \in Answers /\ result = AnswerResult(probe, answer)
    BY <1>1 DEF IInv, AnswerInv
  <2>4. /\ result.http = answer.http \/ answer.body.form = "cut"
        /\ SaysTimeout(result.reason) => answer.body.says \in Saying("DEADLINE")
    BY <2>3, AnswerIsHonest
  <2>5. answer.http # 0
    BY <2>3, StatusOfAnswer
  <2> QED
    BY <2>2, <2>4, <2>5
<1> QED
  BY <1>1, Invariance, PTL

\* What an adapter has verified of an operation that is offered, `datapan call`
\* lets out when there is a credential, and accepts: each Call checks no more
\* before a request than Verify has checked, and reads the answer with the same
\* reader.
THEOREM VerifiedCanBeFetchedHolds == Spec => []VerifiedCanBeFetched
<1>1. ASSUME IInv
      PROVE  VerifiedCanBeFetched
  <2> SUFFICES ASSUME Adapted(probe), result.status = "verified",
                      Fetchable(probe, AdapterOf(probe), Question(probe))
               PROVE  Fetches(probe, AdapterOf(probe), Question(probe), answer)
    BY DEF VerifiedCanBeFetched
  <2>1. answer # NoAnswer
    BY <1>1, VerifiedIsAnswered DEF IInv
  <2>2. probe \in Probes /\ Early(probe) = Pending /\ result = AnswerResult(probe, answer)
    BY <1>1, <2>1 DEF IInv, AnswerInv
  <2> QED
    BY <2>2, CallGetsThrough
<1> QED
  BY <1>1, Invariance, PTL

\* With no registration refused, an operation on a host that some adapter names
\* is asked through an adapter, whatever comes of it.
THEOREM NoHostIsOrphanedHolds ==
    ASSUME DefaultRegistry = Registered
    PROVE  Spec => []NoHostIsOrphaned
<1>1. ASSUME IInv
      PROVE  NoHostIsOrphaned
  <2> SUFFICES ASSUME probe.class = "external_endpoint", Owned(probe.host)
               PROVE  result.reason # Reason("cli", "external_provider_adapter_missing")
    BY DEF NoHostIsOrphaned
  <2>1. probe \in Probes
    BY <1>1 DEF IInv, AnswerInv
  <2>2. Adapted(probe)
    BY <2>1, OwnedIsAdapted
  <2>3. CASE answer = NoAnswer
    BY <1>1, <2>2, <2>3, UnansweredIsNoOrphan DEF IInv, AnswerInv
  <2>4. CASE answer # NoAnswer
    <3>1. result.reason.by # "cli"
      BY <1>1, <2>2, <2>4, AnswerIsHonest DEF IInv, AnswerInv
    <3> QED
      BY <3>1 DEF Reason
  <2> QED
    BY <2>3, <2>4
<1> QED
  BY <1>1, Invariance, PTL
=============================================================================
