-------------------------- MODULE ProbingAdapters --------------------------
(***************************************************************************)
(* The adapters that probe a data endpoint (internal/provider), one record *)
(* of the choices of ProviderAdapters each, in two halves: what the file   *)
(* does before the request and what it does with the answer.               *)
(***************************************************************************)
EXTENDS ProviderAdapters

\* Phrases that several adapters look for in the same order.
KeyPhrases == <<<<"UNREGISTERED", "service_key_not_registered">>,
                <<"SERVICE KEY", "service_key_error">>>>
KeyOrAccess == <<<<"UNREGISTERED", "service_key_not_registered">>,
                 <<"ACCESS DENIED", "service_access_denied">>,
                 <<"SERVICE KEY", "service_key_error">>>>

AirportAsks == Asks("airport", {"openapi.airport.co.kr"})
AirportReads == [Reads EXCEPT
   !.items = {"xml", "json", "cut"}, !.hollow = {"xml", "json"},
   !.calls = FALSE, !.offers = FALSE, !.phrases = KeyOrAccess]

AndongAsks == [Asks("andong", {"www.andong.go.kr"}) EXCEPT
   !.fills = {"alias"}, !.transport = "named"]
AndongReads == [Reads EXCEPT
   !.items = {"xml"},
   !.phrases = <<<<"NO SERVICE", "service_not_registered">>,
     <<"INVALID REQUEST PARAMETER", "invalid_request_params">>,
     <<"SERVICE KEY", "service_key_error">>>>]

EKAPEAsks == [Asks("ekape", {"data.ekape.or.kr"}) EXCEPT
   !.fills = {"sample"}]
EKAPEReads == [Reads EXCEPT
   !.html = "html", !.items = {"xml"}, !.calls = FALSE, !.offers = FALSE,
   !.phrases = <<<<"UNREGISTERED", "service_key_not_registered">>,
     <<"SERVICE KEY", "service_key_error">>,
     <<"HTML", "html_response">>>>]

EMuseumAsks == [Asks("emuseum", {"www.emuseum.go.kr"}) EXCEPT
   !.fills = {"filter"}, !.url = "error", !.transport = "named"]
EMuseumReads == [Reads EXCEPT
   !.html = "html", !.items = {"xml"}, !.itemsAfterStatus = FALSE,
   !.absent = {404}, !.phrases = KeyOrAccess]

EPostAsks == [Asks("epost", {"openapi.epost.go.kr", "openapi.epost.go.kr:80"}) EXCEPT
   !.fills = {"alias"},
   !.gates = <<"approval", "soap", "metadata", "params", "key", "url">>]
EPostReads == [Reads EXCEPT
   !.items = {"xml"}, !.refusesWADL = TRUE,
   !.order = <<"reasonCode", "code", "phrase">>,
   !.callGates = <<"approval", "soap", "metadata", "params", "key", "url">>,
   !.phrases = KeyPhrases]

FolkAsks == [Asks("folk", {"folkency.nfm.go.kr"}) EXCEPT
   !.fills = {"alias", "sample", "filter"},
   !.gates = <<"approval", "detail", "params", "key", "url">>]
FolkReads == [Reads EXCEPT
   !.items = {"json"}, !.hollow = {"json"}, !.own = "afterStatus",
   !.ownForms = {"json"}, !.order = <<"reasonCode", "code">>,
   !.calls = FALSE, !.offers = FALSE]

ForestAsks == [Asks("forest", {"api.forest.go.kr"}) EXCEPT
   !.fills = {"sample"}]
ForestReads == [Reads EXCEPT
   !.items = {"xml"}, !.hollow = {"xml"}, !.phrases = KeyPhrases]

GBLibAsks == [Asks("gblib", {"openapi.gblib.or.kr"}) EXCEPT
   !.fills = {"sample"}, !.url = "error", !.transport = "named"]
GBLibReads == [Reads EXCEPT
   !.items = {"xml"}, !.hollow = {"xml"}, !.absent = {404},
   !.phrases = KeyOrAccess]

GeojeAsks == [Asks("geoje", {"data.geoje.go.kr"}) EXCEPT
   !.fills = {"alias", "filter"}]
GeojeReads == [Reads EXCEPT
   !.phrases = <<<<"COMMON ERROR", "common_error">>,
     <<"UNREGISTERED", "service_key_not_registered">>,
     <<"SERVICE KEY", "service_key_error">>,
     <<"SQL", "provider_sql_error">>>>]

HumetroAsks == [Asks("humetro", {"data.humetro.busan.kr"}) EXCEPT
   !.fills = {"alias", "sample"}, !.transport = "named"]
HumetroReads == [Reads EXCEPT
   !.items = {"xml"}, !.hollow = {"xml"},
   !.callGates = <<"params", "key", "url">>,
   !.phrases = <<<<"ACCESS DENIED", "service_access_denied">>,
     <<"DEADLINE", "deadline_expired">>,
     <<"INVALID", "invalid_request_parameter">>,
     <<"SERVICE KEY", "service_key_error">>>>]

ItfindAsks == [Asks("itfind", {"open.itfind.or.kr"}) EXCEPT
   !.fills = {"filter"}, !.transport = "named"]
ItfindReads == [Reads EXCEPT
   !.items = {"xml"}, !.hollow = {"xml"}, !.absent = {404},
   !.phrases = <<<<"UNREGISTERED", "service_key_not_registered">>,
     <<"SERVICE KEY", "service_key_error">>,
     <<"INVALID", "bad_request_params">>,
     <<"NO SERVICE", "service_not_registered">>>>]

\* PrepareCallParams fills for an unnamed operation, so not what only a list
\* has a value for; Call then fills once more, for the operation it is asked.
JejuAsks == [Asks("jeju", {"data.jeju.go.kr"}) EXCEPT
   !.fills = {"alias", "sample"}, !.listFills = {"filter"},
   !.gates = <<"approval", "params", "url">>, !.url = "error",
   !.transport = "named"]
JejuReads == [Reads EXCEPT
   !.html = "html", !.absent = {404, 405},
   !.callGates = <<"approval", "params", "url">>, !.phrases = KeyOrAccess]

JeonjuAsks == [Asks("jeonju", {"openapi.jeonju.go.kr"}) EXCEPT
   !.fills = {"alias", "sample", "filter"}]
JeonjuReads == [Reads EXCEPT
   !.items = {"xml", "json", "cut"}, !.hollow = {"xml", "json"},
   !.absent = {404, 405}, !.offers = FALSE, !.phrases = KeyOrAccess]

KoradAsks == [Asks("korad", {"www.korad.or.kr"}) EXCEPT
   !.fills = {"sample", "filter"},
   !.gates = <<"metadata", "approval", "params", "key", "url">>,
   !.transport = "named"]
KoradReads == [Reads EXCEPT
   !.items = {"xml"}, !.absent = {404},
   !.callGates = <<"metadata", "approval", "params", "key", "url">>,
   !.phrases = <<<<"UNREGISTERED", "service_key_not_registered">>,
     <<"SERVICE KEY", "service_key_error">>,
     <<"INVALID", "bad_request_params">>,
     <<"NO SERVICE", "service_not_registered">>>>]

\* An endpoint without a scheme gets one.
KPXAsks == [Asks("kpx", {"openapi.kpx.or.kr"}) EXCEPT
   !.url = "inferred", !.transport = "named"]
KPXReads == [Reads EXCEPT
   !.items = {"xml"}, !.absent = {404},
   !.phrases = <<<<"INVALID REQUEST PARAMETER", "invalid_request_parameter">>,
     <<"UNREGISTERED", "service_key_not_registered">>,
     <<"ACCESS DENIED", "service_access_denied">>,
     <<"SERVICE KEY", "service_key_error">>>>]

LHEBidAsks == [Asks("lh-ebid", {"openapi.ebid.lh.or.kr"}) EXCEPT
   !.fills = {"sample"}, !.url = "error", !.transport = "named"]
LHEBidReads == [Reads EXCEPT
   !.items = {"xml"}, !.hollow = {"xml"},
   !.phrases = <<<<"UNREGISTERED", "service_key_not_registered">>,
     <<"SERVICE KEY", "missing_auth">>,
     <<"INVALID PARAMETER", "bad_request_params">>>>]

MyHomeAsks == [Asks("myhome", {"data.myhome.go.kr:443"}) EXCEPT
   !.fills = {"filter"}, !.url = "error", !.transport = "named"]
MyHomeReads == [Reads EXCEPT
   !.html = "html", !.own = "beforeStatus", !.ownForms = {"json"},
   !.absent = {404}, !.phrases = KeyOrAccess]

NAQSAsks == [Asks("naqs", {"data.naqs.go.kr"}) EXCEPT
   !.fills = {"filter"},
   !.gates = <<"mutation", "approval", "params", "url">>,
   !.transport = "named"]
NAQSReads == [Reads EXCEPT
   !.html = "html_portal", !.items = {"xml"}, !.hollow = {"xml"},
   !.absent = {404},
   !.callGates = <<"mutation", "approval", "params", "url">>,
   !.phrases = <<<<"NORMAL SERVICE", "">>,
     <<"INVALID", "bad_request_params">>,
     <<"SERVICE KEY", "service_key_error">>>>]

OneclickLawAsks == [Asks("oneclick-law", {"oneclick.law.go.kr", "oneclick.law.go.kr:80"}) EXCEPT
   !.fills = {"alias", "sample", "filter"},
   !.gates = <<"nonSoap", "approval", "params", "keyIfAsked", "url", "noAction">>,
   !.url = "error", !.transport = "refusal"]
OneclickLawReads == [Reads EXCEPT
   !.html = "html", !.order = <<"reasonCode", "code", "phrase">>,
   !.callGates = <<"nonSoap", "approval", "params", "keyIfAsked", "url", "noAction">>,
   !.phrases = <<<<"SERVICE KEY", "service_key_error">>,
     <<"NO SUCH OPERATION", "unknown_soap_operation">>,
     <<"RETURN CODE 1", "return_code_error">>>>]

PQISAsks == [Asks("pqis", {"openapi.pqis.go.kr"}) EXCEPT
   !.fills = {"sample"}, !.url = "error", !.transport = "named"]
PQISReads == [Reads EXCEPT
   !.items = {"xml"}, !.hollow = {"xml"}, !.absent = {404},
   !.phrases = KeyOrAccess]

QNetAsks == [Asks("q-net", {"openapi.q-net.or.kr", "c.q-net.or.kr", "open.api.q-net.or.kr"}) EXCEPT
   !.fills = {"sample"},
   !.gates = <<"approval", "metadata", "otherKey", "params", "key", "url">>]
QNetReads == [Reads EXCEPT
   !.items = {"xml"}, !.own = "complaint", !.ownForms = {"json"},
   !.refusesWADL = TRUE, !.order = <<"reasonCode", "phrase", "complaint">>,
   !.calls = FALSE, !.offers = FALSE,
   !.phrases = <<<<"UNREGISTERED", "service_key_not_registered">>,
     <<"FAILED TO VALIDATE", "connection_validation_failed">>>>]

SafetyDataAsks == [Asks("safetydata", {"www.safetydata.go.kr"}) EXCEPT
   !.url = "error", !.transport = "named"]
SafetyDataReads == [Reads EXCEPT
   !.order = <<"phrase", "code">>, !.phrases = KeyPhrases]

SeoulBusAsks == [Asks("seoul-bus", {"ws.bus.go.kr"}) EXCEPT
   !.fills = {"sample"}, !.url = "error", !.transport = "named"]
SeoulBusReads == [Reads EXCEPT
   !.items = {"xml"}, !.hollow = {"xml"}, !.own = "beforeStatus",
   !.ownForms = {"xml"},
   !.phrases = <<<<"UNREGISTERED", "service_key_not_registered">>,
     <<"SERVICE KEY", "auth_error">>,
     <<"INVALID", "bad_request_params">>>>]

SeoulOpenDataAsks == [Asks("seoul-open-data", {"data.seoul.go.kr", "openapi.seoul.go.kr", "openapi.seoul.go.kr:8088"}) EXCEPT
   !.fills = {"alias"}, !.gates = <<"url", "keyIfAsked", "paramsIfAsked">>,
   !.url = "named", !.transport = "named"]
SeoulOpenDataReads == [Reads EXCEPT
   !.html = "typed", !.own = "beforeStatus", !.ownForms = {"json", "cut"},
   !.landing = "unkeyed", !.numbersHTTP = TRUE, !.order = <<"code">>,
   !.callGates = <<"params", "key", "url">>]

SisulAsks == [Asks("sisul", {"data.sisul.or.kr"}) EXCEPT
   !.gates = <<"approval", "metadata", "params", "key", "url">>,
   !.transport = "named"]
SisulReads == [Reads EXCEPT
   !.items = {"xml"}, !.refusesWADL = TRUE,
   !.callGates = <<"approval", "metadata", "params", "key", "url">>,
   !.phrases = <<<<"SERVICE KEY", "auth_required">>,
     <<"UNSUPPORTED", "unsupported_auth">>>>]

TourAsks == [Asks("tour", {"openapi.tour.go.kr"}) EXCEPT
   !.fills = {"sample"},
   !.gates = <<"approval", "root", "params", "key", "url">>, !.url = "error",
   !.transport = "named"]
TourReads == [Reads EXCEPT
   !.items = {"xml"}, !.hollow = {"xml"},
   !.order = <<"body", "reasonCode", "phrase", "code">>,
   !.callGates = <<"approval", "root", "params", "key", "url">>,
   !.phrases = <<<<"UNREGISTERED", "service_key_not_registered">>,
     <<"SERVICE KEY", "missing_auth">>,
     <<"UNSUPPORTED", "auth_error">>,
     <<"NO SERVICE", "service_not_registered">>,
     <<"INVALID PARAMETER", "bad_request_params">>>>]

\* As in Jeju, Call fills in what PrepareCallParams has left.
UiryeongAsks == [Asks("uiryeong", {"data.uiryeong.go.kr"}) EXCEPT
   !.fills = {"alias"}, !.listFills = {"filter"}]
UiryeongReads == [Reads EXCEPT
   !.phrases = <<<<"UNREGISTERED", "service_key_not_registered">>,
     <<"INVALID", "bad_request_params">>,
     <<"SERVICE KEY", "service_key_error">>,
     <<"SQL", "provider_sql_error">>>>]

UlsanAsks == [Asks("ulsan", {"openapi.its.ulsan.kr"}) EXCEPT
   !.transport = "raw"]
UlsanReads == [Reads EXCEPT
   !.items = {"xml"},
   !.phrases = <<<<"UNREGISTERED", "service_key_not_registered">>,
     <<"INVALID", "bad_request_params">>,
     <<"SERVICE KEY", "service_key_error">>>>]

OpenDARTAsks == [Asks("opendart", {"opendart.fss.or.kr"}) EXCEPT
   !.gates = <<"params", "key", "url">>, !.url = "named"]
OpenDARTReads == [Reads EXCEPT
   !.html = "typed", !.order = <<>>, !.calls = FALSE, !.offers = FALSE]
\* Where every one of them is found.
Airport == Adapter(AirportAsks, AirportReads)
Andong == Adapter(AndongAsks, AndongReads)
EKAPE == Adapter(EKAPEAsks, EKAPEReads)
EMuseum == Adapter(EMuseumAsks, EMuseumReads)
EPost == Adapter(EPostAsks, EPostReads)
Folk == Adapter(FolkAsks, FolkReads)
Forest == Adapter(ForestAsks, ForestReads)
GBLib == Adapter(GBLibAsks, GBLibReads)
Geoje == Adapter(GeojeAsks, GeojeReads)
Humetro == Adapter(HumetroAsks, HumetroReads)
Itfind == Adapter(ItfindAsks, ItfindReads)
Jeju == Adapter(JejuAsks, JejuReads)
Jeonju == Adapter(JeonjuAsks, JeonjuReads)
Korad == Adapter(KoradAsks, KoradReads)
KPX == Adapter(KPXAsks, KPXReads)
LHEBid == Adapter(LHEBidAsks, LHEBidReads)
MyHome == Adapter(MyHomeAsks, MyHomeReads)
NAQS == Adapter(NAQSAsks, NAQSReads)
OneclickLaw == Adapter(OneclickLawAsks, OneclickLawReads)
PQIS == Adapter(PQISAsks, PQISReads)
QNet == Adapter(QNetAsks, QNetReads)
SafetyData == Adapter(SafetyDataAsks, SafetyDataReads)
SeoulBus == Adapter(SeoulBusAsks, SeoulBusReads)
SeoulOpenData == Adapter(SeoulOpenDataAsks, SeoulOpenDataReads)
Sisul == Adapter(SisulAsks, SisulReads)
Tour == Adapter(TourAsks, TourReads)
Uiryeong == Adapter(UiryeongAsks, UiryeongReads)
Ulsan == Adapter(UlsanAsks, UlsanReads)
OpenDART == Adapter(OpenDARTAsks, OpenDARTReads)
=============================================================================
