-------------------------- MODULE LandingAdapters --------------------------
(***************************************************************************)
(* The adapters whose hosts publish a page, not data (internal/provider):  *)
(* they share one verification, take HTML for an answer and do not call.   *)
(* Seven of their files hold a copy of that verification.                  *)
(***************************************************************************)
EXTENDS ProviderAdapters

\* verifyHTMLLandingPage: nothing is checked but the endpoint.
LandingReads ==
  [Reads EXCEPT !.html = "typed", !.landing = "always", !.numbersHTTP = TRUE,
                !.order = <<>>, !.calls = FALSE, !.offers = FALSE]

Landing(name, hosts) ==
  Adapter([Asks(name, hosts) EXCEPT !.gates = <<"url">>, !.url = "named",
                                    !.transport = "named"],
          LandingReads)

Anyang == Landing("anyang", {"www.anyang.go.kr"})
ATFIS == Landing("atfis", {"www.atfis.or.kr"})
Calspia == Landing("calspia", {"www.calspia.go.kr"})
OnAnotherHost == Landing("cancer", {"cancer.go.kr", "car.go.kr"})   \* mutant: two adapters claim a host
Cancer == Landing("cancer", {"cancer.go.kr"})
Car == Landing("car", {"car.go.kr"})
Car365 == Landing("car365", {"www.car365.go.kr"})
ChildcareInfo == Landing("childcare-info", {"info.childcare.go.kr"})
ChungbukTour == Landing("chungbuk-tour", {"tour.chungbuk.go.kr"})
Chungnam ==
  Landing("chungnam", {"alldam.chungnam.go.kr",
    "localfood.chungnam.go.kr",
    "www.chungnam.go.kr",
    "www.xn--6-6v7en42by2es7i6jc.com"})
Codil == Landing("codil", {"www.codil.or.kr"})
Consumer == Landing("consumer", {"www.consumer.go.kr"})
Culture == Landing("culture", {"www.culture.go.kr"})
Daegu ==
  Landing("daegu", {"air.daegu.go.kr",
    "happy.daegu.go.kr",
    "thegoodnight.daegu.go.kr",
    "www.daegu.go.kr",
    "www.daegufood.go.kr"})
Daejeon == Landing("daejeon", {"bigdata.daejeon.go.kr", "gis.daejeon.go.kr"})
DataGG == Landing("data-gg", {"data.gg.go.kr"})
DGFCA == Landing("dgfca", {"dgfca.or.kr"})
Dongjak == Landing("dongjak", {"data.dongjak.go.kr"})
ECOS == Landing("ecos", {"ecos.bok.or.kr"})
ECVAM == Landing("ecvam", {"ecvam.neins.go.kr"})
EShare == Landing("eshare", {"www.eshare.go.kr"})
EX == Landing("ex", {"data.ex.co.kr"})
FairData == Landing("fairdata", {"www.fairdata.go.kr"})
FoodSafetyKorea == Landing("foodsafetykorea", {"www.foodsafetykorea.go.kr"})
FranchiseFTC == Landing("franchise-ftc", {"franchise.ftc.go.kr"})
Garak == Landing("garak", {"temp.garak.co.kr", "www.garak.co.kr"})
GICOMS == Landing("gicoms", {"www.gicoms.go.kr"})
Gimhae == Landing("gimhae", {"www.gimhae.go.kr"})
GIMS == Landing("gims", {"www.gims.go.kr"})
Gogung == Landing("gogung", {"www.gogung.go.kr"})
Gwanak == Landing("gwanak", {"data.gwanak.go.kr"})
Gwangjin == Landing("gwangjin", {"www.gwangjin.go.kr"})
Gwangmyeong == Landing("gwangmyeong", {"data.gm.go.kr"})
HappySD == Landing("happysd", {"parking.happysd.or.kr", "www.happysd.or.kr"})
HRFCO == Landing("hrfco", {"data.floodmap.go.kr", "www.hrfco.go.kr"})
HUG == Landing("hug", {"www.khug.or.kr"})
I815 == Landing("i815", {"search.i815.or.kr"})
Icheon == Landing("icheon", {"www.icheon.go.kr"})
Incheon ==
  Landing("incheon", {"ifac.or.kr", "itour.incheon.go.kr", "www.incheon.go.kr"})
Ins24 == Landing("ins24", {"www.ins24.go.kr"})
IPNavi == Landing("ip-navi", {"api.ip-navi.or.kr", "api.ip-navi.or.kr:8000"})
ITS == Landing("its", {"its.go.kr", "www.its.go.kr"})
IWest == Landing("iwest", {"www.iwest.co.kr"})
JejuAir == Landing("jeju-air", {"air.jeju.go.kr"})
JejuDataHub == Landing("jejudatahub", {"www.jejudatahub.net"})
JejuITS == Landing("jejuits", {"www.jejuits.go.kr"})
JejuWWW == Landing("jeju-www", {"www.jeju.go.kr"})
JeonnamRedtable ==
  Landing("jeonnam-redtable", {"jeonnam.openapi.redtable.global"})
Juso == Landing("juso", {"www.juso.go.kr"})
KEIT == Landing("keit", {"www.nabis.go.kr", "www.sobujang.net"})
KHOA == Landing("khoa", {"www.khoa.go.kr"})
KIPRISPlus == Landing("kipris-plus", {"plus.kipris.or.kr"})
KISTEP == Landing("kistep", {"www.kistep.re.kr"})
KISTI ==
  Landing("kisti", {"aida.kisti.re.kr",
    "scienceon.kisti.re.kr",
    "www.ntis.go.kr"})
KMAAPIHub == Landing("kma-apihub", {"apihub.kma.go.kr"})
KOAGI == Landing("koagi", {"seedpedia.koagi.or.kr"})
KOFPI == Landing("kofpi", {"www.kofpi.or.kr"})
KOPIS == Landing("kopis", {"kopis.or.kr"})
KoreaPost == Landing("koreapost", {"koreapost.go.kr"})
KOROAD == Landing("koroad", {"opendata.koroad.or.kr"})
KOSIS == Landing("kosis", {"kosis.kr"})
KRIC == Landing("kric", {"data.kric.go.kr"})
Lofin365 == Landing("lofin365", {"www.lofin365.go.kr"})
MAFRA == Landing("mafra", {"data.mafra.go.kr"})
MAFRALegacy ==
  Landing("mafra-legacy", {"211.237.50.150", "211.237.50.150:7080"})
Milipass == Landing("milipass", {"www.milipass.kr"})
MNDOpenData == Landing("mnd-open-data", {"opendata.mnd.go.kr"})
MPVAEgonghun == Landing("mpva-egonghun", {"e-gonghun.mpva.go.kr"})
MUCH == Landing("much", {"www.much.go.kr"})
NAA == Landing("naa", {"www.naa.go.kr"})
NABIC == Landing("nabic", {"nabic.rda.go.kr"})
NCPMS == Landing("ncpms", {"ncpms.rda.go.kr"})
NFQS == Landing("nfqs", {"www.nfqs.go.kr"})
NIEEcobank == Landing("nie-ecobank", {"www.nie-ecobank.kr"})
NierNesc == Landing("nier-nesc", {"nesc.nier.go.kr"})
NIHC == Landing("nihc", {"www.nihc.go.kr"})
Nongsaro == Landing("nongsaro", {"nongsaro.go.kr", "www.nongsaro.go.kr"})
NOSC == Landing("nosc", {"nosc.go.kr"})
NRF == Landing("nrf", {"www.kci.go.kr", "www.krm.or.kr"})
NRich == Landing("nrich", {"portal.nrich.go.kr", "www.nrich.go.kr"})
OpenAssembly == Landing("open-assembly", {"open.assembly.go.kr"})
OpenFiscalData == Landing("openfiscaldata", {"www.openfiscaldata.go.kr"})
OpenLaw ==
  Landing("open-law", {"open.law.go.kr", "www.law.go.kr", "www.lawmaking.go.kr"})
PSIS == Landing("psis", {"psis.rda.go.kr"})
QIA == Landing("qia", {"home.kahis.go.kr", "meatwatch.go.kr"})
RecyclingInfo == Landing("recycling-info", {"www.recycling-info.or.kr"})
Safe182 == Landing("safe182", {"www.safe182.go.kr"})
SafeMap == Landing("safemap", {"www.safemap.go.kr"})
Seogu == Landing("seogu", {"seogu.go.kr"})
Seogwipo == Landing("seogwipo", {"seogwipo.go.kr", "www.seogwipo.go.kr"})
SeoulTData == Landing("seoul-tdata", {"t-data.seoul.go.kr"})
SeoulMap == Landing("seoul-map", {"map.seoul.go.kr"})
Jongno ==
  Landing("jongno", {"openapi.jongno.go.kr", "openapi.jongno.go.kr:8088"})
KOSMES == Landing("kosmes", {"kosmes.or.kr"})
SexOffender == Landing("sexoffender", {"api.sexoffender.go.kr"})
SGIS == Landing("sgis", {"sgis.kostat.go.kr"})
SisulWWW == Landing("sisul-www", {"www.sisul.or.kr"})
SmartFarmKorea ==
  Landing("smartfarm-korea", {"smartfarmkorea.net", "www.smartfarmkorea.net"})
STCIS == Landing("stcis", {"stcis.go.kr"})
Tashu == Landing("tashu", {"bike.tashu.or.kr"})
UlsanWWW == Landing("ulsan-www", {"www.ulsan.go.kr"})
UniPass == Landing("unipass", {"unipass.customs.go.kr"})
UTIC == Landing("utic", {"www.utic.go.kr"})
VWorld == Landing("vworld", {"www.vworld.kr"})
WAMIS == Landing("wamis", {"www.wamis.go.kr", "www.wamis.go.kr:8080"})
Work == Landing("work", {"openapi.work.go.kr"})
Work24 == Landing("work24", {"www.work24.go.kr"})
WorldJob == Landing("worldjob", {"www.worldjob.or.kr"})
YouthCenter == Landing("youthcenter", {"www.youthcenter.go.kr"})
Yuseong == Landing("yuseong", {"www.yuseong.go.kr"})
=============================================================================
