-------------------------- MODULE AdapterRegistry --------------------------
(***************************************************************************)
(* The registry of the provider adapters (internal/provider/registry.go):  *)
(* which adapter answers for a host.                                       *)
(***************************************************************************)
EXTENDS ProbingAdapters, LandingAdapters

\* Register: an adapter is refused for a host that another name holds.
Refused(adapters, i) ==
  \E j \in 1 .. i - 1 :
     /\ adapters[j].asks.name # adapters[i].asks.name
     /\ adapters[j].asks.hosts \cap adapters[i].asks.hosts # {}

\* The first refusal makes the whole registry the empty one.
NewRegistry(adapters) ==
  IF \E i \in DOMAIN adapters : Refused(adapters, i) THEN <<>> ELSE adapters

\* MatchHost: the adapters are asked in the order they registered in.
NoAdapter == Adapter(Asks("", {}), Reads)
MatchHost(adapters, host) ==
  LET owners == {i \in DOMAIN adapters : host \in adapters[i].asks.hosts}
  IN  IF owners = {} THEN NoAdapter ELSE FirstAt(adapters, owners)

Registered ==
  <<
     Airport, Andong, Anyang, ATFIS, Calspia, Cancer, Car, Car365,
     ChildcareInfo, ChungbukTour, Chungnam, Codil, Consumer, Culture,
     Daejeon, Daegu, DataGG, DGFCA, Dongjak, ECOS, ECVAM, EKAPE, EMuseum,
     EPost, EX, EShare, FairData, Folk, FoodSafetyKorea, Forest,
     FranchiseFTC, Garak, GBLib, Geoje, GICOMS, Gimhae, GIMS, Gogung,
     Gwanak, Gwangjin, Gwangmyeong, HappySD, HRFCO, HUG, Humetro, I815,
     Icheon, Incheon, Ins24, IPNavi, ITS, Itfind, IWest, JejuAir, Jeju,
     JejuDataHub, JeonnamRedtable, JejuITS, JejuWWW, Jeonju, Jongno, Juso,
     KEIT, KHOA, KIPRISPlus, KISTEP, KISTI, KMAAPIHub, KOAGI, KOFPI,
     KOPIS, Korad, KoreaPost, KOROAD, KOSIS, KOSMES, KRIC, KPX, LHEBid,
     Lofin365, MAFRA, MAFRALegacy, Milipass, MNDOpenData, MPVAEgonghun,
     MUCH, MyHome, NABIC, NAA, NAQS, NCPMS, NierNesc, NIEEcobank, NIHC,
     NRF, NRich, NFQS, Nongsaro, NOSC, OneclickLaw, OpenDART,
     OpenAssembly, OpenFiscalData, OpenLaw, PQIS, PSIS, QNet, QIA,
     RecyclingInfo, Safe182, SafetyData, SafeMap, Seogu, Seogwipo,
     SeoulBus, SeoulMap, SeoulOpenData, SeoulTData, SexOffender, SGIS,
     Sisul, SisulWWW, SmartFarmKorea, STCIS, Tashu, Tour, Uiryeong, Ulsan,
     UlsanWWW, UniPass, UTIC, VWorld, WAMIS, Work, Work24, WorldJob,
     Yuseong, YouthCenter
  >>

DefaultRegistry == NewRegistry(Registered)
=============================================================================
