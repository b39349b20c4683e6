---------------------------- MODULE MCHealthProbe ----------------------------
(* HealthProbe over every adapter that probes, two that land, a host nobody   *)
(* owns and the gateway.                                                      *)
EXTENDS HealthProbe

Plain == [approval |-> FALSE, missing |-> {}, key |-> FALSE, keyed |-> FALSE,
          listing |-> FALSE, endpoint |-> "absolute", special |-> "none"]

\* What an operation may want, one thing at a time and two together.
Wanted ==
    {Plain} \cup {[Plain EXCEPT !.approval = TRUE, !.missing = {"own"}]}
    \cup {[Plain EXCEPT !.missing = m, !.listing = l] :
             m \in {{"alias"}, {"sample", "filter"}, {"own"}}, l \in BOOLEAN}
    \cup {[Plain EXCEPT !.keyed = TRUE, !.missing = m] : m \in {{}, {"own"}}}
    \cup {[Plain EXCEPT !.special = s] : s \in SpecialCases}
    \cup {[Plain EXCEPT !.endpoint = "relative"]}

Gateway == "apis.data.go.kr"
Unowned == "api.example.kr"
Landing2 == {"www.anyang.go.kr", "cancer.go.kr"}
ProbingHosts ==
    UNION {ad.asks.hosts : ad \in {DefaultRegistry[i] : i \in
        {j \in DOMAIN DefaultRegistry : DefaultRegistry[j].reads.landing # "always"}}}

Subject(mode, unadapted, class, host, asked, keys) ==
    [mode |-> mode, unadapted |-> unadapted, class |-> class, host |-> host,
     asked |-> asked, keys |-> keys, c00 |-> FALSE]

Needed(asked, ad) ==
    /\ asked.special = "none" \/ asked.special \in {ad.asks.gates[i] : i \in DOMAIN ad.asks.gates}

ProbesOf(hosts) ==
    {Subject("health", FALSE, "external_endpoint", h, w, Credentials) :
        h \in hosts, w \in Wanted}
    \cup {Subject("health", FALSE, "external_endpoint", h, [Plain EXCEPT !.keyed = x], {}) :
             h \in hosts, x \in BOOLEAN}

ManyProbes ==
    {p \in ProbesOf(ProbingHosts \cup Landing2) : Needed(p.asked, MatchHost(DefaultRegistry, p.host))}
    \cup {Subject("health", FALSE, "service_root", h, [Plain EXCEPT !.endpoint = "relative", !.special = "root"], Credentials) :
             h \in {"openapi.tour.go.kr", "www.anyang.go.kr", "www.andong.go.kr", Unowned}}
    \cup {Subject("health", FALSE, "service_root", "openapi.tour.go.kr", Plain, Credentials)}
    \cup {[Subject("health", FALSE, c, Gateway, w, k) EXCEPT !.c00 = z] :
             c \in Classes \ {"external_endpoint", "service_root"}, w \in {Plain, [Plain EXCEPT !.approval = TRUE], [Plain EXCEPT !.missing = {"own"}]},
             k \in {{}, Credentials}, z \in BOOLEAN}
    \cup {Subject("report", u, "external_endpoint", h, w, Credentials) :
             u \in BOOLEAN, h \in {Unowned, "www.anyang.go.kr"},
             w \in {Plain, [Plain EXCEPT !.endpoint = "relative"]}}

Body(form, envelope, rulings, says, items) ==
    [form |-> form, typedHTML |-> FALSE, envelope |-> envelope,
     rulings |-> rulings, says |-> says, items |-> items]

Good == {TRUE}
Bad == {FALSE}
ManyBodies ==
    {Body(f, "none", Good, "", "none") : f \in Forms}
    \cup {Body(f, "none", Good, "", i) : f \in {"json", "xml"}, i \in {"empty", "some"}}
    \cup {[Body("json", "none", Good, "", "none") EXCEPT !.typedHTML = TRUE]}
    \cup {Body(f, "code", Good, "NORMAL SERVICE", "some") : f \in {"json", "xml"}}
    \cup {Body("json", "code", Bad, m, "none") : m \in Messages \ {"INVALID PARAMETER", "NO OPENAPI SERVICE", "UNSUPPORTED AUTH", "FAILED TO VALIDATE"}}
    \cup {Body("xml", e, Bad, m, "none") : e \in {"header", "bareHeader"}, m \in {"", Unregistered}}
    \cup {Body("json", "code", BOOLEAN, "SQL ERROR", "some")}
    \cup {Body("json", e, Bad, m, "some") : e \in {"code", "c00"}, m \in {"NORMAL SERVICE", "ANOTHER MESSAGE"}}
    \cup {Body(f, "own", {r}, m, "some") : f \in {"json", "xml"}, r \in BOOLEAN,
             m \in {"", "SQL ERROR"}}
    \cup {Body("text", "none", Good, Unregistered, "none"),
          [Body("json", "own", Good, "", "some") EXCEPT !.typedHTML = TRUE]}

ManyAnswers ==
    UNION {{[http |-> 200, body |-> b, ruling |-> r] : r \in b.rulings} : b \in ManyBodies}
    \cup {[http |-> h, body |-> b, ruling |-> FALSE] :
             h \in {302, 401, 404, 429, 500},
             b \in {Body("html", "none", Bad, "", "none"),
                    Body("json", "own", Bad, Unregistered, "none")}}

TwoReleases == <<"r1", "r2">>
=============================================================================
