------------------------- MODULE PortalCommandsProofs -------------------------
(***************************************************************************)
(* Proofs about PortalCommands: first about sorting and selecting by rank, *)
(* then about CatalogImport and about ApprovalBatch, each by its own       *)
(* inductive invariant, and last the theorems of the composition.          *)
(*                                                                         *)
(* The paging is proved by where rows stand: the rows an import holds are  *)
(* no more than the places on the pages before the one it asks for, and a  *)
(* row that is listed meanwhile moves others to later places only.  So a   *)
(* row that was listed all along is held as soon as its place is behind,   *)
(* and a total that the rows held have reached leaves no place ahead.      *)
(*                                                                         *)
(* The report of a batch is proved by what its counters and its results    *)
(* have in common, and by what a resumed batch took over at its start.     *)
(***************************************************************************)
EXTENDS PortalCommands, FiniteSetTheorems, TLAPS

-----------------------------------------------------------------------------
(* Ranks *)

LEMMA RankType ==
    ASSUME NEW P \in SUBSET Nat, IsFiniteSet(P), NEW n \in Nat
    PROVE  Rank(P, n) \in 0..Cardinality(P)
<1>1. {m \in P : m <= n} \in SUBSET P
  OBVIOUS
<1>2. Cardinality({m \in P : m <= n}) \in Nat /\ Cardinality(P) \in Nat
  BY <1>1, FS_Subset, FS_CardinalityType
<1> QED
  BY <1>1, <1>2, FS_Subset DEF Rank

LEMMA RankPositive ==
    ASSUME NEW P \in SUBSET Nat, IsFiniteSet(P), NEW n \in P
    PROVE  Rank(P, n) \in 1..Cardinality(P)
<1> DEFINE Q == {m \in P : m <= n}
<1>1. IsFiniteSet(Q) /\ n \in Q
  BY FS_Subset
<1>2. Cardinality(Q) # 0
  BY <1>1, FS_EmptySet
<1> QED
  BY <1>2, RankType DEF Rank

\* A greater element has a greater rank.
LEMMA RankGrows ==
    ASSUME NEW P \in SUBSET Nat, IsFiniteSet(P), NEW m \in P, NEW n \in P, m < n
    PROVE  Rank(P, m) < Rank(P, n)
<1> DEFINE A == {x \in P : x <= m}
           B == {x \in P : x <= n}
<1>1. A \in SUBSET B /\ n \in B /\ n \notin A
  <2>1. m \in Nat /\ n \in Nat /\ \A x \in P : x \in Nat
    OBVIOUS
  <2>2. \A x \in P : x <= m => x <= n
    BY <2>1
  <2>3. n <= n /\ ~(n <= m)
    BY <2>1
  <2> QED
    BY <2>2, <2>3
<1>2. IsFiniteSet(B) /\ IsFiniteSet(A)
  BY FS_Subset
<1>3. Cardinality(A) \in Nat /\ Cardinality(B) \in Nat
  BY <1>2, FS_CardinalityType
<1>4. Cardinality(A) <= Cardinality(B) /\ Cardinality(A) # Cardinality(B)
  BY <1>1, <1>2, FS_Subset
<1> HIDE DEF A, B
<1>5. Cardinality(A) < Cardinality(B)
  BY <1>3, <1>4
<1> QED
  BY <1>5 DEF A, B, Rank

\* Ranks count the elements.
LEMMA RankBijection ==
    ASSUME NEW P \in SUBSET Nat, IsFiniteSet(P)
    PROVE  /\ \A m, n \in P : Rank(P, m) = Rank(P, n) => m = n
           /\ \A k \in 1..Cardinality(P) : \E n \in P : Rank(P, n) = k
<1>1. \A m, n \in P : Rank(P, m) = Rank(P, n) => m = n
  <2> SUFFICES ASSUME NEW m \in P, NEW n \in P, m # n PROVE Rank(P, m) # Rank(P, n)
    OBVIOUS
  <2>1. Rank(P, m) \in Nat /\ Rank(P, n) \in Nat
    BY RankPositive
  <2>2. CASE m < n
    BY <2>1, <2>2, RankGrows
  <2>3. CASE n < m
    BY <2>1, <2>3, RankGrows
  <2> QED
    BY <2>2, <2>3
<1> DEFINE f == [n \in P |-> Rank(P, n)]
           N == 1..Cardinality(P)
<1>2. f \in Injection(P, N)
  BY <1>1, RankPositive DEF Injection, IsInjective
<1>3. Cardinality(P) \in Nat
  BY FS_CardinalityType
<1>4. IsFiniteSet(N) /\ Cardinality(N) = Cardinality(P)
  BY <1>3, FS_Interval
<1>5. f \in Surjection(P, N)
  BY <1>2, <1>4, FS_Injection
<1> QED
  BY <1>1, <1>5 DEF Surjection

LEMMA NthProperties ==
    ASSUME NEW P \in SUBSET Nat, IsFiniteSet(P)
    PROVE  /\ \A k \in 1..Cardinality(P) : Nth(P, k) \in P /\ Rank(P, Nth(P, k)) = k
           /\ \A n \in P : Rank(P, n) \in 1..Cardinality(P) /\ Nth(P, Rank(P, n)) = n
<1>1. \A k \in 1..Cardinality(P) : Nth(P, k) \in P /\ Rank(P, Nth(P, k)) = k
  BY RankBijection DEF Nth
<1>2. \A n \in P : Rank(P, n) \in 1..Cardinality(P)
  BY RankPositive
<1>3. ASSUME NEW n \in P PROVE Nth(P, Rank(P, n)) = n
  <2>1. Nth(P, Rank(P, n)) \in P /\ Rank(P, Nth(P, Rank(P, n))) = Rank(P, n)
    BY <1>1, <1>2
  <2>2. \A m, x \in P : Rank(P, m) = Rank(P, x) => m = x
    BY RankBijection
  <2> QED
    BY <2>1, <2>2
<1> QED
  BY <1>1, <1>2, <1>3

\* A sorted set is a sequence of its elements.
LEMMA AscendingProperties ==
    ASSUME NEW P \in SUBSET Nat, IsFiniteSet(P)
    PROVE  /\ Ascending(P) \in Seq(P)
           /\ Len(Ascending(P)) = Cardinality(P)
           /\ Range(Ascending(P)) = P
<1>1. Cardinality(P) \in Nat
  BY FS_CardinalityType
<1>2. \A k \in 1..Cardinality(P) : Nth(P, k) \in P
  BY NthProperties
<1>3. Ascending(P) \in Seq(P) /\ Len(Ascending(P)) = Cardinality(P)
  BY <1>1, <1>2 DEF Ascending
<1>4. \A n \in P : \E k \in 1..Cardinality(P) : Nth(P, k) = n
  BY NthProperties
<1> QED
  BY <1>2, <1>3, <1>4 DEF Ascending, Range

\* A subsequence holds what the sequence has at its places.
LEMMA SubsequenceProperties ==
    ASSUME NEW S, NEW seq \in Seq(S), NEW places \in SUBSET DOMAIN seq
    PROVE  /\ Subsequence(seq, places) \in Seq(S)
           /\ Len(Subsequence(seq, places)) = Cardinality(places)
           /\ Cardinality(places) <= Len(seq)
           /\ \A k \in 1..Cardinality(places) :
                 \E i \in places : Subsequence(seq, places)[k] = seq[i]
           /\ \A i \in places :
                 \E k \in 1..Cardinality(places) : Subsequence(seq, places)[k] = seq[i]
<1>1. DOMAIN seq = 1..Len(seq) /\ Len(seq) \in Nat
  OBVIOUS
<1>2. IsFiniteSet(DOMAIN seq) /\ Cardinality(DOMAIN seq) = Len(seq)
  <2>1. IsFiniteSet(1..Len(seq)) /\ Cardinality(1..Len(seq)) = IF 1 > Len(seq) THEN 0 ELSE Len(seq) - 1 + 1
    BY <1>1, FS_Interval
  <2> QED
    BY <1>1, <2>1
<1>3. IsFiniteSet(places) /\ Cardinality(places) <= Len(seq) /\ Cardinality(places) \in Nat
  BY <1>2, FS_Subset, FS_CardinalityType
<1>4. places \in SUBSET Nat
  BY <1>1
<1>5. \A k \in 1..Cardinality(places) : Nth(places, k) \in places
  BY <1>3, <1>4, NthProperties
<1>6. \A k \in 1..Cardinality(places) : seq[Nth(places, k)] \in S
  BY <1>1, <1>5
<1>7. Subsequence(seq, places) \in Seq(S) /\ Len(Subsequence(seq, places)) = Cardinality(places)
  BY <1>3, <1>6 DEF Subsequence
<1>8. \A i \in places : \E k \in 1..Cardinality(places) : Nth(places, k) = i
  BY <1>3, <1>4, NthProperties
<1> QED
  BY <1>3, <1>5, <1>7, <1>8 DEF Subsequence

-----------------------------------------------------------------------------
(* CatalogImport *)

\* Where the commands that fetch all pages are held to have missed nothing.
Sound == cmd.all /\ cmd.first = 1 /\ ~withdrawn /\ ~blank

\* The rows on the pages before p.
Before(p) == (p - 1) * PerPage

IdleInv == pc = "idle" => rows = <<>> /\ at = 0

\* An import holds no more rows than the pages before the one it asks for have
\* places, and among them every row that now has its place there: a row listed
\* meanwhile only moves others to later places.
FetchInv ==
    pc = "fetch" /\ Sound =>
        /\ Len(rows) <= Before(page)
        /\ \A r \in stayed : Rank(listing, r) <= Before(page) => r \in Range(rows)

FetchedInv ==
    pc \in {"enrich", "write", "writing"} /\ Sound => stayed \subseteq Range(rows)

IInv ==
    /\ TypeOK
    /\ stayed \subseteq listing
    /\ IdleInv /\ FetchInv /\ FetchedInv

LEMMA Constants ==
    /\ MaxRow \in Nat /\ PerPage \in Nat \ {0} /\ MaxPages \in Nat \ {0}
    /\ Retries \in Nat /\ MaxChanges \in Nat /\ MaxFaults \in Nat
    /\ LinkRow \subseteq Row /\ Linked \subseteq LinkRow
BY PortalCommandsAssumption DEF ConstantsAssumption

LEMMA Rows == Row \subseteq Nat /\ IsFiniteSet(Row)
BY Constants, FS_Interval DEF Row

LEMMA RowSets ==
    ASSUME NEW P \in SUBSET Row
    PROVE  P \in SUBSET Nat /\ IsFiniteSet(P) /\ Cardinality(P) \in Nat
BY Rows, FS_Subset, FS_CardinalityType

LEMMA BeforeNext ==
    ASSUME NEW p \in Nat \ {0}
    PROVE  /\ Before(p) \in Nat /\ p * PerPage \in Nat
           /\ Before(p + 1) = p * PerPage
           /\ p * PerPage = Before(p) + PerPage
<1>1. PerPage \in Nat
  BY Constants
<1>2. p - 1 \in Nat
  OBVIOUS
<1>3. Before(p) \in Nat /\ p * PerPage \in Nat
  BY <1>1, <1>2 DEF Before
<1>4. p * PerPage = (p - 1) * PerPage + PerPage
  <2>1. \A a, b \in Nat : (a + 1) * b = a * b + b
    OBVIOUS
  <2>2. p = (p - 1) + 1
    OBVIOUS
  <2> QED
    BY <1>1, <1>2, <2>1, <2>2
<1>5. (p + 1) - 1 = p
  OBVIOUS
<1> QED
  BY <1>3, <1>4, <1>5 DEF Before

\* A page has the rows with its places, no more than fit on it.
LEMMA PageProperties ==
    ASSUME listing \in SUBSET Row, NEW p \in Nat \ {0}
    PROVE  /\ PageOf(p) \in Seq(Row)
           /\ Range(PageOf(p)) = OnPage(p)
           /\ Len(PageOf(p)) <= PerPage
           /\ PageOf(p) = <<>> <=> OnPage(p) = {}
<1>1. OnPage(p) \in SUBSET listing /\ OnPage(p) \in SUBSET Row
  BY DEF OnPage
<1>2. /\ PageOf(p) \in Seq(OnPage(p))
      /\ Len(PageOf(p)) = Cardinality(OnPage(p))
      /\ Range(PageOf(p)) = OnPage(p)
  BY <1>1, RowSets, AscendingProperties DEF PageOf
<1> DEFINE f == [r \in OnPage(p) |-> Rank(listing, r)]
           N == (Before(p) + 1)..(Before(p) + PerPage)
<1>3. f \in Injection(OnPage(p), N)
  <2>1. \A r \in OnPage(p) : Rank(listing, r) \in Nat
    BY <1>1, RowSets, RankPositive
  <2>2. \A r \in OnPage(p) : Rank(listing, r) \in N
    BY <2>1, BeforeNext, Constants DEF OnPage, Before
  <2>3. \A r, s \in OnPage(p) : Rank(listing, r) = Rank(listing, s) => r = s
    BY <1>1, RowSets, RankBijection
  <2> QED
    BY <2>2, <2>3 DEF Injection, IsInjective
<1>4. IsFiniteSet(N) /\ Cardinality(N) = PerPage
  <2>1. /\ Before(p) + 1 \in Int /\ Before(p) + PerPage \in Int /\ PerPage >= 1
        /\ Before(p) \in Int /\ PerPage \in Int
    BY BeforeNext, Constants
  <2>2. /\ IsFiniteSet(N)
        /\ Cardinality(N) = IF Before(p) + 1 > Before(p) + PerPage THEN 0
                            ELSE (Before(p) + PerPage) - (Before(p) + 1) + 1
    BY <2>1, FS_Interval
  <2> QED
    BY <2>1, <2>2
<1>5. Len(PageOf(p)) <= PerPage
  BY <1>2, <1>3, <1>4, FS_Injection
<1> HIDE DEF f, N
<1>6. PageOf(p) \in Seq(Row)
  BY <1>1, <1>2
<1>7. PageOf(p) = <<>> <=> OnPage(p) = {}
  <2>1. PageOf(p) = <<>> <=> Len(PageOf(p)) = 0
    BY <1>2
  <2>2. Cardinality(OnPage(p)) = 0 <=> OnPage(p) = {}
    BY <1>1, RowSets, FS_EmptySet
  <2> QED
    BY <1>2, <2>1, <2>2
<1> QED
  BY <1>2, <1>5, <1>6, <1>7

LEMMA InitHolds == Init => IInv
<1> SUFFICES ASSUME Init PROVE IInv
  OBVIOUS
<1>1. registry \in Registry \cup {Absent, Torn}
  BY DEF Init, Registry
<1>2. cmd \in Fetches \cup Enrichments
  BY DEF Init, NoCommand, Fetches, Details
<1>3. page \in 1..MaxPages + 2 /\ attempt \in 0..Retries /\ changes \in 0..MaxChanges /\ faults \in 0..MaxFaults
  BY Constants DEF Init
<1>4. rows \in Seq(Row) /\ at \in 0..Len(rows)
  BY DEF Init
<1>5. TypeOK
  BY <1>1, <1>2, <1>3, <1>4 DEF Init, TypeOK
<1> QED
  BY <1>5 DEF Init, IInv, IdleInv, FetchInv, FetchedInv

LEMMA CommandType ==
    ASSUME TypeOK
    PROVE  cmd.first \in 1..2 /\ cmd.pages \in 1..2
<1>1. 1 \in 1..2
  OBVIOUS
<1>2. CASE cmd \in Fetches
  BY <1>1, <1>2 DEF Fetches
<1>3. CASE cmd \in Enrichments
  BY <1>1, <1>3 DEF Enrichments
<1> QED
  BY <1>2, <1>3 DEF TypeOK

\* The variables of a running command keep their types ...
CommandTypes ==
    /\ pc \in {"idle", "fetch", "enrich", "write", "writing"}
    /\ cmd \in Fetches \cup Enrichments
    /\ page \in 1..MaxPages + 2 /\ attempt \in 0..Retries
    /\ rows \in Seq(Row) /\ at \in 0..Len(rows)
    /\ linked \in SUBSET Linked
    /\ expired \in BOOLEAN

\* ... when it ends ...
LEMMA EndTypes ==
    ASSUME End
    PROVE  CommandTypes' /\ IdleInv' /\ pc' = "idle"
<1>1. NoCommand \in Fetches
  BY DEF NoCommand, Fetches, Details
<1>2. 1 \in 1..MaxPages + 2 /\ 0 \in 0..Retries
  BY Constants
<1>3. <<>> \in Seq(Row) /\ 0 \in 0..Len(<<>>)
  OBVIOUS
<1> QED
  BY <1>1, <1>2, <1>3 DEF End, CommandTypes, IdleInv

\* ... and when a page is taken.
LEMMA TakenTypes ==
    ASSUME TypeOK, pc = "fetch", NEW data \in Seq(Row), NEW total, PageTaken(data, total)
    PROVE  CommandTypes'
<1>1. CASE End
  BY <1>1, EndTypes
<1>2. CASE ~End
  <2>1. /\ rows' = rows \o data /\ attempt' = 0 /\ UNCHANGED <<cmd, at, linked, expired>>
        /\ pc' \in {"fetch", "enrich", "write"}
    BY <1>2 DEF PageTaken
  <2>2. rows' \in Seq(Row) /\ at' \in 0..Len(rows')
    <3>1. rows \in Seq(Row) /\ at \in 0..Len(rows)
      BY DEF TypeOK
    <3>2. rows \o data \in Seq(Row) /\ Len(rows \o data) = Len(rows) + Len(data)
      BY <3>1
    <3>3. Len(rows) \in Nat /\ Len(data) \in Nat
      BY <3>1
    <3> QED
      BY <2>1, <3>1, <3>2, <3>3
  <2>3. page' \in 1..MaxPages + 2
    <3>1. CASE UNCHANGED page
      BY <3>1 DEF TypeOK
    <3>2. CASE page' = page + 1 /\ page + 1 - cmd.first < (IF cmd.all THEN MaxPages ELSE cmd.pages)
      <4>1. page \in Nat /\ page >= 1 /\ MaxPages \in Nat /\ MaxPages >= 1
        BY Constants DEF TypeOK
      <4>2. cmd.first \in 1..2 /\ cmd.pages \in 1..2
        BY CommandType
      <4>3. page + 1 - cmd.first < MaxPages \/ page + 1 - cmd.first < cmd.pages
        BY <3>2
      <4> QED
        BY <3>2, <4>1, <4>2, <4>3
    <3> QED
      BY <1>2, <3>1, <3>2 DEF PageTaken
  <2>4. 0 \in 0..Retries
    BY Constants
  <2> QED
    BY <2>1, <2>2, <2>3, <2>4 DEF CommandTypes, TypeOK
<1> QED
  BY <1>1, <1>2

\* What the pages taken so far are sure to hold.
LEMMA TakenHolds ==
    ASSUME IInv, pc = "fetch", Sound,
           PageTaken(PageOf(page), Cardinality(listing)),
           UNCHANGED <<listing, stayed, withdrawn, blank>>
    PROVE  FetchInv' /\ FetchedInv'
<1>1. /\ page \in Nat \ {0} /\ listing \in SUBSET Row /\ rows \in Seq(Row)
      /\ stayed \subseteq listing
  BY Constants DEF IInv, TypeOK
<1>2. /\ PageOf(page) \in Seq(Row) /\ Range(PageOf(page)) = OnPage(page)
      /\ Len(PageOf(page)) <= PerPage /\ Len(PageOf(page)) \in Nat
      /\ PageOf(page) = <<>> <=> OnPage(page) = {}
  BY <1>1, PageProperties
<1>3. /\ Before(page) \in Nat /\ page * PerPage \in Nat
      /\ Before(page + 1) = page * PerPage /\ page * PerPage = Before(page) + PerPage
  BY <1>1, BeforeNext
<1> DEFINE got == rows \o PageOf(page)
<1>4. /\ Len(got) <= page * PerPage /\ Len(got) \in Nat
      /\ Range(got) = Range(rows) \cup OnPage(page)
  <2>1. Len(rows) <= Before(page) /\ Len(rows) \in Nat
    BY <1>1 DEF IInv, FetchInv
  <2>2. Len(got) = Len(rows) + Len(PageOf(page))
    BY <1>1, <1>2
  <2>3. PerPage \in Nat
    BY Constants
  <2>4. Range(got) = Range(rows) \cup Range(PageOf(page))
    <3>1. DOMAIN got = 1..(Len(rows) + Len(PageOf(page)))
      BY <1>1, <1>2
    <3>2. \A k \in DOMAIN got :
              got[k] = IF k <= Len(rows) THEN rows[k] ELSE PageOf(page)[k - Len(rows)]
      BY <1>1, <1>2
    <3>3. DOMAIN rows = 1..Len(rows) /\ DOMAIN PageOf(page) = 1..Len(PageOf(page))
      BY <1>1, <1>2
    <3>4. ASSUME NEW x \in Range(got) PROVE x \in Range(rows) \cup Range(PageOf(page))
      <4>1. PICK k \in DOMAIN got : got[k] = x
        BY DEF Range
      <4>2. CASE k <= Len(rows)
        <5>1. k \in DOMAIN rows /\ rows[k] = x
          BY <2>1, <3>1, <3>2, <3>3, <4>1, <4>2
        <5> QED
          BY <5>1 DEF Range
      <4>3. CASE ~(k <= Len(rows))
        <5>1. k - Len(rows) \in DOMAIN PageOf(page) /\ PageOf(page)[k - Len(rows)] = x
          BY <1>2, <2>1, <3>1, <3>2, <3>3, <4>1, <4>3
        <5> QED
          BY <5>1 DEF Range
      <4> QED
        BY <4>2, <4>3
    <3>5. ASSUME NEW x \in Range(rows) PROVE x \in Range(got)
      <4>1. PICK k \in DOMAIN rows : rows[k] = x
        BY DEF Range
      <4>2. k \in DOMAIN got /\ got[k] = x
        BY <1>2, <2>1, <3>1, <3>2, <3>3, <4>1
      <4> QED
        BY <4>2 DEF Range
    <3>6. ASSUME NEW x \in Range(PageOf(page)) PROVE x \in Range(got)
      <4>1. PICK k \in DOMAIN PageOf(page) : PageOf(page)[k] = x
        BY DEF Range
      <4>2. k + Len(rows) \in DOMAIN got /\ ~(k + Len(rows) <= Len(rows)) /\ (k + Len(rows)) - Len(rows) = k
        BY <1>2, <2>1, <3>1, <3>3
      <4>3. got[k + Len(rows)] = x
        BY <3>2, <4>1, <4>2
      <4> QED
        BY <4>2, <4>3 DEF Range
    <3> HIDE DEF got
    <3> QED
      BY <3>4, <3>5, <3>6
  <2> QED
    BY <1>2, <1>3, <2>1, <2>2, <2>3, <2>4
<1> HIDE DEF got
<1>5. \A r \in listing : Rank(listing, r) \in 1..Cardinality(listing) /\ Cardinality(listing) \in Nat
  BY <1>1, RowSets, RankPositive
<1>6. ASSUME NEW r \in stayed, Rank(listing, r) <= page * PerPage PROVE r \in Range(got)
  <2>1. CASE Rank(listing, r) <= Before(page)
    BY <1>4, <2>1 DEF IInv, FetchInv
  <2>2. CASE ~(Rank(listing, r) <= Before(page))
    <3>1. Before(page) < Rank(listing, r)
      BY <1>1, <1>3, <1>5, <2>2
    <3>2. r \in OnPage(page)
      BY <1>1, <1>6, <3>1 DEF OnPage, Before
    <3> QED
      BY <1>4, <3>2
  <2> QED
    BY <2>1, <2>2
\* An empty page, or as many rows as upstream counts: there is no row after it.
<1>7. ASSUME PageOf(page) = <<>> \/ Len(got) >= Cardinality(listing)
      PROVE  \A r \in stayed : Rank(listing, r) <= page * PerPage
  <2> SUFFICES ASSUME NEW r \in stayed, ~(Rank(listing, r) <= page * PerPage) PROVE FALSE
    OBVIOUS
  <2>1. Rank(listing, r) \in 1..Cardinality(listing) /\ Cardinality(listing) \in Nat
    BY <1>1, <1>5
  <2>2. page * PerPage < Cardinality(listing)
    BY <1>3, <2>1
  <2>3. OnPage(page) = {}
    <3>1. ~(Len(got) >= Cardinality(listing))
      BY <1>3, <1>4, <2>1, <2>2
    <3> QED
      BY <1>2, <1>7, <3>1
  <2>4. Before(page) + 1 \in 1..Cardinality(listing) /\ Before(page) + 1 <= page * PerPage
    BY <1>3, <2>1, <2>2, Constants
  <2>5. PICK n \in listing : Rank(listing, n) = Before(page) + 1
    BY <1>1, <2>4, RowSets, RankBijection
  <2>6. Before(page) < Rank(listing, n) /\ Rank(listing, n) <= page * PerPage
    BY <1>3, <2>4, <2>5
  <2>7. n \in OnPage(page)
    BY <2>6 DEF OnPage, Before
  <2> QED
    BY <2>3, <2>7
<1>8. CASE /\ PageOf(page) = <<>> \/ Len(got) >= Cardinality(listing)
           /\ pc' # "fetch" /\ rows' = got
  BY <1>6, <1>7, <1>8 DEF FetchInv, FetchedInv
<1>9. CASE pc' = "fetch" /\ page' = page + 1 /\ rows' = got
  <2>1. Len(rows') <= Before(page') /\ \A r \in stayed : Rank(listing, r) <= Before(page') => r \in Range(rows')
    BY <1>3, <1>4, <1>6, <1>9
  <2> QED
    BY <1>9, <2>1 DEF FetchInv, FetchedInv
<1>10. CASE pc' = "idle"
  BY <1>10 DEF FetchInv, FetchedInv
<1> QED
  BY <1>8, <1>9, <1>10 DEF PageTaken, End, Sound, got

LEMMA PageTakenIdle ==
    ASSUME NEW data, NEW total, pc = "fetch", PageTaken(data, total)
    PROVE  IdleInv'
BY DEF PageTaken, End, IdleInv

\* What a command does to its own variables.
LEMMA StepTypes ==
    ASSUME IInv, Next
    PROVE  CommandTypes' /\ IdleInv'
<1> USE DEF IInv
<1>1. CommandTypes
  BY DEF TypeOK, CommandTypes
<1>2. CASE UpstreamChanges \/ Expire \/ Enriched \/ Truncate
  BY <1>1, <1>2
  DEF UpstreamChanges, Expire, Enriched, Truncate, command, CommandTypes, IdleInv
<1>3. CASE StartFetch
  <2>1. PICK c \in Fetches : cmd' = c /\ page' = c.first
    BY <1>3 DEF StartFetch
  <2>2. c.first \in 1..MaxPages + 2
    <3>1. c.first \in 1..2
      <4>1. 1 \in 1..2
        OBVIOUS
      <4> QED
        BY <2>1, <4>1 DEF Fetches
    <3> QED
      BY <3>1, Constants
  <2> QED
    BY <1>1, <1>3, <2>1, <2>2 DEF StartFetch, CommandTypes, IdleInv
<1>4. CASE StartEnrich
  <2>1. registry.rows \in SUBSET Row /\ registry.linked \in SUBSET Linked
    BY <1>4 DEF StartEnrich, Registry
  <2>2. Ascending(registry.rows) \in Seq(registry.rows)
    BY <2>1, RowSets, AscendingProperties
  <2>3. rows' \in Seq(Row) /\ at' \in 0..Len(rows')
    BY <1>4, <2>1, <2>2 DEF StartEnrich, IdleInv
  <2> QED
    BY <1>1, <1>4, <2>1, <2>3 DEF StartEnrich, CommandTypes, IdleInv
<1>5. CASE PageAnswered
  <2>1. PageOf(page) \in Seq(Row)
    BY Constants, PageProperties DEF TypeOK
  <2> QED
    BY <1>5, <2>1, TakenTypes, PageTakenIdle DEF PageAnswered
<1>6. CASE PageBlank
  <2>1. <<>> \in Seq(Row)
    OBVIOUS
  <2> QED
    BY <1>6, <2>1, TakenTypes, PageTakenIdle DEF PageBlank
<1>7. CASE PageFails
  <2>1. CASE End
    BY <2>1, EndTypes
  <2>2. CASE ~End
    <3>1. attempt < Retries /\ attempt' = attempt + 1 /\ UNCHANGED <<pc, cmd, page, rows, at, linked, expired>>
      BY <1>7, <2>2 DEF PageFails
    <3>2. attempt' \in 0..Retries
      BY <1>1, <3>1, Constants DEF CommandTypes
    <3> QED
      BY <1>1, <1>7, <3>1, <3>2 DEF CommandTypes, IdleInv, PageFails
  <2> QED
    BY <2>1, <2>2
<1>8. CASE DetailAnswered
  <2>1. DOMAIN rows = 1..Len(rows) /\ Len(rows) \in Nat /\ rows \in Seq(Row) /\ at \in 0..Len(rows)
    BY DEF TypeOK
  <2> DEFINE places(had) == {k \in DOMAIN rows : rows[k] \in LinkRow \ had}
  <2>2. \A had : Len(Subsequence(rows, places(had))) <= Len(rows)
    BY <2>1, SubsequenceProperties
  <2>3. PICK had : Candidates = Subsequence(rows, places(had))
    BY DEF Candidates
  <2>4. Len(Candidates) <= Len(rows)
    BY <2>2, <2>3
  <2>5. Len(Candidates) \in Nat
    BY <2>1, <2>3, SubsequenceProperties
  <2>6. at' \in 0..Len(rows)
    BY <1>8, <2>1, <2>4, <2>5 DEF DetailAnswered, MoreDetails
  <2> QED
    BY <1>1, <1>8, <2>6 DEF DetailAnswered, MoreDetails, CommandTypes, IdleInv
<1>9. CASE DetailFails \/ Encode \/ Replace \/ WriteFails \/ Kill
  BY <1>9, EndTypes DEF DetailFails, Encode, Replace, WriteFails, Kill
<1> QED
  BY <1>2, <1>3, <1>4, <1>5, <1>6, <1>7, <1>8, <1>9 DEF Next, Step

\* What is left of the types: upstream, the Registry file, the bounds.
LEMMA StepKeepsTypes ==
    ASSUME IInv, Next
    PROVE  TypeOK' /\ stayed' \subseteq listing'
<1> USE DEF IInv
<1>1. CommandTypes'
  BY StepTypes
<1>2. faults' \in 0..MaxFaults /\ changes' \in 0..MaxChanges
  BY Constants
  DEF TypeOK, Fault, Next, Step, UpstreamChanges, StartFetch, StartEnrich, PageAnswered, PageBlank,
      PageFails, Expire, DetailAnswered, DetailFails, Enriched, Truncate, Encode, Replace,
      WriteFails, Kill, End, command, history
<1>3. registry' \in Registry \cup {Absent, Torn}
  <2>1. Result \in Registry
    <3>1. Range(rows) \in SUBSET Row
      BY DEF TypeOK, Range
    <3> QED
      BY <3>1 DEF TypeOK, Result, Registry
  <2> QED
    BY <2>1
    DEF TypeOK, Next, Step, UpstreamChanges, StartFetch, StartEnrich, PageAnswered, PageBlank,
        PageFails, Expire, DetailAnswered, DetailFails, Enriched, Truncate, Encode, Replace,
        WriteFails, Kill
<1>4. /\ listing' \in SUBSET Row /\ stayed' \in SUBSET Row /\ stayed' \subseteq listing'
      /\ withdrawn' \in BOOLEAN /\ blank' \in BOOLEAN
  BY DEF TypeOK, Next, Step, UpstreamChanges, StartFetch, StartEnrich, PageAnswered, PageBlank,
      PageFails, Expire, DetailAnswered, DetailFails, Enriched, Truncate, Encode, Replace,
      WriteFails, Kill, End, command, history
<1> QED
  BY <1>1, <1>2, <1>3, <1>4 DEF TypeOK, CommandTypes

LEMMA StepKeepsRows ==
    ASSUME IInv, Next
    PROVE  FetchInv' /\ FetchedInv'
<1> USE DEF IInv
<1>1. CASE UpstreamChanges
  <2>1. stayed' \subseteq stayed /\ UNCHANGED <<pc, cmd, page, rows, blank>>
    BY <1>1 DEF UpstreamChanges, command
  <2>2. CASE \E r \in Row \ listing : listing' = listing \cup {r} /\ UNCHANGED withdrawn
    <3>1. listing \in SUBSET listing' /\ listing' \in SUBSET Row
      BY <2>2 DEF TypeOK
    <3>2. ASSUME NEW r \in stayed' PROVE Rank(listing, r) <= Rank(listing', r)
      <4> DEFINE A == {m \in listing : m <= r}
                 B == {m \in listing' : m <= r}
      <4>1. A \in SUBSET B /\ B \in SUBSET Row
        BY <3>1
      <4>2. IsFiniteSet(B)
        BY <4>1, RowSets
      <4>3. Cardinality(A) <= Cardinality(B)
        BY <4>1, <4>2, FS_Subset
      <4> HIDE DEF A, B
      <4> QED
        BY <4>3 DEF A, B, Rank
    <3>3. ASSUME NEW r \in stayed' PROVE Rank(listing, r) \in Nat /\ Rank(listing', r) \in Nat
      <4>1. r \in listing /\ r \in listing'
        BY <2>1, <3>1
      <4> QED
        BY <3>1, <4>1, RowSets, RankPositive
    <3>4. page \in Nat \ {0}
      BY Constants DEF TypeOK
    <3>5. Before(page) \in Nat
      BY <3>4, BeforeNext
    <3>6. \A r \in stayed' : Rank(listing', r) <= Before(page) => Rank(listing, r) <= Before(page)
      BY <3>2, <3>3, <3>5
    <3>7. Sound' => Sound
      BY <2>1, <2>2 DEF Sound
    <3>8. Before(page)' = Before(page)
      BY <2>1 DEF Before
    <3> QED
      BY <2>1, <3>6, <3>7, <3>8 DEF FetchInv, FetchedInv
  <2>3. CASE withdrawn' = (pc # "idle")
    BY <2>1, <2>3 DEF FetchInv, FetchedInv, Sound
  <2> QED
    BY <1>1, <2>2, <2>3 DEF UpstreamChanges
<1>2. CASE StartFetch
  <2>1. cmd'.first = page' /\ rows' = <<>> /\ pc' = "fetch" /\ UNCHANGED <<listing>> /\ stayed' = listing
    BY <1>2 DEF StartFetch, IdleInv
  <2>2. Before(1) = 0
    BY Constants DEF Before
  <2>3. ASSUME NEW r \in listing PROVE ~(Rank(listing, r) <= 0)
    <3>1. Rank(listing, r) \in 1..Cardinality(listing)
      BY RowSets, RankPositive DEF TypeOK
    <3> QED
      BY <3>1
  <2>4. cmd'.first = 1 => Before(page)' = 0
    BY <2>1, <2>2 DEF Before
  <2> QED
    BY <2>1, <2>3, <2>4 DEF FetchInv, FetchedInv, Sound
<1>3. CASE StartEnrich
  BY <1>3 DEF StartEnrich, Enrichments, FetchInv, FetchedInv, Sound
<1>4. CASE PageAnswered
  <2>1. pc = "fetch" /\ UNCHANGED <<listing, stayed, withdrawn, blank>>
    BY <1>4 DEF PageAnswered, history
  <2>2. cmd' # cmd => pc' = "idle"
    BY <1>4 DEF PageAnswered, PageTaken, End
  <2>3. CASE Sound
    BY <1>4, <2>1, <2>3, TakenHolds DEF PageAnswered
  <2>4. CASE ~Sound
    BY <2>1, <2>2, <2>4 DEF FetchInv, FetchedInv, Sound
  <2> QED
    BY <2>3, <2>4
<1>5. CASE PageBlank
  BY <1>5 DEF PageBlank, FetchInv, FetchedInv, Sound
<1>6. CASE PageFails \/ Expire
  BY <1>6 DEF PageFails, Expire, End, history, FetchInv, FetchedInv, Sound, Before
<1>7. CASE DetailAnswered \/ Enriched \/ Truncate
  BY <1>7 DEF DetailAnswered, MoreDetails, Enriched, Truncate, history, FetchInv, FetchedInv, Sound
<1>8. CASE DetailFails \/ Encode \/ Replace \/ WriteFails \/ Kill
  BY <1>8 DEF DetailFails, Encode, Replace, WriteFails, Kill, End, FetchInv, FetchedInv
<1> QED
  BY <1>1, <1>2, <1>3, <1>4, <1>5, <1>6, <1>7, <1>8 DEF Next, Step

LEMMA InvStep == IInv /\ [Next]_vars => IInv'
<1> SUFFICES ASSUME IInv, [Next]_vars PROVE IInv'
  OBVIOUS
<1>1. CASE Next
  BY <1>1, StepTypes, StepKeepsTypes, StepKeepsRows DEF IInv
<1>2. CASE UNCHANGED vars
  BY <1>2 DEF vars, command, history, IInv, TypeOK, IdleInv, FetchInv, FetchedInv, Sound, Before, Rank
<1> QED
  BY <1>1, <1>2

-----------------------------------------------------------------------------
(* ApprovalBatch *)

Applying == {"applying", "checkpoint", "last checkpoint", "finished"}

\* The summary counts every result once, and every planned item visited.
CountInv ==
    approval_pc \in Applying =>
        /\ approval_counts.submitted + approval_counts.already + approval_counts.failed
              = Len(approval_results)
        /\ approval_counts.submitted = Approval!Number(approval_results, Approval!Requested)
        /\ approval_counts.eligible + approval_counts.skipped + Len(approval_todo)
              = Len(approval_plan[approval_run.path])
        /\ approval_run.attempts <= approval_run.limit

\* The results have a submission of this dataset.
Submitted(d) ==
    \E k \in DOMAIN approval_results :
        approval_results[k].id = d /\ approval_results[k].action = Approval!Requested

\* A resumed batch has taken over every recorded submission that its plan still
\* wants.
TakenOverInv ==
    approval_pc \in Applying /\ approval_run.resume =>
        \A d \in Approval!Submissions(approval_report) :
            d \in Approval!EligibleIn(approval_plan[approval_run.path]) => Submitted(d)

ApprovalInv == Approval!TypeOK /\ CountInv /\ TakenOverInv

LEMMA ApprovalConstants ==
    /\ Forbidden \in Seq(Approval!Dataset)
    /\ \A l \in Listings : l \in Seq(Approval!Dataset)
    /\ Gateway \subseteq Approval!Dataset
    /\ Shown \subseteq Approval!Pages
    /\ Absent \notin Approval!Reports
    /\ MaxFailures \in Nat
BY PortalCommandsAssumption DEF Approval!ConstantsAssumption

\* Approval has instances of its own of the modules that both parts extend.
LEMMA SameOperators ==
    /\ \A S : Approval!Cardinality(S) = Cardinality(S)
    /\ \A seq, places : Approval!Subsequence(seq, places) = Subsequence(seq, places)
BY DEF Approval!Cardinality, Cardinality, Approval!Subsequence, Approval!Nth, Approval!Rank,
    Subsequence, Nth, Rank

\* How many results have an action.
LEMMA NumberProperties ==
    ASSUME NEW seq \in Seq(Approval!Results)
    PROVE  /\ \A action : Approval!Number(seq, action) \in Nat
           /\ \A action : \A r \in Approval!Results :
                 r.action # action => Approval!Number(Append(seq, r), action) = Approval!Number(seq, action)
           /\ (\A k \in DOMAIN seq : seq[k].action \in {Approval!Requested, Approval!Already})
                 => Approval!Number(seq, Approval!Requested) + Approval!Number(seq, Approval!Already) = Len(seq)
<1> DEFINE places(action) == {k \in DOMAIN seq : seq[k].action = action}
<1>1. DOMAIN seq = 1..Len(seq) /\ Len(seq) \in Nat
  OBVIOUS
<1>2. IsFiniteSet(DOMAIN seq) /\ Cardinality(DOMAIN seq) = Len(seq)
  <2>1. /\ IsFiniteSet(1..Len(seq))
        /\ Cardinality(1..Len(seq)) = IF 1 > Len(seq) THEN 0 ELSE Len(seq) - 1 + 1
    BY <1>1, FS_Interval
  <2> QED
    BY <1>1, <2>1
<1>3. \A action : places(action) \in SUBSET DOMAIN seq
  OBVIOUS
<1>4. \A action : IsFiniteSet(places(action)) /\ Cardinality(places(action)) \in Nat
  BY <1>2, <1>3, FS_Subset, FS_CardinalityType
<1>5. ASSUME NEW r \in Approval!Results, NEW action, r.action # action
      PROVE  Approval!Number(Append(seq, r), action) = Approval!Number(seq, action)
  <2>1. {k \in DOMAIN Append(seq, r) : Append(seq, r)[k].action = action} = places(action)
    <3>1. DOMAIN Append(seq, r) = 1..(Len(seq) + 1) /\ Append(seq, r)[Len(seq) + 1] = r
      BY <1>1
    <3>2. \A k \in DOMAIN seq : Append(seq, r)[k] = seq[k] /\ k \in DOMAIN Append(seq, r)
      BY <1>1, <3>1
    <3>3. \A k \in DOMAIN Append(seq, r) : k = Len(seq) + 1 \/ k \in DOMAIN seq
      BY <1>1, <3>1
    <3> QED
      BY <1>5, <3>1, <3>2, <3>3
  <2> QED
    BY <2>1 DEF Approval!Number
<1>6. ASSUME \A k \in DOMAIN seq : seq[k].action \in {Approval!Requested, Approval!Already}
      PROVE  Approval!Number(seq, Approval!Requested) + Approval!Number(seq, Approval!Already) = Len(seq)
  <2> DEFINE A == places(Approval!Requested)
             B == places(Approval!Already)
  <2>1. A \cup B = DOMAIN seq
    BY <1>6
  <2>2. A \cap B = {}
    BY DEF Approval!Requested, Approval!Already
  <2>3. Cardinality(A \cup B) = Cardinality(A) + Cardinality(B) - Cardinality(A \cap B)
    <3>1. IsFiniteSet(A) /\ IsFiniteSet(B)
      BY <1>4
    <3> QED
      BY <3>1, FS_Union
  <2>4. Cardinality(A \cap B) = 0
    BY <2>2, FS_EmptySet
  <2>5. Cardinality(A) \in Nat /\ Cardinality(B) \in Nat
    BY <1>4
  <2> HIDE DEF A, B
  <2>6. Cardinality(A) + Cardinality(B) = Len(seq)
    BY <1>2, <2>1, <2>3, <2>4, <2>5
  <2> QED
    BY <2>6, SameOperators DEF A, B, Approval!Number
<1>7. \A action : Approval!Number(seq, action) \in Nat
  BY <1>4, SameOperators DEF Approval!Number
<1> QED
  BY <1>5, <1>6, <1>7

LEMMA NoResults == \A action : Approval!Number(<<>>, action) = 0
<1>1. \A action : {k \in DOMAIN <<>> : <<>>[k].action = action} = {}
  OBVIOUS
<1> QED
  BY <1>1, FS_EmptySet, SameOperators DEF Approval!Number

\* What --resume takes over is done, and every submission that the plan wants
\* is taken over.
LEMMA CompletedProperties ==
    ASSUME approval_report \in Approval!Reports, NEW planned
    PROVE  /\ Approval!Completed(planned) \in Seq(Approval!Results)
           /\ \A k \in DOMAIN Approval!Completed(planned) :
                 Approval!Completed(planned)[k].action \in {Approval!Requested, Approval!Already}
           /\ \A k \in DOMAIN approval_report.results :
                 approval_report.results[k].id \in Approval!EligibleIn(planned)
                   /\ approval_report.results[k].action = Approval!Requested
                 => \E j \in DOMAIN Approval!Completed(planned) :
                        Approval!Completed(planned)[j] = approval_report.results[k]
<1> DEFINE seq == approval_report.results
           places == {k \in DOMAIN seq : Approval!IsDone(planned, seq[k])}
<1>1. seq \in Seq(Approval!Results)
  BY DEF Approval!Reports
<1>2. Approval!Completed(planned) = Subsequence(seq, places)
  BY SameOperators DEF Approval!Completed
<1>3. places \in SUBSET DOMAIN seq
  OBVIOUS
<1>4. /\ Subsequence(seq, places) \in Seq(Approval!Results)
      /\ \A k \in 1..Cardinality(places) : \E i \in places : Subsequence(seq, places)[k] = seq[i]
      /\ \A i \in places : \E k \in 1..Cardinality(places) : Subsequence(seq, places)[k] = seq[i]
  BY <1>1, <1>3, SubsequenceProperties
<1>5. DOMAIN Subsequence(seq, places) = 1..Cardinality(places)
  BY DEF Subsequence
<1>6. \A i \in places : seq[i].action \in {Approval!Requested, Approval!Already}
  BY DEF Approval!IsDone
<1>7. \A k \in DOMAIN seq :
         seq[k].id \in Approval!EligibleIn(planned) /\ seq[k].action = Approval!Requested => k \in places
  BY DEF Approval!IsDone
<1> HIDE DEF seq, places
<1>8. \A k \in 1..Cardinality(places) :
         Subsequence(seq, places)[k].action \in {Approval!Requested, Approval!Already}
  BY <1>4, <1>6
<1>9. \A k \in DOMAIN seq :
         seq[k].id \in Approval!EligibleIn(planned) /\ seq[k].action = Approval!Requested
         => \E j \in 1..Cardinality(places) : Subsequence(seq, places)[j] = seq[k]
  BY <1>4, <1>7
<1> QED
  BY <1>2, <1>4, <1>5, <1>8, <1>9 DEF seq

LEMMA NoAttempts ==
    [path |-> "plan", all |-> FALSE, resume |-> FALSE, limit |-> 0, attempts |-> 0] \in Approval!Runs
<1>1. 0 \in 0..2
  OBVIOUS
<1>2. "plan" \in Approval!Path
  BY DEF Approval!Path
<1> QED
  BY <1>1, <1>2 DEF Approval!Runs

LEMMA ApprovalInitHolds == Approval!Init => ApprovalInv
<1> SUFFICES ASSUME Approval!Init PROVE ApprovalInv
  OBVIOUS
<1> USE DEF Approval!Init
<1>1. approval_report \in Approval!Reports \cup {Absent}
  <2>1. \A d \in Gateway, a \in {Approval!Requested, Approval!Already}, r \in BOOLEAN :
           [id |-> d, action |-> a, reinspect |-> r] \in Approval!Results
    BY ApprovalConstants DEF Approval!Results
  <2>2. Approval!NoCounts \in Approval!Counts
    BY DEF Approval!NoCounts, Approval!Counts
  <2>3. \A x \in Approval!Results :
           [path |-> "plan", results |-> <<x>>, counts |-> Approval!NoCounts] \in Approval!Reports
    <3>1. \A x \in Approval!Results : <<x>> \in Seq(Approval!Results)
      OBVIOUS
    <3> HIDE DEF Approval!NoCounts
    <3> QED
      BY <2>2, <3>1 DEF Approval!Reports, Approval!Path
  <2>4. Approval!OldReports \subseteq Approval!Reports
    BY <2>1, <2>3 DEF Approval!OldReports
  <2> QED
    BY <2>4
<1>2. approval_run \in Approval!Runs
  BY NoAttempts
<1>3. approval_counts \in Approval!Counts
  BY DEF Approval!NoCounts, Approval!Counts
<1>4. approval_plan \in [Approval!Path -> Seq(Approval!Items) \cup {Absent}]
  OBVIOUS
<1>5. Approval!TypeOK
  BY <1>1, <1>2, <1>3, <1>4, ApprovalConstants DEF Approval!TypeOK
<1> QED
  BY <1>5 DEF ApprovalInv, CountInv, TakenOverInv, Applying

\* A command that has ended leaves nothing to account for.
LEMMA ApprovalEnd ==
    ASSUME Approval!TypeOK, Approval!End,
           approval_listed' \in Listings, approval_session' \in BOOLEAN,
           approval_plan' \in [Approval!Path -> Seq(Approval!Items) \cup {Absent}],
           approval_report' \in Approval!Reports \cup {Absent},
           approval_faults' \in 0..MaxFailures
    PROVE  ApprovalInv'
<1>1. approval_run' \in Approval!Runs
  BY NoAttempts DEF Approval!End
<1>2. approval_counts' \in Approval!Counts
  BY DEF Approval!End, Approval!NoCounts, Approval!Counts
<1>3. Approval!TypeOK'
  <2>1. /\ approval_todo' \in Seq(Approval!Items) /\ approval_items' \in Seq(Approval!Items)
        /\ approval_results' \in Seq(Approval!Results)
        /\ approval_carried' \in SUBSET Approval!Dataset /\ approval_handed' \in SUBSET Approval!Dataset
        /\ approval_pc' = "idle"
    BY DEF Approval!End
  <2> QED
    BY <1>1, <1>2, <2>1 DEF Approval!TypeOK
<1> QED
  BY <1>3 DEF ApprovalInv, CountInv, TakenOverInv, Applying, Approval!End

LEMMA ApprovalFault ==
    ASSUME approval_faults \in 0..MaxFailures, Approval!Fault
    PROVE  approval_faults' \in 0..MaxFailures
BY ApprovalConstants DEF Approval!Fault

\* What apply writes is a report, with the submissions of its results.
LEMMA WrittenProperties ==
    ASSUME Approval!TypeOK
    PROVE  /\ Approval!Written \in Approval!Reports
           /\ Approval!Submissions(Approval!Written) = {d \in Approval!Dataset : Submitted(d)}
<1>1. Approval!Written \in Approval!Reports
  <2>1. approval_run.path \in Approval!Path
    BY DEF Approval!TypeOK, Approval!Runs
  <2> QED
    BY <2>1 DEF Approval!TypeOK, Approval!Written, Approval!Reports
<1>2. Approval!Written # Absent
  BY <1>1, ApprovalConstants
<1>3. Approval!Written.results = approval_results
  BY DEF Approval!Written
<1>4. \A S : Approval!Range(S) = {S[k] : k \in DOMAIN S}
  BY DEF Approval!Range
<1>5. Approval!Submissions(Approval!Written) =
         {x.id : x \in {y \in {approval_results[k] : k \in DOMAIN approval_results} : y.action = Approval!Requested}}
  BY <1>2, <1>3, <1>4 DEF Approval!Submissions
<1>6. \A k \in DOMAIN approval_results : approval_results[k].id \in Approval!Dataset
  <2>1. approval_results \in Seq(Approval!Results)
    BY DEF Approval!TypeOK
  <2>2. \A k \in DOMAIN approval_results : approval_results[k] \in Approval!Results
    BY <2>1
  <2> QED
    BY <2>2 DEF Approval!Results
<1> QED
  BY <1>1, <1>5, <1>6 DEF Submitted

\* The submissions of a report are of datasets with such a result in it.
LEMMA SubmissionsOfReport ==
    ASSUME NEW r \in Approval!Reports, NEW d \in Approval!Submissions(r)
    PROVE  \E k \in DOMAIN r.results : r.results[k].id = d /\ r.results[k].action = Approval!Requested
<1>1. r # Absent
  BY ApprovalConstants
<1>2. \A S : Approval!Range(S) = {S[k] : k \in DOMAIN S}
  BY DEF Approval!Range
<1> QED
  BY <1>1, <1>2 DEF Approval!Submissions

\* The items of a plan, and what is left of one.
LEMMA TodoType ==
    ASSUME Approval!TypeOK, approval_todo # <<>>
    PROVE  /\ Head(approval_todo) \in Approval!Items
           /\ Tail(approval_todo) \in Seq(Approval!Items)
           /\ Len(approval_todo) \in Nat
           /\ Len(Tail(approval_todo)) = Len(approval_todo) - 1
           /\ Head(approval_todo).id \in Approval!Dataset
<1>1. approval_todo \in Seq(Approval!Items)
  BY DEF Approval!TypeOK
<1>2. /\ Head(approval_todo) \in Approval!Items
      /\ Tail(approval_todo) \in Seq(Approval!Items)
      /\ Len(approval_todo) \in Nat
      /\ Len(Tail(approval_todo)) = Len(approval_todo) - 1
  BY <1>1
<1> QED
  BY <1>2 DEF Approval!Items

\* The steps that touch neither a plan, nor the report, nor what apply counts.
LEMMA ApprovalElsewhere ==
    ASSUME ApprovalInv,
           Approval!Login \/ Approval!SessionExpires \/ Approval!RegistryReplaced
              \/ UNCHANGED Approval!vars
    PROVE  ApprovalInv'
<1> USE DEF ApprovalInv
<1>1. UNCHANGED <<approval_plan, approval_report, approval_pc, Approval!job, approval_faults,
                  approval_carried, approval_handed>>
  BY DEF Approval!Login, Approval!SessionExpires, Approval!RegistryReplaced, Approval!vars
<1>2. approval_listed' \in Listings /\ approval_session' \in BOOLEAN
  BY DEF Approval!Login, Approval!SessionExpires, Approval!RegistryReplaced, Approval!vars,
      Approval!TypeOK
<1>3. Approval!TypeOK'
  BY <1>1, <1>2 DEF Approval!TypeOK, Approval!job
<1>4. CountInv'
  BY <1>1 DEF CountInv, Approval!job, Approval!Number, Approval!Requested
<1>5. TakenOverInv'
  BY <1>1 DEF TakenOverInv, Approval!job, Submitted, Approval!Submissions, Approval!EligibleIn,
      Approval!Range, Approval!Requested, Approval!Required
<1> QED
  BY <1>3, <1>4, <1>5

LEMMA CandidatesType ==
    ASSUME Approval!TypeOK, NEW k \in 1..Len(Approval!Candidates)
    PROVE  Approval!Candidates[k] \in Approval!Dataset
<1> DEFINE ids == IF approval_run.all THEN approval_listed ELSE Forbidden
<1>1. ids \in Seq(Approval!Dataset)
  BY ApprovalConstants DEF Approval!TypeOK
<1>2. approval_run.limit \in Nat
  <2>1. approval_run \in Approval!Runs
    BY DEF Approval!TypeOK
  <2>2. approval_run.limit \in 0..2
    BY <2>1 DEF Approval!Runs
  <2> QED
    BY <2>2
<1>3. Approval!Candidates =
         IF approval_run.limit > 0 /\ approval_run.limit < Len(ids)
         THEN SubSeq(ids, 1, approval_run.limit) ELSE ids
  BY DEF Approval!Candidates
<1> HIDE DEF ids
<1>4. Approval!Candidates \in Seq(Approval!Dataset)
  BY <1>1, <1>2, <1>3
<1> QED
  BY <1>4

LEMMA InspectedType == Approval!Inspected \subseteq Approval!Statuses
<1>1. \A shown : Approval!PortalState(shown) \in Approval!PortalStates
  BY DEF Approval!PortalState, Approval!PortalStates
<1> QED
  BY <1>1 DEF Approval!Inspected, Approval!Statuses

LEMMA ApprovalPlans ==
    ASSUME ApprovalInv, Approval!StartPlan \/ Approval!PlanItem \/ Approval!WritePlan
    PROVE  ApprovalInv'
<1> USE DEF ApprovalInv
<1>1. ASSUME Approval!StartPlan PROVE ApprovalInv'
  <2>1. approval_run' \in Approval!Runs
    <3>1. PICK path \in Approval!Path, all \in BOOLEAN, limit \in 0..1 :
             approval_run' = [path |-> path, all |-> all, resume |-> FALSE, limit |-> limit, attempts |-> 0]
      BY <1>1 DEF Approval!StartPlan
    <3>2. limit \in 0..2 /\ 0 \in 0..2
      OBVIOUS
    <3> QED
      BY <3>1, <3>2 DEF Approval!Runs
  <2>2. approval_pc' = "planning"
    BY <1>1 DEF Approval!StartPlan
  <2>3. Approval!TypeOK'
    BY <1>1, <2>1, <2>2 DEF Approval!StartPlan, Approval!TypeOK
  <2> QED
    BY <2>2, <2>3 DEF CountInv, TakenOverInv, Applying
<1>2. ASSUME Approval!PlanItem PROVE ApprovalInv'
  <2>1. approval_items' \in Seq(Approval!Items)
    <3> DEFINE id == Approval!Candidates[Len(approval_items) + 1]
    <3>1. PICK status \in IF id \notin Approval!Range(approval_listed) THEN {"inspection_failed"}
                          ELSE IF approval_run.all THEN {Approval!RegistryStatus(id)}
                          ELSE Approval!Inspected :
             approval_items' = Append(approval_items, [id |-> id, status |-> status])
      BY <1>2 DEF Approval!PlanItem
    <3>2. id \in Approval!Dataset
      BY <1>2, CandidatesType DEF Approval!PlanItem, Approval!TypeOK
    <3>3. Approval!RegistryStatus(id) \in Approval!Statuses
      BY DEF Approval!RegistryStatus, Approval!Statuses
    <3>4. Approval!Inspected \subseteq Approval!Statuses
      BY InspectedType
    <3>5. "inspection_failed" \in Approval!Statuses
      BY DEF Approval!Statuses
    <3> HIDE DEF id
    <3>6. status \in Approval!Statuses
      BY <3>1, <3>3, <3>4, <3>5
    <3>7. [id |-> id, status |-> status] \in Approval!Items
      BY <3>2, <3>6 DEF Approval!Items
    <3>8. approval_items \in Seq(Approval!Items)
      BY DEF Approval!TypeOK
    <3> QED
      BY <3>1, <3>7, <3>8
  <2>2. approval_pc' = "planning"
    BY <1>2 DEF Approval!PlanItem
  <2>3. Approval!TypeOK'
    BY <1>2, <2>1, <2>2 DEF Approval!PlanItem, Approval!TypeOK
  <2> QED
    BY <2>2, <2>3 DEF CountInv, TakenOverInv, Applying
<1>3. ASSUME Approval!WritePlan PROVE ApprovalInv'
  <2>1. approval_plan' \in [Approval!Path -> Seq(Approval!Items) \cup {Absent}]
    BY <1>3 DEF Approval!WritePlan, Approval!TypeOK
  <2>2. approval_faults' \in 0..MaxFailures
    BY <1>3, ApprovalFault DEF Approval!WritePlan, Approval!TypeOK
  <2> QED
    BY <1>3, <2>1, <2>2, ApprovalEnd DEF Approval!WritePlan, Approval!TypeOK
<1> QED
  BY <1>1, <1>2, <1>3

\* A planned item that leaves no result is eligible or skipped.
LEMMA ApprovalVisits ==
    ASSUME ApprovalInv, Approval!Skip \/ Approval!PassCarried
    PROVE  ApprovalInv'
<1> USE DEF ApprovalInv
<1>1. /\ approval_pc = "applying" /\ approval_pc' = "applying"
      /\ approval_todo # <<>> /\ approval_todo' = Tail(approval_todo)
      /\ UNCHANGED <<approval_listed, approval_session, approval_plan, approval_report,
                     approval_items, approval_run, approval_results, approval_faults,
                     approval_carried, approval_handed>>
  BY DEF Approval!Skip, Approval!PassCarried, Approval!Wanted
<1>2. /\ approval_counts'.submitted = approval_counts.submitted
      /\ approval_counts'.already = approval_counts.already
      /\ approval_counts'.failed = approval_counts.failed
      /\ approval_counts'.eligible + approval_counts'.skipped
            = approval_counts.eligible + approval_counts.skipped + 1
      /\ approval_counts.eligible \in Nat /\ approval_counts.skipped \in Nat
      /\ approval_counts'.eligible \in Nat /\ approval_counts'.skipped \in Nat
      /\ approval_counts' \in Approval!Counts
  <2>1. approval_counts \in Approval!Counts
    BY DEF Approval!TypeOK
  <2>2. approval_counts' = [approval_counts EXCEPT !.skipped = @ + 1]
           \/ approval_counts' = [approval_counts EXCEPT !.eligible = @ + 1]
    BY DEF Approval!Skip, Approval!PassCarried
  <2> QED
    BY <2>1, <2>2 DEF Approval!Counts
<1>3. /\ approval_todo' \in Seq(Approval!Items) /\ Len(approval_todo) \in Nat
      /\ Len(approval_todo') = Len(approval_todo) - 1
  BY <1>1, TodoType
<1>4. Approval!TypeOK'
  BY <1>1, <1>2, <1>3 DEF Approval!TypeOK
<1>5. CountInv'
  <2>1. /\ approval_counts.submitted + approval_counts.already + approval_counts.failed
              = Len(approval_results)
        /\ approval_counts.submitted = Approval!Number(approval_results, Approval!Requested)
        /\ approval_counts.eligible + approval_counts.skipped + Len(approval_todo)
              = Len(approval_plan[approval_run.path])
        /\ approval_run.attempts <= approval_run.limit
    BY <1>1 DEF CountInv, Applying
  <2>2. Approval!Number(approval_results, Approval!Requested)'
           = Approval!Number(approval_results, Approval!Requested)
    BY <1>1 DEF Approval!Number, Approval!Requested
  <2>3. approval_counts'.eligible + approval_counts'.skipped + Len(approval_todo')
              = Len(approval_plan[approval_run.path])
    BY <1>2, <1>3, <2>1
  <2> QED
    BY <1>1, <1>2, <2>1, <2>2, <2>3 DEF CountInv
<1>6. TakenOverInv'
  BY <1>1 DEF TakenOverInv, Applying, Submitted, Approval!Submissions, Approval!EligibleIn,
      Approval!Range, Approval!Requested, Approval!Required
<1> QED
  BY <1>4, <1>5, <1>6

\* One of the counters has grown by one, and the others stand.
OneMore(before, after, counter) ==
    /\ after.eligible = IF counter = "eligible" THEN before.eligible + 1 ELSE before.eligible
    /\ after.attempted = IF counter = "attempted" THEN before.attempted + 1 ELSE before.attempted
    /\ after.submitted = before.submitted
    /\ after.already = before.already
    /\ after.skipped = IF counter = "skipped" THEN before.skipped + 1 ELSE before.skipped
    /\ after.failed = IF counter = "failed" THEN before.failed + 1 ELSE before.failed

LEMMA OneMoreCounted ==
    ASSUME NEW c \in Approval!Counts
    PROVE  /\ [c EXCEPT !.eligible = @ + 1] \in Approval!Counts
           /\ [c EXCEPT !.attempted = @ + 1] \in Approval!Counts
           /\ [c EXCEPT !.failed = @ + 1] \in Approval!Counts
           /\ OneMore(c, [c EXCEPT !.eligible = @ + 1], "eligible")
           /\ OneMore(c, [c EXCEPT !.attempted = @ + 1], "attempted")
           /\ OneMore(c, [c EXCEPT !.failed = @ + 1], "failed")
<1> USE DEF Approval!Counts, OneMore
<1>1. /\ [c EXCEPT !.eligible = @ + 1] \in Approval!Counts
      /\ OneMore(c, [c EXCEPT !.eligible = @ + 1], "eligible")
  OBVIOUS
<1>2. /\ [c EXCEPT !.attempted = @ + 1] \in Approval!Counts
      /\ OneMore(c, [c EXCEPT !.attempted = @ + 1], "attempted")
  OBVIOUS
<1>3. /\ [c EXCEPT !.failed = @ + 1] \in Approval!Counts
      /\ OneMore(c, [c EXCEPT !.failed = @ + 1], "failed")
  OBVIOUS
<1> QED
  BY <1>1, <1>2, <1>3

\* A result that is no submission counts as failed.
LEMMA ApprovalFails ==
    ASSUME ApprovalInv, Approval!ResolveFails \/ Approval!HandOff
    PROVE  ApprovalInv'
<1> USE DEF ApprovalInv
<1>1. /\ approval_pc = "applying" /\ approval_pc' \in {"checkpoint", "last checkpoint"}
      /\ approval_todo # <<>> /\ approval_todo' = Tail(approval_todo)
      /\ UNCHANGED <<approval_listed, approval_session, approval_plan, approval_report,
                     approval_items, approval_faults, approval_carried>>
  BY DEF Approval!ResolveFails, Approval!HandOff, Approval!Wanted
<1>2. PICK action \in {"not_submitted", Approval!Blocked} :
         approval_results' = Append(approval_results,
             [id |-> Head(approval_todo).id, action |-> action, reinspect |-> FALSE])
  BY DEF Approval!ResolveFails, Approval!HandOff
<1> DEFINE r == [id |-> Head(approval_todo).id, action |-> action, reinspect |-> FALSE]
<1>3. /\ r \in Approval!Results /\ r.action # Approval!Requested
      /\ approval_results \in Seq(Approval!Results)
  <2>1. Head(approval_todo).id \in Approval!Dataset
    BY <1>1, TodoType
  <2> QED
    BY <2>1 DEF Approval!Results, Approval!Requested, Approval!Blocked, Approval!TypeOK
<1> HIDE DEF r
<1>4. /\ approval_results' = Append(approval_results, r)
      /\ approval_results' \in Seq(Approval!Results)
      /\ Len(approval_results') = Len(approval_results) + 1 /\ Len(approval_results) \in Nat
      /\ \A k \in DOMAIN approval_results :
            k \in DOMAIN approval_results' /\ approval_results'[k] = approval_results[k]
  <2>1. approval_results' = Append(approval_results, r)
    BY <1>2 DEF r
  <2> QED
    BY <1>3, <2>1
<1>5. /\ approval_counts'.submitted = approval_counts.submitted
      /\ approval_counts'.already = approval_counts.already
      /\ approval_counts'.failed = approval_counts.failed + 1
      /\ approval_counts'.skipped = approval_counts.skipped
      /\ approval_counts'.eligible = approval_counts.eligible + 1
      /\ approval_counts.eligible \in Nat /\ approval_counts.skipped \in Nat
      /\ approval_counts.submitted \in Nat /\ approval_counts.already \in Nat
      /\ approval_counts.failed \in Nat
      /\ approval_counts' \in Approval!Counts
  <2>1. approval_counts \in Approval!Counts
    BY DEF Approval!TypeOK
  <2>2. approval_counts' = [approval_counts EXCEPT !.eligible = @ + 1, !.failed = @ + 1]
           \/ approval_counts' =
                 [approval_counts EXCEPT !.eligible = @ + 1, !.attempted = @ + 1, !.failed = @ + 1]
    BY DEF Approval!ResolveFails, Approval!HandOff
  <2>3. /\ approval_counts.eligible \in Nat /\ approval_counts.skipped \in Nat
        /\ approval_counts.submitted \in Nat /\ approval_counts.already \in Nat
        /\ approval_counts.failed \in Nat /\ approval_counts.attempted \in Nat
    BY <2>1 DEF Approval!Counts
  <2>4. CASE approval_counts' = [approval_counts EXCEPT !.eligible = @ + 1, !.failed = @ + 1]
    <3> DEFINE mid == [approval_counts EXCEPT !.eligible = @ + 1]
    <3>1. mid \in Approval!Counts /\ OneMore(approval_counts, mid, "eligible")
      BY <2>1, OneMoreCounted
    <3>2. approval_counts' = [mid EXCEPT !.failed = @ + 1]
      BY <2>1, <2>4 DEF Approval!Counts
    <3> HIDE DEF mid
    <3>3. approval_counts' \in Approval!Counts /\ OneMore(mid, approval_counts', "failed")
      BY <3>1, <3>2, OneMoreCounted
    <3> QED
      BY <2>3, <3>1, <3>3 DEF OneMore
  <2>5. CASE approval_counts' =
                [approval_counts EXCEPT !.eligible = @ + 1, !.attempted = @ + 1, !.failed = @ + 1]
    <3> DEFINE first == [approval_counts EXCEPT !.eligible = @ + 1]
               second == [first EXCEPT !.attempted = @ + 1]
    <3>1. first \in Approval!Counts /\ OneMore(approval_counts, first, "eligible")
      BY <2>1, OneMoreCounted
    <3>2. second \in Approval!Counts /\ OneMore(first, second, "attempted")
      BY <3>1, OneMoreCounted
    <3>3. approval_counts' = [second EXCEPT !.failed = @ + 1]
      BY <2>1, <2>5 DEF Approval!Counts
    <3> HIDE DEF first, second
    <3>4. approval_counts' \in Approval!Counts /\ OneMore(second, approval_counts', "failed")
      BY <3>2, <3>3, OneMoreCounted
    <3> QED
      BY <2>3, <3>1, <3>2, <3>4 DEF OneMore
  <2> QED
    BY <2>2, <2>3, <2>4, <2>5
<1>6. /\ approval_run' \in Approval!Runs /\ approval_run'.path = approval_run.path
      /\ approval_run'.resume = approval_run.resume
      /\ approval_run.attempts <= approval_run.limit => approval_run'.attempts <= approval_run'.limit
  <2>1. approval_run \in Approval!Runs
    BY DEF Approval!TypeOK
  <2>2. CASE Approval!ResolveFails
    BY <2>1, <2>2 DEF Approval!ResolveFails
  <2>3. CASE Approval!HandOff
    <3>1. /\ approval_run' = [approval_run EXCEPT !.attempts = @ + 1]
          /\ approval_run.attempts < approval_run.limit
      BY <2>3 DEF Approval!HandOff, Approval!Wanted
    <3>2. approval_run.attempts \in 0..2 /\ approval_run.limit \in 0..2
      BY <2>1 DEF Approval!Runs
    <3>3. approval_run.attempts + 1 \in 0..2 /\ approval_run.attempts + 1 <= approval_run.limit
      BY <3>1, <3>2
    <3> QED
      BY <2>1, <3>1, <3>3 DEF Approval!Runs
  <2> QED
    BY <2>2, <2>3
<1>7. approval_handed' \in SUBSET Approval!Dataset
  <2>1. Head(approval_todo).id \in Approval!Dataset
    BY <1>1, TodoType
  <2> QED
    BY <2>1 DEF Approval!ResolveFails, Approval!HandOff, Approval!TypeOK
<1>8. /\ approval_todo' \in Seq(Approval!Items) /\ Len(approval_todo) \in Nat
      /\ Len(approval_todo') = Len(approval_todo) - 1
  BY <1>1, TodoType
<1>9. Approval!TypeOK'
  BY <1>1, <1>4, <1>5, <1>6, <1>7, <1>8 DEF Approval!TypeOK
<1>10. CountInv'
  <2>1. /\ approval_counts.submitted + approval_counts.already + approval_counts.failed
              = Len(approval_results)
        /\ approval_counts.submitted = Approval!Number(approval_results, Approval!Requested)
        /\ approval_counts.eligible + approval_counts.skipped + Len(approval_todo)
              = Len(approval_plan[approval_run.path])
        /\ approval_run.attempts <= approval_run.limit
    BY <1>1 DEF CountInv, Applying
  <2>2. Approval!Number(approval_results, Approval!Requested)'
           = Approval!Number(approval_results', Approval!Requested)
    BY DEF Approval!Number, Approval!Requested
  <2>3. Approval!Number(Append(approval_results, r), Approval!Requested)
           = Approval!Number(approval_results, Approval!Requested)
    BY <1>3, NumberProperties
  <2>4. approval_counts'.eligible + approval_counts'.skipped + Len(approval_todo')
              = Len(approval_plan[approval_run.path])
    <3>1. \A a, b, n \in Nat : (a + 1) + b + (n - 1) = a + b + n
      OBVIOUS
    <3>2. approval_counts.eligible \in Nat /\ approval_counts.skipped \in Nat
             /\ Len(approval_todo) \in Nat
      BY <1>5, <1>8
    <3>3. (approval_counts.eligible + 1) + approval_counts.skipped + (Len(approval_todo) - 1)
              = approval_counts.eligible + approval_counts.skipped + Len(approval_todo)
      BY <3>1, <3>2
    <3> QED
      BY <1>5, <1>8, <2>1, <3>3
  <2>5. approval_counts'.submitted + approval_counts'.already + approval_counts'.failed
              = Len(approval_results')
    <3>1. \A a, b, c \in Nat : a + b + (c + 1) = (a + b + c) + 1
      OBVIOUS
    <3>2. approval_counts.submitted \in Nat /\ approval_counts.already \in Nat
             /\ approval_counts.failed \in Nat
      BY <1>5
    <3>3. approval_counts.submitted + approval_counts.already + (approval_counts.failed + 1)
              = (approval_counts.submitted + approval_counts.already + approval_counts.failed) + 1
      BY <3>1, <3>2
    <3> QED
      BY <1>4, <1>5, <2>1, <3>3
  <2> QED
    BY <1>1, <1>4, <1>5, <1>6, <2>1, <2>2, <2>3, <2>4, <2>5 DEF CountInv
<1>11. TakenOverInv'
  <2>1. \A d : Submitted(d) => Submitted(d)'
    BY <1>4 DEF Submitted, Approval!Requested
  <2>2. ASSUME approval_run'.resume PROVE approval_run.resume
    BY <1>6, <2>2
  <2>3. Approval!Submissions(approval_report)' = Approval!Submissions(approval_report)
    BY <1>1 DEF Approval!Submissions, Approval!Range, Approval!Requested
  <2>4. Approval!EligibleIn(approval_plan[approval_run.path])'
           = Approval!EligibleIn(approval_plan[approval_run.path])
    <3>1. approval_plan' = approval_plan /\ approval_run'.path = approval_run.path
      BY <1>1, <1>6
    <3> QED
      BY <3>1 DEF Approval!EligibleIn, Approval!Range, Approval!Required
  <2> QED
    BY <1>1, <2>1, <2>2, <2>3, <2>4 DEF TakenOverInv, Applying
<1> QED
  BY <1>9, <1>10, <1>11

\* The summary that a resumed batch starts from.
LEMMA CountsOfProperties ==
    ASSUME NEW seq \in Seq(Approval!Results)
    PROVE  /\ Approval!CountsOf(seq) \in Approval!Counts
           /\ Approval!CountsOf(seq).submitted = Approval!Number(seq, Approval!Requested)
           /\ Approval!CountsOf(seq).already = Approval!Number(seq, Approval!Already)
           /\ Approval!CountsOf(seq).failed = 0
           /\ Approval!CountsOf(seq).eligible = 0
           /\ Approval!CountsOf(seq).skipped = 0
<1>1. /\ Approval!Number(seq, Approval!Requested) \in Nat
      /\ Approval!Number(seq, Approval!Already) \in Nat
      /\ Len(seq) \in Nat
  BY NumberProperties
<1>2. Approval!CountsOf(seq) =
         [eligible |-> 0, attempted |-> Len(seq),
          submitted |-> Approval!Number(seq, Approval!Requested),
          already |-> Approval!Number(seq, Approval!Already), skipped |-> 0, failed |-> 0]
  <2> DEFINE one == [Approval!NoCounts EXCEPT !.submitted = Approval!Number(seq, Approval!Requested)]
             two == [one EXCEPT !.already = Approval!Number(seq, Approval!Already)]
             three == [two EXCEPT !.attempted = Len(seq)]
  <2>1. Approval!CountsOf(seq) = three
    BY DEF Approval!CountsOf
  <2>2. one = [eligible |-> 0, attempted |-> 0,
               submitted |-> Approval!Number(seq, Approval!Requested),
               already |-> 0, skipped |-> 0, failed |-> 0]
    BY DEF Approval!NoCounts
  <2>3. two = [eligible |-> 0, attempted |-> 0,
               submitted |-> Approval!Number(seq, Approval!Requested),
               already |-> Approval!Number(seq, Approval!Already), skipped |-> 0, failed |-> 0]
    <3> HIDE DEF one
    <3> QED
      BY <2>2
  <2>4. three = [eligible |-> 0, attempted |-> Len(seq),
                 submitted |-> Approval!Number(seq, Approval!Requested),
                 already |-> Approval!Number(seq, Approval!Already), skipped |-> 0, failed |-> 0]
    <3> HIDE DEF two
    <3> QED
      BY <2>3
  <2> QED
    BY <2>1, <2>4
<1> QED
  BY <1>1, <1>2 DEF Approval!Counts

LEMMA ApprovalStarts ==
    ASSUME ApprovalInv, Approval!StartApply
    PROVE  ApprovalInv'
<1> USE DEF ApprovalInv
<1>1. PICK path \in Approval!Path, resume \in BOOLEAN, limit \in 1..2 :
         /\ approval_plan[path] # Absent
         /\ approval_run' = [path |-> path, all |-> FALSE, resume |-> resume,
                             limit |-> limit, attempts |-> 0]
         /\ approval_todo' = approval_plan[path]
         /\ IF resume /\ approval_report # Absent
            THEN /\ approval_report.path = path
                 /\ approval_results' = Approval!Completed(approval_plan[path])
                 /\ approval_counts' = Approval!CountsOf(approval_results')
            ELSE approval_results' = <<>> /\ approval_counts' = Approval!NoCounts
  BY DEF Approval!StartApply
<1>2. /\ approval_pc' = "applying"
      /\ UNCHANGED <<approval_listed, approval_session, approval_plan, approval_report,
                     approval_items, approval_faults, approval_handed>>
  BY DEF Approval!StartApply
<1>3. approval_run' \in Approval!Runs /\ approval_run'.attempts <= approval_run'.limit
         /\ approval_run'.path = path /\ approval_run'.resume = resume
  <2>1. limit \in 0..2 /\ 0 \in 0..2 /\ 0 <= limit
    OBVIOUS
  <2> QED
    BY <1>1, <2>1 DEF Approval!Runs
<1>4. approval_todo' \in Seq(Approval!Items) /\ Len(approval_todo') = Len(approval_plan[path])
         /\ Len(approval_todo') \in Nat
  <2>1. approval_plan[path] \in Seq(Approval!Items) \cup {Absent}
    BY DEF Approval!TypeOK
  <2>2. approval_plan[path] \in Seq(Approval!Items)
    BY <1>1, <2>1
  <2> QED
    BY <1>1, <2>2
<1>5. /\ approval_results' \in Seq(Approval!Results)
      /\ approval_counts' \in Approval!Counts
      /\ approval_counts'.submitted + approval_counts'.already + approval_counts'.failed
            = Len(approval_results')
      /\ approval_counts'.submitted = Approval!Number(approval_results', Approval!Requested)
      /\ approval_counts'.eligible = 0 /\ approval_counts'.skipped = 0
  <2>1. CASE resume /\ approval_report # Absent
    <3> DEFINE seq == Approval!Completed(approval_plan[path])
    <3>1. approval_report \in Approval!Reports
      BY <2>1 DEF Approval!TypeOK
    <3>2. approval_results' = seq /\ approval_counts' = Approval!CountsOf(seq)
      BY <1>1, <2>1
    <3>3. /\ seq \in Seq(Approval!Results)
          /\ \A k \in DOMAIN seq : seq[k].action \in {Approval!Requested, Approval!Already}
      BY <3>1, CompletedProperties
    <3> HIDE DEF seq
    <3>4. Approval!Number(seq, Approval!Requested) + Approval!Number(seq, Approval!Already) = Len(seq)
      BY <3>3, NumberProperties
    <3>5. Approval!Number(seq, Approval!Requested) \in Nat /\ Approval!Number(seq, Approval!Already) \in Nat
      BY <3>3, NumberProperties
    <3>6. /\ Approval!CountsOf(seq) \in Approval!Counts
          /\ Approval!CountsOf(seq).submitted = Approval!Number(seq, Approval!Requested)
          /\ Approval!CountsOf(seq).already = Approval!Number(seq, Approval!Already)
          /\ Approval!CountsOf(seq).failed = 0
          /\ Approval!CountsOf(seq).eligible = 0
          /\ Approval!CountsOf(seq).skipped = 0
      BY <3>3, CountsOfProperties
    <3> QED
      BY <3>2, <3>3, <3>4, <3>5, <3>6
  <2>2. CASE ~(resume /\ approval_report # Absent)
    <3>1. approval_results' = <<>> /\ approval_counts' = Approval!NoCounts
      BY <1>1, <2>2
    <3> QED
      BY <3>1, NoResults DEF Approval!NoCounts, Approval!Counts
  <2> QED
    BY <2>1, <2>2
<1>6. approval_carried' \in SUBSET Approval!Dataset
  <2>1. approval_carried' = {x.id : x \in Approval!Range(approval_results')}
    BY DEF Approval!StartApply
  <2>2. \A k \in DOMAIN approval_results' : approval_results'[k] \in Approval!Results
    BY <1>5
  <2> QED
    BY <2>1, <2>2 DEF Approval!Range, Approval!Results
<1>7. Approval!TypeOK'
  BY <1>2, <1>3, <1>4, <1>5, <1>6 DEF Approval!TypeOK
<1>8. CountInv'
  <2>1. Approval!Number(approval_results, Approval!Requested)'
           = Approval!Number(approval_results', Approval!Requested)
    BY DEF Approval!Number, Approval!Requested
  <2>2. approval_plan[approval_run.path]' = approval_plan[path]
    BY <1>2, <1>3
  <2>3. approval_counts'.eligible + approval_counts'.skipped + Len(approval_todo')
           = Len(approval_plan[path])
    BY <1>4, <1>5
  <2> QED
    BY <1>3, <1>5, <2>1, <2>2, <2>3 DEF CountInv
<1>9. TakenOverInv'
  <2> SUFFICES ASSUME resume,
                      NEW d \in Approval!Submissions(approval_report),
                      d \in Approval!EligibleIn(approval_plan[path])
               PROVE  Submitted(d)'
    <3>1. Approval!Submissions(approval_report)' = Approval!Submissions(approval_report)
      BY <1>2 DEF Approval!Submissions, Approval!Range, Approval!Requested
    <3>2. Approval!EligibleIn(approval_plan[approval_run.path])'
             = Approval!EligibleIn(approval_plan[path])
      BY <1>2, <1>3 DEF Approval!EligibleIn, Approval!Range, Approval!Required
    <3> QED
      BY <1>3, <3>1, <3>2 DEF TakenOverInv
  <2>1. approval_report # Absent
    BY DEF Approval!Submissions
  <2>2. approval_report \in Approval!Reports
    BY <2>1 DEF Approval!TypeOK
  <2>3. PICK k \in DOMAIN approval_report.results :
           approval_report.results[k].id = d
              /\ approval_report.results[k].action = Approval!Requested
    BY <2>2, SubmissionsOfReport
  <2>4. PICK j \in DOMAIN Approval!Completed(approval_plan[path]) :
           Approval!Completed(approval_plan[path])[j] = approval_report.results[k]
    BY <2>2, <2>3, CompletedProperties
  <2>5. approval_results' = Approval!Completed(approval_plan[path])
    BY <1>1, <2>1
  <2> QED
    BY <2>3, <2>4, <2>5 DEF Submitted, Approval!Requested
<1> QED
  BY <1>7, <1>8, <1>9

\* A report is written over by one with at least its wanted submissions.
LEMMA ApprovalWrites ==
    ASSUME ApprovalInv, Approval!Checkpoint \/ Approval!Finish
    PROVE  /\ ApprovalInv'
           /\ \A d \in Approval!Submissions(approval_report) \ Approval!Submissions(approval_report') :
                 ~approval_run.resume \/ d \notin Approval!EligibleIn(approval_plan[approval_run.path])
<1> USE DEF ApprovalInv
<1>1. /\ Approval!Written \in Approval!Reports
      /\ Approval!Submissions(Approval!Written) = {d \in Approval!Dataset : Submitted(d)}
  BY WrittenProperties
<1>2. approval_report' = Approval!Written /\ approval_pc \in Applying
  BY DEF Approval!Checkpoint, Approval!Finish, Applying
<1>3. \A d : Submitted(d) => d \in Approval!Dataset
  <2>1. approval_results \in Seq(Approval!Results)
    BY DEF Approval!TypeOK
  <2>2. \A k \in DOMAIN approval_results : approval_results[k] \in Approval!Results
    BY <2>1
  <2> QED
    BY <2>2 DEF Submitted, Approval!Results
<1>4. \A d \in Approval!Submissions(approval_report) \ Approval!Submissions(approval_report') :
         ~approval_run.resume \/ d \notin Approval!EligibleIn(approval_plan[approval_run.path])
  BY <1>1, <1>2, <1>3 DEF TakenOverInv
<1>5. CASE Approval!Finish
  BY <1>1, <1>2, <1>5, <1>4, ApprovalEnd DEF Approval!Finish, Approval!TypeOK
<1>6. CASE Approval!Checkpoint
  <2>1. /\ UNCHANGED <<approval_listed, approval_session, approval_plan, Approval!job,
                       approval_faults, approval_carried, approval_handed>>
        /\ approval_pc' \in {"applying", "finished"}
    BY <1>6 DEF Approval!Checkpoint
  <2>2. Approval!TypeOK'
    BY <1>1, <1>2, <2>1 DEF Approval!TypeOK, Approval!job
  <2>3. CountInv'
    BY <1>2, <2>1 DEF CountInv, Applying, Approval!job, Approval!Number, Approval!Requested
  <2>4. TakenOverInv'
    <3>1. Approval!Submissions(approval_report)' = Approval!Submissions(Approval!Written)
      BY <1>2 DEF Approval!Submissions, Approval!Range, Approval!Requested
    <3>2. \A d : Submitted(d) => Submitted(d)'
      BY <2>1 DEF Submitted, Approval!job, Approval!Requested
    <3> QED
      BY <1>1, <3>1, <3>2 DEF TakenOverInv
  <2> QED
    BY <1>4, <2>2, <2>3, <2>4
<1> QED
  BY <1>5, <1>6

LEMMA ApprovalInvStep ==
    ASSUME ApprovalInv, [Approval!Next]_(Approval!vars)
    PROVE  ApprovalInv'
<1>1. CASE Approval!ApplyInterrupted
  <2>1. approval_faults' \in 0..MaxFailures
    BY <1>1, ApprovalFault DEF ApprovalInv, Approval!ApplyInterrupted, Approval!TypeOK
  <2> QED
    BY <1>1, <2>1, ApprovalEnd DEF ApprovalInv, Approval!ApplyInterrupted, Approval!TypeOK
<1>2. CASE Approval!Login \/ Approval!SessionExpires \/ Approval!RegistryReplaced
              \/ UNCHANGED Approval!vars
  BY <1>2, ApprovalElsewhere
<1>3. CASE Approval!StartPlan \/ Approval!PlanItem \/ Approval!WritePlan
  BY <1>3, ApprovalPlans
<1>4. CASE Approval!StartApply
  BY <1>4, ApprovalStarts
<1>5. CASE Approval!Skip \/ Approval!PassCarried
  BY <1>5, ApprovalVisits
<1>6. CASE Approval!ResolveFails \/ Approval!HandOff
  BY <1>6, ApprovalFails
<1>7. CASE Approval!Checkpoint \/ Approval!Finish
  BY <1>7, ApprovalWrites
<1> QED
  BY <1>1, <1>2, <1>3, <1>4, <1>5, <1>6, <1>7 DEF Approval!Next

\* Only a checkpoint and the end of a batch change the report.
LEMMA RecordedStep ==
    ASSUME ApprovalInv, [Approval!Next]_(Approval!vars)
    PROVE  \A d \in Approval!Submissions(approval_report) \ Approval!Submissions(approval_report') :
              ~approval_run.resume \/ d \notin Approval!EligibleIn(approval_plan[approval_run.path])
<1>1. CASE Approval!Checkpoint \/ Approval!Finish
  BY <1>1, ApprovalWrites
<1>2. CASE ~(Approval!Checkpoint \/ Approval!Finish)
  <2>1. approval_report' = approval_report
    BY <1>2 DEF Approval!Next, Approval!vars, Approval!Login, Approval!SessionExpires,
        Approval!RegistryReplaced, Approval!StartPlan, Approval!PlanItem, Approval!WritePlan,
        Approval!StartApply, Approval!Skip, Approval!PassCarried, Approval!ResolveFails,
        Approval!HandOff, Approval!ApplyInterrupted
  <2> QED
    BY <2>1
<1> QED
  BY <1>1, <1>2

-----------------------------------------------------------------------------
(* Both parts *)

\* A step of one part is a step of its module, and leaves the other alone.
LEMMA StepParts ==
    ASSUME [Next0]_everything
    PROVE  [Next]_vars /\ [Approval!Next]_(Approval!vars)
<1> USE DEF approvalVars, Approval!vars, Approval!job
<1>1. CASE ApprovalStep
  <2>1. ApprovalOnly /\ Approval!Next
    BY <1>1 DEF ApprovalStep, Approval!Next
  <2> QED
    BY <2>1 DEF ApprovalOnly
<1>2. CASE ImportStep
  <2>1. ImportOnly /\ Next
    BY <1>2 DEF ImportStep, Next, Step
  <2> QED
    BY <2>1 DEF ImportOnly
<1>3. CASE UNCHANGED everything
  BY <1>3 DEF everything, vars
<1> QED
  BY <1>1, <1>2, <1>3 DEF Next0

LEMMA ImplementsImport == Spec0 => Init /\ [][Next]_vars
<1>1. Init0 => Init
  BY DEF Init0
<1>2. [Next0]_everything => [Next]_vars
  BY StepParts
<1> QED
  BY <1>1, <1>2, PTL DEF Spec0

LEMMA ImplementsApproval == Spec0 => Approval!Spec
<1>1. Init0 => Approval!Init
  BY DEF Init0
<1>2. [Next0]_everything => [Approval!Next]_(Approval!vars)
  BY StepParts
<1> QED
  BY <1>1, <1>2, PTL DEF Spec0, Approval!Spec

THEOREM Invariance == Spec0 => [](IInv /\ ApprovalInv)
<1>1. Init /\ Approval!Init => IInv /\ ApprovalInv
  BY InitHolds, ApprovalInitHolds
<1>2. IInv /\ [Next]_vars => IInv'
  BY InvStep
<1>3. ApprovalInv /\ [Approval!Next]_(Approval!vars) => ApprovalInv'
  BY ApprovalInvStep
<1> QED
  BY <1>1, <1>2, <1>3, ImplementsImport, ImplementsApproval, PTL DEF Approval!Spec

\* Type correctness of imports and updates, and of batches.
THEOREM TypesCorrect == Spec0 => []TypesOK
<1>1. IInv /\ ApprovalInv => TypesOK
  BY DEF IInv, ApprovalInv, TypesOK
<1> QED
  BY <1>1, Invariance, PTL

\* importer.go: whatever total upstream sends with each page and however its
\* rows move to other pages meanwhile, what `catalog import --all` is about to
\* write holds every row that was listed all along, unless a row was withdrawn
\* or a page came back blank.
THEOREM MissesOnlyOverWithdrawalsHolds == Spec0 => []MissesOnlyOverWithdrawals
<1>1. IInv => MissesOnlyOverWithdrawals
  BY DEF IInv, FetchedInv, Sound, MissesOnlyOverWithdrawals
<1> QED
  BY <1>1, Invariance, PTL

\* accessApplyPlan: the summary of every report that apply writes adds up.
THEOREM SummaryAddsUpHolds == Spec0 => []SummaryAddsUp
<1>1. ApprovalInv => SummaryAddsUp
  BY DEF ApprovalInv, CountInv, Applying, SummaryAddsUp, Approval!SummaryAddsUp
<1> QED
  BY <1>1, Invariance, PTL

\* accessApplyPlan: a submission that a checkpoint records is dropped only by a
\* run without --resume, or when the plan no longer wants its dataset.
THEOREM SubmissionsStayRecordedHolds == Spec0 => SubmissionsStayRecorded
<1>1. ASSUME ApprovalInv, [Approval!Next]_(Approval!vars)
      PROVE  [\A d \in Approval!Submissions(approval_report) \ Approval!Submissions(approval_report') :
                 ~approval_run.resume
                    \/ d \notin Approval!EligibleIn(approval_plan[approval_run.path])]_(Approval!vars)
  BY <1>1, RecordedStep
<1> QED
  BY <1>1, Invariance, ImplementsApproval, PTL
  DEF Approval!Spec, SubmissionsStayRecorded, Approval!SubmissionsStayRecorded

=============================================================================
