-------------------------- MODULE RulePolicyProofs --------------------------
(***************************************************************************)
(* What a rule list means and what the edits make of it, for every policy  *)
(* of the API's types and any number of edits.                             *)
(*                                                                         *)
(* What the plan, sing-box, the simulation and the analysis do with a list *)
(* is proved of any list (ClaimedIsPlanned, StrictPlansAll, SameFirst,     *)
(* ShadowedLoses); PInv says that the edits lead to such lists only.       *)
(* ManagedRulesMatch is not inductive: MInv adds that the profiles satisfy *)
(* it too, that a rule has the same manager wherever it is, and that what  *)
(* a request has in its hands is unmanaged in every one of them, or, of an *)
(* import, a configuration of which all that is true as well.              *)
(***************************************************************************)
EXTENDS RulePolicy, FiniteSetTheorems, WellFoundedInduction, TLAPS

----------------------------------------------------------------------------
(* Least elements.                                                           *)

\* A set of natural numbers that has an element has a least one.
LEMMA LeastExists ==
  ASSUME NEW T \in SUBSET Nat, T # {}
  PROVE  Least(T) \in T /\ \A m \in T : Least(T) <= m
<1>1. IsWellFoundedOn(OpToRel(<, Nat), Nat)
  BY NatLessThanWellFounded
<1>2. PICK n \in T : \A m \in T : <<m, n>> \notin OpToRel(<, Nat)
  BY <1>1, WFMin
<1>3. \A m \in T : ~(m < n)
  BY <1>2 DEF OpToRel
<1>4. \A m \in T : n <= m
  BY <1>3
<1> QED
  BY <1>4 DEF Least

\* The type of a rule list and of what is read of it.
Listed(c) ==
  /\ c.rules \in Seq(RuleRecords)
  /\ \A i \in DOMAIN c.rules : c.rules[i].sel # {}

LEMMA I32MaxType == I32Max \in Nat
BY SMT DEF I32Max

\* A rule's fields, at its place.
LEMMA RuleAt ==
  ASSUME NEW c, Listed(c), NEW i \in DOMAIN c.rules
  PROVE  /\ i \in Nat /\ c.rules[i] \in RuleRecords
         /\ c.rules[i].sel # {} /\ c.rules[i].sel \subseteq Sels
         /\ c.rules[i].prio \in Int /\ I32Max - c.rules[i].prio \in Nat
<1>1. c.rules \in Seq(RuleRecords) /\ c.rules[i].sel # {}
  BY DEF Listed
<1>2. i \in 1..Len(c.rules) /\ c.rules[i] \in RuleRecords
  BY <1>1
<1>3. c.rules[i].sel \in SUBSET Sels /\ c.rules[i].prio \in Priorities
  BY <1>2 DEF RuleRecords
<1>4. c.rules[i].prio \in Int /\ I32Max - c.rules[i].prio \in Nat
  BY <1>3, I32MaxType DEF Priorities
<1> QED
  BY <1>1, <1>2, <1>3, <1>4

\* The rank of a selector.
LEMMA SelRank ==
  ASSUME NEW s \in Sels
  PROVE  Rank[s[1]] \in Nat
BY PolicyAssumption DEF Rank

LEMMA RankType ==
  ASSUME NEW c, Listed(c), NEW i \in DOMAIN c.rules
  PROVE  KindRank(c.rules[i]) \in Nat
<1> DEFINE T == {Rank[s[1]] : s \in c.rules[i].sel}
<1>1. T \in SUBSET Nat /\ T # {}
  BY RuleAt, SelRank
<1> HIDE DEF T
<1>2. Least(T) \in Nat
  BY <1>1, LeastExists
<1> QED
  BY <1>2 DEF KindRank, T

\* Lexicographic order of the keys.
LEMMA LexTriple ==
  ASSUME NEW a1 \in Int, NEW a2 \in Int, NEW a3 \in Int,
         NEW b1 \in Int, NEW b2 \in Int, NEW b3 \in Int
  PROVE  Lex(<<a1, a2, a3>>, <<b1, b2, b3>>) <=>
           \/ a1 < b1
           \/ a1 = b1 /\ a2 < b2
           \/ a1 = b1 /\ a2 = b2 /\ a3 < b3
<1> DEFINE a == <<a1, a2, a3>>
           b == <<b1, b2, b3>>
<1>1. DOMAIN a = {1, 2, 3} /\ a[1] = a1 /\ a[2] = a2 /\ a[3] = a3 /\ b[1] = b1 /\ b[2] = b2 /\ b[3] = b3
  OBVIOUS
<1> HIDE DEF a, b
<1>2. 1..(1 - 1) = {} /\ 1..(2 - 1) = {1} /\ 1..(3 - 1) = {1, 2}
  OBVIOUS
<1>3. Lex(a, b) <=> \E k \in {1, 2, 3} : a[k] < b[k] /\ \A m \in 1..(k - 1) : a[m] = b[m]
  BY <1>1 DEF Lex
<1>4. Lex(a, b) <=> \/ a1 < b1
                    \/ a1 = b1 /\ a2 < b2
                    \/ a1 = b1 /\ a2 = b2 /\ a3 < b3
  BY <1>1, <1>2, <1>3
<1> QED
  BY <1>4 DEF a, b

LEMMA LexPair ==
  ASSUME NEW a1 \in Int, NEW a2 \in Int, NEW b1 \in Int, NEW b2 \in Int
  PROVE  Lex(<<a1, a2>>, <<b1, b2>>) <=> a1 < b1 \/ (a1 = b1 /\ a2 < b2)
<1> DEFINE a == <<a1, a2>>
           b == <<b1, b2>>
<1>1. DOMAIN a = {1, 2} /\ a[1] = a1 /\ a[2] = a2 /\ b[1] = b1 /\ b[2] = b2
  OBVIOUS
<1> HIDE DEF a, b
<1>2. 1..(1 - 1) = {} /\ 1..(2 - 1) = {1}
  OBVIOUS
<1>3. Lex(a, b) <=> \E k \in {1, 2} : a[k] < b[k] /\ \A m \in 1..(k - 1) : a[m] = b[m]
  BY <1>1 DEF Lex
<1>4. Lex(a, b) <=> a1 < b1 \/ (a1 = b1 /\ a2 < b2)
  BY <1>1, <1>2, <1>3
<1> QED
  BY <1>4 DEF a, b

----------------------------------------------------------------------------
(* The order of the plan, and who has a selector.                            *)

\* Where one rule comes before another in the plan.
LEMMA PlanOrder ==
  ASSUME NEW c, Listed(c), NEW i \in DOMAIN c.rules, NEW j \in DOMAIN c.rules
  PROVE  Lex(PlanKey(c, j), PlanKey(c, i)) <=>
           \/ c.rules[j].prio > c.rules[i].prio
           \/ c.rules[j].prio = c.rules[i].prio /\ KindRank(c.rules[j]) < KindRank(c.rules[i])
           \/ /\ c.rules[j].prio = c.rules[i].prio /\ KindRank(c.rules[j]) = KindRank(c.rules[i])
              /\ j < i
<1> DEFINE pi == c.rules[i].prio
           pj == c.rules[j].prio
           ki == KindRank(c.rules[i])
           kj == KindRank(c.rules[j])
<1>1. pi \in Int /\ pj \in Int /\ ki \in Nat /\ kj \in Nat /\ i \in Nat /\ j \in Nat
  BY RuleAt, RankType
<1>2. PlanKey(c, i) = <<-pi, ki, i>> /\ PlanKey(c, j) = <<-pj, kj, j>>
  BY DEF PlanKey
<1> HIDE DEF pi, pj, ki, kj
<1>3. -pi \in Int /\ -pj \in Int
  BY <1>1
<1>4. Lex(<<-pj, kj, j>>, <<-pi, ki, i>>) <=>
        \/ -pj < -pi
        \/ -pj = -pi /\ kj < ki
        \/ -pj = -pi /\ kj = ki /\ j < i
  BY <1>1, <1>3, LexTriple
<1>5. (-pj < -pi <=> pj > pi) /\ (-pj = -pi <=> pj = pi)
  BY <1>1
<1>6. Lex(PlanKey(c, j), PlanKey(c, i)) <=>
        \/ pj > pi
        \/ pj = pi /\ kj < ki
        \/ pj = pi /\ kj = ki /\ j < i
  BY <1>2, <1>4, <1>5
<1> QED
  BY <1>6 DEF pi, pj, ki, kj

\* Of any rules one comes first in the plan.
LEMMA PlanFirst ==
  ASSUME NEW c, Listed(c), NEW C \in SUBSET DOMAIN c.rules, C # {}
  PROVE  \E k \in C : \A j \in C : ~Lex(PlanKey(c, j), PlanKey(c, k))
<1> DEFINE prios == {I32Max - c.rules[j].prio : j \in C}
<1>1. PICK a \in C : \A j \in C : c.rules[j].prio <= c.rules[a].prio
  <2>1. prios \in SUBSET Nat /\ prios # {}
    BY RuleAt
  <2>2. \A n \in prios : \E j \in C : n = I32Max - c.rules[j].prio
    OBVIOUS
  <2>3. \A j \in C : I32Max - c.rules[j].prio \in prios
    OBVIOUS
  <2> HIDE DEF prios
  <2>4. Least(prios) \in prios /\ \A m \in prios : Least(prios) <= m
    BY <2>1, LeastExists
  <2>5. PICK a \in C : Least(prios) = I32Max - c.rules[a].prio
    BY <2>2, <2>4
  <2>6. \A j \in C : I32Max - c.rules[a].prio <= I32Max - c.rules[j].prio
    BY <2>3, <2>4, <2>5
  <2>7. \A j \in C : c.rules[j].prio \in Int
    BY RuleAt
  <2> QED
    BY <2>6, <2>7, I32MaxType
<1> DEFINE D == {j \in C : c.rules[j].prio = c.rules[a].prio}
           ranks == {KindRank(c.rules[j]) : j \in D}
<1>2. PICK b \in D : \A j \in D : KindRank(c.rules[b]) <= KindRank(c.rules[j])
  <2>1. ranks \in SUBSET Nat /\ ranks # {}
    BY RankType
  <2>2. \A n \in ranks : \E j \in D : n = KindRank(c.rules[j])
    OBVIOUS
  <2>3. \A j \in D : KindRank(c.rules[j]) \in ranks
    OBVIOUS
  <2> HIDE DEF ranks, D
  <2>4. Least(ranks) \in ranks /\ \A m \in ranks : Least(ranks) <= m
    BY <2>1, LeastExists
  <2> QED
    BY <2>2, <2>3, <2>4
<1> DEFINE E == {j \in D : KindRank(c.rules[j]) = KindRank(c.rules[b])}
<1>3. PICK k \in E : \A j \in E : k <= j
  <2>1. E \in SUBSET Nat /\ E # {}
    BY RuleAt
  <2> HIDE DEF E
  <2> QED
    BY <2>1, LeastExists
<1>4. ASSUME NEW j \in C PROVE ~Lex(PlanKey(c, j), PlanKey(c, k))
  <2>1. k \in DOMAIN c.rules /\ j \in DOMAIN c.rules
    OBVIOUS
  <2>2. c.rules[k].prio = c.rules[a].prio /\ KindRank(c.rules[k]) = KindRank(c.rules[b])
    OBVIOUS
  <2>3. c.rules[j].prio <= c.rules[k].prio
    BY <1>1, <2>2
  <2>4. c.rules[j].prio = c.rules[k].prio => KindRank(c.rules[k]) <= KindRank(c.rules[j])
    BY <1>2, <2>2
  <2>5. c.rules[j].prio = c.rules[k].prio /\ KindRank(c.rules[j]) = KindRank(c.rules[k]) => k <= j
    BY <1>3, <2>2
  <2>6. /\ c.rules[j].prio \in Int /\ c.rules[k].prio \in Int /\ j \in Nat /\ k \in Nat
        /\ KindRank(c.rules[j]) \in Nat /\ KindRank(c.rules[k]) \in Nat
    BY <2>1, RuleAt, RankType
  <2>7. ~ \/ c.rules[j].prio > c.rules[k].prio
          \/ c.rules[j].prio = c.rules[k].prio /\ KindRank(c.rules[j]) < KindRank(c.rules[k])
          \/ /\ c.rules[j].prio = c.rules[k].prio /\ KindRank(c.rules[j]) = KindRank(c.rules[k])
             /\ j < k
    BY <2>3, <2>4, <2>5, <2>6
  <2> QED
    BY <2>1, <2>7, PlanOrder
<1> QED
  BY <1>4

\* A claimed selector is a claimer's in the plan: it is that of the first.
LEMMA ClaimedIsPlanned ==
  ASSUME NEW c, Listed(c), NEW s, NEW i \in Enabled(c), s \in Claims(c, i)
  PROVE  \E k \in Enabled(c) :
           /\ s \in Claims(c, k) /\ s \in Planned(c, k)
           /\ ~Lex(PlanKey(c, i), PlanKey(c, k))
<1> DEFINE C == {k \in Enabled(c) : s \in Claims(c, k)}
<1>1. C \in SUBSET DOMAIN c.rules /\ C # {} /\ i \in C
  BY DEF Enabled
<1>2. \A k \in C : k \in Enabled(c) /\ s \in Claims(c, k)
  OBVIOUS
<1>3. \A k \in Enabled(c) : s \in Claims(c, k) => k \in C
  OBVIOUS
<1> HIDE DEF C
<1>4. PICK k \in C : \A j \in C : ~Lex(PlanKey(c, j), PlanKey(c, k))
  BY <1>1, PlanFirst
<1>5. k \in Enabled(c) /\ s \in Claims(c, k)
  BY <1>2
<1>6. ~Skipped(c, k) /\ c.rules[k].dst = {} /\ s \in Selectors(c.rules[k])
  BY <1>5 DEF Claims
<1>7. s \in Planned(c, k)
  BY <1>3, <1>4, <1>6 DEF Planned
<1> QED
  BY <1>1, <1>4, <1>5, <1>7

----------------------------------------------------------------------------
(* Strict.                                                                   *)

\* A Strict plan has every matched program's selector at some rule.
LEMMA StrictPlansAll ==
  ASSUME NEW c, Listed(c), ValidPolicy(c), Accepts(c), c.on, c.strict,
         NEW p \in Programs, NEW i \in Enabled(c), RuleMatches(c.rules[i], p)
  PROVE  \E k \in Enabled(c) : \E s \in Planned(c, k) : Matches(s, p)
<1>1. c.engine = "proxifyre"
  BY DEF ValidPolicy
<1>2. \A j \in Enabled(c) : ~Errors(c, j) /\ c.rules[j].dst = {}
  BY <1>1 DEF Accepts, ProxifyreAccepts
<1>3. PICK s \in c.rules[i].sel : Matches(s, p)
  BY DEF RuleMatches
<1>4. s[1] # "barepid"
  BY <1>3 DEF Matches
<1>5. s \in Claims(c, i)
  BY <1>2, <1>3, <1>4 DEF Claims, Selectors, Errors
<1> QED
  BY <1>3, <1>5, ClaimedIsPlanned

----------------------------------------------------------------------------
(* Shadowing.                                                                *)

\* What a covered rule matches, the rule that covers it matches, if it is as
\* explicit.
LEMMA CoveringMatches ==
  ASSUME NEW a \in RuleRecords, NEW b \in RuleRecords, Covers(a, b), Unmixed(b),
         AsExplicit(a, b), NEW t \in Traffic, StudioMatches(b, t)
  PROVE  StudioMatches(a, t)
<1>1. t.prog \in Programs
  BY DEF Traffic
<1>2. CheckProcess(a, t)
  <2>1. CASE Of(a, "glob") = Everything
    <3> DEFINE s == <<"glob", {q.name : q \in Programs}>>
    <3>1. s \in a.sel
      BY <2>1 DEF Of, Everything
    <3>2. s[1] = "glob" /\ t.prog.name \in s[2]
      BY <1>1
    <3> HIDE DEF s
    <3>3. Matches(s, t.prog)
      BY <3>2 DEF Matches
    <3> QED
      BY <3>1, <3>3 DEF CheckProcess
  <2>2. CASE \E kind \in {"name", "path"} : Of(b, kind) # {} /\ Of(b, kind) \subseteq Of(a, kind)
    <3>1. PICK kind \in {"name", "path"} : Of(b, kind) # {} /\ Of(b, kind) \subseteq Of(a, kind)
      BY <2>2
    <3>2. \A s \in b.sel : s[1] = kind
      BY <3>1 DEF Unmixed, Of
    <3>3. b.sel \subseteq a.sel
      BY <3>1, <3>2 DEF Of
    <3> QED
      BY <3>3 DEF StudioMatches, CheckProcess
  <2>3. CASE /\ Of(a, "glob") = Executables /\ Of(b, "name") # {}
             /\ \A s \in Of(b, "name") : s[2] \in ExeNames
    <3>1. <<"glob", ExeNames>> \in a.sel
      BY <2>3 DEF Of, Executables
    <3>2. \A s \in b.sel : s[1] = "name" /\ s[2] \in ExeNames
      BY <2>3 DEF Unmixed, Of
    <3>3. PICK s \in b.sel : Matches(s, t.prog) \/ s = <<"barepid", t.prog>>
      BY DEF StudioMatches, CheckProcess
    <3>4. t.prog.name \in ExeNames
      BY <3>2, <3>3 DEF Matches
    <3>5. Matches(<<"glob", ExeNames>>, t.prog)
      BY <3>4 DEF Matches
    <3> QED
      BY <3>1, <3>5 DEF CheckProcess
  <2> QED
    BY <2>1, <2>2, <2>3 DEF Covers, ProcessCovered
<1>3. a.net = {} \/ t.net \in a.net
  BY DEF Covers, ScopeCovered, AsExplicit, StudioMatches
<1>4. CheckDestination(a, t)
  <2>1. DestinationCovered(a, b) /\ CheckDestination(b, t)
    BY DEF Covers, StudioMatches
  <2>2. CASE a.dst = {}
    BY <2>2 DEF CheckDestination, Limits
  <2>3. CASE a.dst # {}
    <3>1. Limits(a, "cidr") = {}
      BY DEF AsExplicit
    <3>2. Limits(a, "domain") = {} \/ Hits(a, "domain", t)
      <4> SUFFICES ASSUME Limits(a, "domain") # {} PROVE Hits(a, "domain", t)
        OBVIOUS
      <4>1. Limits(b, "domain") # {}
        BY DEF AsExplicit
      <4>2. PICK k \in Limits(b, "domain") : t.dst["domain"] \in k[2]
        BY <2>1, <4>1 DEF CheckDestination, Dimensions, Hits
      <4>3. PICK l \in Limits(a, "domain") : k[2] \subseteq l[2]
        BY <2>1, <2>3, <4>2 DEF DestinationCovered
      <4> QED
        BY <4>2, <4>3 DEF Hits
    <3>3. Limits(a, "port") = {} \/ Hits(a, "port", t)
      <4> SUFFICES ASSUME Limits(a, "port") # {} PROVE Hits(a, "port", t)
        OBVIOUS
      <4>1. Limits(b, "port") # {}
        BY DEF AsExplicit
      <4>2. PICK k \in Limits(b, "port") : t.dst["port"] \in k[2]
        BY <2>1, <4>1 DEF CheckDestination, Dimensions, Hits
      <4>3. k \in Limits(a, "port")
        BY <2>1, <2>3, <4>2 DEF DestinationCovered
      <4> QED
        BY <4>2, <4>3 DEF Hits
    <3> QED
      BY <3>1, <3>2, <3>3 DEF CheckDestination, Dimensions
  <2> QED
    BY <2>2, <2>3
<1> QED
  BY <1>2, <1>3, <1>4 DEF StudioMatches

\* A shadowed rule is not selected.
LEMMA ShadowedLoses ==
  ASSUME NEW c, Listed(c), NEW i \in DOMAIN c.rules, NEW j \in DOMAIN c.rules,
         Shadowed(c, i, j), Unmixed(c.rules[i]), AsExplicit(c.rules[j], c.rules[i]),
         NEW t \in Traffic
  PROVE  ~StudioSelects(c, t, i)
<1> SUFFICES ASSUME StudioSelects(c, t, i) PROVE FALSE
  OBVIOUS
<1>1. /\ c.rules[i] \in RuleRecords /\ c.rules[j] \in RuleRecords /\ i \in Nat /\ j \in Nat
      /\ c.rules[i].prio \in Int /\ c.rules[j].prio \in Int
  BY RuleAt
<1>2. Covers(c.rules[j], c.rules[i]) /\ j \in Enabled(c) /\ i # j
  BY DEF Shadowed
<1>3. StudioMatches(c.rules[i], t)
  BY DEF StudioSelects
<1>4. StudioMatches(c.rules[j], t)
  BY <1>1, <1>2, <1>3, CoveringMatches
<1>5. Lex(<<-c.rules[i].prio, i>>, <<-c.rules[j].prio, j>>)
  BY <1>2, <1>4 DEF StudioSelects
<1> DEFINE pi == c.rules[i].prio
           pj == c.rules[j].prio
<1>6. pj >= pi /\ (j < i \/ pj > pi)
  BY <1>1 DEF Shadowed, Covers
<1>7. pi \in Int /\ pj \in Int /\ Lex(<<-pi, i>>, <<-pj, j>>)
  BY <1>1, <1>5
<1> HIDE DEF pi, pj
<1>8. -pi \in Int /\ -pj \in Int
  BY <1>7
<1>9. -pi < -pj \/ (-pi = -pj /\ i < j)
  BY <1>1, <1>7, <1>8, LexPair
<1> QED
  BY <1>1, <1>6, <1>7, <1>9

----------------------------------------------------------------------------
(* sing-box and the evaluation.                                              *)

\* A rule with one kind of selector has one rank, however it matches.
LEMMA OneRank ==
  ASSUME NEW r \in RuleRecords, r.sel # {}, Unmixed(r), NEW s \in r.sel
  PROVE  /\ KindRank(r) = Rank[s[1]]
         /\ \A p \in Programs : RuleMatches(r, p) => MatchRank(r, p) = KindRank(r)
<1>1. r.sel \subseteq Sels /\ \A u \in r.sel : u[1] = s[1]
  BY DEF RuleRecords, Unmixed
<1> DEFINE n == Rank[s[1]]
<1>2. n \in Nat
  BY <1>1, SelRank
<1>3. {Rank[u[1]] : u \in r.sel} = {n}
  BY <1>1
<1>4. ASSUME NEW p \in Programs, RuleMatches(r, p)
      PROVE  {Rank[u[1]] : u \in {v \in r.sel : Matches(v, p)}} = {n}
  BY <1>1, <1>4 DEF RuleMatches
<1> HIDE DEF n
<1>5. Least({n}) = n
  BY <1>2, LeastExists
<1>6. KindRank(r) = n
  BY <1>3, <1>5 DEF KindRank
<1>7. \A p \in Programs : RuleMatches(r, p) => MatchRank(r, p) = n
  BY <1>4, <1>5 DEF MatchRank
<1> QED
  BY <1>6, <1>7 DEF n

\* The networks of a rule for more than DNS admit what its protocols do.
LEMMA NetworksAdmit ==
  ASSUME NEW r \in RuleRecords, r.net # {"dns"}, NEW t \in Traffic
  PROVE  /\ Networks(r) # {}
         /\ (r.net = {} \/ t.net \in r.net) <=> t.net \in Networks(r)
<1>1. t.net \in {"tcp", "udp"} /\ r.net \subseteq {"tcp", "udp", "dns"}
  BY DEF Traffic, RuleRecords
<1> QED
  BY <1>1 DEF Networks

\* A rule that names no more than one of domains and addresses admits the
\* destinations that the evaluation matches.
LEMMA DestinationsAdmit ==
  ASSUME NEW r, OneHost(r), NEW t
  PROVE  Admits(r, t) <=> DestinationMatches(r, t) /\ (Networks(r) = {} \/ t.net \in Networks(r))
<1>1. /\ Hits(r, "domain", t) => Limits(r, "domain") # {}
      /\ Hits(r, "cidr", t) => Limits(r, "cidr") # {}
  BY DEF Hits
<1>2. DestinationMatches(r, t) <=>
        /\ Limits(r, "domain") = {} \/ Hits(r, "domain", t)
        /\ Limits(r, "cidr") = {} \/ Hits(r, "cidr", t)
        /\ Limits(r, "port") = {} \/ Hits(r, "port", t)
  BY DEF DestinationMatches, Dimensions
<1> QED
  BY <1>1, <1>2 DEF Admits, OneHost

\* What a configuration has to be for sing-box to follow the evaluation.
Comparable(c) ==
  /\ Listed(c)
  /\ \A i, j \in Enabled(c) : c.rules[i].prio = c.rules[j].prio
  /\ \A i \in Enabled(c) : Unmixed(c.rules[i]) /\ OneHost(c.rules[i])
  /\ ClaimsFit(c)

LEMMA GeneratedContend ==
  ASSUME NEW c, Comparable(c), NEW t \in Traffic
  PROVE  Generated(c, t) \subseteq Contenders(c, t)
<1> SUFFICES ASSUME NEW i \in Generated(c, t) PROVE i \in Contenders(c, t)
  OBVIOUS
<1> DEFINE r == c.rules[i]
<1>1. i \in Enabled(c) /\ Admits(r, t) /\ \E s \in Planned(c, i) : Matches(s, t.prog)
  BY DEF Generated
<1>2. PICK s \in Planned(c, i) : Matches(s, t.prog)
  BY <1>1
<1>3. s \in r.sel
  BY <1>2 DEF Planned, Selectors
<1>4. RuleMatches(r, t.prog) /\ PlanHas(c, i)
  BY <1>1, <1>2, <1>3 DEF RuleMatches, PlanHas
<1>5. r \in RuleRecords /\ r.net # {"dns"} /\ OneHost(r)
  BY <1>1, RuleAt DEF Comparable, Unmixed, Enabled
<1>6. (r.net = {} \/ t.net \in r.net) /\ DestinationMatches(r, t)
  BY <1>1, <1>5, NetworksAdmit, DestinationsAdmit
<1> QED
  BY <1>1, <1>4, <1>6 DEF Contenders

\* A contender whose selectors were claimed has a generated rule before it.
LEMMA ContenderIsBeaten ==
  ASSUME NEW c, Comparable(c), NEW t \in Traffic,
         NEW m \in Contenders(c, t), m \notin Generated(c, t)
  PROVE  \E k \in Generated(c, t) : k < m /\ KindRank(c.rules[k]) = KindRank(c.rules[m])
<1> DEFINE r == c.rules[m]
<1>1. /\ m \in Enabled(c) /\ RuleMatches(r, t.prog) /\ (r.net = {} \/ t.net \in r.net)
      /\ DestinationMatches(r, t) /\ PlanHas(c, m)
  BY DEF Contenders
<1>2. PICK s \in r.sel : Matches(s, t.prog)
  BY <1>1 DEF RuleMatches
<1>3. m \in DOMAIN c.rules /\ Listed(c)
  BY <1>1 DEF Enabled, Comparable
<1>4. r \in RuleRecords /\ r.net # {"dns"} /\ r.sel # {} /\ Unmixed(r) /\ OneHost(r)
  BY <1>1, <1>3, RuleAt DEF Comparable, Unmixed
<1>5. t.net \in Networks(r)
  BY <1>1, <1>4, NetworksAdmit
<1>6. Admits(r, t)
  BY <1>1, <1>4, <1>5, DestinationsAdmit
<1>7. s \in Selectors(r) /\ ~Skipped(c, m)
  BY <1>1, <1>2 DEF Matches, Selectors, PlanHas, Planned
<1>8. s \notin Planned(c, m)
  BY <1>1, <1>2, <1>6 DEF Generated
<1>9. /\ r.dst = {}
      /\ \E j \in Enabled(c) : Lex(PlanKey(c, j), PlanKey(c, m)) /\ s \in Claims(c, j)
  BY <1>7, <1>8 DEF Planned
<1>10. PICK j \in Enabled(c) : Lex(PlanKey(c, j), PlanKey(c, m)) /\ s \in Claims(c, j)
  BY <1>9
<1>11. PICK k \in Enabled(c) :
         s \in Claims(c, k) /\ s \in Planned(c, k) /\ ~Lex(PlanKey(c, j), PlanKey(c, k))
  BY <1>3, <1>10, ClaimedIsPlanned
<1>12. /\ j \in DOMAIN c.rules /\ k \in DOMAIN c.rules
       /\ s \in Selectors(c.rules[j]) /\ s \in Selectors(c.rules[k]) /\ c.rules[k].dst = {}
  BY <1>10, <1>11 DEF Enabled, Claims
<1>13. /\ c.rules[j] \in RuleRecords /\ c.rules[k] \in RuleRecords
       /\ j \in Nat /\ k \in Nat /\ m \in Nat
       /\ c.rules[j].prio \in Int /\ c.rules[k].prio \in Int /\ r.prio \in Int
  BY <1>3, <1>12, RuleAt
<1>14. /\ KindRank(c.rules[j]) = Rank[s[1]] /\ KindRank(c.rules[k]) = Rank[s[1]]
       /\ KindRank(r) = Rank[s[1]]
  <2>1. Unmixed(c.rules[j]) /\ Unmixed(c.rules[k])
    BY DEF Comparable
  <2>2. s \in c.rules[j].sel /\ s \in c.rules[k].sel
    BY <1>12 DEF Selectors
  <2> QED
    BY <1>2, <1>4, <1>13, <2>1, <2>2, OneRank
<1>15. c.rules[j].prio = r.prio /\ c.rules[k].prio = r.prio
  BY <1>1 DEF Comparable
<1>16. KindRank(r) \in Nat
  BY <1>3, RankType
<1>17. j < m /\ k <= j
  BY <1>3, <1>10, <1>11, <1>12, <1>13, <1>14, <1>15, <1>16, PlanOrder
<1>18. k < m
  BY <1>13, <1>17
<1>19. Networks(r) \subseteq Networks(c.rules[k])
  BY <1>1, <1>7, <1>9, <1>11, <1>18 DEF Comparable, ClaimsFit
<1>20. Admits(c.rules[k], t)
  BY <1>5, <1>12, <1>19 DEF Admits, Limits
<1>21. k \in Generated(c, t)
  BY <1>2, <1>11, <1>20 DEF Generated
<1> QED
  BY <1>14, <1>18, <1>21

\* Generated rules and contenders have the same first member, if any.
LEMMA SameFirst ==
  ASSUME NEW c, Comparable(c), NEW t \in Traffic
  PROVE  SingBoxOutbound(c, t) = EvaluatedOutbound(c, t)
<1> DEFINE G == Generated(c, t)
           E == Contenders(c, t)
           R(i) == KindRank(c.rules[i])
           Before(i, j) == R(i) < R(j) \/ (R(i) = R(j) /\ i < j)
           GKey(i) == OrderKey(c, i)
           EKey(i) == <<-c.rules[i].prio, MatchRank(c.rules[i], t.prog), i>>
<1>1. G \subseteq E /\ E \subseteq DOMAIN c.rules
  BY GeneratedContend DEF Contenders, Enabled
<1>2. \A m \in E : m \in G \/ \E k \in G : k < m /\ R(k) = R(m)
  BY ContenderIsBeaten
<1>3. \A i \in E : R(i) \in Nat /\ i \in Nat
  BY <1>1, RankType, RuleAt DEF Comparable
<1>4. \A i, j \in E : Lex(GKey(i), GKey(j)) <=> Before(i, j)
  <2> SUFFICES ASSUME NEW i \in E, NEW j \in E PROVE Lex(GKey(i), GKey(j)) <=> Before(i, j)
    OBVIOUS
  <2>1. GKey(i) = <<R(i), i>> /\ GKey(j) = <<R(j), j>>
    BY DEF OrderKey
  <2> HIDE DEF R, GKey
  <2> QED
    BY <1>3, <2>1, LexPair
<1>5. \A i, j \in E : Lex(EKey(i), EKey(j)) <=> Before(i, j)
  <2> SUFFICES ASSUME NEW i \in E, NEW j \in E PROVE Lex(EKey(i), EKey(j)) <=> Before(i, j)
    OBVIOUS
  <2>1. i \in Enabled(c) /\ j \in Enabled(c) /\ i \in DOMAIN c.rules /\ j \in DOMAIN c.rules
    BY DEF Contenders, Enabled
  <2>2. RuleMatches(c.rules[i], t.prog) /\ RuleMatches(c.rules[j], t.prog) /\ t.prog \in Programs
    BY DEF Contenders, Traffic
  <2>3. MatchRank(c.rules[i], t.prog) = R(i) /\ MatchRank(c.rules[j], t.prog) = R(j)
    BY <2>1, <2>2, RuleAt, OneRank DEF Comparable
  <2>4. c.rules[i].prio = c.rules[j].prio /\ c.rules[i].prio \in Int
    BY <2>1, RuleAt DEF Comparable
  <2> DEFINE pr == -c.rules[i].prio
  <2>5. EKey(i) = <<pr, R(i), i>> /\ EKey(j) = <<pr, R(j), j>>
    BY <2>3, <2>4
  <2>6. pr \in Int
    BY <2>4
  <2> HIDE DEF R, EKey, pr
  <2>7. Lex(<<pr, R(i), i>>, <<pr, R(j), j>>) <=> Before(i, j)
    BY <1>3, <2>6, LexTriple
  <2> QED
    BY <2>5, <2>7
<1>6. SingBoxOutbound(c, t) = IF G = {} THEN "direct" ELSE
        Outbound(c, CHOOSE i \in G : \A j \in G \ {i} : Lex(GKey(i), GKey(j)))
  BY DEF SingBoxOutbound, First
<1>7. EvaluatedOutbound(c, t) = IF E = {} THEN "direct" ELSE
        Outbound(c, CHOOSE i \in E : \A j \in E \ {i} : Lex(EKey(i), EKey(j)))
  BY DEF EvaluatedOutbound, First
<1> HIDE DEF G, E, R, GKey, EKey
<1>8. CASE E = {}
  BY <1>1, <1>6, <1>7, <1>8
<1>9. CASE E # {}
  <2>1. G # {}
    BY <1>2, <1>9
  <2>2. PICK g \in G : \A j \in G \ {g} : Before(g, j)
    <3> DEFINE ranks == {R(i) : i \in G}
    <3>1. ranks \in SUBSET Nat /\ ranks # {} /\ (\A n \in ranks : \E i \in G : n = R(i))
          /\ \A i \in G : R(i) \in ranks
      BY <1>1, <1>3, <2>1
    <3> HIDE DEF ranks
    <3>2. Least(ranks) \in ranks /\ \A m \in ranks : Least(ranks) <= m
      BY <3>1, LeastExists
    <3>3. PICK a \in G : \A i \in G : R(a) <= R(i)
      BY <3>1, <3>2
    <3> DEFINE D == {i \in G : R(i) = R(a)}
    <3>4. D \in SUBSET Nat /\ D # {} /\ (\A i \in D : i \in G /\ R(i) = R(a))
          /\ \A i \in G : R(i) = R(a) => i \in D
      BY <1>1, <1>3
    <3> HIDE DEF D
    <3>5. Least(D) \in D /\ \A m \in D : Least(D) <= m
      BY <3>4, LeastExists
    <3> DEFINE g == Least(D)
    <3>6. g \in G /\ R(g) = R(a)
      BY <3>4, <3>5
    <3>7. \A j \in G \ {g} : Before(g, j)
      <4> SUFFICES ASSUME NEW j \in G, j # g PROVE Before(g, j)
        OBVIOUS
      <4>1. g \in Nat /\ j \in Nat /\ R(g) \in Nat /\ R(j) \in Nat
        BY <1>1, <1>3, <3>6
      <4>2. R(g) <= R(j) /\ (R(j) = R(g) => g <= j)
        BY <3>3, <3>4, <3>5, <3>6
      <4> HIDE DEF g
      <4> QED
        BY <4>1, <4>2
    <3> QED
      BY <3>6, <3>7
  <2>3. \A j \in E \ {g} : Before(g, j)
    <3> SUFFICES ASSUME NEW j \in E, j # g PROVE Before(g, j)
      OBVIOUS
    <3>1. CASE j \in G
      BY <2>2, <3>1
    <3>2. CASE j \notin G
      <4>1. PICK k \in G : k < j /\ R(k) = R(j)
        BY <1>2, <3>2
      <4>2. k = g \/ Before(g, k)
        BY <2>2
      <4>3. g \in E /\ k \in E
        BY <1>1
      <4> QED
        BY <1>3, <4>1, <4>2, <4>3
    <3> QED
      BY <3>1, <3>2
  <2>4. g \in E
    BY <1>1
  <2>5. \A i, j \in E : Before(i, j) => ~Before(j, i)
    BY <1>3
  <2>6. \A i \in G : (\A j \in G \ {i} : Lex(GKey(i), GKey(j))) <=> i = g
    BY <1>1, <1>4, <2>2, <2>4, <2>5
  <2>7. \A i \in E : (\A j \in E \ {i} : Lex(EKey(i), EKey(j))) <=> i = g
    BY <1>5, <2>3, <2>4, <2>5
  <2>8. (CHOOSE i \in G : \A j \in G \ {i} : Lex(GKey(i), GKey(j))) = g
    BY <2>6
  <2>9. (CHOOSE i \in E : \A j \in E \ {i} : Lex(EKey(i), EKey(j))) = g
    BY <2>4, <2>7
  <2> QED
    BY <1>6, <1>7, <1>9, <2>1, <2>8, <2>9
<1> QED
  BY <1>8, <1>9

----------------------------------------------------------------------------
(* Lists built step by step.                                                 *)

\* Induction along a list, for the set of the places where something holds.
LEMMA AlongTheList ==
  ASSUME NEW N \in Nat, NEW G, 0 \in G, \A n \in 1..N : n - 1 \in G => n \in G
  PROVE  0..N \subseteq G
<1> DEFINE bad == (0..N) \ G
<1> SUFFICES ASSUME bad # {} PROVE FALSE
  OBVIOUS
<1>1. bad \in SUBSET Nat /\ \A n \in 0..N : n \notin bad => n \in G
  OBVIOUS
<1>2. \A n \in bad : n \in 1..N /\ n \notin G
  OBVIOUS
<1> HIDE DEF bad
<1> DEFINE b == Least(bad)
<1>3. b \in bad /\ \A m \in bad : b <= m
  BY <1>1, LeastExists
<1> HIDE DEF b
<1>4. b \in 1..N /\ b - 1 \in 0..N /\ b - 1 \notin bad
  BY <1>2, <1>3
<1> QED
  BY <1>1, <1>2, <1>3, <1>4

\* A function that starts at x and continues as step says exists.
Iteration(f, N, S, x, step) ==
  f \in [0..N -> S] /\ f[0] = x /\ \A n \in 1..N : f[n] = step[n][f[n - 1]]

LEMMA Iterated ==
  ASSUME NEW N, N \in Nat, NEW S, NEW x, x \in S, NEW step, step \in [1..N -> [S -> S]]
  PROVE  \E f : Iteration(f, N, S, x, step)
<1> DEFINE Goes(f, m) == f[0] = x /\ \A n \in 1..m : f[n] = step[n][f[n - 1]]
           G == {m \in 0..N : \E f \in [0..m -> S] : Goes(f, m)}
<1>1. 0 \in G
  <2> DEFINE f == [n \in 0..0 |-> x]
  <2>1. \E h \in [0..0 -> S] : Goes(h, 0)
    <3>1. f \in [0..0 -> S] /\ Goes(f, 0)
      OBVIOUS
    <3> QED
      BY <3>1
  <2> QED
    BY <2>1
<1>2. ASSUME NEW m \in 1..N, m - 1 \in G PROVE m \in G
  <2>1. PICK f \in [0..(m - 1) -> S] : Goes(f, m - 1)
    BY <1>2
  <2> DEFINE y == step[m][f[m - 1]]
             g == [n \in 0..m |-> IF n = m THEN y ELSE f[n]]
  <2>2. m - 1 \in 0..(m - 1) /\ m \in 1..N /\ m \in 0..N
    OBVIOUS
  <2>3. f[m - 1] \in S
    BY <2>2
  <2>4. y \in S
    BY <2>2, <2>3
  <2> HIDE DEF y
  <2>5. g \in [0..m -> S] /\ g[0] = x /\ g[m] = y
    <3>1. m # 0 /\ 0 \in 0..m /\ 0 \in 0..(m - 1)
      OBVIOUS
    <3>2. g[0] = f[0] /\ g[m] = y
      BY <2>2, <3>1
    <3>3. \A n \in 0..m : n # m => n \in 0..(m - 1)
      OBVIOUS
    <3>4. g \in [0..m -> S]
      BY <2>4, <3>3
    <3> QED
      BY <2>1, <3>2, <3>4
  <2>6. ASSUME NEW n \in 1..m PROVE g[n] = step[n][g[n - 1]]
    <3>1. CASE n = m
      BY <2>5, <3>1 DEF y
    <3>2. CASE n # m
      <4>1. n \in 1..(m - 1) /\ n \in 0..m /\ n - 1 \in 0..m /\ n - 1 # m
        BY <3>2
      <4>2. f[n] = step[n][f[n - 1]]
        BY <2>1, <4>1
      <4> QED
        BY <3>2, <4>1, <4>2
    <3> QED
      BY <3>1, <3>2
  <2>7. \E h \in [0..m -> S] : Goes(h, m)
    BY <2>5, <2>6
  <2> QED
    BY <2>2, <2>7
<1> HIDE DEF G
<1>3. 0..N \subseteq G
  BY <1>1, <1>2, AlongTheList
<1>4. N \in G
  BY <1>3
<1> QED
  BY <1>4 DEF G, Iteration

\* What Keeping keeps: the elements at the positions, each once and in order.
Places(t, s, K, n, e) ==
  /\ e \in [1..Len(t) -> K \cap (1..n)]
  /\ \A j \in 1..Len(t) : t[j] = s[e[j]]
  /\ \A j, k \in 1..Len(t) : j < k => e[j] < e[k]
  /\ \A i \in K \cap (1..n) : \E j \in 1..Len(t) : e[j] = i

LEMMA PlacesGrow ==
  ASSUME NEW S, NEW s \in Seq(S), NEW K, NEW n \in 1..Len(s), NEW t \in Seq(S),
         NEW e, Places(t, s, K, n - 1, e)
  PROVE  /\ n \notin K => Places(t, s, K, n, e)
         /\ n \in K => \E d : Places(Append(t, s[n]), s, K, n, d)
<1> DEFINE L == Len(t)
<1>1. L \in Nat /\ n \in Nat /\ n - 1 \in Nat
  OBVIOUS
<1>2. /\ e \in [1..L -> K \cap (1..(n - 1))]
      /\ \A j \in 1..L : t[j] = s[e[j]]
      /\ \A j, k \in 1..L : j < k => e[j] < e[k]
      /\ \A i \in K \cap (1..(n - 1)) : \E j \in 1..L : e[j] = i
  BY DEF Places
<1>3. 1..n = 1..(n - 1) \cup {n}
  OBVIOUS
<1>4. CASE n \notin K
  <2>1. K \cap (1..n) = K \cap (1..(n - 1))
    BY <1>3, <1>4
  <2> QED
    BY <1>4, <2>1 DEF Places
<1>5. CASE n \in K
  <2> DEFINE u == Append(t, s[n])
             d == [j \in 1..(L + 1) |-> IF j = L + 1 THEN n ELSE e[j]]
  <2>1. s[n] \in S /\ u \in Seq(S) /\ Len(u) = L + 1 /\ u[L + 1] = s[n]
        /\ \A j \in 1..L : u[j] = t[j]
    OBVIOUS
  <2>2. 1..(L + 1) = 1..L \cup {L + 1} /\ L + 1 \notin 1..L
    BY <1>1
  <2>3. d[L + 1] = n /\ \A j \in 1..L : d[j] = e[j]
    BY <1>1, <2>2
  <2>4. d \in [1..(L + 1) -> K \cap (1..n)]
    BY <1>2, <1>3, <1>5, <2>2
  <2> HIDE DEF u, d, L
  <2>5. \A j \in 1..(L + 1) : u[j] = s[d[j]]
    BY <1>2, <2>1, <2>2, <2>3
  <2>6. \A j, k \in 1..(L + 1) : j < k => d[j] < d[k]
    <3> SUFFICES ASSUME NEW j \in 1..(L + 1), NEW k \in 1..(L + 1), j < k PROVE d[j] < d[k]
      OBVIOUS
    <3>1. j \in 1..L
      BY <1>1
    <3>2. d[j] = e[j] /\ e[j] \in 1..(n - 1)
      BY <1>2, <2>3, <3>1
    <3>5. e[j] < n
      BY <1>1, <3>2
    <3>3. CASE k = L + 1
      BY <2>3, <3>2, <3>3, <3>5
    <3>4. CASE k \in 1..L
      BY <1>2, <2>3, <3>1, <3>4
    <3> QED
      BY <2>2, <3>3, <3>4
  <2>7. \A i \in K \cap (1..n) : \E j \in 1..(L + 1) : d[j] = i
    BY <1>2, <1>3, <2>2, <2>3
  <2>8. Places(u, s, K, n, d)
    BY <2>1, <2>4, <2>5, <2>6, <2>7 DEF Places
  <2> QED
    BY <1>5, <2>8 DEF u
<1> QED
  BY <1>4, <1>5

LEMMA KeepingFacts ==
  ASSUME NEW S, NEW s \in Seq(S), NEW K
  PROVE  Keeping(s, K) \in Seq(S) /\ \E e : Places(Keeping(s, K), s, K, Len(s), e)
<1> DEFINE N == Len(s)
           body(f) == [n \in 0..Len(s) |->
                         IF n = 0 THEN <<>>
                         ELSE IF n \in K THEN Append(f[n - 1], s[n]) ELSE f[n - 1]]
           keeping == CHOOSE f : f = body(f)
           step == [n \in 1..N |-> [t \in Seq(S) |-> IF n \in K THEN Append(t, s[n]) ELSE t]]
<1>1. N \in Nat /\ \A n \in 1..N : s[n] \in S
  OBVIOUS
<1>2. step \in [1..N -> [Seq(S) -> Seq(S)]]
  BY <1>1
<1>3. PICK f \in [0..N -> Seq(S)] : f[0] = <<>> /\ \A n \in 1..N : f[n] = step[n][f[n - 1]]
  <2> DEFINE Q == Seq(S)
             z == <<>>
  <2>1. z \in Q /\ step \in [1..N -> [Q -> Q]] /\ N \in Nat
    BY <1>1, <1>2
  <2> HIDE DEF step, N, Q, z
  <2>2. \E f : Iteration(f, N, Q, z, step)
    BY <2>1, Iterated
  <2> QED
    BY <2>2 DEF Q, z, Iteration
<1>4. f = body(f)
  <2>1. \A n \in 1..N : n - 1 \in 0..N /\ f[n - 1] \in Seq(S)
    <3>1. \A n \in 1..N : n - 1 \in 0..N
      BY <1>1
    <3> DEFINE Q == Seq(S)
    <3>2. f \in [0..N -> Q]
      BY <1>3
    <3> HIDE DEF N, Q, step, body
    <3>3. \A n \in 1..N : f[n - 1] \in Q
      BY <3>1, <3>2
    <3> QED
      BY <3>1, <3>3 DEF Q
  <2>2. \A n \in 1..N : f[n] = IF n \in K THEN Append(f[n - 1], s[n]) ELSE f[n - 1]
    BY <1>3, <2>1
  <2>3. DOMAIN f = 0..N /\ \A n \in 0..N : n = 0 \/ n \in 1..N
    BY <1>1
  <2>4. \A n \in 0..N : f[n] = IF n = 0 THEN <<>>
                                ELSE IF n \in K THEN Append(f[n - 1], s[n]) ELSE f[n - 1]
    BY <1>3, <2>2, <2>3
  <2> HIDE DEF step
  <2> QED
    BY <2>3, <2>4
<1>5. keeping = body(keeping)
  <2> HIDE DEF body
  <2> QED
    BY <1>4
<1>6. Keeping(s, K) = keeping[Len(s)]
  BY Zenon DEF Keeping
<1> HIDE DEF keeping
<1>7. /\ keeping[0] = <<>>
      /\ \A n \in 1..N : keeping[n] = IF n \in K THEN Append(keeping[n - 1], s[n]) ELSE keeping[n - 1]
  <2>1. 0 \in 0..N /\ \A n \in 1..N : n \in 0..N /\ n # 0
    BY <1>1
  <2>2. \A n \in 0..N : keeping[n] = IF n = 0 THEN <<>>
                                   ELSE IF n \in K THEN Append(keeping[n - 1], s[n]) ELSE keeping[n - 1]
    BY <1>5
  <2> QED
    BY <2>1, <2>2
<1> DEFINE G == {n \in 0..N : keeping[n] \in Seq(S) /\ \E e : Places(keeping[n], s, K, n, e)}
<1>8. 0 \in G
  <2>1. \E e : Places(<<>>, s, K, 0, e)
    <3> DEFINE e == [j \in 1..0 |-> 0]
    <3>1. Places(<<>>, s, K, 0, e)
      BY DEF Places
    <3> QED
      BY <3>1
  <2>2. keeping[0] \in Seq(S) /\ (\E e : Places(keeping[0], s, K, 0, e)) /\ 0 \in 0..N
    BY <1>1, <1>7, <2>1
  <2> QED
    BY <2>2
<1>9. ASSUME NEW n \in 1..N, n - 1 \in G PROVE n \in G
  <2>1. keeping[n - 1] \in Seq(S) /\ n \in 0..N
    BY <1>1, <1>9
  <2>2. PICK e : Places(keeping[n - 1], s, K, n - 1, e)
    BY <1>9
  <2>3. CASE n \in K
    <3>1. keeping[n] = Append(keeping[n - 1], s[n])
      BY <1>7, <2>3
    <3>2. keeping[n] \in Seq(S)
      BY <1>1, <2>1, <3>1
    <3>3. \E d : Places(keeping[n], s, K, n, d)
      BY <2>1, <2>2, <2>3, <3>1, PlacesGrow
    <3> QED
      BY <2>1, <3>2, <3>3
  <2>4. CASE n \notin K
    BY <1>7, <2>1, <2>2, <2>4, PlacesGrow
  <2> QED
    BY <2>3, <2>4
<1> HIDE DEF G
<1>10. 0..N \subseteq G
  BY <1>1, <1>8, <1>9, AlongTheList
<1>11. N \in G
  BY <1>1, <1>10
<1> QED
  BY <1>6, <1>11 DEF G

----------------------------------------------------------------------------
(* Fresh identifiers.                                                        *)

\* The values of a function on a finite set are finitely many.
LEMMA ValuesAreFinite ==
  ASSUME NEW S, IsFiniteSet(S), NEW f, DOMAIN f = S
  PROVE  IsFiniteSet({f[x] : x \in S})
<1> DEFINE T == {f[x] : x \in S}
           g == [x \in S |-> f[x]]
<1>1. g \in Surjection(S, T)
  BY DEF Surjection
<1> QED
  BY <1>1, FS_Surjection

\* The identifiers of a list of rules or items.
LEMMA IdsAreFinite ==
  ASSUME NEW S, NEW s \in Seq(S)
  PROVE  IsFiniteSet({s[i].id : i \in DOMAIN s})
<1> DEFINE D == DOMAIN s
           f == [i \in D |-> s[i].id]
<1>1. IsFiniteSet(D)
  <2>1. D = 1..Len(s) /\ Len(s) \in Int
    OBVIOUS
  <2> QED
    BY <2>1, FS_Interval
<1> HIDE DEF D
<1>2. DOMAIN f = D /\ {f[i] : i \in D} = {s[i].id : i \in D}
  OBVIOUS
<1> HIDE DEF f
<1>3. IsFiniteSet({f[i] : i \in D})
  BY <1>1, <1>2, ValuesAreFinite
<1> QED
  BY <1>2, <1>3 DEF D

LEMMA RuleIdsAreFinite ==
  ASSUME NEW c, PolicyOK(c)
  PROVE  IsFiniteSet(RuleIdsIn(c))
<1> DEFINE Of1(f) == {f.rules[i].id : i \in DOMAIN f.rules}
           P == c.profiles
           g == [f \in P |-> Of1(f)]
           U == {g[f] : f \in P}
<1>1. IsFiniteSet(Of1(c))
  BY IdsAreFinite DEF PolicyOK, PolicySpace
<1>2. ASSUME NEW f \in P PROVE IsFiniteSet(Of1(f))
  <2>1. f.rules \in Seq(RuleRecords)
    BY DEF PolicyOK, PolicySpace, ProfileSpace
  <2> QED
    BY <2>1, IdsAreFinite
<1>3. IsFiniteSet(P)
  BY DEF PolicyOK
<1> HIDE DEF Of1, P
<1>4. DOMAIN g = P /\ (\A u \in U : IsFiniteSet(u)) /\ U = {Of1(f) : f \in P}
  BY <1>2
<1> HIDE DEF g
<1>5. IsFiniteSet(U)
  BY <1>3, <1>4, ValuesAreFinite
<1> HIDE DEF U
<1>6. IsFiniteSet(UNION U)
  BY <1>4, <1>5, FS_UNION
<1>7. IsFiniteSet(Of1(c) \cup UNION U)
  BY <1>1, <1>6, FS_Union
<1>8. RuleIdsIn(c) = Of1(c) \cup UNION {Of1(f) : f \in P}
  BY DEF RuleIdsIn, Of1, P
<1> QED
  BY <1>4, <1>7, <1>8

LEMMA HeldIdsAreFinite ==
  ASSUME HeldOK
  PROVE  IsFiniteSet(HeldRuleIds)
<1>1. CASE held = None
  BY <1>1, FS_EmptySet DEF HeldRuleIds
<1>2. CASE held # None /\ held.op \in {"update", "delete"}
  <2>1. HeldRuleIds = {held.id}
    BY <1>2 DEF HeldRuleIds
  <2> QED
    BY <2>1, FS_Singleton
<1>3. CASE held # None /\ held.op = "duplicate"
  <2>1. HeldRuleIds = {held.rule.id}
    BY <1>3 DEF HeldRuleIds
  <2> QED
    BY <2>1, FS_Singleton
<1>4. CASE held # None /\ held.op = "reorder"
  <2>1. HeldRuleIds = {held.order[k] : k \in DOMAIN held.order} /\ held.order \in Seq(Nat)
    BY <1>4 DEF HeldRuleIds, HeldOK
  <2>2. IsFiniteSet(DOMAIN held.order)
    <3>1. DOMAIN held.order = 1..Len(held.order) /\ Len(held.order) \in Int
      BY <2>1
    <3> QED
      BY <3>1, FS_Interval
  <2> QED
    BY <2>1, <2>2, ValuesAreFinite
<1>5. CASE held # None /\ held.op = "template"
  BY <1>5, FS_EmptySet DEF HeldRuleIds
<1>6. CASE held # None /\ held.op = "import"
  <2>1. HeldRuleIds = RuleIdsIn(held.config) /\ PolicyOK(held.config)
    BY <1>6 DEF HeldRuleIds, HeldOK
  <2> QED
    BY <2>1, RuleIdsAreFinite
<1> QED
  BY <1>1, <1>2, <1>3, <1>4, <1>5, <1>6 DEF HeldOK

\* A fresh identifier is a number that nothing names.
LEMMA FreshFacts ==
  ASSUME NEW c, PolicyOK(c), HeldOK
  PROVE  FreshRule(c) \in Nat /\ FreshRule(c) \notin RuleIdsIn(c) \cup HeldRuleIds
<1> DEFINE taken == RuleIdsIn(c) \cup HeldRuleIds
           n == Cardinality(taken)
           T == (1..(n + 1)) \ taken
<1>1. IsFiniteSet(taken)
  BY RuleIdsAreFinite, HeldIdsAreFinite, FS_Union
<1>2. FreshRule(c) = Least(T)
  BY DEF FreshRule
<1> HIDE DEF taken
<1>3. n \in Nat
  BY <1>1, FS_CardinalityType
<1>4. T # {}
  <2> SUFFICES ASSUME 1..(n + 1) \subseteq taken PROVE FALSE
    OBVIOUS
  <2>1. Cardinality(1..(n + 1)) <= n
    BY <1>1, FS_Subset
  <2> HIDE DEF n
  <2>2. Cardinality(1..(n + 1)) = n + 1
    <3>1. n + 1 \in Int /\ 1 \in Int /\ ~(1 > n + 1) /\ n + 1 - 1 + 1 = n + 1
      BY <1>3
    <3> QED
      BY <3>1, FS_Interval
  <2> QED
    BY <1>3, <2>1, <2>2
<1>5. T \in SUBSET Nat /\ \A m \in T : m \notin taken
  BY <1>3
<1> HIDE DEF T
<1>6. Least(T) \in T
  BY <1>4, <1>5, LeastExists
<1> QED
  BY <1>2, <1>5, <1>6 DEF taken

----------------------------------------------------------------------------
(* The edits keep the types.                                                 *)

\* A configuration with another list of rules, or of items.
LEMMA WithLists ==
  ASSUME NEW c, PolicyOK(c), NEW rules \in Seq(RuleRecords), NEW quick \in Seq(ItemSpace)
  PROVE  /\ PolicyOK([c EXCEPT !.rules = rules])
         /\ PolicyOK([c EXCEPT !.quick = quick])
         /\ PolicyOK([c EXCEPT !.quick = quick, !.rules = rules])
BY DEF PolicyOK, PolicySpace

\* One rule of a list replaced.
LEMMA WithRuleAt ==
  ASSUME NEW c, PolicyOK(c), NEW i \in DOMAIN c.rules, NEW r \in RuleRecords
  PROVE  PolicyOK([c EXCEPT !.rules[i] = r])
<1>1. [c.rules EXCEPT ![i] = r] \in Seq(RuleRecords)
  BY DEF PolicyOK, PolicySpace
<1>2. [c EXCEPT !.rules[i] = r] = [c EXCEPT !.rules = [c.rules EXCEPT ![i] = r]]
  OBVIOUS
<1>3. PolicyOK([c EXCEPT !.rules = [c.rules EXCEPT ![i] = r]])
  BY <1>1 DEF PolicyOK, PolicySpace
<1> QED
  BY <1>2, <1>3

\* The rules requests, items and templates make.
LEMMA RuleOfType ==
  ASSUME NEW id \in Nat, NEW payload \in [sel : SUBSET Sels, prio : Priorities, act : RuleActions,
                                          dst : SUBSET Criteria,
                                          net : SUBSET {"tcp", "udp", "dns"}],
         NEW on \in BOOLEAN, NEW owner \in {None} \cup ItemIds,
         NEW key \in {None} \cup DOMAIN Template
  PROVE  RuleOf(id, payload, on, owner, key) \in RuleRecords
BY DEF RuleOf, RuleRecords

LEMMA RevisedType ==
  ASSUME NEW r \in RuleRecords, NEW payload \in Payloads
  PROVE  Revised(r, payload) \in RuleRecords
<1>1. payload \in PayloadSpace
  BY PolicyAssumption
<1> QED
  BY <1>1 DEF PayloadSpace, Revised, RuleRecords

LEMMA PlainFieldsType ==
  ASSUME NEW sel \in SUBSET Sels, NEW proxy \in RoutedIds
  PROVE  PlainFields(sel, proxy) \in PayloadSpace
<1>1. I32Max \in Nat /\ I32Max >= 100
  BY SMT DEF I32Max
<1>2. 100 \in Priorities
  BY <1>1 DEF Priorities
<1> QED
  BY <1>2 DEF PlainFields, PayloadSpace, RuleActions

LEMMA ReroutedType ==
  ASSUME NEW r \in RuleRecords, NEW sel \in SUBSET Sels, NEW proxy \in RoutedIds
  PROVE  Rerouted(r, sel, proxy) \in RuleRecords
BY DEF Rerouted, RuleRecords, RuleActions

LEMMA RefreshedType ==
  ASSUME NEW r \in RuleRecords, NEW key \in DOMAIN Template, NEW proxy \in RoutedIds
  PROVE  Refreshed(r, key, proxy) \in RuleRecords
<1>1. Template[key] \in SUBSET Sels
  BY PolicyAssumption
<1> HIDE DEF Sels
<1> QED
  BY <1>1 DEF Refreshed, RuleRecords, RuleActions

LEMMA SwitchedType ==
  ASSUME NEW rules \in Seq(RuleRecords), NEW ids, NEW on \in BOOLEAN
  PROVE  Switched(rules, ids, on) \in Seq(RuleRecords)
<1>1. \A r \in RuleRecords : [r EXCEPT !.on = on] \in RuleRecords
  BY DEF RuleRecords
<1>2. \A i \in DOMAIN rules : rules[i] \in RuleRecords
  OBVIOUS
<1> HIDE DEF RuleRecords
<1> DEFINE n == Len(rules)
<1>3. n \in Nat /\ DOMAIN rules = 1..n
  OBVIOUS
<1>4. Switched(rules, ids, on) \in [1..n -> RuleRecords]
  BY <1>1, <1>2, <1>3 DEF Switched
<1> QED
  BY <1>3, <1>4

\* The items of the quick launch bar.
LEMMA ItemType ==
  ASSUME NEW id \in ItemIds, NEW payload \in Items
  PROVE  ItemOf(id, payload) \in ItemSpace
BY PolicyAssumption DEF ItemOf, ItemSpace

LEMMA PathIsSel ==
  ASSUME NEW item \in ItemSpace
  PROVE  {<<"path", item.path>>} \in SUBSET Sels
BY DEF ItemSpace, Sels

LEMMA SyncedType ==
  ASSUME NEW c, PolicyOK(c), HeldOK, NEW item \in ItemSpace
  PROVE  PolicyOK(Synced(c, item))
<1> DEFINE at == {i \in DOMAIN c.rules : c.rules[i].owner = item.id}
           rule == ManagedRule(FreshRule(c), item)
<1>1. c.rules \in Seq(RuleRecords) /\ c.quick \in Seq(ItemSpace)
  BY DEF PolicyOK, PolicySpace
<1>2. item.proxy \in RoutedIds /\ item.id \in ItemIds
  BY DEF ItemSpace
<1>3. {<<"path", item.path>>} \in SUBSET Sels
  BY PathIsSel
<1>4. CASE ~item.bind
  <2>1. RemovedFor(c.rules, item.id) \in Seq(RuleRecords)
    BY <1>1, KeepingFacts DEF RemovedFor
  <2>2. PolicyOK([c EXCEPT !.rules = RemovedFor(c.rules, item.id)])
    BY <1>1, <2>1, WithLists
  <2> QED
    BY <1>4, <2>2 DEF Synced
<1>5. CASE item.bind /\ at = {}
  <2>1. PlainFields({<<"path", item.path>>}, item.proxy) \in PayloadSpace
    BY <1>2, <1>3, PlainFieldsType
  <2>2. rule \in RuleRecords
    BY <1>2, <2>1, FreshFacts, RuleOfType DEF ManagedRule, PayloadSpace
  <2>3. Append(c.rules, rule) \in Seq(RuleRecords)
    BY <1>1, <2>2
  <2>4. PolicyOK([c EXCEPT !.rules = Append(c.rules, rule)])
    BY <1>1, <2>3, WithLists
  <2> QED
    BY <1>5, <2>4 DEF Synced
<1>6. CASE item.bind /\ at # {}
  <2> DEFINE k == Least(at)
  <2>1. at \in SUBSET Nat
    BY <1>1
  <2>2. k \in at
    BY <1>6, <2>1, LeastExists
  <2> HIDE DEF k
  <2>3. k \in DOMAIN c.rules /\ c.rules[k] \in RuleRecords
    BY <1>1, <2>2
  <2>4. Rerouted(c.rules[k], {<<"path", item.path>>}, item.proxy) \in RuleRecords
    BY <1>2, <1>3, <2>3, ReroutedType
  <2>5. PolicyOK([c EXCEPT !.rules[k] = Rerouted(c.rules[k], {<<"path", item.path>>}, item.proxy)])
    BY <2>3, <2>4, WithRuleAt
  <2>6. Synced(c, item)
          = [c EXCEPT !.rules[k] = Rerouted(c.rules[k], {<<"path", item.path>>}, item.proxy)]
    BY <1>6 DEF Synced, k
  <2> QED
    BY <2>5, <2>6
<1> QED
  BY <1>4, <1>5, <1>6

LEMMA TemplateRuleType ==
  ASSUME NEW c, PolicyOK(c), HeldOK, NEW key \in DOMAIN Template, NEW proxy \in RoutedIds
  PROVE  PolicyOK(WithTemplateRule(c, key, proxy))
<1> DEFINE at == KeyedAt(c.rules, key)
           rule == TemplateRule(FreshRule(c), key, proxy)
<1>1. c.rules \in Seq(RuleRecords) /\ c.quick \in Seq(ItemSpace)
  BY DEF PolicyOK, PolicySpace
<1>2. CASE at = {}
  <2>1. Template[key] \in SUBSET Sels
    BY PolicyAssumption
  <2>2. PlainFields(Template[key], proxy) \in PayloadSpace
    BY <2>1, PlainFieldsType
  <2>3. rule \in RuleRecords
    BY <2>2, FreshFacts, RuleOfType DEF TemplateRule, PayloadSpace
  <2> HIDE DEF rule
  <2>4. Append(c.rules, rule) \in Seq(RuleRecords)
    BY <1>1, <2>3
  <2>5. PolicyOK([c EXCEPT !.rules = Append(c.rules, rule)])
    BY <1>1, <2>4, WithLists
  <2> QED
    BY <1>2, <2>5 DEF WithTemplateRule, rule
<1>3. CASE at # {}
  <2> DEFINE k == Least(at)
  <2>1. at \in SUBSET Nat
    BY <1>1 DEF KeyedAt
  <2>2. k \in at
    BY <1>3, <2>1, LeastExists
  <2> HIDE DEF k
  <2>3. k \in DOMAIN c.rules /\ c.rules[k] \in RuleRecords
    BY <1>1, <2>2 DEF KeyedAt
  <2>4. Refreshed(c.rules[k], key, proxy) \in RuleRecords
    BY <2>3, RefreshedType
  <2>5. PolicyOK([c EXCEPT !.rules[k] = Refreshed(c.rules[k], key, proxy)])
    BY <2>3, <2>4, WithRuleAt
  <2>6. WithTemplateRule(c, key, proxy) = [c EXCEPT !.rules[k] = Refreshed(c.rules[k], key, proxy)]
    BY <1>3 DEF WithTemplateRule, k
  <2> QED
    BY <2>5, <2>6
<1> QED
  BY <1>2, <1>3

\* A function defined by recursion along a list is the iteration of its step.
LEMMA WithTemplateIterates ==
  ASSUME NEW c, PolicyOK(c), NEW proxy \in RoutedIds, NEW S, c \in S,
         \A d \in S, n \in 1..Len(Template) : WithTemplateRule(d, n, proxy) \in S
  PROVE  WithTemplate(c, proxy) \in S
<1> DEFINE N == Len(Template)
           body(f) == [n \in 0..Len(Template) |->
                         IF n = 0 THEN c ELSE WithTemplateRule(f[n - 1], n, proxy)]
           with == CHOOSE f : f = body(f)
           step == [n \in 1..N |-> [d \in S |-> WithTemplateRule(d, n, proxy)]]
<1>1. N \in Nat
  BY PolicyAssumption
<1>2. step \in [1..N -> [S -> S]]
  OBVIOUS
<1>3. PICK f \in [0..N -> S] : f[0] = c /\ \A n \in 1..N : f[n] = step[n][f[n - 1]]
  <2> HIDE DEF step, N
  <2>1. \E f : Iteration(f, N, S, c, step)
    BY <1>1, <1>2, Iterated
  <2> QED
    BY <2>1 DEF Iteration
<1>4. f = body(f)
  <2>1. \A n \in 1..N : n - 1 \in 0..N /\ f[n - 1] \in S
    BY <1>1
  <2>2. \A n \in 1..N : f[n] = WithTemplateRule(f[n - 1], n, proxy)
    BY <1>3, <2>1
  <2>3. DOMAIN f = 0..N /\ \A n \in 0..N : n = 0 \/ n \in 1..N
    BY <1>1
  <2>4. \A n \in 0..N : f[n] = IF n = 0 THEN c ELSE WithTemplateRule(f[n - 1], n, proxy)
    BY <1>3, <2>2, <2>3
  <2> HIDE DEF step
  <2> QED
    BY <2>3, <2>4
<1>5. with = body(with)
  <2> HIDE DEF body
  <2> QED
    BY <1>4
<1>6. WithTemplate(c, proxy) = with[Len(Template)]
  BY Zenon DEF WithTemplate
<1> HIDE DEF with
<1>7. with[0] = c /\ \A n \in 1..N : with[n] = WithTemplateRule(with[n - 1], n, proxy)
  <2>1. 0 \in 0..N /\ \A n \in 1..N : n \in 0..N /\ n # 0
    BY <1>1
  <2>2. \A n \in 0..N : with[n] = IF n = 0 THEN c ELSE WithTemplateRule(with[n - 1], n, proxy)
    BY <1>5
  <2> QED
    BY <2>1, <2>2
<1> DEFINE G == {n \in 0..N : with[n] \in S}
<1>8. 0 \in G
  BY <1>1, <1>7
<1>9. ASSUME NEW n \in 1..N, n - 1 \in G PROVE n \in G
  BY <1>1, <1>7, <1>9
<1> HIDE DEF G
<1>10. 0..N \subseteq G
  BY <1>1, <1>8, <1>9, AlongTheList
<1>11. N \in G
  BY <1>1, <1>10
<1> QED
  BY <1>6, <1>11 DEF G

LEMMA WithTemplateType ==
  ASSUME NEW c, PolicyOK(c), HeldOK, NEW proxy \in RoutedIds
  PROVE  PolicyOK(WithTemplate(c, proxy))
<1> DEFINE S == {d \in PolicySpace : PolicyOK(d)}
<1>1. c \in S /\ \A d \in S : PolicyOK(d)
  BY DEF PolicyOK
<1>2. ASSUME NEW d \in S, NEW n \in 1..Len(Template)
      PROVE  WithTemplateRule(d, n, proxy) \in S
  <2>1. n \in DOMAIN Template
    BY PolicyAssumption
  <2>2. PolicyOK(WithTemplateRule(d, n, proxy))
    BY <1>1, <2>1, TemplateRuleType
  <2> QED
    BY <2>2 DEF PolicyOK
<1> HIDE DEF S
<1>3. WithTemplate(c, proxy) \in S
  BY <1>1, <1>2, WithTemplateIterates
<1> QED
  BY <1>1, <1>3

\* The reordered list has rules of the list it reorders.
LEMMA ReorderedType ==
  ASSUME NEW c, PolicyOK(c), NEW asked \in Seq(Nat)
  PROVE  Reordered(c, asked) \in Seq(RuleRecords)
<1> DEFINE K == {k \in DOMAIN asked : \E i \in DOMAIN c.rules : c.rules[i].id = asked[k]}
           order == Keeping(asked, K)
           news == {i \in DOMAIN c.rules : \A k \in DOMAIN asked : asked[k] # c.rules[i].id}
           front == [k \in DOMAIN order |-> RuleWith(c, order[k])]
<1>1. c.rules \in Seq(RuleRecords)
  BY DEF PolicyOK, PolicySpace
<1>2. Keeping(c.rules, news) \in Seq(RuleRecords)
  BY <1>1, KeepingFacts
<1>3. order \in Seq(Nat) /\ \E e : Places(order, asked, K, Len(asked), e)
  BY KeepingFacts
<1> HIDE DEF order
<1>4. ASSUME NEW k \in DOMAIN order PROVE RuleWith(c, order[k]) \in RuleRecords
  <2>1. PICK e : Places(order, asked, K, Len(asked), e)
    BY <1>3
  <2>2. k \in 1..Len(order)
    BY <1>3
  <2>3. order[k] = asked[e[k]] /\ e[k] \in K
    BY <2>1, <2>2 DEF Places
  <2>4. \E i \in DOMAIN c.rules : c.rules[i].id = order[k]
    BY <2>3
  <2> DEFINE i == CHOOSE i \in DOMAIN c.rules : c.rules[i].id = order[k]
  <2>5. i \in DOMAIN c.rules
    BY <2>4
  <2>6. RuleWith(c, order[k]) = c.rules[i]
    BY DEF RuleWith
  <2> HIDE DEF i
  <2> QED
    BY <1>1, <2>5, <2>6
<1>5. front \in Seq(RuleRecords)
  <2> DEFINE n == Len(order)
  <2>1. n \in Nat /\ DOMAIN order = 1..n
    BY <1>3
  <2> HIDE DEF n
  <2>2. front \in [1..n -> RuleRecords]
    BY <1>4, <2>1
  <2> QED
    BY <2>1, <2>2
<1>6. Reordered(c, asked) = front \o Keeping(c.rules, news)
  BY DEF Reordered, order
<1> HIDE DEF front
<1> QED
  BY <1>2, <1>5, <1>6

----------------------------------------------------------------------------
(* The inductive invariant.                                                  *)

LEMMA CommitInv ==
  ASSUME NEW new, Commit(new), PolicyOK(new), HeldOK', foreign' \in BOOLEAN
  PROVE  PInv'
BY DEF Commit, PInv

\* A transaction without a look, and one that ends a request.
LEMMA EditInv ==
  ASSUME PInv, NEW new, PolicyOK(new)
  PROVE  /\ Edit(new) => PInv'
         /\ Commit(new) /\ Done => PInv'
<1>1. CASE Edit(new)
  <2>1. HeldOK' /\ foreign' \in BOOLEAN
    BY <1>1 DEF PInv, Edit, HeldOK
  <2> QED
    BY <1>1, <2>1, CommitInv DEF Edit
<1>2. CASE Commit(new) /\ Done
  <2>1. HeldOK' /\ foreign' \in BOOLEAN
    BY <1>2 DEF PInv, Done, HeldOK
  <2> QED
    BY <1>2, <2>1, CommitInv
<1> QED
  BY <1>1, <1>2

\* A look keeps the configuration.
LEMMA LookInv ==
  ASSUME PInv, NEW request, Look(request), HeldOK'
  PROVE  PInv'
BY DEF PInv, Look

LEMMA PInitInv == PInit => PInv
BY PolicyAssumption DEF PInit, PInv, HeldOK

LEMMA RuleEdits ==
  ASSUME PInv
  PROVE  /\ \A payload \in Payloads : CreateRule(payload, TRUE) => PInv'
         /\ \A payload \in Payloads : UpdateRule(payload) => PInv'
         /\ DeleteRule => PInv'
         /\ Duplicate => PInv'
         /\ Reorder => PInv'
<1>1. PolicyOK(config) /\ HeldOK /\ config.rules \in Seq(RuleRecords)
  BY DEF PInv, PolicyOK, PolicySpace
<1>2. Payloads \subseteq PayloadSpace
  BY PolicyAssumption
<1>3. FreshRule(config) \in Nat
  BY <1>1, FreshFacts
<1>4. ASSUME NEW rules \in Seq(RuleRecords) PROVE PolicyOK([config EXCEPT !.rules = rules])
  BY <1>1, <1>4 DEF PolicyOK, PolicySpace
<1>5. ASSUME NEW payload \in Payloads, CreateRule(payload, TRUE) PROVE PInv'
  <2> DEFINE rule == RuleOf(FreshRule(config), payload, TRUE, None, None)
  <2>1. rule \in RuleRecords
    BY <1>2, <1>3, RuleOfType DEF PayloadSpace
  <2> HIDE DEF rule
  <2>2. Append(config.rules, rule) \in Seq(RuleRecords)
    BY <1>1, <2>1
  <2>3. Edit([config EXCEPT !.rules = Append(config.rules, rule)])
    BY <1>5 DEF CreateRule, rule
  <2>4. PolicyOK([config EXCEPT !.rules = Append(config.rules, rule)])
    BY <1>4, <2>2
  <2> QED
    BY <2>3, <2>4, EditInv
<1>6. ASSUME NEW payload \in Payloads, UpdateRule(payload) PROVE PInv'
  <2>1. PICK i \in DOMAIN config.rules :
          Commit([config EXCEPT !.rules[i] = Revised(config.rules[i], payload)])
    BY <1>6 DEF UpdateRule
  <2>2. Revised(config.rules[i], payload) \in RuleRecords
    BY <1>1, RevisedType
  <2>3. PolicyOK([config EXCEPT !.rules[i] = Revised(config.rules[i], payload)])
    BY <1>1, <2>2, WithRuleAt
  <2> QED
    BY <1>6, <2>1, <2>3, EditInv DEF UpdateRule
<1>7. ASSUME DeleteRule PROVE PInv'
  <2>1. Without(config.rules, held.id) \in Seq(RuleRecords)
    BY <1>1, KeepingFacts DEF Without
  <2>2. PolicyOK([config EXCEPT !.rules = Without(config.rules, held.id)])
    BY <1>4, <2>1
  <2> QED
    BY <1>7, <2>2, EditInv DEF DeleteRule
<1>8. ASSUME Duplicate PROVE PInv'
  <2> DEFINE copy == [held.rule EXCEPT !.id = FreshRule(config), !.owner = None, !.key = None]
  <2>1. held.rule \in RuleRecords
    BY <1>1, <1>8 DEF Duplicate, HeldOK
  <2>2. copy \in RuleRecords
    BY <1>3, <2>1 DEF RuleRecords
  <2> HIDE DEF copy
  <2>3. Append(config.rules, copy) \in Seq(RuleRecords)
    BY <1>1, <2>2
  <2>4. PolicyOK([config EXCEPT !.rules = Append(config.rules, copy)])
    BY <1>4, <2>3
  <2>5. Commit([config EXCEPT !.rules = Append(config.rules, copy)]) /\ Done
    BY <1>8 DEF Duplicate, copy
  <2> QED
    BY <2>4, <2>5, EditInv
<1>9. ASSUME Reorder PROVE PInv'
  <2>1. held.order \in Seq(Nat)
    BY <1>1, <1>9 DEF Reorder, HeldOK
  <2>2. Reordered(config, held.order) \in Seq(RuleRecords)
    BY <1>1, <2>1, ReorderedType
  <2>3. PolicyOK([config EXCEPT !.rules = Reordered(config, held.order)])
    BY <1>4, <2>2
  <2> QED
    BY <1>9, <2>3, EditInv DEF Reorder
<1> QED
  BY <1>5, <1>6, <1>7, <1>8, <1>9

\* The other edits of the rules, and the looks.
LEMMA RuleLooks ==
  ASSUME PInv
  PROVE  /\ \A op \in {"update", "delete"}, i \in DOMAIN config.rules :
              LookAtRule(op, config.rules[i].id) => PInv'
         /\ \A i \in DOMAIN config.rules : LookToDuplicate(i) => PInv'
         /\ \A i, j \in DOMAIN config.rules : LookToReorder(i, j) => PInv'
         /\ \A p \in RoutedIds : LookAtTemplate(p) => PInv'
         /\ ApplyTemplate => PInv'
         /\ Refused => PInv'
         /\ \A ids : \A on \in BOOLEAN : BatchEnable(ids, on) => PInv'
<1>1. PolicyOK(config) /\ HeldOK /\ config.rules \in Seq(RuleRecords)
  BY DEF PInv, PolicyOK, PolicySpace
<1>2. \A i \in DOMAIN config.rules : config.rules[i] \in RuleRecords /\ config.rules[i].id \in Nat
  <2>1. \A i \in DOMAIN config.rules : config.rules[i] \in RuleRecords
    BY <1>1
  <2>2. \A r \in RuleRecords : r.id \in Nat
    BY DEF RuleRecords
  <2> QED
    BY <2>1, <2>2
<1>3. ASSUME NEW op \in {"update", "delete"}, NEW i \in DOMAIN config.rules,
             LookAtRule(op, config.rules[i].id)
      PROVE  PInv'
  <2> DEFINE request == [op |-> op, id |-> config.rules[i].id]
  <2>1. Look(request)
    BY <1>3 DEF LookAtRule
  <2>2. HeldOK'
    BY <1>2, <2>1 DEF Look, HeldOK
  <2> QED
    BY <2>1, <2>2, LookInv
<1>4. ASSUME NEW i \in DOMAIN config.rules, LookToDuplicate(i) PROVE PInv'
  <2> DEFINE request == [op |-> "duplicate", rule |-> config.rules[i]]
  <2>1. Look(request)
    BY <1>4 DEF LookToDuplicate
  <2>2. HeldOK'
    BY <1>2, <2>1 DEF Look, HeldOK
  <2> QED
    BY <2>1, <2>2, LookInv
<1>5. ASSUME NEW i \in DOMAIN config.rules, NEW j \in DOMAIN config.rules, LookToReorder(i, j)
      PROVE  PInv'
  <2> DEFINE ids == [k \in DOMAIN config.rules |-> config.rules[k].id]
             order == [ids EXCEPT ![i] = ids[j], ![j] = ids[i]]
             request == [op |-> "reorder", order |-> order]
             n == Len(config.rules)
  <2>1. Look(request)
    BY <1>5 DEF LookToReorder
  <2>2. n \in Nat /\ DOMAIN config.rules = 1..n
    BY <1>1
  <2> HIDE DEF n
  <2>3. ids \in [1..n -> Nat]
    BY <1>2, <2>2
  <2>4. order \in [1..n -> Nat]
    BY <2>2, <2>3
  <2> HIDE DEF order
  <2>5. order \in Seq(Nat)
    BY <2>2, <2>4
  <2>6. HeldOK'
    BY <2>1, <2>5 DEF Look, HeldOK
  <2> QED
    BY <2>1, <2>6, LookInv
<1>6. ASSUME NEW p \in RoutedIds, LookAtTemplate(p) PROVE PInv'
  <2> DEFINE request == [op |-> "template", proxy |-> p]
  <2>1. Look(request)
    BY <1>6 DEF LookAtTemplate
  <2>2. HeldOK'
    BY <2>1 DEF Look, HeldOK
  <2> QED
    BY <2>1, <2>2, LookInv
<1>7. ASSUME ApplyTemplate PROVE PInv'
  <2>1. held.proxy \in RoutedIds
    BY <1>1, <1>7 DEF ApplyTemplate, HeldOK
  <2>2. PolicyOK(WithTemplate(config, held.proxy))
    BY <1>1, <2>1, WithTemplateType
  <2> QED
    BY <1>7, <2>2, EditInv DEF ApplyTemplate
<1>8. ASSUME Refused PROVE PInv'
  BY <1>8 DEF Refused, Done, PInv, HeldOK
<1>9. ASSUME NEW ids, NEW on \in BOOLEAN, BatchEnable(ids, on) PROVE PInv'
  <2>1. Switched(config.rules, ids, on) \in Seq(RuleRecords)
    BY <1>1, SwitchedType
  <2>2. PolicyOK([config EXCEPT !.rules = Switched(config.rules, ids, on)])
    BY <1>1, <2>1 DEF PolicyOK, PolicySpace
  <2> QED
    BY <1>9, <2>2, EditInv DEF BatchEnable
<1> QED
  BY <1>3, <1>4, <1>5, <1>6, <1>7, <1>8, <1>9

LEMMA ItemEdits ==
  ASSUME PInv
  PROVE  /\ \A payload \in Items : CreateItem(payload) => PInv'
         /\ \A payload \in Items, i \in DOMAIN config.quick : UpdateItem(i, payload) => PInv'
         /\ \A i \in DOMAIN config.quick : DeleteItem(i) => PInv'
         /\ \A i \in DOMAIN config.quick : LaunchItem(i) => PInv'
<1>1. /\ PolicyOK(config) /\ HeldOK
      /\ config.rules \in Seq(RuleRecords) /\ config.quick \in Seq(ItemSpace)
  BY DEF PInv, PolicyOK, PolicySpace
<1>2. \A i \in DOMAIN config.quick : config.quick[i] \in ItemSpace
  BY <1>1
<1>3. \A item \in ItemSpace : item.id \in ItemIds
  BY DEF ItemSpace
<1>4. ASSUME NEW payload \in Items, CreateItem(payload) PROVE PInv'
  <2> DEFINE T == ItemIds \ ItemIdsIn(config)
             id == Least(T)
             item == ItemOf(id, payload)
             c == [config EXCEPT !.quick = Append(config.quick, item)]
  <2>1. T # {} /\ T \in SUBSET Nat
    BY <1>4, PolicyAssumption DEF CreateItem
  <2>2. id \in ItemIds
    <3> HIDE DEF T
    <3>1. Least(T) \in T
      BY <2>1, LeastExists
    <3> QED
      BY <3>1 DEF T
  <2> HIDE DEF id
  <2>3. item \in ItemSpace
    BY <2>2, ItemType
  <2>4. Edit(Synced(c, item))
    BY <1>4 DEF CreateItem, id
  <2> HIDE DEF item
  <2>5. Append(config.quick, item) \in Seq(ItemSpace)
    BY <1>1, <2>3
  <2>6. PolicyOK(c)
    BY <1>1, <2>5, WithLists
  <2> HIDE DEF c
  <2>7. PolicyOK(Synced(c, item))
    BY <1>1, <2>3, <2>6, SyncedType
  <2> QED
    BY <2>4, <2>7, EditInv
<1>5. ASSUME NEW payload \in Items, NEW i \in DOMAIN config.quick, UpdateItem(i, payload)
      PROVE  PInv'
  <2> DEFINE item == ItemOf(config.quick[i].id, payload)
             c == [config EXCEPT !.quick = [config.quick EXCEPT ![i] = item]]
  <2>1. item \in ItemSpace
    BY <1>2, <1>3, ItemType
  <2>2. Edit(Synced(c, item))
    BY <1>5 DEF UpdateItem
  <2> HIDE DEF item
  <2>3. [config.quick EXCEPT ![i] = item] \in Seq(ItemSpace)
    BY <1>1, <2>1
  <2>4. PolicyOK(c)
    BY <1>1, <2>3, WithLists
  <2> HIDE DEF c
  <2>5. PolicyOK(Synced(c, item))
    BY <1>1, <2>1, <2>4, SyncedType
  <2> QED
    BY <2>2, <2>5, EditInv
<1>6. ASSUME NEW i \in DOMAIN config.quick, DeleteItem(i) PROVE PInv'
  <2> DEFINE id == config.quick[i].id
             c == [config EXCEPT !.quick = Without(config.quick, id),
                                 !.rules = RemovedFor(config.rules, id)]
  <2>1. Edit(c)
    BY <1>6 DEF DeleteItem
  <2>2. Without(config.quick, id) \in Seq(ItemSpace) /\ RemovedFor(config.rules, id) \in Seq(RuleRecords)
    BY <1>1, KeepingFacts DEF Without, RemovedFor
  <2>3. PolicyOK(c)
    BY <1>1, <2>2, WithLists
  <2> QED
    BY <2>1, <2>3, EditInv
<1>7. ASSUME NEW i \in DOMAIN config.quick, LaunchItem(i) PROVE PInv'
  <2>1. PolicyOK(Synced(config, config.quick[i]))
    BY <1>1, <1>2, SyncedType
  <2> QED
    BY <1>7, <2>1, EditInv DEF LaunchItem
<1> QED
  BY <1>4, <1>5, <1>6, <1>7

LEMMA ProfileEdits ==
  ASSUME PInv
  PROVE  /\ CreateProfile => PInv'
         /\ \A f \in config.profiles : CloneProfile(f) => PInv'
         /\ \A f \in config.profiles : ActivateProfile(f) => PInv'
         /\ \A f \in config.profiles : DeleteProfile(f) => PInv'
<1>1. PolicyOK(config) /\ HeldOK /\ config.profiles \subseteq ProfileSpace
  BY DEF PInv, PolicyOK, PolicySpace
<1>2. ASSUME FreshProfiles # {} PROVE Least(FreshProfiles) \in ItemIds
  <2>1. FreshProfiles \in SUBSET Nat /\ FreshProfiles \subseteq ItemIds
    BY PolicyAssumption DEF FreshProfiles
  <2>2. Least(FreshProfiles) \in FreshProfiles
    BY <1>2, <2>1, LeastExists
  <2> QED
    BY <2>1, <2>2
<1>3. ASSUME NEW g \in ProfileSpace
      PROVE  PolicyOK([config EXCEPT !.profiles = config.profiles \cup {g}])
  <2>1. IsFiniteSet(config.profiles \cup {g})
    BY <1>1, FS_AddElement DEF PolicyOK
  <2> QED
    BY <1>1, <2>1 DEF PolicyOK, PolicySpace
<1>4. ASSUME CreateProfile PROVE PInv'
  <2> DEFINE g == ProfileOf(config, Least(FreshProfiles))
  <2>1. g \in ProfileSpace
    BY <1>1, <1>2, <1>4 DEF CreateProfile, ProfileOf, ProfileSpace, PolicyOK, PolicySpace
  <2>2. Edit([config EXCEPT !.profiles = config.profiles \cup {g}])
    BY <1>4 DEF CreateProfile
  <2> HIDE DEF g
  <2>3. PolicyOK([config EXCEPT !.profiles = config.profiles \cup {g}])
    BY <1>3, <2>1
  <2> QED
    BY <2>2, <2>3, EditInv
<1>5. ASSUME NEW f \in config.profiles, CloneProfile(f) PROVE PInv'
  <2> DEFINE g == [f EXCEPT !.id = Least(FreshProfiles)]
  <2>1. g \in ProfileSpace
    BY <1>1, <1>2, <1>5 DEF CloneProfile, ProfileSpace
  <2>2. Edit([config EXCEPT !.profiles = config.profiles \cup {g}])
    BY <1>5 DEF CloneProfile
  <2> HIDE DEF g
  <2>3. PolicyOK([config EXCEPT !.profiles = config.profiles \cup {g}])
    BY <1>3, <2>1
  <2> QED
    BY <2>2, <2>3, EditInv
<1>6. ASSUME NEW f \in config.profiles, ActivateProfile(f) PROVE PInv'
  <2> DEFINE c == [config EXCEPT !.rules = f.rules, !.quick = f.quick, !.engine = f.engine,
                                 !.strict = f.strict, !.on = f.on, !.active = f.id]
  <2>1. PolicyOK(c)
    BY <1>1 DEF PolicyOK, PolicySpace, ProfileSpace
  <2>2. Edit(c)
    BY <1>6 DEF ActivateProfile
  <2> QED
    BY <2>1, <2>2, EditInv
<1>7. ASSUME NEW f \in config.profiles, DeleteProfile(f) PROVE PInv'
  <2> DEFINE active == IF config.active = f.id THEN None ELSE config.active
             c == [config EXCEPT !.profiles = config.profiles \ {f}, !.active = active]
  <2>1. active \in {None} \cup ItemIds
    BY <1>1 DEF PolicyOK, PolicySpace
  <2>2. IsFiniteSet(config.profiles \ {f})
    BY <1>1, FS_Subset DEF PolicyOK
  <2>3. Edit(c)
    BY <1>7 DEF DeleteProfile
  <2> HIDE DEF active
  <2>4. PolicyOK(c)
    BY <1>1, <2>1, <2>2 DEF PolicyOK, PolicySpace
  <2> QED
    BY <2>3, <2>4, EditInv
<1> QED
  BY <1>4, <1>5, <1>6, <1>7

LEMMA RuntimeEdits ==
  ASSUME PInv
  PROVE  /\ \A p \in RoutedIds : DeleteProxy(p) => PInv'
         /\ \A p \in RoutedIds, kind \in {"socks", "direct", "off"} : SetProxy(p, kind) => PInv'
         /\ \A mode \in {"proxifyre", "sing_box"} : ChangeEngine(mode) => PInv'
         /\ \A on, strict \in BOOLEAN : UpdateRuntime(on, strict) => PInv'
<1>1. PolicyOK(config)
  BY DEF PInv
<1>2. ASSUME NEW p \in RoutedIds, NEW kind \in {"socks", "direct", "off", "none"}
      PROVE  PolicyOK([config EXCEPT !.proxies[p] = kind])
  <2>1. [config.proxies EXCEPT ![p] = kind] \in [RoutedIds -> {"socks", "direct", "off", "none"}]
    BY <1>1 DEF PolicyOK, PolicySpace
  <2>2. [config EXCEPT !.proxies[p] = kind]
          = [config EXCEPT !.proxies = [config.proxies EXCEPT ![p] = kind]]
    OBVIOUS
  <2> QED
    BY <1>1, <2>1, <2>2 DEF PolicyOK, PolicySpace
<1>3. ASSUME NEW p \in RoutedIds, DeleteProxy(p) PROVE PInv'
  <2>1. Edit([config EXCEPT !.proxies[p] = "none"])
    BY <1>3 DEF DeleteProxy
  <2> QED
    BY <1>2, <2>1, EditInv
<1>4. ASSUME NEW p \in RoutedIds, NEW kind \in {"socks", "direct", "off"}, SetProxy(p, kind)
      PROVE  PInv'
  <2>1. Edit([config EXCEPT !.proxies[p] = kind])
    BY <1>4 DEF SetProxy
  <2> QED
    BY <1>2, <2>1, EditInv
<1>5. ASSUME NEW mode \in {"proxifyre", "sing_box"}, ChangeEngine(mode) PROVE PInv'
  <2>1. PolicyOK([config EXCEPT !.engine = mode])
    BY <1>1 DEF PolicyOK, PolicySpace, Modes
  <2> QED
    BY <1>5, <2>1, EditInv DEF ChangeEngine
<1>6. ASSUME NEW on \in BOOLEAN, NEW strict \in BOOLEAN, UpdateRuntime(on, strict) PROVE PInv'
  <2>1. PolicyOK([config EXCEPT !.on = on, !.strict = strict])
    BY <1>1 DEF PolicyOK, PolicySpace
  <2> QED
    BY <1>6, <2>1, EditInv DEF UpdateRuntime
<1> QED
  BY <1>3, <1>4, <1>5, <1>6

\* What a rule's key may be, and where it comes from.
LEMMA KeyFacts ==
  ASSUME NEW c, PolicyOK(c), NEW id
  PROVE  /\ KeyIn(c, id) \in {None} \cup DOMAIN Template
         /\ \/ KeyIn(c, id) = None
            \/ \E a \in DOMAIN c.rules : c.rules[a].id = id /\ c.rules[a].key = KeyIn(c, id)
<1> DEFINE at == {i \in DOMAIN c.rules : c.rules[i].id = id}
<1>1. c.rules \in Seq(RuleRecords)
  BY DEF PolicyOK, PolicySpace
<1>2. \A i \in DOMAIN c.rules : c.rules[i] \in RuleRecords /\ i \in Nat
  BY <1>1
<1>3. CASE at = {}
  BY <1>3 DEF KeyIn
<1>4. CASE at # {}
  <2>1. at \in SUBSET Nat
    BY <1>2
  <2>2. Least(at) \in at
    BY <1>4, <2>1, LeastExists
  <2>3. KeyIn(c, id) = c.rules[Least(at)].key
    BY <1>4 DEF KeyIn
  <2>4. c.rules[Least(at)].key \in {None} \cup DOMAIN Template
    BY <1>2, <2>2 DEF RuleRecords
  <2> QED
    BY <2>2, <2>3, <2>4
<1> QED
  BY <1>3, <1>4

\* What sanitize_template_provenance leaves of a configuration.
LEMMA SanitisedFacts ==
  ASSUME NEW c, PolicyOK(c), NEW h, PolicyOK(h)
  PROVE  LET d == Sanitised(c, h) IN
           /\ PolicyOK(d) /\ d.quick = h.quick /\ d.profiles = h.profiles
           /\ DOMAIN d.rules = DOMAIN h.rules
           /\ \A i \in DOMAIN h.rules :
                /\ d.rules[i].id = h.rules[i].id /\ d.rules[i].owner = h.rules[i].owner
                /\ d.rules[i].sel = h.rules[i].sel /\ d.rules[i].act = h.rules[i].act
                /\ d.rules[i].key = KeyIn(c, h.rules[i].id)
<1> DEFINE rule(i) == [h.rules[i] EXCEPT !.key = KeyIn(c, h.rules[i].id)]
           t == [i \in DOMAIN h.rules |-> rule(i)]
           d == [h EXCEPT !.rules = t]
<1>1. h.rules \in Seq(RuleRecords) /\ h \in PolicySpace
  BY DEF PolicyOK, PolicySpace
<1>2. ASSUME NEW i \in DOMAIN h.rules
      PROVE  /\ rule(i) \in RuleRecords
             /\ rule(i).id = h.rules[i].id /\ rule(i).owner = h.rules[i].owner
             /\ rule(i).sel = h.rules[i].sel /\ rule(i).act = h.rules[i].act
             /\ rule(i).key = KeyIn(c, h.rules[i].id)
  <2> DEFINE key == KeyIn(c, h.rules[i].id)
             r == h.rules[i]
  <2>1. key \in {None} \cup DOMAIN Template
    BY KeyFacts
  <2>2. r \in RuleRecords
    BY <1>1
  <2> HIDE DEF key, r
  <2>3. LET u == [r EXCEPT !.key = key] IN
          /\ u \in RuleRecords /\ u.id = r.id /\ u.owner = r.owner
          /\ u.sel = r.sel /\ u.act = r.act /\ u.key = key
    BY <2>1, <2>2 DEF RuleRecords
  <2> QED
    BY <2>3 DEF key, r
<1>3. Sanitised(c, h) = d
  BY DEF Sanitised
<1> HIDE DEF rule
<1>4. DOMAIN t = DOMAIN h.rules /\ \A i \in DOMAIN h.rules : t[i] = rule(i)
  OBVIOUS
<1>5. t \in Seq(RuleRecords)
  <2> DEFINE n == Len(h.rules)
  <2>1. n \in Nat /\ DOMAIN h.rules = 1..n
    BY <1>1
  <2> HIDE DEF n
  <2>2. t \in [1..n -> RuleRecords]
    BY <1>2, <2>1
  <2> HIDE DEF t
  <2> QED
    BY <2>1, <2>2
<1> HIDE DEF t
<1>6. PolicyOK(d) /\ d.rules = t /\ d.quick = h.quick /\ d.profiles = h.profiles
  BY <1>1, <1>5 DEF PolicyOK, PolicySpace
<1> HIDE DEF d
<1> QED
  BY <1>2, <1>3, <1>4, <1>6

\* Configurations that come as a whole.
LEMMA WholeConfigurations ==
  ASSUME PInv
  PROVE  /\ \A p \in RoutedIds, kind \in {"socks", "off"} : LookToImport(p, kind) => PInv'
         /\ ImportProxies => PInv'
         /\ \A c \in Proposals : PutConfig(c) => PInv'
<1>1. PolicyOK(config) /\ HeldOK
  BY DEF PInv
<1>2. ASSUME NEW p \in RoutedIds, NEW kind \in {"socks", "off"}, LookToImport(p, kind) PROVE PInv'
  <2> DEFINE merged == Merged(config, p, kind)
  <2>1. Look([op |-> "import", config |-> merged])
    BY <1>2 DEF LookToImport
  <2>2. PolicyOK(merged)
    <3> DEFINE proxies == [config.proxies EXCEPT ![p] = kind]
    <3>1. proxies \in [RoutedIds -> {"socks", "direct", "off", "none"}]
      BY <1>1 DEF PolicyOK, PolicySpace
    <3>2. merged = [config EXCEPT !.proxies = proxies]
      BY DEF Merged
    <3> HIDE DEF proxies, merged
    <3> QED
      BY <1>1, <3>1, <3>2 DEF PolicyOK, PolicySpace
  <2> HIDE DEF merged
  <2>3. HeldOK'
    BY <2>1, <2>2 DEF Look, HeldOK
  <2> QED
    BY <2>1, <2>3, LookInv
<1>3. ASSUME ImportProxies PROVE PInv'
  <2>1. PolicyOK(held.config)
    BY <1>1, <1>3 DEF ImportProxies, HeldOK
  <2>2. PolicyOK(Sanitised(config, held.config))
    BY <1>1, <2>1, SanitisedFacts
  <2> QED
    BY <1>3, <2>2, EditInv DEF ImportProxies
<1>4. ASSUME NEW c \in Proposals, PutConfig(c) PROVE PInv'
  <2>1. PolicyOK(Sanitised(config, c))
    BY <1>1, PolicyAssumption, SanitisedFacts
  <2>2. HeldOK' /\ foreign' \in BOOLEAN
    BY <1>1, <1>4 DEF PutConfig, HeldOK, PInv
  <2>3. Commit(Sanitised(config, c))
    BY <1>4 DEF PutConfig
  <2> QED
    BY <2>1, <2>2, <2>3, CommitInv
<1> QED
  BY <1>2, <1>3, <1>4

LEMMA PNextInv ==
  ASSUME PInv, [PNext]_pvars
  PROVE  PInv'
<1>1. CASE \E payload \in Payloads : CreateRule(payload, TRUE) \/ UpdateRule(payload)
  BY <1>1, RuleEdits
<1>2. CASE DeleteRule \/ Duplicate \/ Reorder
  BY <1>2, RuleEdits
<1>3. CASE ApplyTemplate \/ Refused
  BY <1>3, RuleLooks
<1>4. CASE \E op \in {"update", "delete"}, i \in DOMAIN config.rules : LookAtRule(op, config.rules[i].id)
  BY <1>4, RuleLooks
<1>5. CASE \E i \in DOMAIN config.rules : LookToDuplicate(i)
  BY <1>5, RuleLooks
<1>6. CASE \E i, j \in DOMAIN config.rules : LookToReorder(i, j)
  BY <1>6, RuleLooks
<1>7. CASE \E ids \in SUBSET {config.rules[i].id : i \in DOMAIN config.rules}, on \in BOOLEAN :
             BatchEnable(ids, on)
  <2>1. PICK ids \in SUBSET {config.rules[i].id : i \in DOMAIN config.rules}, on \in BOOLEAN :
          BatchEnable(ids, on)
    BY <1>7
  <2> QED
    BY <2>1, RuleLooks
<1>8. CASE \E payload \in Items : CreateItem(payload)
  BY <1>8, ItemEdits
<1>9. CASE \E payload \in Items, i \in DOMAIN config.quick : UpdateItem(i, payload)
  BY <1>9, ItemEdits
<1>10. CASE \E i \in DOMAIN config.quick : DeleteItem(i) \/ LaunchItem(i)
  BY <1>10, ItemEdits
<1>11. CASE CreateProfile
  BY <1>11, ProfileEdits
<1>12. CASE \E f \in config.profiles : CloneProfile(f) \/ ActivateProfile(f) \/ DeleteProfile(f)
  BY <1>12, ProfileEdits
<1>13. CASE \E p \in RoutedIds : DeleteProxy(p) \/ LookAtTemplate(p)
  BY <1>13, RuntimeEdits, RuleLooks
<1>14. CASE \E p \in RoutedIds, kind \in {"socks", "direct", "off"} : SetProxy(p, kind)
  BY <1>14, RuntimeEdits
<1>15. CASE \E mode \in {"proxifyre", "sing_box"} : ChangeEngine(mode)
  BY <1>15, RuntimeEdits
<1>16. CASE \E on, strict \in BOOLEAN : UpdateRuntime(on, strict)
  BY <1>16, RuntimeEdits
<1>17. CASE UNCHANGED pvars
  BY <1>17 DEF pvars, PInv, HeldOK
<1>18. CASE ImportProxies
  BY <1>18, WholeConfigurations
<1>19. CASE \E p \in RoutedIds, kind \in {"socks", "off"} : LookToImport(p, kind)
  BY <1>19, WholeConfigurations
<1>20. CASE \E c \in Proposals : PutConfig(c)
  BY <1>20, WholeConfigurations
<1> QED
  BY <1>1, <1>2, <1>3, <1>4, <1>5, <1>6, <1>7, <1>8, <1>9, <1>10, <1>11, <1>12, <1>13, <1>14,
     <1>15, <1>16, <1>17, <1>18, <1>19, <1>20 DEF PNext

----------------------------------------------------------------------------
(* The theorems.                                                             *)

\* Whatever is created, edited, copied, reordered, restored from a profile or
\* made from a template, and in whichever order, the configuration is one the
\* API's types allow, the validation passes and the engine accepts.
THEOREM PolicyInvariant == PSpec => []PInv
<1>1. PInit => PInv
  BY PInitInv
<1>2. PInv /\ [PNext]_pvars => PInv'
  BY PNextInv
<1> QED
  BY <1>1, <1>2, PTL DEF PSpec

\* The rules of a configuration that is in force have selectors.
LEMMA InForce ==
  ASSUME PInv
  PROVE  Listed(config)
BY DEF PInv, PolicyOK, PolicySpace, ValidPolicy, Listed

\* A Strict configuration that runs has a route for every program that one of
\* its enabled rules matches.
THEOREM StrictIsComplete == PSpec => []StrictLeavesNothingOut
<1>1. ASSUME PInv PROVE StrictLeavesNothingOut
  <2> SUFFICES ASSUME config.on, config.strict, NEW p \in Programs,
                      NEW i \in Enabled(config), RuleMatches(config.rules[i], p)
               PROVE  \E k \in Enabled(config) : \E s \in Planned(config, k) : Matches(s, p)
    BY DEF StrictLeavesNothingOut
  <2>1. Listed(config) /\ ValidPolicy(config) /\ Accepts(config)
    BY <1>1, InForce DEF PInv
  <2> QED
    BY <2>1, StrictPlansAll
<1> QED
  BY <1>1, PolicyInvariant, PTL

\* sing-box sends a connection where the simulation says, for rules with one
\* kind of selector, one priority and claims that fit.
THEOREM SingBoxAgrees == PSpec => []SingBoxFollowsEvaluation
<1>1. ASSUME PInv PROVE SingBoxFollowsEvaluation
  BY <1>1, InForce, SameFirst DEF SingBoxFollowsEvaluation, Comparable
<1> QED
  BY <1>1, PolicyInvariant, PTL

\* A rule reported as never hit is not selected by the simulator.
THEOREM ShadowedRulesLose == PSpec => []ShadowedNeverWins
<1>1. ASSUME PInv PROVE ShadowedNeverWins
  BY <1>1, InForce, ShadowedLoses DEF ShadowedNeverWins
<1> QED
  BY <1>1, PolicyInvariant, PTL

----------------------------------------------------------------------------
(* Managed rules: what an edit of a list leaves of their managers.           *)

\* What Keeping leaves of a list.
Remaining(t, s, K) ==
  /\ Unique(s) => Unique(t)
  /\ Unique(s) /\ Apart(s) => Apart(t)
  /\ \A j \in DOMAIN t : \E i \in DOMAIN s : i \in K /\ t[j] = s[i]
  /\ \A i \in DOMAIN s : i \in K => \E j \in DOMAIN t : t[j] = s[i]

LEMMA KeepingElements ==
  ASSUME NEW S, NEW s \in Seq(S), NEW K
  PROVE  Keeping(s, K) \in Seq(S) /\ Remaining(Keeping(s, K), s, K)
<1> DEFINE t == Keeping(s, K)
<1>1. t \in Seq(S) /\ \E e : Places(t, s, K, Len(s), e)
  BY KeepingFacts
<1> HIDE DEF t
<1>2. PICK e : Places(t, s, K, Len(s), e)
  BY <1>1
<1>3. DOMAIN t = 1..Len(t) /\ DOMAIN s = 1..Len(s) /\ Len(t) \in Nat
  BY <1>1
<1>4. \A j \in DOMAIN t : e[j] \in K /\ e[j] \in DOMAIN s /\ t[j] = s[e[j]]
  BY <1>2, <1>3 DEF Places
<1>5. \A j, k \in DOMAIN t : e[j] = e[k] => j = k
  <2> SUFFICES ASSUME NEW j \in DOMAIN t, NEW k \in DOMAIN t, e[j] = e[k] PROVE j = k
    OBVIOUS
  <2>1. e[j] \in Nat /\ j \in Nat /\ k \in Nat
    BY <1>3, <1>4
  <2>2. ~(j < k) /\ ~(k < j)
    BY <1>2, <1>3, <2>1 DEF Places
  <2> QED
    BY <2>1, <2>2
<1>6. \A i \in DOMAIN s : i \in K => \E j \in DOMAIN t : t[j] = s[i]
  BY <1>2, <1>3, <1>4 DEF Places
<1>7. Unique(s) => Unique(t)
  BY <1>4, <1>5 DEF Unique
<1>8. Unique(s) /\ Apart(s) => Apart(t)
  <2> SUFFICES ASSUME Unique(s), Apart(s) PROVE Apart(t)
    OBVIOUS
  <2>1. ASSUME NEW j \in DOMAIN t, NEW k \in DOMAIN t, j # k
        PROVE  /\ t[j].owner = None \/ t[j].owner # t[k].owner
               /\ t[j].key = None \/ t[j].key # t[k].key
    BY <1>4, <1>5, <2>1 DEF Apart
  <2>2. ASSUME NEW j \in DOMAIN t PROVE t[j].owner = None \/ t[j].key = None
    BY <1>4 DEF Apart
  <2> QED
    BY <2>1, <2>2 DEF Apart
<1> QED
  BY <1>1, <1>4, <1>6, <1>7, <1>8 DEF t, Remaining

\* A list with one more element.
LEMMA Appended ==
  ASSUME NEW S, NEW s \in Seq(S), NEW r \in S
  PROVE  /\ Append(s, r) \in Seq(S)
         /\ DOMAIN Append(s, r) = DOMAIN s \cup {Len(s) + 1} /\ Len(s) + 1 \notin DOMAIN s
         /\ \A i \in DOMAIN s : Append(s, r)[i] = s[i]
         /\ Append(s, r)[Len(s) + 1] = r
<1> DEFINE n == Len(s)
<1>1. n \in Nat /\ DOMAIN s = 1..n /\ 1..(n + 1) = 1..n \cup {n + 1} /\ n + 1 \notin 1..n
  OBVIOUS
<1>2. Append(s, r) \in Seq(S) /\ DOMAIN Append(s, r) = 1..(n + 1)
  OBVIOUS
<1> QED
  BY <1>1, <1>2

LEMMA AppendedApart ==
  ASSUME NEW S, NEW s \in Seq(S), NEW r \in S, Unique(s),
         \A i \in DOMAIN s : s[i].id # r.id
  PROVE  /\ Unique(Append(s, r))
         /\ Apart(s)
              /\ (r.owner = None \/ \A i \in DOMAIN s : s[i].owner # r.owner)
              /\ (r.key = None \/ \A i \in DOMAIN s : s[i].key # r.key)
              /\ (r.owner = None \/ r.key = None)
              => Apart(Append(s, r))
<1> DEFINE t == Append(s, r)
           n == Len(s) + 1
<1>1. /\ DOMAIN t = DOMAIN s \cup {n} /\ n \notin DOMAIN s
      /\ \A i \in DOMAIN s : t[i] = s[i]
      /\ t[n] = r
  BY Appended
<1> HIDE DEF t, n
<1>2. Unique(t)
  BY <1>1 DEF Unique
<1>3. ASSUME Apart(s),
             r.owner = None \/ \A i \in DOMAIN s : s[i].owner # r.owner,
             r.key = None \/ \A i \in DOMAIN s : s[i].key # r.key,
             r.owner = None \/ r.key = None
      PROVE  Apart(t)
  BY <1>1, <1>3 DEF Apart
<1> QED
  BY <1>2, <1>3 DEF t

\* The rules of a list go on matching the items when the managed ones stay as
\* they are.
LEMMA StillMatching ==
  ASSUME NEW s, NEW t, NEW quick, Matching(s, quick), Unique(t), Apart(t),
         None \notin {quick[k].id : k \in DOMAIN quick},
         \A j \in DOMAIN t : t[j].owner # None =>
           \E i \in DOMAIN s : s[i].owner = t[j].owner /\ s[i].sel = t[j].sel /\ s[i].act = t[j].act,
         \A i \in DOMAIN s : s[i].owner # None => \E j \in DOMAIN t : t[j].owner = s[i].owner
  PROVE  Matching(t, quick)
<1>1. ASSUME NEW j \in DOMAIN t, t[j].owner # None PROVE Fitting(t[j], quick)
  <2>1. PICK i \in DOMAIN s : s[i].owner = t[j].owner /\ s[i].sel = t[j].sel /\ s[i].act = t[j].act
    BY <1>1
  <2>2. Fitting(s[i], quick)
    BY <1>1, <2>1 DEF Matching
  <2> QED
    BY <2>1, <2>2 DEF Fitting
<1>2. ASSUME NEW k \in DOMAIN quick, quick[k].bind
      PROVE  \E j \in DOMAIN t : t[j].owner = quick[k].id
  <2>1. PICK i \in DOMAIN s : s[i].owner = quick[k].id
    BY <1>2 DEF Matching
  <2>2. s[i].owner # None
    BY <2>1
  <2> QED
    BY <2>1, <2>2
<1> QED
  BY <1>1, <1>2 DEF Matching

\* Another list of rules for the configuration: of the rules it has and new ones.
\* The identifier of any rule is among the identifiers.
LEMMA RuleIdOf ==
  ASSUME NEW c, NEW u \in AllRules(c)
  PROVE  u.id \in RuleIdsIn(c)
<1>1. CASE \E i \in DOMAIN c.rules : u = c.rules[i]
  BY <1>1 DEF RuleIdsIn
<1>2. CASE \E f \in c.profiles : \E i \in DOMAIN f.rules : u = f.rules[i]
  BY <1>2 DEF RuleIdsIn
<1> QED
  BY <1>1, <1>2 DEF AllRules

LEMMA OwnedRules ==
  ASSUME NEW c, PolicyOK(c), Owned(c), HeldFree(c), NEW d, NEW S, d.rules \in Seq(S),
         d.profiles = c.profiles, Matching(d.rules, d.quick),
         \A j \in DOMAIN d.rules :
           \/ \E u \in AllRules(c) : u.id = d.rules[j].id /\ u.owner = d.rules[j].owner
           \/ d.rules[j].id \notin RuleIdsIn(c) \cup HeldRuleIds
  PROVE  Owned(d) /\ HeldFree(d)
<1> DEFINE Theirs == UNION {{f.rules[i] : i \in DOMAIN f.rules} : f \in c.profiles}
           Old(r) == \E u \in AllRules(c) : u.id = r.id /\ u.owner = r.owner
           New(r) == r.id \notin RuleIdsIn(c) \cup HeldRuleIds
<1>1. AllRules(d) = {d.rules[j] : j \in DOMAIN d.rules} \cup Theirs
  BY DEF AllRules
<1>2. Theirs \subseteq AllRules(c)
  BY DEF AllRules
<1>3. \A u \in AllRules(c) : u.id \in RuleIdsIn(c)
  BY RuleIdOf
<1> HIDE DEF Theirs
<1>4. \A r \in AllRules(d) : Old(r) \/ (New(r) /\ r \notin Theirs)
  BY <1>1, <1>2, <1>3
<1>5. \A r, u \in AllRules(d) : New(r) /\ r.id = u.id => r.owner = u.owner
  <2> SUFFICES ASSUME NEW r \in AllRules(d), NEW u \in AllRules(d), New(r), r.id = u.id
               PROVE  r.owner = u.owner
    OBVIOUS
  <2>1. r \notin Theirs /\ u \notin Theirs
    BY <1>2, <1>3
  <2>2. PICK j \in DOMAIN d.rules : r = d.rules[j]
    BY <1>1, <2>1
  <2>3. PICK k \in DOMAIN d.rules : u = d.rules[k]
    BY <1>1, <2>1
  <2>4. j = k
    BY <2>2, <2>3 DEF Matching, Unique
  <2> QED
    BY <2>2, <2>3, <2>4
<1>6. Agreeing(d)
  <2> SUFFICES ASSUME NEW r \in AllRules(d), NEW u \in AllRules(d), r.id = u.id
               PROVE  r.owner = u.owner
    BY DEF Agreeing
  <2>1. CASE New(r) \/ New(u)
    BY <1>5, <2>1
  <2>2. CASE Old(r) /\ Old(u)
    BY <2>2 DEF Owned, Agreeing
  <2> QED
    BY <1>4, <2>1, <2>2
<1>7. HeldFree(d)
  <2>1. ASSUME held # None, held.op \in {"update", "delete"}, NEW r \in AllRules(d), r.id = held.id
        PROVE  r.owner = None
    <3>1. held.id \in HeldRuleIds
      BY <2>1 DEF HeldRuleIds
    <3>2. Old(r)
      BY <1>4, <2>1, <3>1
    <3> QED
      BY <2>1, <3>2 DEF HeldFree
  <2>2. ASSUME held # None, held.op = "import", NEW r \in AllRules(held.config), NEW u \in AllRules(d),
               r.id = u.id
        PROVE  r.owner = u.owner
    <3>1. u.id \in HeldRuleIds
      BY <2>2, RuleIdOf DEF HeldRuleIds
    <3>2. Old(u)
      BY <1>4, <3>1
    <3> QED
      BY <2>2, <3>2 DEF HeldFree
  <2> QED
    BY <2>1, <2>2 DEF HeldFree
<1> QED
  BY <1>6, <1>7 DEF Owned

\* No rule that was not there before.
LEMMA OwnedBefore ==
  ASSUME NEW c, Owned(c), HeldFree(c), NEW d, AllRules(d) \subseteq AllRules(c),
         Matching(d.rules, d.quick), \A f \in d.profiles : Matching(f.rules, f.quick)
  PROVE  Owned(d) /\ HeldFree(d)
<1>1. Owned(d)
  BY DEF Owned, Agreeing
<1>2. HeldFree(d)
  BY DEF HeldFree
<1> QED
  BY <1>1, <1>2

\* What the lemmas on an edit start from.
Sound(c) == PolicyOK(c) /\ Owned(c) /\ HeldFree(c)

LEMMA SoundFacts ==
  ASSUME NEW c, Sound(c)
  PROVE  /\ c.rules \in Seq(RuleRecords) /\ c.quick \in Seq(ItemSpace)
         /\ Matching(c.rules, c.quick)
         /\ None \notin {c.quick[k].id : k \in DOMAIN c.quick}
         /\ \A i \in DOMAIN c.rules : c.rules[i] \in RuleRecords /\ c.rules[i] \in AllRules(c)
                                      /\ c.rules[i].id \in RuleIdsIn(c)
<1>1. c.rules \in Seq(RuleRecords) /\ c.quick \in Seq(ItemSpace) /\ Matching(c.rules, c.quick)
  BY DEF Sound, PolicyOK, PolicySpace, Owned
<1>2. \A k \in DOMAIN c.quick : c.quick[k] \in ItemSpace
  BY <1>1
<1>3. \A item \in ItemSpace : item.id # None
  BY PolicyAssumption DEF ItemSpace
<1>4. \A i \in DOMAIN c.rules : c.rules[i] \in RuleRecords
  BY <1>1
<1>5. \A i \in DOMAIN c.rules : c.rules[i] \in AllRules(c) /\ c.rules[i].id \in RuleIdsIn(c)
  BY DEF AllRules, RuleIdsIn
<1> QED
  BY <1>1, <1>2, <1>3, <1>4, <1>5

\* An unmanaged rule is added.
LEMMA AddOwned ==
  ASSUME NEW c, Sound(c), HeldOK, NEW r \in RuleRecords, r.id = FreshRule(c), r.owner = None,
         r.key = None \/ \A i \in DOMAIN c.rules : c.rules[i].key # r.key
  PROVE  LET d == [c EXCEPT !.rules = Append(c.rules, r)] IN Owned(d) /\ HeldFree(d)
<1> DEFINE t == Append(c.rules, r)
           n == Len(c.rules) + 1
           d == [c EXCEPT !.rules = t]
<1>1. /\ c.rules \in Seq(RuleRecords) /\ Matching(c.rules, c.quick)
      /\ None \notin {c.quick[k].id : k \in DOMAIN c.quick}
      /\ \A i \in DOMAIN c.rules : c.rules[i] \in AllRules(c) /\ c.rules[i].id \in RuleIdsIn(c)
  BY SoundFacts
<1>2. r.id \notin RuleIdsIn(c) \cup HeldRuleIds
  BY FreshFacts DEF Sound
<1>3. \A i \in DOMAIN c.rules : c.rules[i].id # r.id
  BY <1>1, <1>2
<1>4. Unique(t) /\ Apart(t)
  BY <1>1, <1>3, AppendedApart DEF Matching
<1>5. /\ t \in Seq(RuleRecords) /\ DOMAIN t = DOMAIN c.rules \cup {n}
      /\ \A i \in DOMAIN c.rules : t[i] = c.rules[i]
      /\ t[n] = r
  BY <1>1, Appended
<1> HIDE DEF t, n
<1>6. Matching(t, c.quick)
  BY <1>1, <1>4, <1>5, StillMatching
<1>7. \A j \in DOMAIN t : \/ \E u \in AllRules(c) : u.id = t[j].id /\ u.owner = t[j].owner
                         \/ t[j].id \notin RuleIdsIn(c) \cup HeldRuleIds
  BY <1>1, <1>2, <1>5
<1>8. d.rules = t /\ d.quick = c.quick /\ d.profiles = c.profiles
  BY DEF Sound, PolicyOK, PolicySpace
<1> HIDE DEF d
<1>9. Owned(d) /\ HeldFree(d)
  BY <1>5, <1>6, <1>7, <1>8, OwnedRules DEF Sound
<1> QED
  BY <1>9 DEF d, t

\* The rules of a list are changed, the managed ones in nothing that matters.
LEMMA ChangeOwned ==
  ASSUME NEW c, Sound(c), NEW t \in Seq(RuleRecords), DOMAIN t = DOMAIN c.rules,
         \A i \in DOMAIN c.rules :
           /\ t[i].id = c.rules[i].id /\ t[i].owner = c.rules[i].owner /\ t[i].key = c.rules[i].key
           /\ t[i].owner = None \/ (t[i].sel = c.rules[i].sel /\ t[i].act = c.rules[i].act)
  PROVE  LET d == [c EXCEPT !.rules = t] IN Owned(d) /\ HeldFree(d)
<1> DEFINE d == [c EXCEPT !.rules = t]
<1>1. /\ Matching(c.rules, c.quick)
      /\ None \notin {c.quick[k].id : k \in DOMAIN c.quick}
      /\ \A i \in DOMAIN c.rules : c.rules[i] \in AllRules(c)
  BY SoundFacts
<1>2. Unique(t)
  BY <1>1 DEF Matching, Unique
<1>3. Apart(t)
  BY <1>1 DEF Matching, Apart
<1>4. Matching(t, c.quick)
  BY <1>1, <1>2, <1>3, StillMatching
<1>5. d.rules = t /\ d.quick = c.quick /\ d.profiles = c.profiles
  BY DEF Sound, PolicyOK, PolicySpace
<1> HIDE DEF d
<1>6. d.rules \in Seq(RuleRecords) /\ Matching(d.rules, d.quick)
  BY <1>4, <1>5
<1>7. \A j \in DOMAIN d.rules : \E u \in AllRules(c) : u.id = d.rules[j].id /\ u.owner = d.rules[j].owner
  BY <1>1, <1>5
<1>8. Owned(d) /\ HeldFree(d)
  BY <1>5, <1>6, <1>7, OwnedRules DEF Sound
<1> QED
  BY <1>8 DEF d

\* An unmanaged rule is replaced.
LEMMA ReplaceOwned ==
  ASSUME NEW c, Sound(c), NEW i \in DOMAIN c.rules, NEW r \in RuleRecords,
         r.id = c.rules[i].id, r.owner = c.rules[i].owner, r.key = c.rules[i].key, r.owner = None
  PROVE  LET d == [c EXCEPT !.rules[i] = r] IN Owned(d) /\ HeldFree(d)
<1> DEFINE t == [c.rules EXCEPT ![i] = r]
<1>1. c.rules \in Seq(RuleRecords)
  BY SoundFacts
<1>2. t \in Seq(RuleRecords) /\ DOMAIN t = DOMAIN c.rules
  BY <1>1
<1>3. t[i] = r /\ \A j \in DOMAIN c.rules : j # i => t[j] = c.rules[j]
  BY <1>1
<1>4. [c EXCEPT !.rules[i] = r] = [c EXCEPT !.rules = t]
  OBVIOUS
<1> HIDE DEF t
<1>5. LET d == [c EXCEPT !.rules = t] IN Owned(d) /\ HeldFree(d)
  BY <1>2, <1>3, ChangeOwned
<1> QED
  BY <1>4, <1>5

\* Rules are removed or reordered, the managed ones none.
LEMMA SameRules ==
  ASSUME NEW c, Sound(c), NEW t \in Seq(RuleRecords), Unique(t),
         \A j \in DOMAIN t : \E i \in DOMAIN c.rules : t[j] = c.rules[i],
         \A i \in DOMAIN c.rules : c.rules[i].owner # None => \E j \in DOMAIN t : t[j] = c.rules[i]
  PROVE  LET d == [c EXCEPT !.rules = t] IN Owned(d) /\ HeldFree(d)
<1> DEFINE d == [c EXCEPT !.rules = t]
<1>1. /\ Matching(c.rules, c.quick)
      /\ None \notin {c.quick[k].id : k \in DOMAIN c.quick}
      /\ \A i \in DOMAIN c.rules : c.rules[i] \in AllRules(c)
  BY SoundFacts
<1>2. Apart(t)
  <2>1. ASSUME NEW j \in DOMAIN t, NEW k \in DOMAIN t, j # k
        PROVE  /\ t[j].owner = None \/ t[j].owner # t[k].owner
               /\ t[j].key = None \/ t[j].key # t[k].key
    <3>1. PICK a \in DOMAIN c.rules : t[j] = c.rules[a]
      OBVIOUS
    <3>2. PICK b \in DOMAIN c.rules : t[k] = c.rules[b]
      OBVIOUS
    <3>3. a # b
      BY <2>1, <3>1, <3>2 DEF Unique
    <3> QED
      BY <1>1, <3>1, <3>2, <3>3 DEF Matching, Apart
  <2>2. ASSUME NEW j \in DOMAIN t PROVE t[j].owner = None \/ t[j].key = None
    BY <1>1 DEF Matching, Apart
  <2> QED
    BY <2>1, <2>2 DEF Apart
<1>3. \A i \in DOMAIN c.rules : c.rules[i].owner # None => \E j \in DOMAIN t : t[j].owner = c.rules[i].owner
  OBVIOUS
<1>4. \A j \in DOMAIN t : t[j].owner # None =>
        \E i \in DOMAIN c.rules :
          c.rules[i].owner = t[j].owner /\ c.rules[i].sel = t[j].sel /\ c.rules[i].act = t[j].act
  OBVIOUS
<1>5. Matching(t, c.quick)
  BY <1>1, <1>2, <1>3, <1>4, StillMatching
<1>6. d.rules = t /\ d.quick = c.quick /\ d.profiles = c.profiles
  BY DEF Sound, PolicyOK, PolicySpace
<1> HIDE DEF d
<1>7. \A j \in DOMAIN d.rules : \E u \in AllRules(c) : u.id = d.rules[j].id /\ u.owner = d.rules[j].owner
  BY <1>1, <1>6
<1>8. d.rules \in Seq(RuleRecords) /\ Matching(d.rules, d.quick)
  BY <1>5, <1>6
<1>9. Owned(d) /\ HeldFree(d)
  BY <1>6, <1>7, <1>8, OwnedRules DEF Sound
<1> QED
  BY <1>9 DEF d

LEMMA RemoveOwned ==
  ASSUME NEW c, Sound(c), NEW K, \A i \in DOMAIN c.rules : c.rules[i].owner = None \/ i \in K
  PROVE  LET d == [c EXCEPT !.rules = Keeping(c.rules, K)] IN Owned(d) /\ HeldFree(d)
<1> DEFINE t == Keeping(c.rules, K)
<1>1. c.rules \in Seq(RuleRecords) /\ Matching(c.rules, c.quick)
  BY SoundFacts
<1>2. t \in Seq(RuleRecords) /\ Remaining(t, c.rules, K)
  BY <1>1, KeepingElements
<1> HIDE DEF t
<1>3. /\ Unique(t)
      /\ \A j \in DOMAIN t : \E i \in DOMAIN c.rules : t[j] = c.rules[i]
      /\ \A i \in DOMAIN c.rules : c.rules[i].owner # None => \E j \in DOMAIN t : t[j] = c.rules[i]
  BY <1>1, <1>2 DEF Remaining, Matching
<1>4. LET d == [c EXCEPT !.rules = t] IN Owned(d) /\ HeldFree(d)
  BY <1>2, <1>3, SameRules
<1> QED
  BY <1>4 DEF t

\* A new order has every rule once.
LEMMA ReorderedRules ==
  ASSUME NEW c, c.rules \in Seq(RuleRecords), Unique(c.rules), NEW asked \in Seq(Nat),
         \A i, j \in DOMAIN asked : asked[i] = asked[j] => i = j
  PROVE  LET t == Reordered(c, asked)
         IN  /\ t \in Seq(RuleRecords) /\ Unique(t)
             /\ \A j \in DOMAIN t : \E i \in DOMAIN c.rules : t[j] = c.rules[i]
             /\ \A i \in DOMAIN c.rules : \E j \in DOMAIN t : t[j] = c.rules[i]
<1> DEFINE K == {k \in DOMAIN asked : \E i \in DOMAIN c.rules : c.rules[i].id = asked[k]}
           order == Keeping(asked, K)
           news == {i \in DOMAIN c.rules : \A k \in DOMAIN asked : asked[k] # c.rules[i].id}
           front == [k \in DOMAIN order |-> RuleWith(c, order[k])]
           back == Keeping(c.rules, news)
           t == Reordered(c, asked)
<1>1. back \in Seq(RuleRecords) /\ Remaining(back, c.rules, news)
  BY KeepingElements
<1>2. order \in Seq(Nat) /\ \E e : Places(order, asked, K, Len(asked), e)
  BY KeepingFacts
<1>3. t = front \o back
  BY DEF Reordered
<1> HIDE DEF order, back, t
<1>4. PICK e : Places(order, asked, K, Len(asked), e)
  BY <1>2
<1>5. DOMAIN order = 1..Len(order) /\ Len(order) \in Nat /\ DOMAIN asked = 1..Len(asked)
  BY <1>2
<1>6. \A k \in DOMAIN order : e[k] \in DOMAIN asked /\ e[k] \in Nat /\ e[k] \in K /\ order[k] = asked[e[k]]
  BY <1>4, <1>5 DEF Places
<1>7. \A k, m \in DOMAIN order : order[k] = order[m] => k = m
  <2> SUFFICES ASSUME NEW k \in DOMAIN order, NEW m \in DOMAIN order, order[k] = order[m] PROVE k = m
    OBVIOUS
  <2>1. e[k] = e[m]
    BY <1>6
  <2>2. ~(k < m) /\ ~(m < k)
    BY <1>4, <1>5, <1>6, <2>1 DEF Places
  <2> QED
    BY <1>5, <2>2
<1>8. \A k \in DOMAIN order : \E i \in DOMAIN c.rules : front[k] = c.rules[i] /\ c.rules[i].id = order[k]
  <2> SUFFICES ASSUME NEW k \in DOMAIN order
               PROVE  \E i \in DOMAIN c.rules : front[k] = c.rules[i] /\ c.rules[i].id = order[k]
    OBVIOUS
  <2> DEFINE i == CHOOSE i \in DOMAIN c.rules : c.rules[i].id = order[k]
  <2>1. \E x \in DOMAIN c.rules : c.rules[x].id = order[k]
    BY <1>6
  <2>2. i \in DOMAIN c.rules /\ c.rules[i].id = order[k]
    BY <2>1
  <2>3. front[k] = c.rules[i]
    BY DEF RuleWith
  <2> HIDE DEF i
  <2> QED
    BY <2>2, <2>3
<1>9. front \in Seq(RuleRecords) /\ DOMAIN front = DOMAIN order /\ Len(front) = Len(order)
  <2> DEFINE n == Len(order)
  <2>1. \A k \in DOMAIN order : front[k] \in RuleRecords
    BY <1>8
  <2>2. DOMAIN front = 1..n /\ n \in Nat
    BY <1>5
  <2> HIDE DEF n
  <2>3. front \in [1..n -> RuleRecords]
    BY <1>5, <2>1, <2>2 DEF n
  <2>4. front \in Seq(RuleRecords) /\ Len(front) = n
    <3> HIDE DEF front
    <3> QED
      BY <2>2, <2>3
  <2> QED
    BY <2>4 DEF n
<1> HIDE DEF front
<1> DEFINE n == Len(order)
           m == Len(back)
<1>10. /\ t \in Seq(RuleRecords) /\ DOMAIN t = 1..(n + m) /\ n \in Nat /\ m \in Nat
       /\ \A j \in 1..n : t[j] = front[j]
       /\ \A j \in 1..m : t[n + j] = back[j]
  <2> DEFINE Q == RuleRecords
  <2>1. front \in Seq(Q) /\ back \in Seq(Q) /\ t = front \o back
    BY <1>1, <1>3, <1>9
  <2> HIDE DEF Q
  <2>2. t \in Seq(Q)
    BY <2>1
  <2>3. Len(t) = Len(front) + Len(back) /\ DOMAIN t = 1..Len(t)
    BY <2>1
  <2>4. \A j \in 1..Len(front) : t[j] = front[j]
    BY <2>1
  <2>5. \A j \in 1..Len(back) : t[Len(front) + j] = back[j]
    BY <2>1
  <2>6. n = Len(front) /\ n \in Nat /\ m \in Nat
    BY <1>5, <1>9, <2>1
  <2> QED
    BY <2>2, <2>3, <2>4, <2>5, <2>6 DEF Q
<1>11. DOMAIN back = 1..m
  BY <1>1
<1> HIDE DEF n, m
<1>12. \A j \in DOMAIN t : j \in 1..n \/ (j - n \in 1..m /\ j = n + (j - n) /\ t[j] = back[j - n])
  <2> SUFFICES ASSUME NEW j \in DOMAIN t, j \notin 1..n PROVE j - n \in 1..m /\ t[j] = back[j - n]
    BY <1>10
  <2>1. j - n \in 1..m /\ n + (j - n) = j
    BY <1>10
  <2> QED
    BY <1>10, <2>1
<1>13. \A j \in 1..n : t[j] = front[j] /\ j \in DOMAIN order
  BY <1>5, <1>10 DEF n
<1>14. \A j \in 1..m : \E i \in DOMAIN c.rules : i \in news /\ back[j] = c.rules[i]
  BY <1>1, <1>11 DEF Remaining
<1>15. \A j \in DOMAIN t : \E i \in DOMAIN c.rules : t[j] = c.rules[i]
  BY <1>8, <1>12, <1>13, <1>14
<1>16. \A i \in DOMAIN c.rules : \E j \in DOMAIN t : t[j] = c.rules[i]
  <2> SUFFICES ASSUME NEW i \in DOMAIN c.rules PROVE \E j \in DOMAIN t : t[j] = c.rules[i]
    OBVIOUS
  <2>1. CASE i \in news
    <3>1. PICK j \in 1..m : back[j] = c.rules[i]
      BY <1>1, <1>11, <2>1 DEF Remaining
    <3>2. n + j \in DOMAIN t /\ t[n + j] = back[j]
      BY <1>10
    <3> QED
      BY <3>1, <3>2
  <2>2. CASE i \notin news
    <3>1. PICK k \in DOMAIN asked : asked[k] = c.rules[i].id
      BY <2>2
    <3>2. k \in K \cap (1..Len(asked))
      BY <1>5, <3>1
    <3>3. PICK j \in 1..Len(order) : e[j] = k
      BY <1>4, <3>2 DEF Places
    <3>4. order[j] = c.rules[i].id /\ j \in DOMAIN order
      BY <1>5, <1>6, <3>1, <3>3
    <3>5. front[j] = c.rules[i]
      BY <1>8, <3>4 DEF Unique
    <3>6. j \in DOMAIN t /\ t[j] = front[j]
      BY <1>10, <3>3 DEF n
    <3> QED
      BY <3>5, <3>6
  <2> QED
    BY <2>1, <2>2
<1>17. \A j \in 1..n : t[j].id = order[j] /\ \E k \in DOMAIN asked : asked[k] = t[j].id
  BY <1>6, <1>8, <1>13
<1>18. \A j \in 1..m : \A k \in DOMAIN asked : asked[k] # back[j].id
  BY <1>14
<1>19. Unique(back)
  BY <1>1 DEF Remaining
<1>20. Unique(t)
  <2> SUFFICES ASSUME NEW j \in DOMAIN t, NEW k \in DOMAIN t, t[j].id = t[k].id PROVE j = k
    BY DEF Unique
  <2>1. CASE j \in 1..n /\ k \in 1..n
    BY <1>7, <1>13, <1>17, <2>1
  <2>2. CASE j \in 1..n /\ k \notin 1..n
    BY <1>12, <1>17, <1>18, <2>2
  <2>3. CASE j \notin 1..n /\ k \in 1..n
    BY <1>12, <1>17, <1>18, <2>3
  <2>4. CASE j \notin 1..n /\ k \notin 1..n
    <3>1. j - n = k - n
      BY <1>11, <1>12, <1>19, <2>4 DEF Unique
    <3> QED
      BY <1>10, <3>1
  <2> QED
    BY <2>1, <2>2, <2>3, <2>4
<1> QED
  BY <1>10, <1>15, <1>16, <1>20 DEF t

\* sync_quickbar_managed_rule, after the items were changed to quick: the rules
\* of the other items are right, and that of item m becomes so.
LEMMA SyncedOwned ==
  ASSUME NEW c, Sound(c), HeldOK, NEW quick \in Seq(ItemSpace), Unique(quick), NEW m \in DOMAIN quick,
         \A i \in DOMAIN c.rules :
           c.rules[i].owner = None \/ c.rules[i].owner = quick[m].id \/ Fitting(c.rules[i], quick),
         \A k \in DOMAIN quick :
           k = m \/ ~quick[k].bind \/ \E i \in DOMAIN c.rules : c.rules[i].owner = quick[k].id
  PROVE  LET d == Synced([c EXCEPT !.quick = quick], quick[m]) IN Owned(d) /\ HeldFree(d)
<1> DEFINE b == [c EXCEPT !.quick = quick]
           item == quick[m]
           d == Synced(b, item)
           at == {i \in DOMAIN c.rules : c.rules[i].owner = item.id}
<1>1. /\ c.rules \in Seq(RuleRecords) /\ Unique(c.rules) /\ Apart(c.rules)
      /\ \A i \in DOMAIN c.rules : /\ c.rules[i] \in RuleRecords /\ c.rules[i] \in AllRules(c)
                                   /\ c.rules[i].id \in RuleIdsIn(c)
  BY SoundFacts DEF Matching
<1>2. item \in ItemSpace /\ item.id \in ItemIds /\ item.id # None /\ item.proxy \in RoutedIds
  <2>1. item \in ItemSpace
    OBVIOUS
  <2> HIDE DEF item
  <2>2. item.id \in ItemIds /\ item.proxy \in RoutedIds
    BY <2>1 DEF ItemSpace
  <2> QED
    BY <2>1, <2>2, PolicyAssumption
<1>3. b.rules = c.rules /\ b.quick = quick /\ b.profiles = c.profiles /\ PolicyOK(b)
  BY DEF Sound, PolicyOK, PolicySpace
<1>4. FreshRule(b) \in Nat /\ FreshRule(b) \notin RuleIdsIn(c) \cup HeldRuleIds
  <2>1. FreshRule(b) \in Nat /\ FreshRule(b) \notin RuleIdsIn(b) \cup HeldRuleIds
    BY <1>3, FreshFacts
  <2>2. RuleIdsIn(b) = RuleIdsIn(c)
    BY <1>3 DEF RuleIdsIn
  <2> QED
    BY <2>1, <2>2
<1> HIDE DEF b
<1>5. ASSUME NEW t \in Seq(RuleRecords), d = [b EXCEPT !.rules = t], Matching(t, quick),
             \A j \in DOMAIN t :
               \/ \E u \in AllRules(c) : u.id = t[j].id /\ u.owner = t[j].owner
               \/ t[j].id \notin RuleIdsIn(c) \cup HeldRuleIds
      PROVE  Owned(d) /\ HeldFree(d)
  <2>1. d.rules = t /\ d.quick = quick /\ d.profiles = c.profiles
    BY <1>3, <1>5 DEF PolicyOK, PolicySpace
  <2> HIDE DEF d
  <2>2. /\ d.rules \in Seq(RuleRecords) /\ d.profiles = c.profiles /\ Matching(d.rules, d.quick)
        /\ \A j \in DOMAIN d.rules :
             \/ \E u \in AllRules(c) : u.id = d.rules[j].id /\ u.owner = d.rules[j].owner
             \/ d.rules[j].id \notin RuleIdsIn(c) \cup HeldRuleIds
    BY <1>5, <2>1
  <2>3. PolicyOK(c) /\ Owned(c) /\ HeldFree(c)
    BY DEF Sound
  <2> QED
    BY <2>2, <2>3, OwnedRules
<1> SUFFICES Owned(d) /\ HeldFree(d)
  BY DEF b
<1>6. CASE ~item.bind
  <2> DEFINE K == {i \in DOMAIN c.rules : c.rules[i].owner # item.id}
             t == Keeping(c.rules, K)
  <2>1. t \in Seq(RuleRecords) /\ Remaining(t, c.rules, K)
    BY <1>1, KeepingElements
  <2>2. d = [b EXCEPT !.rules = t]
    BY <1>3, <1>6 DEF Synced, RemovedFor
  <2> HIDE DEF t, d
  <2>3. /\ Unique(t) /\ Apart(t)
        /\ \A j \in DOMAIN t : \E i \in DOMAIN c.rules : t[j] = c.rules[i] /\ c.rules[i].owner # item.id
        /\ \A i \in DOMAIN c.rules : c.rules[i].owner # item.id => \E j \in DOMAIN t : t[j] = c.rules[i]
    BY <1>1, <2>1 DEF Remaining
  <2>4. \A j \in DOMAIN t : t[j].owner # None => Fitting(t[j], quick)
    BY <2>3
  <2>5. ASSUME NEW k \in DOMAIN quick, quick[k].bind PROVE \E j \in DOMAIN t : t[j].owner = quick[k].id
    <3>1. k # m
      BY <1>6, <2>5
    <3>2. PICK i \in DOMAIN c.rules : c.rules[i].owner = quick[k].id
      BY <2>5, <3>1
    <3>3. quick[k].id # item.id
      BY <3>1 DEF Unique
    <3> QED
      BY <2>3, <3>2, <3>3
  <2>6. Matching(t, quick)
    BY <2>3, <2>4, <2>5 DEF Matching
  <2>7. \A j \in DOMAIN t : \E u \in AllRules(c) : u.id = t[j].id /\ u.owner = t[j].owner
    BY <1>1, <2>3
  <2> QED
    BY <1>5, <2>1, <2>2, <2>6, <2>7
<1>7. CASE item.bind /\ at = {}
  <2> DEFINE r == ManagedRule(FreshRule(b), item)
             t == Append(c.rules, r)
             n == Len(c.rules) + 1
  <2>1. {<<"path", item.path>>} \in SUBSET Sels
    BY <1>2, PathIsSel
  <2>2. PlainFields({<<"path", item.path>>}, item.proxy) \in PayloadSpace
    BY <1>2, <2>1, PlainFieldsType
  <2>3. r \in RuleRecords
    BY <1>2, <1>4, <2>2, RuleOfType DEF ManagedRule, PayloadSpace
  <2>4. /\ r.id = FreshRule(b) /\ r.owner = item.id /\ r.key = None
        /\ r.sel = {<<"path", item.path>>} /\ r.act = item.proxy
    BY DEF ManagedRule, RuleOf, PlainFields
  <2>5. d = [b EXCEPT !.rules = t]
    BY <1>3, <1>7 DEF Synced
  <2> HIDE DEF r, d
  <2>6. /\ t \in Seq(RuleRecords) /\ DOMAIN t = DOMAIN c.rules \cup {n}
        /\ \A i \in DOMAIN c.rules : t[i] = c.rules[i]
        /\ t[n] = r
    BY <1>1, <2>3, Appended
  <2>7. Unique(t) /\ Apart(t)
    <3>1. \A i \in DOMAIN c.rules : c.rules[i].id # r.id /\ c.rules[i].owner # r.owner
      BY <1>1, <1>4, <1>7, <2>4
    <3> HIDE DEF t
    <3> QED
      BY <1>1, <2>3, <2>4, <3>1, AppendedApart DEF t
  <2> HIDE DEF t, n
  <2>8. \A j \in DOMAIN t : t[j].owner # None => Fitting(t[j], quick)
    <3>1. Fitting(r, quick)
      BY <1>7, <2>4 DEF Fitting
    <3>2. \A i \in DOMAIN c.rules : c.rules[i].owner # item.id
      BY <1>7
    <3> QED
      BY <2>6, <3>1, <3>2
  <2>9. ASSUME NEW k \in DOMAIN quick, quick[k].bind PROVE \E j \in DOMAIN t : t[j].owner = quick[k].id
    BY <2>4, <2>6, <2>9
  <2>10. Matching(t, quick)
    BY <2>7, <2>8, <2>9 DEF Matching
  <2>11. \A j \in DOMAIN t : \/ \E u \in AllRules(c) : u.id = t[j].id /\ u.owner = t[j].owner
                            \/ t[j].id \notin RuleIdsIn(c) \cup HeldRuleIds
    BY <1>1, <1>4, <2>4, <2>6
  <2> QED
    BY <1>5, <2>5, <2>6, <2>10, <2>11
<1>8. CASE item.bind /\ at # {}
  <2> DEFINE x == Least(at)
             r == Rerouted(c.rules[x], {<<"path", item.path>>}, item.proxy)
             t == [c.rules EXCEPT ![x] = r]
  <2>1. x \in at
    <3>1. at \in SUBSET Nat
      BY <1>1
    <3> QED
      BY <1>8, <3>1, LeastExists
  <2>2. d = [b EXCEPT !.rules = t]
    <3>1. d = [b EXCEPT !.rules[Least(at)] = Rerouted(b.rules[Least(at)], {<<"path", item.path>>}, item.proxy)]
      BY <1>3, <1>8 DEF Synced
    <3> QED
      BY <1>3, <3>1
  <2> HIDE DEF x, d
  <2>3. x \in DOMAIN c.rules /\ c.rules[x].owner = item.id
    BY <2>1
  <2>4. c.rules[x] \in RuleRecords
    BY <1>1, <2>3
  <2>5. {<<"path", item.path>>} \in SUBSET Sels
    BY <1>2, PathIsSel
  <2>6. r \in RuleRecords
    BY <1>2, <2>4, <2>5, ReroutedType
  <2>7. /\ r.id = c.rules[x].id /\ r.owner = item.id /\ r.key = c.rules[x].key
        /\ r.sel = {<<"path", item.path>>} /\ r.act = item.proxy
    BY <2>3, <2>4 DEF Rerouted, RuleRecords
  <2> HIDE DEF r
  <2>8. /\ t \in Seq(RuleRecords) /\ DOMAIN t = DOMAIN c.rules /\ t[x] = r
        /\ \A i \in DOMAIN c.rules : i # x => t[i] = c.rules[i]
    BY <1>1, <2>3, <2>6
  <2> HIDE DEF t
  <2>9. Unique(t)
    BY <1>1, <2>3, <2>7, <2>8 DEF Unique
  <2>10. Apart(t)
    <3>1. /\ Apart(c.rules)
          /\ \A j \in DOMAIN t : t[j].owner = c.rules[j].owner /\ t[j].key = c.rules[j].key
      BY <1>1, <2>3, <2>7, <2>8
    <3> QED
      BY <2>8, <3>1 DEF Apart
  <2>11. \A j \in DOMAIN t : t[j].owner # None => Fitting(t[j], quick)
    <3>1. Fitting(r, quick)
      BY <1>8, <2>7 DEF Fitting
    <3>2. \A i \in DOMAIN c.rules : i # x => c.rules[i].owner # item.id
      BY <1>1, <1>2, <2>3 DEF Apart
    <3> QED
      BY <2>8, <3>1, <3>2
  <2>12. ASSUME NEW k \in DOMAIN quick, quick[k].bind PROVE \E j \in DOMAIN t : t[j].owner = quick[k].id
    <3>1. CASE k = m
      BY <2>3, <2>7, <2>8, <3>1
    <3>2. CASE k # m
      <4>1. PICK i \in DOMAIN c.rules : c.rules[i].owner = quick[k].id
        BY <2>12, <3>2
      <4>2. t[i].owner = c.rules[i].owner
        BY <2>3, <2>7, <2>8
      <4> QED
        BY <2>8, <4>1, <4>2
    <3> QED
      BY <3>1, <3>2
  <2>13. Matching(t, quick)
    BY <2>9, <2>10, <2>11, <2>12 DEF Matching
  <2>14. \A j \in DOMAIN t : \E u \in AllRules(c) : u.id = t[j].id /\ u.owner = t[j].owner
    BY <1>1, <2>3, <2>7, <2>8
  <2> QED
    BY <1>5, <2>2, <2>8, <2>13, <2>14
<1> QED
  BY <1>6, <1>7, <1>8

\* apply_template adds rules and refreshes its own, none of which is managed
\* by the quick launch bar.
LEMMA TemplateRuleOwned ==
  ASSUME NEW c, Sound(c), HeldOK, NEW key \in DOMAIN Template, NEW proxy \in RoutedIds
  PROVE  Sound(WithTemplateRule(c, key, proxy))
<1> DEFINE at == KeyedAt(c.rules, key)
           d == WithTemplateRule(c, key, proxy)
<1>1. /\ c.rules \in Seq(RuleRecords) /\ Apart(c.rules)
      /\ \A i \in DOMAIN c.rules : c.rules[i] \in RuleRecords
  BY SoundFacts DEF Matching
<1>2. PolicyOK(d)
  BY TemplateRuleType DEF Sound
<1>3. key # None
  BY PolicyAssumption
<1>4. CASE at = {}
  <2> DEFINE r == TemplateRule(FreshRule(c), key, proxy)
  <2>1. Template[key] \in SUBSET Sels
    BY PolicyAssumption
  <2>2. PlainFields(Template[key], proxy) \in PayloadSpace
    BY <2>1, PlainFieldsType
  <2>3. r \in RuleRecords
    BY <2>2, FreshFacts, RuleOfType DEF TemplateRule, PayloadSpace, Sound
  <2>4. r.id = FreshRule(c) /\ r.owner = None /\ r.key = key
    BY DEF TemplateRule, RuleOf
  <2>5. d = [c EXCEPT !.rules = Append(c.rules, r)]
    BY <1>4 DEF WithTemplateRule
  <2>6. \A i \in DOMAIN c.rules : c.rules[i].key # key
    BY <1>4 DEF KeyedAt
  <2> HIDE DEF r, d
  <2>7. LET x == [c EXCEPT !.rules = Append(c.rules, r)] IN Owned(x) /\ HeldFree(x)
    BY <2>3, <2>4, <2>6, AddOwned
  <2> QED
    BY <1>2, <2>5, <2>7 DEF Sound, d
<1>5. CASE at # {}
  <2> DEFINE x == Least(at)
             r == Refreshed(c.rules[x], key, proxy)
  <2>1. x \in at
    <3>1. at \in SUBSET Nat
      BY <1>1 DEF KeyedAt
    <3> QED
      BY <1>5, <3>1, LeastExists
  <2>2. d = [c EXCEPT !.rules[x] = r]
    BY <1>5 DEF WithTemplateRule
  <2> HIDE DEF x, d
  <2>3. x \in DOMAIN c.rules /\ c.rules[x].key = key
    BY <2>1 DEF KeyedAt
  <2>4. c.rules[x] \in RuleRecords /\ c.rules[x].owner = None
    BY <1>1, <1>3, <2>3 DEF Apart
  <2>5. r \in RuleRecords
    BY <2>4, RefreshedType
  <2>6. r.id = c.rules[x].id /\ r.owner = c.rules[x].owner /\ r.key = c.rules[x].key
    BY <2>4 DEF Refreshed, RuleRecords
  <2> HIDE DEF r
  <2>7. LET y == [c EXCEPT !.rules[x] = r] IN Owned(y) /\ HeldFree(y)
    BY <2>3, <2>4, <2>5, <2>6, ReplaceOwned
  <2> QED
    BY <1>2, <2>2, <2>7 DEF Sound, d
<1> QED
  BY <1>4, <1>5

LEMMA WithTemplateOwned ==
  ASSUME NEW c, Sound(c), HeldOK, NEW proxy \in RoutedIds
  PROVE  Sound(WithTemplate(c, proxy))
<1> DEFINE S == {d \in PolicySpace : Sound(d)}
<1>1. PolicyOK(c) /\ c \in S /\ \A d \in S : Sound(d)
  BY DEF Sound, PolicyOK
<1>2. ASSUME NEW d \in S, NEW n \in 1..Len(Template)
      PROVE  WithTemplateRule(d, n, proxy) \in S
  <2>1. n \in DOMAIN Template
    BY PolicyAssumption
  <2>2. Sound(WithTemplateRule(d, n, proxy))
    BY <1>1, <2>1, TemplateRuleOwned
  <2> QED
    BY <2>2 DEF Sound, PolicyOK
<1> HIDE DEF S
<1>3. WithTemplate(c, proxy) \in S
  BY <1>1, <1>2, WithTemplateIterates
<1> QED
  BY <1>1, <1>3

\* The transactions, as for the types; what a request has in its hands is gone
\* with it.
Managing == Owned(config) /\ HeldFree(config)

Kept == PInv /\ Managing

LEMMA EditOwned ==
  ASSUME NEW new, Owned(new)
  PROVE  /\ Edit(new) /\ HeldFree(new) => Managing'
         /\ Commit(new) /\ Done => Managing'
<1>1. CASE Edit(new) /\ HeldFree(new)
  <2>1. config' = new /\ held' = held
    BY <1>1 DEF Edit, Commit
  <2>2. Owned(config)'
    BY <2>1
  <2>3. HeldFree(config)'
    BY <1>1, <2>1 DEF HeldFree
  <2> QED
    BY <2>2, <2>3 DEF Managing
<1>2. CASE Commit(new) /\ Done
  <2>1. config' = new /\ held' = None
    BY <1>2 DEF Done, Commit
  <2> QED
    BY <2>1 DEF Managing, HeldFree
<1> QED
  BY <1>1, <1>2

LEMMA RuleEditsOwned ==
  ASSUME Kept
  PROVE  /\ \A payload \in Payloads : CreateRule(payload, TRUE) => Managing'
         /\ \A payload \in Payloads : UpdateRule(payload) => Managing'
         /\ DeleteRule => Managing'
         /\ Duplicate => Managing'
         /\ Reorder => Managing'
         /\ ApplyTemplate => Managing'
         /\ \A ids : \A on \in BOOLEAN : BatchEnable(ids, on) => Managing'
<1>1. Sound(config) /\ HeldOK /\ PolicyOK(config)
  BY DEF Kept, Managing, PInv, Sound
<1>2. /\ config.rules \in Seq(RuleRecords) /\ Matching(config.rules, config.quick)
      /\ \A i \in DOMAIN config.rules : config.rules[i] \in RuleRecords /\ config.rules[i] \in AllRules(config)
  BY <1>1, SoundFacts
<1>3. FreshRule(config) \in Nat
  BY <1>1, FreshFacts
<1>4. ASSUME NEW r \in RuleRecords, r.id = FreshRule(config), r.owner = None, r.key = None
      PROVE  LET d == [config EXCEPT !.rules = Append(config.rules, r)] IN Owned(d) /\ HeldFree(d)
  BY <1>1, <1>4, AddOwned
<1>5. ASSUME NEW payload \in Payloads, CreateRule(payload, TRUE) PROVE Managing'
  <2> DEFINE r == RuleOf(FreshRule(config), payload, TRUE, None, None)
             d == [config EXCEPT !.rules = Append(config.rules, r)]
  <2>1. payload \in PayloadSpace
    BY PolicyAssumption
  <2>2. r \in RuleRecords
    BY <1>3, <2>1, RuleOfType DEF PayloadSpace
  <2>3. r.id = FreshRule(config) /\ r.owner = None /\ r.key = None
    BY DEF RuleOf
  <2>4. Edit(d)
    BY <1>5 DEF CreateRule
  <2> HIDE DEF r
  <2>5. Owned(d) /\ HeldFree(d)
    BY <1>4, <2>2, <2>3
  <2> HIDE DEF d
  <2> QED
    BY <2>4, <2>5, EditOwned
<1>6. ASSUME NEW payload \in Payloads, UpdateRule(payload) PROVE Managing'
  <2>1. PICK i \in DOMAIN config.rules :
          /\ config.rules[i].id = held.id
          /\ Commit([config EXCEPT !.rules[i] = Revised(config.rules[i], payload)])
    BY <1>6 DEF UpdateRule
  <2> DEFINE r == Revised(config.rules[i], payload)
             d == [config EXCEPT !.rules[i] = r]
  <2>2. config.rules[i].owner = None
    BY <1>1, <1>2, <1>6, <2>1 DEF UpdateRule, Sound, HeldFree
  <2>3. r \in RuleRecords
    BY <1>2, RevisedType
  <2>4. r.id = config.rules[i].id /\ r.owner = config.rules[i].owner /\ r.key = config.rules[i].key
    <3>1. config.rules[i] \in RuleRecords
      BY <1>2
    <3> QED
      BY <3>1 DEF Revised, RuleRecords
  <2>5. Commit(d) /\ Done
    BY <1>6, <2>1 DEF UpdateRule
  <2> HIDE DEF r
  <2>6. Owned(d) /\ HeldFree(d)
    BY <1>1, <2>2, <2>3, <2>4, ReplaceOwned
  <2> HIDE DEF d
  <2> QED
    BY <2>5, <2>6, EditOwned
<1>7. ASSUME DeleteRule PROVE Managing'
  <2> DEFINE K == {i \in DOMAIN config.rules : config.rules[i].id # held.id}
             d == [config EXCEPT !.rules = Keeping(config.rules, K)]
  <2>1. \A i \in DOMAIN config.rules : config.rules[i].owner = None \/ i \in K
    BY <1>1, <1>2, <1>7 DEF DeleteRule, Sound, HeldFree
  <2>2. Commit(d) /\ Done
    BY <1>7 DEF DeleteRule, Without
  <2> HIDE DEF K
  <2>3. Owned(d) /\ HeldFree(d)
    BY <1>1, <2>1, RemoveOwned
  <2> HIDE DEF d
  <2> QED
    BY <2>2, <2>3, EditOwned
<1>8. ASSUME Duplicate PROVE Managing'
  <2> DEFINE r == [held.rule EXCEPT !.id = FreshRule(config), !.owner = None, !.key = None]
             d == [config EXCEPT !.rules = Append(config.rules, r)]
  <2>1. held.rule \in RuleRecords
    BY <1>1, <1>8 DEF Duplicate, HeldOK
  <2>2. r \in RuleRecords
    BY <1>3, <2>1 DEF RuleRecords
  <2>3. r.id = FreshRule(config) /\ r.owner = None /\ r.key = None
    BY <2>1 DEF RuleRecords
  <2>4. Commit(d) /\ Done
    BY <1>8 DEF Duplicate
  <2> HIDE DEF r
  <2>5. Owned(d) /\ HeldFree(d)
    BY <1>4, <2>2, <2>3
  <2> HIDE DEF d
  <2> QED
    BY <2>4, <2>5, EditOwned
<1>9. ASSUME Reorder PROVE Managing'
  <2> DEFINE t == Reordered(config, held.order)
             d == [config EXCEPT !.rules = t]
  <2>1. held.order \in Seq(Nat)
    BY <1>1, <1>9 DEF Reorder, HeldOK
  <2>2. \A i, j \in DOMAIN held.order : held.order[i] = held.order[j] => i = j
    BY <1>1, <1>9 DEF Reorder, Sound, HeldFree
  <2>3. /\ t \in Seq(RuleRecords) /\ Unique(t)
        /\ \A j \in DOMAIN t : \E i \in DOMAIN config.rules : t[j] = config.rules[i]
        /\ \A i \in DOMAIN config.rules : \E j \in DOMAIN t : t[j] = config.rules[i]
    BY <1>2, <2>1, <2>2, ReorderedRules DEF Matching
  <2>4. Commit(d) /\ Done
    BY <1>9 DEF Reorder
  <2> HIDE DEF t
  <2>5. Owned(d) /\ HeldFree(d)
    BY <1>1, <2>3, SameRules
  <2> HIDE DEF d
  <2> QED
    BY <2>4, <2>5, EditOwned
<1>10. ASSUME ApplyTemplate PROVE Managing'
  <2>1. held.proxy \in RoutedIds
    BY <1>1, <1>10 DEF ApplyTemplate, HeldOK
  <2>2. Sound(WithTemplate(config, held.proxy))
    BY <1>1, <2>1, WithTemplateOwned
  <2> QED
    BY <1>10, <2>2, EditOwned DEF ApplyTemplate, Sound
<1>11. ASSUME NEW ids, NEW on \in BOOLEAN, BatchEnable(ids, on) PROVE Managing'
  <2> DEFINE t == Switched(config.rules, ids, on)
             d == [config EXCEPT !.rules = t]
  <2>1. t \in Seq(RuleRecords)
    BY <1>2, SwitchedType
  <2>2. DOMAIN t = DOMAIN config.rules
    BY DEF Switched
  <2>3. \A r \in RuleRecords :
          LET u == [r EXCEPT !.on = on]
          IN  u.id = r.id /\ u.owner = r.owner /\ u.key = r.key /\ u.sel = r.sel /\ u.act = r.act
    BY DEF RuleRecords
  <2>4. \A i \in DOMAIN config.rules :
          t[i] = config.rules[i] \/ t[i] = [config.rules[i] EXCEPT !.on = on]
    BY DEF Switched
  <2>5. Edit(d)
    BY <1>11 DEF BatchEnable
  <2> HIDE DEF t
  <2>6. ASSUME NEW i \in DOMAIN config.rules
        PROVE  /\ t[i].id = config.rules[i].id /\ t[i].owner = config.rules[i].owner
               /\ t[i].key = config.rules[i].key
               /\ t[i].sel = config.rules[i].sel /\ t[i].act = config.rules[i].act
    <3>1. config.rules[i] \in RuleRecords
      BY <1>2
    <3> QED
      BY <2>3, <2>4, <3>1
  <2>7. Owned(d) /\ HeldFree(d)
    BY <1>1, <2>1, <2>2, <2>6, ChangeOwned
  <2> HIDE DEF d
  <2> QED
    BY <2>5, <2>7, EditOwned
<1> QED
  BY <1>5, <1>6, <1>7, <1>8, <1>9, <1>10, <1>11

\* A look finds an unmanaged rule, which then is unmanaged in every profile.
LEMMA LooksOwned ==
  ASSUME Kept
  PROVE  /\ \A op \in {"update", "delete"}, i \in DOMAIN config.rules :
              LookAtRule(op, config.rules[i].id) => Managing'
         /\ \A i \in DOMAIN config.rules : LookToDuplicate(i) => Managing'
         /\ \A i, j \in DOMAIN config.rules : LookToReorder(i, j) => Managing'
         /\ \A p \in RoutedIds : LookAtTemplate(p) => Managing'
         /\ Refused => Managing'
<1>1. Sound(config) /\ Owned(config) /\ Agreeing(config)
  BY DEF Kept, Managing, PInv, Sound, Owned
<1>2. /\ config.rules \in Seq(RuleRecords) /\ Unique(config.rules)
      /\ \A i \in DOMAIN config.rules : config.rules[i] \in AllRules(config)
  BY <1>1, SoundFacts DEF Matching
<1>3. ASSUME NEW request, Look(request), HeldFree(config)' PROVE Managing'
  BY <1>1, <1>3 DEF Look, Managing
<1>4. ASSUME NEW op \in {"update", "delete"}, NEW i \in DOMAIN config.rules,
             LookAtRule(op, config.rules[i].id)
      PROVE  Managing'
  <2> DEFINE request == [op |-> op, id |-> config.rules[i].id]
  <2>1. Look(request) /\ config.rules[i].owner = None
    BY <1>4 DEF LookAtRule, Managed
  <2>2. \A r \in AllRules(config) : r.id = config.rules[i].id => r.owner = None
    BY <1>1, <1>2, <2>1 DEF Agreeing
  <2>3. HeldFree(config)'
    BY <2>1, <2>2 DEF Look, HeldFree
  <2> QED
    BY <1>3, <2>1, <2>3
<1>5. ASSUME NEW i \in DOMAIN config.rules, LookToDuplicate(i) PROVE Managing'
  <2> DEFINE request == [op |-> "duplicate", rule |-> config.rules[i]]
  <2>1. Look(request)
    BY <1>5 DEF LookToDuplicate
  <2>2. HeldFree(config)'
    BY <2>1 DEF Look, HeldFree
  <2> QED
    BY <1>3, <2>1, <2>2
<1>6. ASSUME NEW i \in DOMAIN config.rules, NEW j \in DOMAIN config.rules, LookToReorder(i, j)
      PROVE  Managing'
  <2> DEFINE ids == [k \in DOMAIN config.rules |-> config.rules[k].id]
             order == [ids EXCEPT ![i] = ids[j], ![j] = ids[i]]
             request == [op |-> "reorder", order |-> order]
  <2>1. Look(request) /\ i < j
    BY <1>6 DEF LookToReorder
  <2>2. DOMAIN order = DOMAIN config.rules /\ i \in Nat /\ j \in Nat
    BY <1>2
  <2>3. /\ order[i] = config.rules[j].id /\ order[j] = config.rules[i].id
        /\ \A k \in DOMAIN config.rules : k # i /\ k # j => order[k] = config.rules[k].id
    BY <2>1, <2>2
  <2> HIDE DEF order
  <2>4. \A k, m \in DOMAIN order : order[k] = order[m] => k = m
    BY <1>2, <2>2, <2>3 DEF Unique
  <2>5. HeldFree(config)'
    BY <2>1, <2>4 DEF Look, HeldFree
  <2> QED
    BY <1>3, <2>1, <2>5
<1>7. ASSUME NEW p \in RoutedIds, LookAtTemplate(p) PROVE Managing'
  <2> DEFINE request == [op |-> "template", proxy |-> p]
  <2>1. Look(request)
    BY <1>7 DEF LookAtTemplate
  <2>2. HeldFree(config)'
    BY <2>1 DEF Look, HeldFree
  <2> QED
    BY <1>3, <2>1, <2>2
<1>8. ASSUME Refused PROVE Managing'
  BY <1>1, <1>8 DEF Refused, Done, Managing, HeldFree
<1> QED
  BY <1>4, <1>5, <1>6, <1>7, <1>8

\* The items are unique, and every managed rule is of one of them.
LEMMA ItemEditsOwned ==
  ASSUME Kept
  PROVE  /\ \A payload \in Items : CreateItem(payload) => Managing'
         /\ \A payload \in Items, i \in DOMAIN config.quick : UpdateItem(i, payload) => Managing'
         /\ \A i \in DOMAIN config.quick : DeleteItem(i) => Managing'
         /\ \A i \in DOMAIN config.quick : LaunchItem(i) => Managing'
<1>1. Sound(config) /\ HeldOK /\ PolicyOK(config)
  BY DEF Kept, Managing, PInv, Sound
<1>2. /\ config.rules \in Seq(RuleRecords) /\ config.quick \in Seq(ItemSpace)
      /\ None \notin {config.quick[k].id : k \in DOMAIN config.quick}
      /\ \A i \in DOMAIN config.rules : config.rules[i] \in AllRules(config)
  BY <1>1, SoundFacts
<1>3. /\ Unique(config.rules) /\ Unique(config.quick) /\ Apart(config.rules)
      /\ \A i \in DOMAIN config.rules : config.rules[i].owner = None \/ Fitting(config.rules[i], config.quick)
      /\ \A k \in DOMAIN config.quick :
           ~config.quick[k].bind \/ \E i \in DOMAIN config.rules : config.rules[i].owner = config.quick[k].id
  <2>1. Matching(config.rules, config.quick)
    BY <1>1, SoundFacts
  <2> QED
    BY <2>1 DEF Matching
<1>4. /\ \A i \in DOMAIN config.quick : config.quick[i] \in ItemSpace
      /\ \A item \in ItemSpace : item.id \in ItemIds
  <2>1. \A i \in DOMAIN config.quick : config.quick[i] \in ItemSpace
    BY <1>2
  <2>2. \A item \in ItemSpace : item.id \in ItemIds
    BY DEF ItemSpace
  <2> QED
    BY <2>1, <2>2
<1>5. ASSUME NEW quick \in Seq(ItemSpace), Unique(quick), NEW m \in DOMAIN quick,
             \A i \in DOMAIN config.rules :
               config.rules[i].owner = None \/ config.rules[i].owner = quick[m].id
                 \/ Fitting(config.rules[i], quick),
             \A k \in DOMAIN quick :
               k = m \/ ~quick[k].bind \/ \E i \in DOMAIN config.rules : config.rules[i].owner = quick[k].id,
             Edit(Synced([config EXCEPT !.quick = quick], quick[m]))
      PROVE  Managing'
  <2> DEFINE d == Synced([config EXCEPT !.quick = quick], quick[m])
  <2>1. Owned(d) /\ HeldFree(d)
    BY <1>1, <1>5, SyncedOwned
  <2>2. Edit(d)
    BY <1>5
  <2> HIDE DEF d
  <2> QED
    BY <2>1, <2>2, EditOwned
<1>6. ASSUME NEW payload \in Items, CreateItem(payload) PROVE Managing'
  <2> DEFINE T == ItemIds \ ItemIdsIn(config)
             id == Least(T)
             item == ItemOf(id, payload)
             quick == Append(config.quick, item)
             n == Len(config.quick) + 1
  <2>1. T # {} /\ T \in SUBSET Nat
    BY <1>6, PolicyAssumption DEF CreateItem
  <2>2. id \in ItemIds /\ id \notin ItemIdsIn(config)
    <3> HIDE DEF T
    <3>1. Least(T) \in T
      BY <2>1, LeastExists
    <3> QED
      BY <3>1 DEF T
  <2> HIDE DEF id
  <2>3. item \in ItemSpace /\ item.id = id
    BY <2>2, ItemType DEF ItemOf
  <2>4. Edit(Synced([config EXCEPT !.quick = quick], item))
    BY <1>6 DEF CreateItem, id
  <2> HIDE DEF item
  <2>5. /\ quick \in Seq(ItemSpace) /\ DOMAIN quick = DOMAIN config.quick \cup {n}
        /\ \A i \in DOMAIN config.quick : quick[i] = config.quick[i]
        /\ quick[n] = item
    BY <1>2, <2>3, Appended
  <2>6. \A i \in DOMAIN config.quick : config.quick[i].id # id
    BY <2>2 DEF ItemIdsIn
  <2>7. Unique(quick)
    BY <1>2, <1>3, <2>3, <2>6, AppendedApart
  <2> HIDE DEF quick, n
  <2>8. \A i \in DOMAIN config.rules :
          config.rules[i].owner = None \/ Fitting(config.rules[i], quick)
    BY <1>3, <2>5 DEF Fitting
  <2>9. \A k \in DOMAIN quick :
          k = n \/ ~quick[k].bind \/ \E i \in DOMAIN config.rules : config.rules[i].owner = quick[k].id
    BY <1>3, <2>5
  <2> QED
    BY <1>5, <2>4, <2>5, <2>7, <2>8, <2>9
<1>7. ASSUME NEW payload \in Items, NEW i \in DOMAIN config.quick, UpdateItem(i, payload)
      PROVE  Managing'
  <2> DEFINE item == ItemOf(config.quick[i].id, payload)
             quick == [config.quick EXCEPT ![i] = item]
  <2>1. item \in ItemSpace /\ item.id = config.quick[i].id
    BY <1>4, ItemType DEF ItemOf
  <2>2. Edit(Synced([config EXCEPT !.quick = quick], item))
    <3>1. Edit(Synced([config EXCEPT !.quick[i] = item], item))
      BY <1>7 DEF UpdateItem
    <3> HIDE DEF item
    <3>2. [config EXCEPT !.quick[i] = item] = [config EXCEPT !.quick = quick]
      OBVIOUS
    <3> QED
      BY <3>1, <3>2
  <2> HIDE DEF item
  <2>3. /\ quick \in Seq(ItemSpace) /\ DOMAIN quick = DOMAIN config.quick /\ quick[i] = item
        /\ \A k \in DOMAIN config.quick : k # i => quick[k] = config.quick[k]
    BY <1>2, <2>1
  <2> HIDE DEF quick
  <2>4. Unique(quick)
    BY <1>3, <2>1, <2>3 DEF Unique
  <2>5. \A j \in DOMAIN config.rules :
          config.rules[j].owner = None \/ config.rules[j].owner = item.id
            \/ Fitting(config.rules[j], quick)
    <3> SUFFICES ASSUME NEW j \in DOMAIN config.rules, config.rules[j].owner # None,
                        config.rules[j].owner # item.id
                 PROVE  Fitting(config.rules[j], quick)
      OBVIOUS
    <3>1. PICK k \in DOMAIN config.quick :
            /\ config.quick[k].id = config.rules[j].owner /\ config.quick[k].bind
            /\ config.rules[j].sel = {<<"path", config.quick[k].path>>}
            /\ config.rules[j].act = config.quick[k].proxy
      BY <1>3 DEF Fitting
    <3>2. k # i /\ quick[k] = config.quick[k]
      BY <2>1, <2>3, <3>1
    <3> QED
      BY <2>3, <3>1, <3>2 DEF Fitting
  <2>6. \A k \in DOMAIN quick :
          k = i \/ ~quick[k].bind \/ \E j \in DOMAIN config.rules : config.rules[j].owner = quick[k].id
    BY <1>3, <2>3
  <2> QED
    BY <1>5, <2>2, <2>3, <2>4, <2>5, <2>6
<1>8. ASSUME NEW i \in DOMAIN config.quick, DeleteItem(i) PROVE Managing'
  <2> DEFINE id == config.quick[i].id
             J == {k \in DOMAIN config.quick : config.quick[k].id # id}
             K == {k \in DOMAIN config.rules : config.rules[k].owner # id}
             quick == Keeping(config.quick, J)
             rules == Keeping(config.rules, K)
             d == [config EXCEPT !.quick = quick, !.rules = rules]
  <2>1. Edit(d)
    BY <1>8 DEF DeleteItem, Without, RemovedFor
  <2>2. /\ quick \in Seq(ItemSpace) /\ Remaining(quick, config.quick, J)
        /\ rules \in Seq(RuleRecords) /\ Remaining(rules, config.rules, K)
    BY <1>2, KeepingElements
  <2>3. d.rules = rules /\ d.quick = quick /\ d.profiles = config.profiles
    BY <1>1 DEF PolicyOK, PolicySpace
  <2> HIDE DEF quick, rules, d
  <2>4. /\ Unique(quick) /\ Unique(rules) /\ Apart(rules)
        /\ \A j \in DOMAIN rules : \E k \in DOMAIN config.rules :
             rules[j] = config.rules[k] /\ config.rules[k].owner # id
        /\ \A k \in DOMAIN config.rules : config.rules[k].owner # id =>
             \E j \in DOMAIN rules : rules[j] = config.rules[k]
    BY <1>3, <2>2 DEF Remaining
  <2>5. /\ \A j \in DOMAIN quick : \E k \in DOMAIN config.quick :
             quick[j] = config.quick[k] /\ config.quick[k].id # id
        /\ \A k \in DOMAIN config.quick : config.quick[k].id # id =>
             \E j \in DOMAIN quick : quick[j] = config.quick[k]
    BY <2>2 DEF Remaining
  <2> HIDE DEF id
  <2>6. ASSUME NEW j \in DOMAIN rules, rules[j].owner # None PROVE Fitting(rules[j], quick)
    <3>1. PICK k \in DOMAIN config.rules : rules[j] = config.rules[k] /\ config.rules[k].owner # id
      BY <2>4
    <3>2. Fitting(rules[j], config.quick)
      BY <1>3, <2>6, <3>1
    <3>3. PICK m \in DOMAIN config.quick :
            /\ config.quick[m].id = rules[j].owner /\ config.quick[m].bind
            /\ rules[j].sel = {<<"path", config.quick[m].path>>}
            /\ rules[j].act = config.quick[m].proxy
      BY <3>2 DEF Fitting
    <3>4. PICK n \in DOMAIN quick : quick[n] = config.quick[m]
      BY <2>5, <3>1, <3>3
    <3> QED
      BY <3>3, <3>4 DEF Fitting
  <2>7. ASSUME NEW j \in DOMAIN quick, quick[j].bind PROVE \E k \in DOMAIN rules : rules[k].owner = quick[j].id
    <3>1. PICK k \in DOMAIN config.quick : quick[j] = config.quick[k] /\ config.quick[k].id # id
      BY <2>5
    <3>2. PICK m \in DOMAIN config.rules : config.rules[m].owner = config.quick[k].id
      BY <1>3, <2>7, <3>1
    <3> QED
      BY <2>4, <3>1, <3>2
  <2>8. Matching(rules, quick)
    BY <2>4, <2>6, <2>7 DEF Matching
  <2>9. \A j \in DOMAIN rules : \E u \in AllRules(config) : u.id = rules[j].id /\ u.owner = rules[j].owner
    BY <1>2, <2>4
  <2>10. Owned(d) /\ HeldFree(d)
    BY <1>1, <2>2, <2>3, <2>8, <2>9, OwnedRules DEF Sound
  <2> QED
    BY <2>1, <2>10, EditOwned
<1>9. ASSUME NEW i \in DOMAIN config.quick, LaunchItem(i) PROVE Managing'
  <2>1. [config EXCEPT !.quick = config.quick] = config
    BY <1>1 DEF PolicyOK, PolicySpace
  <2>2. Edit(Synced([config EXCEPT !.quick = config.quick], config.quick[i]))
    BY <1>9, <2>1 DEF LaunchItem
  <2> QED
    BY <1>2, <1>3, <1>5, <2>2
<1> QED
  BY <1>6, <1>7, <1>8, <1>9

\* Profiles are copies of the configuration, or of each other, and back.
LEMMA ProfileEditsOwned ==
  ASSUME Kept
  PROVE  /\ CreateProfile => Managing'
         /\ \A f \in config.profiles : CloneProfile(f) => Managing'
         /\ \A f \in config.profiles : ActivateProfile(f) => Managing'
         /\ \A f \in config.profiles : DeleteProfile(f) => Managing'
<1>1. /\ Owned(config) /\ HeldFree(config)
      /\ config \in PolicySpace /\ config.profiles \subseteq ProfileSpace
  BY DEF Kept, Managing, PInv, PolicyOK, PolicySpace
<1>2. Matching(config.rules, config.quick) /\ \A f \in config.profiles : Matching(f.rules, f.quick)
  BY <1>1 DEF Owned
<1>3. ASSUME NEW d, Edit(d), AllRules(d) \subseteq AllRules(config),
             Matching(d.rules, d.quick), \A f \in d.profiles : Matching(f.rules, f.quick)
      PROVE  Managing'
  BY <1>1, <1>3, OwnedBefore, EditOwned
<1>4. ASSUME CreateProfile PROVE Managing'
  <2> DEFINE g == ProfileOf(config, Least(FreshProfiles))
             d == [config EXCEPT !.profiles = config.profiles \cup {g}]
  <2>1. Edit(d)
    BY <1>4 DEF CreateProfile
  <2>2. g.rules = config.rules /\ g.quick = config.quick
    BY DEF ProfileOf
  <2> HIDE DEF g
  <2>3. d.rules = config.rules /\ d.quick = config.quick /\ d.profiles = config.profiles \cup {g}
    BY <1>1 DEF PolicySpace
  <2> HIDE DEF d
  <2>4. AllRules(d) \subseteq AllRules(config)
    BY <2>2, <2>3 DEF AllRules
  <2>5. Matching(d.rules, d.quick) /\ \A f \in d.profiles : Matching(f.rules, f.quick)
    BY <1>2, <2>2, <2>3
  <2> QED
    BY <1>3, <2>1, <2>4, <2>5
<1>5. ASSUME NEW h \in config.profiles, CloneProfile(h) PROVE Managing'
  <2> DEFINE g == [h EXCEPT !.id = Least(FreshProfiles)]
             d == [config EXCEPT !.profiles = config.profiles \cup {g}]
  <2>1. Edit(d)
    BY <1>5 DEF CloneProfile
  <2>2. g.rules = h.rules /\ g.quick = h.quick
    BY <1>1 DEF ProfileSpace
  <2> HIDE DEF g
  <2>3. d.rules = config.rules /\ d.quick = config.quick /\ d.profiles = config.profiles \cup {g}
    BY <1>1 DEF PolicySpace
  <2> HIDE DEF d
  <2>4. AllRules(d) \subseteq AllRules(config)
    BY <2>2, <2>3 DEF AllRules
  <2>5. Matching(d.rules, d.quick) /\ \A f \in d.profiles : Matching(f.rules, f.quick)
    BY <1>2, <2>2, <2>3
  <2> QED
    BY <1>3, <2>1, <2>4, <2>5
<1>6. ASSUME NEW h \in config.profiles, ActivateProfile(h) PROVE Managing'
  <2> DEFINE d == [config EXCEPT !.rules = h.rules, !.quick = h.quick, !.engine = h.engine,
                                 !.strict = h.strict, !.on = h.on, !.active = h.id]
  <2>1. Edit(d)
    BY <1>6 DEF ActivateProfile
  <2>2. d.rules = h.rules /\ d.quick = h.quick /\ d.profiles = config.profiles
    BY <1>1 DEF PolicySpace
  <2> HIDE DEF d
  <2>3. AllRules(d) \subseteq AllRules(config)
    BY <2>2 DEF AllRules
  <2>4. Matching(d.rules, d.quick) /\ \A f \in d.profiles : Matching(f.rules, f.quick)
    BY <1>2, <2>2
  <2> QED
    BY <1>3, <2>1, <2>3, <2>4
<1>7. ASSUME NEW h \in config.profiles, DeleteProfile(h) PROVE Managing'
  <2> DEFINE active == IF config.active = h.id THEN None ELSE config.active
             d == [config EXCEPT !.profiles = config.profiles \ {h}, !.active = active]
  <2>1. Edit(d)
    BY <1>7 DEF DeleteProfile
  <2> HIDE DEF active
  <2>2. d.rules = config.rules /\ d.quick = config.quick /\ d.profiles = config.profiles \ {h}
    BY <1>1 DEF PolicySpace
  <2> HIDE DEF d
  <2>3. AllRules(d) \subseteq AllRules(config)
    BY <2>2 DEF AllRules
  <2>4. Matching(d.rules, d.quick) /\ \A f \in d.profiles : Matching(f.rules, f.quick)
    BY <1>2, <2>2
  <2> QED
    BY <1>3, <2>1, <2>3, <2>4
<1> QED
  BY <1>4, <1>5, <1>6, <1>7

LEMMA RuntimeEditsOwned ==
  ASSUME Kept
  PROVE  /\ \A p \in RoutedIds : DeleteProxy(p) => Managing'
         /\ \A p \in RoutedIds, kind \in {"socks", "direct", "off"} : SetProxy(p, kind) => Managing'
         /\ \A mode \in {"proxifyre", "sing_box"} : ChangeEngine(mode) => Managing'
         /\ \A on, strict \in BOOLEAN : UpdateRuntime(on, strict) => Managing'
<1>1. Owned(config) /\ HeldFree(config) /\ config \in PolicySpace
  BY DEF Kept, Managing, PInv, PolicyOK
<1>2. ASSUME NEW d, Edit(d), d.rules = config.rules, d.quick = config.quick, d.profiles = config.profiles
      PROVE  Managing'
  <2>1. AllRules(d) \subseteq AllRules(config)
    BY <1>2 DEF AllRules
  <2>2. Matching(d.rules, d.quick) /\ \A f \in d.profiles : Matching(f.rules, f.quick)
    BY <1>1, <1>2 DEF Owned
  <2> QED
    BY <1>1, <1>2, <2>1, <2>2, OwnedBefore, EditOwned
<1>3. ASSUME NEW p, NEW kind, Edit([config EXCEPT !.proxies[p] = kind]) PROVE Managing'
  <2> DEFINE d == [config EXCEPT !.proxies[p] = kind]
  <2>1. d.rules = config.rules /\ d.quick = config.quick /\ d.profiles = config.profiles
    BY <1>1 DEF PolicySpace
  <2>2. Edit(d)
    BY <1>3
  <2> HIDE DEF d
  <2> QED
    BY <1>2, <2>1, <2>2
<1>4. ASSUME NEW mode, Edit([config EXCEPT !.engine = mode]) PROVE Managing'
  <2> DEFINE d == [config EXCEPT !.engine = mode]
  <2>1. d.rules = config.rules /\ d.quick = config.quick /\ d.profiles = config.profiles
    BY <1>1 DEF PolicySpace
  <2>2. Edit(d)
    BY <1>4
  <2> HIDE DEF d
  <2> QED
    BY <1>2, <2>1, <2>2
<1>5. ASSUME NEW on, NEW strict, Edit([config EXCEPT !.on = on, !.strict = strict]) PROVE Managing'
  <2> DEFINE d == [config EXCEPT !.on = on, !.strict = strict]
  <2>1. d.rules = config.rules /\ d.quick = config.quick /\ d.profiles = config.profiles
    BY <1>1 DEF PolicySpace
  <2>2. Edit(d)
    BY <1>5
  <2> HIDE DEF d
  <2> QED
    BY <1>2, <2>1, <2>2
<1> QED
  BY <1>3, <1>4, <1>5 DEF DeleteProxy, SetProxy, ChangeEngine, UpdateRuntime

\* A copy that was in order is in order when it takes the place of a
\* configuration that agrees with it on what manages its rules.
LEMMA SanitisedOwned ==
  ASSUME NEW c, PolicyOK(c), Owned(c), NEW h, PolicyOK(h), Owned(h),
         \A r \in AllRules(h), u \in AllRules(c) : r.id = u.id => r.owner = u.owner
  PROVE  Owned(Sanitised(c, h))
<1> DEFINE d == Sanitised(c, h)
<1>1. /\ d.quick = h.quick /\ d.profiles = h.profiles /\ DOMAIN d.rules = DOMAIN h.rules
      /\ \A i \in DOMAIN h.rules :
           /\ d.rules[i].id = h.rules[i].id /\ d.rules[i].owner = h.rules[i].owner
           /\ d.rules[i].sel = h.rules[i].sel /\ d.rules[i].act = h.rules[i].act
           /\ d.rules[i].key = KeyIn(c, h.rules[i].id)
  BY SanitisedFacts
<1> HIDE DEF d
<1>2. /\ Unique(h.rules) /\ Unique(h.quick) /\ Apart(h.rules) /\ Apart(c.rules)
      /\ \A i \in DOMAIN h.rules : h.rules[i].owner # None => Fitting(h.rules[i], h.quick)
      /\ \A k \in DOMAIN h.quick :
           h.quick[k].bind => \E i \in DOMAIN h.rules : h.rules[i].owner = h.quick[k].id
  BY DEF Owned, Matching
<1>3. /\ \A i \in DOMAIN h.rules : h.rules[i] \in AllRules(h)
      /\ \A i \in DOMAIN c.rules : c.rules[i] \in AllRules(c)
  BY DEF AllRules
<1>4. \A id : KeyIn(c, id) = None
               \/ \E a \in DOMAIN c.rules : c.rules[a].id = id /\ c.rules[a].key = KeyIn(c, id)
  BY KeyFacts
<1>5. ASSUME NEW i \in DOMAIN h.rules, NEW j \in DOMAIN h.rules, i # j
      PROVE  KeyIn(c, h.rules[i].id) = None \/ KeyIn(c, h.rules[i].id) # KeyIn(c, h.rules[j].id)
  <2> SUFFICES ASSUME KeyIn(c, h.rules[i].id) # None, KeyIn(c, h.rules[i].id) = KeyIn(c, h.rules[j].id)
               PROVE  FALSE
    OBVIOUS
  <2>1. PICK a \in DOMAIN c.rules :
          c.rules[a].id = h.rules[i].id /\ c.rules[a].key = KeyIn(c, h.rules[i].id)
    BY <1>4
  <2>2. PICK b \in DOMAIN c.rules :
          c.rules[b].id = h.rules[j].id /\ c.rules[b].key = KeyIn(c, h.rules[i].id)
    BY <1>4
  <2>3. a # b
    BY <1>2, <1>5, <2>1, <2>2 DEF Unique
  <2> QED
    BY <1>2, <2>1, <2>2, <2>3 DEF Apart
<1>6. ASSUME NEW i \in DOMAIN h.rules
      PROVE  h.rules[i].owner = None \/ KeyIn(c, h.rules[i].id) = None
  <2> SUFFICES ASSUME KeyIn(c, h.rules[i].id) # None PROVE h.rules[i].owner = None
    OBVIOUS
  <2>1. PICK a \in DOMAIN c.rules :
          c.rules[a].id = h.rules[i].id /\ c.rules[a].key = KeyIn(c, h.rules[i].id)
    BY <1>4
  <2>2. c.rules[a].owner = None
    BY <1>2, <2>1 DEF Apart
  <2>3. h.rules[i].owner = c.rules[a].owner
    BY <1>3, <2>1
  <2> QED
    BY <2>2, <2>3
<1>7. Apart(d.rules)
  <2>1. \A i, j \in DOMAIN d.rules : i # j =>
          /\ d.rules[i].owner = None \/ d.rules[i].owner # d.rules[j].owner
          /\ d.rules[i].key = None \/ d.rules[i].key # d.rules[j].key
    BY <1>1, <1>2, <1>5 DEF Apart
  <2>2. \A i \in DOMAIN d.rules : d.rules[i].owner = None \/ d.rules[i].key = None
    BY <1>1, <1>6
  <2> QED
    BY <2>1, <2>2 DEF Apart
<1>8. Unique(d.rules)
  BY <1>1, <1>2 DEF Unique
<1>9. \A i \in DOMAIN d.rules : d.rules[i].owner # None => Fitting(d.rules[i], d.quick)
  BY <1>1, <1>2 DEF Fitting
<1>10. \A k \in DOMAIN d.quick : d.quick[k].bind => \E i \in DOMAIN d.rules : d.rules[i].owner = d.quick[k].id
  BY <1>1, <1>2
<1>11. Matching(d.rules, d.quick)
  BY <1>1, <1>2, <1>7, <1>8, <1>9, <1>10 DEF Matching
<1>12. \A f \in d.profiles : Matching(f.rules, f.quick)
  BY <1>1 DEF Owned
<1>13. ASSUME NEW r \in AllRules(d) PROVE \E u \in AllRules(h) : u.id = r.id /\ u.owner = r.owner
  <2>1. CASE \E i \in DOMAIN d.rules : r = d.rules[i]
    BY <1>1, <1>3, <2>1
  <2>2. CASE \E f \in d.profiles : \E i \in DOMAIN f.rules : r = f.rules[i]
    BY <1>1, <2>2 DEF AllRules
  <2> QED
    BY <2>1, <2>2 DEF AllRules
<1>14. Agreeing(d)
  <2> SUFFICES ASSUME NEW r \in AllRules(d), NEW u \in AllRules(d), r.id = u.id
               PROVE  r.owner = u.owner
    BY DEF Agreeing
  <2>1. PICK x \in AllRules(h) : x.id = r.id /\ x.owner = r.owner
    BY <1>13
  <2>2. PICK y \in AllRules(h) : y.id = u.id /\ y.owner = u.owner
    BY <1>13
  <2> QED
    BY <2>1, <2>2 DEF Owned, Agreeing
<1>15. Owned(d)
  BY <1>11, <1>12, <1>14 DEF Owned
<1> QED
  BY <1>15 DEF d

\* An import: what it looks at is in order, and what it installs.
LEMMA ImportsOwned ==
  ASSUME Kept
  PROVE  /\ \A p \in RoutedIds, kind \in {"socks", "off"} : LookToImport(p, kind) => Managing'
         /\ ImportProxies => Managing'
<1>1. /\ Owned(config) /\ HeldFree(config) /\ Agreeing(config) /\ PolicyOK(config)
      /\ config \in PolicySpace /\ HeldOK
  BY DEF Kept, Managing, PInv, Owned, PolicyOK
<1>2. ASSUME NEW p \in RoutedIds, NEW kind \in {"socks", "off"}, LookToImport(p, kind) PROVE Managing'
  <2> DEFINE merged == Merged(config, p, kind)
  <2>1. Look([op |-> "import", config |-> merged])
    BY <1>2 DEF LookToImport
  <2>2. merged.rules = config.rules /\ merged.quick = config.quick /\ merged.profiles = config.profiles
    BY <1>1 DEF Merged, PolicySpace
  <2> HIDE DEF merged
  <2>3. AllRules(merged) = AllRules(config)
    BY <2>2 DEF AllRules
  <2>4. Owned(merged)
    BY <1>1, <2>2, <2>3 DEF Owned, Agreeing
  <2>5. held' = [op |-> "import", config |-> merged] /\ config' = config
    BY <2>1 DEF Look
  <2>6. HeldFree(config)'
    BY <1>1, <2>3, <2>4, <2>5 DEF HeldFree, Agreeing
  <2> QED
    BY <1>1, <2>5, <2>6 DEF Managing
<1>3. ASSUME ImportProxies PROVE Managing'
  <2>1. held # None /\ held.op = "import"
    BY <1>3 DEF ImportProxies
  <2>2. /\ Owned(held.config) /\ PolicyOK(held.config)
        /\ \A r \in AllRules(held.config), u \in AllRules(config) : r.id = u.id => r.owner = u.owner
    BY <1>1, <2>1 DEF HeldFree, HeldOK
  <2>3. Owned(Sanitised(config, held.config))
    BY <1>1, <2>2, SanitisedOwned
  <2> QED
    BY <1>3, <2>3, EditOwned DEF ImportProxies
<1> QED
  BY <1>2, <1>3

\* A step that installs no configuration of a request leaves it in order.
LEMMA KeptByEdits ==
  ASSUME Kept, [PNext]_pvars
  PROVE  Managing' \/ \E c \in Proposals : PutConfig(c)
<1>2. CASE \E payload \in Payloads : CreateRule(payload, TRUE) \/ UpdateRule(payload)
  BY <1>2, RuleEditsOwned
<1>3. CASE DeleteRule \/ Duplicate \/ Reorder \/ ApplyTemplate
  BY <1>3, RuleEditsOwned
<1>4. CASE Refused
  BY <1>4, LooksOwned
<1>5. CASE \E op \in {"update", "delete"}, i \in DOMAIN config.rules : LookAtRule(op, config.rules[i].id)
  BY <1>5, LooksOwned
<1>6. CASE \E i \in DOMAIN config.rules : LookToDuplicate(i)
  BY <1>6, LooksOwned
<1>7. CASE \E i, j \in DOMAIN config.rules : LookToReorder(i, j)
  BY <1>7, LooksOwned
<1>8. CASE \E ids \in SUBSET {config.rules[i].id : i \in DOMAIN config.rules}, on \in BOOLEAN :
             BatchEnable(ids, on)
  BY <1>8, RuleEditsOwned
<1>9. CASE \E payload \in Items : CreateItem(payload)
  BY <1>9, ItemEditsOwned
<1>10. CASE \E payload \in Items, i \in DOMAIN config.quick : UpdateItem(i, payload)
  BY <1>10, ItemEditsOwned
<1>11. CASE \E i \in DOMAIN config.quick : DeleteItem(i) \/ LaunchItem(i)
  BY <1>11, ItemEditsOwned
<1>12. CASE CreateProfile
  BY <1>12, ProfileEditsOwned
<1>13. CASE \E f \in config.profiles : CloneProfile(f) \/ ActivateProfile(f) \/ DeleteProfile(f)
  BY <1>13, ProfileEditsOwned
<1>14. CASE \E p \in RoutedIds : DeleteProxy(p) \/ LookAtTemplate(p)
  BY <1>14, RuntimeEditsOwned, LooksOwned
<1>15. CASE \E p \in RoutedIds, kind \in {"socks", "direct", "off"} : SetProxy(p, kind)
  BY <1>15, RuntimeEditsOwned
<1>16. CASE \E mode \in {"proxifyre", "sing_box"} : ChangeEngine(mode)
  BY <1>16, RuntimeEditsOwned
<1>17. CASE \E on, strict \in BOOLEAN : UpdateRuntime(on, strict)
  BY <1>17, RuntimeEditsOwned
<1>18. CASE UNCHANGED pvars
  BY <1>18 DEF pvars, Kept, Managing, HeldFree
<1>19. CASE ImportProxies \/ \E p \in RoutedIds, kind \in {"socks", "off"} : LookToImport(p, kind)
  BY <1>19, ImportsOwned
<1> QED
  BY <1>2, <1>3, <1>4, <1>5, <1>6, <1>7, <1>8, <1>9, <1>10, <1>11, <1>12, <1>13, <1>14,
     <1>15, <1>16, <1>17, <1>18, <1>19 DEF PNext

\* Only a configuration that a request installs makes the history.
LEMMA ForeignStays ==
  ASSUME PNext
  PROVE  foreign' = foreign \/ \E c \in Proposals : PutConfig(c)
<1>1. \A new : Edit(new) => foreign' = foreign
  BY DEF Edit
<1>2. \A request : Look(request) => foreign' = foreign
  BY DEF Look
<1>3. Done => foreign' = foreign
  BY DEF Done
<1>4. CASE \E payload \in Payloads : CreateRule(payload, TRUE) \/ UpdateRule(payload)
  BY <1>1, <1>3, <1>4 DEF CreateRule, UpdateRule
<1>5. CASE DeleteRule \/ Duplicate \/ Reorder \/ ApplyTemplate \/ ImportProxies \/ Refused
  BY <1>3, <1>5 DEF DeleteRule, Duplicate, Reorder, ApplyTemplate, ImportProxies, Refused
<1>6. CASE \E op \in {"update", "delete"}, i \in DOMAIN config.rules : LookAtRule(op, config.rules[i].id)
  BY <1>2, <1>6 DEF LookAtRule
<1>7. CASE \E i \in DOMAIN config.rules : LookToDuplicate(i)
  BY <1>2, <1>7 DEF LookToDuplicate
<1>8. CASE \E i, j \in DOMAIN config.rules : LookToReorder(i, j)
  BY <1>2, <1>8 DEF LookToReorder
<1>9. CASE \E ids \in SUBSET {config.rules[i].id : i \in DOMAIN config.rules}, on \in BOOLEAN :
             BatchEnable(ids, on)
  BY <1>1, <1>9 DEF BatchEnable
<1>10. CASE \E payload \in Items : CreateItem(payload)
  BY <1>1, <1>10 DEF CreateItem
<1>11. CASE \E payload \in Items, i \in DOMAIN config.quick : UpdateItem(i, payload)
  BY <1>1, <1>11 DEF UpdateItem
<1>12. CASE \E i \in DOMAIN config.quick : DeleteItem(i) \/ LaunchItem(i)
  BY <1>1, <1>12 DEF DeleteItem, LaunchItem
<1>13. CASE CreateProfile
  BY <1>1, <1>13 DEF CreateProfile
<1>14. CASE \E f \in config.profiles : CloneProfile(f) \/ ActivateProfile(f) \/ DeleteProfile(f)
  BY <1>1, <1>14 DEF CloneProfile, ActivateProfile, DeleteProfile
<1>15. CASE \E p \in RoutedIds : DeleteProxy(p) \/ LookAtTemplate(p)
  BY <1>1, <1>2, <1>15 DEF DeleteProxy, LookAtTemplate
<1>16. CASE \E p \in RoutedIds, kind \in {"socks", "direct", "off"} : SetProxy(p, kind)
  BY <1>1, <1>16 DEF SetProxy
<1>17. CASE \E mode \in {"proxifyre", "sing_box"} : ChangeEngine(mode)
  BY <1>1, <1>17 DEF ChangeEngine
<1>18. CASE \E p \in RoutedIds, kind \in {"socks", "off"} : LookToImport(p, kind)
  BY <1>2, <1>18 DEF LookToImport
<1>19. CASE \E on, strict \in BOOLEAN : UpdateRuntime(on, strict)
  BY <1>1, <1>19 DEF UpdateRuntime
<1> QED
  BY <1>4, <1>5, <1>6, <1>7, <1>8, <1>9, <1>10, <1>11, <1>12, <1>13,
     <1>14, <1>15, <1>16, <1>17, <1>18, <1>19 DEF PNext

LEMMA MNextInv ==
  ASSUME MInv, [PNext]_pvars
  PROVE  MInv'
<1>1. PInv'
  BY PNextInv DEF MInv
<1>2. foreign' \/ Managing'
  <2>1. CASE \E c \in Proposals : PutConfig(c)
    <3>1. PICK c \in Proposals : PutConfig(c)
      BY <2>1
    <3> DEFINE new == Sanitised(config, c)
    <3>2. /\ config' = new /\ held' = held
          /\ foreign' = (foreign \/ ~Owned(new) \/ ~HeldFree(new))
      BY <3>1 DEF PutConfig, Commit
    <3> HIDE DEF new
    <3>3. CASE Owned(new) /\ HeldFree(new)
      BY <3>2, <3>3 DEF Managing, HeldFree
    <3>4. CASE ~(Owned(new) /\ HeldFree(new))
      BY <3>2, <3>4
    <3> QED
      BY <3>3, <3>4
  <2>2. CASE ~\E c \in Proposals : PutConfig(c)
    <3>1. foreign' = foreign
      BY <2>2, ForeignStays DEF pvars
    <3>2. CASE foreign
      BY <3>1, <3>2
    <3>3. CASE ~foreign
      <4>1. Kept
        BY <3>3 DEF MInv, Kept, Managing
      <4> QED
        BY <2>2, <4>1, KeptByEdits
    <3> QED
      BY <3>2, <3>3
  <2> QED
    BY <2>1, <2>2
<1> QED
  BY <1>1, <1>2 DEF MInv, Managing

\* Whatever is copied, restored from a profile, edited, deleted or imported
\* between a request's look and its transaction: each rule managed by the quick
\* launch bar is that of one item, as it asks, and each key of a template has
\* one; until a configuration of which that is not so comes as a whole.
THEOREM ManagedRulesAlwaysMatch == PSpec => []ManagedRulesMatch
<1>1. PInit => MInv
  <2> SUFFICES ASSUME PInit PROVE MInv
    OBVIOUS
  <2>1. held = None /\ foreign = ~Owned(config)
    BY DEF PInit
  <2>2. foreign \/ (Owned(config) /\ HeldFree(config))
    BY <2>1 DEF HeldFree
  <2> QED
    BY <2>2, PInitInv DEF MInv
<1>2. MInv /\ [PNext]_pvars => MInv'
  BY MNextInv
<1>3. ASSUME MInv PROVE ManagedRulesMatch
  <2>1. foreign \/ Matching(config.rules, config.quick)
    BY <1>3 DEF MInv, Owned
  <2>2. CASE foreign
    BY <2>2 DEF ManagedRulesMatch
  <2>3. CASE Matching(config.rules, config.quick)
    BY <2>3 DEF Matching, Apart, Fitting, ManagedRulesMatch
  <2> QED
    BY <2>1, <2>2, <2>3
<1> QED
  BY <1>1, <1>2, <1>3, PTL DEF PSpec
=============================================================================
