----------------------------- MODULE ViewsProofs -----------------------------
(***************************************************************************)
(* What the parts of a view say of each other: the sections of a report,   *)
(* what the roles are shown beside the matrix of permissions, and what an  *)
(* export of responses holds while others submit.                          *)
(***************************************************************************)
EXTENDS TablesProofs

-----------------------------------------------------------------------------
(***************************************************************************)
(* The story a report tells                                                *)
(***************************************************************************)
\* A need as the ranking of a report compares it with another one.
Heavier(n, m, weight) ==
    LET Worth(r) == r.severity * weight[r.at.domain]
    IN  \/ Worth(n) > Worth(m)
        \/ Worth(n) = Worth(m) /\ n.severity > m.severity
        \/ Worth(n) = Worth(m) /\ n.severity = m.severity /\ n.valid > m.valid

\* Whatever the needs of a survey and the weights of their domains: those that
\* were measured are ranked, each once, and none above one that is heavier.
\* (rankPriorityNeeds)
THEOREM HeaviestRankFirst ==
    ASSUME NEW records, IsFiniteSet(records), NEW weight,
           \A n \in records : n.severity \in Int /\ n.valid \in Int /\ weight[n.at.domain] \in Int
    PROVE  LET ranked == Reports!rankPriorityNeeds(records, weight)
               k == Cardinality(Reports!Measured(records))
           IN  /\ Sized(ranked, k, Reports!Measured(records))
               /\ \A n \in Reports!Measured(records) : \E i \in 1..k : ranked[i] = n
               /\ \A i, j \in 1..k : i < j => ranked[i] # ranked[j] /\ ~Heavier(ranked[j], ranked[i], weight)
<1>. DEFINE M == Reports!Measured(records)
            before == {p \in M \X M : Heavier(p[1], p[2], weight)}
            ranked == Reports!rankPriorityNeeds(records, weight)
            k == Cardinality(M)
            worth == [n \in M |-> n.severity * weight[n.at.domain]]
<1>1. IsFiniteSet(M) /\ k \in Nat
  BY FS_Subset, FS_CardinalityType DEF Reports!Measured
<1>2. \A n \in M : n.severity \in Int /\ n.valid \in Int /\ worth[n] \in Int
  BY DEF Reports!Measured
<1>3. \A n, m \in M : Heavier(n, m, weight) <=>
                         \/ worth[n] > worth[m]
                         \/ worth[n] = worth[m] /\ n.severity > m.severity
                         \/ worth[n] = worth[m] /\ n.severity = m.severity /\ n.valid > m.valid
  BY DEF Heavier
<1>4. ranked = Ranked(M, before)
  <2>1. ranked = Reports!Ranked(M, before)
    BY DEF Reports!rankPriorityNeeds, Heavier
  <2>. HIDE DEF before, M
  <2>. QED BY <2>1 DEF Reports!Ranked, Ranked, Reports!Cardinality, Cardinality
<1>5. \A n, m \in M : <<n, m>> \in before <=> Heavier(n, m, weight)
  OBVIOUS
<1>. HIDE DEF before, M, worth, ranked
<1>6. Strict(before, M)
  <2>1. \A x, y, z \in M : ~Heavier(x, x, weight)
                           /\ (Heavier(x, y, weight) /\ Heavier(y, z, weight) => Heavier(x, z, weight))
    BY <1>2, <1>3
  <2>. QED BY <1>5, <2>1 DEF Strict
<1>7. InOrder(ranked, M, before) /\ \A n \in M : \E i \in 1..k : ranked[i] = n
  BY <1>1, <1>4, <1>6, RankedInOrder
<1>8. /\ ranked \in [1..k -> M]
      /\ \A i, j \in 1..k : i < j => ranked[i] # ranked[j] /\ <<ranked[j], ranked[i]>> \notin before
  BY <1>7 DEF InOrder
<1>. HIDE DEF k
<1>9. ASSUME NEW i \in 1..k, NEW j \in 1..k, i < j
      PROVE  ranked[i] # ranked[j] /\ ~Heavier(ranked[j], ranked[i], weight)
  BY <1>5, <1>8, <1>9
<1>. QED BY <1>1, <1>7, <1>8, <1>9 DEF Sized, k, M, ranked

-----------------------------------------------------------------------------
(***************************************************************************)
(* A domain by two routes: its rollup, and the tree of the report          *)
(***************************************************************************)
\* The children of p that have a rollup of their own.
Below(questions, parent, child, r, p) ==
    {q[child] : q \in {t \in questions : t[parent] = p}} \cap DOMAIN r

\* The severity is the mean of those of S.
Averaged(severity, S, r) ==
    \E g : /\ IsFold(g, [c \in S |-> r[c].severity], Picked(S), S)
           /\ severity = IF S = {} THEN Null ELSE g[S] \div Cardinality(S)

\* There is one mean.
LEMMA OneAverage ==
    ASSUME NEW S, IsFiniteSet(S), NEW r, \A c \in S : r[c].severity \in Int,
           NEW x, Averaged(x, S, r), NEW y, Averaged(y, S, r)
    PROVE  x = y
<1>. DEFINE e == [c \in S |-> r[c].severity]
<1>1. PICK g : IsFold(g, e, Picked(S), S) /\ x = IF S = {} THEN Null ELSE g[S] \div Cardinality(S)
  BY DEF Averaged
<1>2. PICK h : IsFold(h, e, Picked(S), S) /\ y = IF S = {} THEN Null ELSE h[S] \div Cardinality(S)
  BY DEF Averaged
<1>. DEFINE one == 1
<1>3. one \in Int /\ \A c \in S : e[c] \in Int /\ one * e[c] <= e[c] /\ e[c] <= one * e[c]
  OBVIOUS
<1>. HIDE DEF e, one
<1>4. Chooses(Picked(S), S)
  BY PickedChooses
<1>5. \A s \in SUBSET S : g[s] \in Int /\ h[s] \in Int /\ one * h[s] <= g[s] /\ g[s] <= one * h[s]
  BY <1>1, <1>2, <1>3, <1>4, FoldWithin
<1>6. g[S] = h[S]
  BY <1>5 DEF one
<1>. QED BY <1>1, <1>2, <1>6

\* A mean of severities is one.
LEMMA AverageWithin ==
    ASSUME NEW S, IsFiniteSet(S), NEW r, \A c \in S : r[c].severity \in 0..100,
           NEW x, Averaged(x, S, r)
    PROVE  IF S = {} THEN x = Null ELSE x \in 0..100
<1>. DEFINE e == [c \in S |-> r[c].severity]
<1>1. PICK g : IsFold(g, e, Picked(S), S) /\ x = IF S = {} THEN Null ELSE g[S] \div Cardinality(S)
  BY DEF Averaged
<1>. DEFINE lo == 0
            hi == 100
<1>2. lo \in Int /\ hi \in Int /\ \A c \in S : e[c] \in lo..hi
  OBVIOUS
<1>. HIDE DEF e, lo, hi
<1>3. S # {} => g[S] \div Cardinality(S) \in lo..hi
  BY <1>1, <1>2, PickedChooses, MeanWithin
<1>. QED BY <1>1, <1>3 DEF lo, hi

\* A rollup is the mean of what is below it and has a severity.
LEMMA RollupAveraged ==
    ASSUME NEW questions, IsFiniteSet(questions), NEW parent, NEW child, NEW r
    PROVE  LET U == Reports!Up(questions, parent, child, r) IN
             /\ \A p : p \in DOMAIN U <=> \E q \in questions : q[parent] = p /\ q[child] \in DOMAIN r
             /\ \A p \in DOMAIN U :
                  LET S == {c \in Below(questions, parent, child, r, p) : r[c].severity # Null}
                  IN  IsFiniteSet(S) /\ Averaged(U[p].severity, S, r)
<1>. DEFINE Found(p) == Below(questions, parent, child, r, p)
            G == Reports!Grouped(questions, parent, child, r)
            U == Reports!Up(questions, parent, child, r)
            Scored(p) == {c \in Found(p) : r[c].severity # Null}
<1>1. G = [p \in {q[parent] : q \in {t \in questions : Found(t[parent]) # {}}} |->
                [c \in Found(p) |-> r[c]]]
  BY DEF Reports!Grouped, Below
<1>2. U = Reports!LevelRollup(G) /\ DOMAIN U = DOMAIN G
  BY DEF Reports!Up, Reports!LevelRollup
<1>3. ASSUME NEW p
      PROVE  p \in DOMAIN U <=> \E q \in questions : q[parent] = p /\ q[child] \in DOMAIN r
  <2>1. p \in DOMAIN U <=> \E q \in questions : q[parent] = p /\ Found(q[parent]) # {}
    BY <1>1, <1>2, ZenonT(60)
  <2>2. Found(p) # {} <=> \E q \in questions : q[parent] = p /\ q[child] \in DOMAIN r
    BY DEF Below
  <2>. QED BY <2>1, <2>2
<1>4. ASSUME NEW p \in DOMAIN U
      PROVE  IsFiniteSet(Scored(p)) /\ Averaged(U[p].severity, Scored(p), r)
  <2>. DEFINE S == Scored(p)
              Sums(g, s) == IF s = {} THEN 0
                            ELSE G[p][CHOOSE x \in s : TRUE].severity
                                   + g[s \ {CHOOSE x \in s : TRUE}]
              sum == CHOOSE g : g = [s \in SUBSET S |-> Sums(g, s)]
              e == [c \in S |-> r[c].severity]
  <2>1. p \in DOMAIN G /\ DOMAIN G[p] = Found(p) /\ \A c \in Found(p) : G[p][c] = r[c]
    BY <1>1, <1>2
  <2>2. IsFiniteSet(S)
    <3>. DEFINE Q == {t \in questions : t[parent] = p}
                f == [t \in Q |-> t[child]]
                N == {q[child] : q \in Q}
    <3>1. IsFiniteSet(Q)
      BY FS_Subset
    <3>2. f \in Surjection(Q, N)
      BY DEF Surjection
    <3>3. IsFiniteSet(N)
      BY <3>1, <3>2, FS_Surjection
    <3>4. S \subseteq N
      BY DEF Below
    <3>. QED BY <3>3, <3>4, FS_Subset
  <2>3. S = {c \in DOMAIN G[p] : G[p][c].severity # Null}
    BY <2>1
  <2>. HIDE DEF G, U
  <2>4. ASSUME NEW g PROVE IsFold(g, e, Picked(S), S) <=> g = [s \in SUBSET S |-> Sums(g, s)]
    <3>1. ASSUME NEW s \in SUBSET S PROVE Step(e, Picked(S), g, s) = Sums(g, s)
      <4>1. s # {} => /\ (CHOOSE x \in s : TRUE) \in S
                      /\ Picked(S)[s] = CHOOSE x \in s : TRUE
                      /\ G[p][CHOOSE x \in s : TRUE].severity = e[CHOOSE x \in s : TRUE]
        BY <2>1 DEF Picked
      <4>. HIDE DEF e, Scored
      <4>. QED BY <4>1 DEF Step
    <3>. HIDE DEF Sums, e, Scored, S
    <3>. QED BY <3>1 DEF IsFold
  <2>5. \E g : IsFold(g, e, Picked(S), S)
    <3>. HIDE DEF e, S
    <3>. QED BY <2>2, PickedChooses, FoldExists
  <2>6. IsFold(sum, e, Picked(S), S)
    <3>. HIDE DEF e, Sums, S
    <3>. QED BY <2>4, <2>5
  <2>7. U[p].severity = IF S = {} THEN Null ELSE sum[S] \div Cardinality(S)
    <3>1. U[p].severity = Reports!LevelRollup(G)[p].severity
      BY <1>2
    <3>2. Reports!LevelRollup(G)[p].severity
            = LET T == {c \in DOMAIN G[p] : G[p][c].severity # Null}
              IN  IF T = {} THEN Null ELSE Reports!Mean(T, LAMBDA c : G[p][c].severity)
      BY <2>1 DEF Reports!LevelRollup, Null
    <3>3. Reports!Mean(S, LAMBDA c : G[p][c].severity) = sum[S] \div Cardinality(S)
      BY DEF Reports!Mean, Reports!SumOver, Reports!MapThenSumSet, Reports!MapThenFoldSet,
             Reports!Cardinality, Cardinality
    <3>. HIDE DEF S, sum
    <3>. QED BY <2>3, <3>1, <3>2, <3>3
  <2>. HIDE DEF sum
  <2>. QED BY <2>2, <2>6, <2>7 DEF Averaged
<1>. QED BY <1>3, <1>4

\* A severity is a number.
LEMMA SeveritiesAreNumbers == \A x \in 0..100 : x \in Int
OBVIOUS

\* A KPI belongs where a question of the bank with it does.
LEMMA ClassOfAQuestion ==
    ASSUME NEW n \in Nat, NEW bank, DOMAIN bank = 1..n, NEW k
    PROVE  IF \E i \in 1..n : bank[i].kpi = k
           THEN \E i \in 1..n : /\ bank[i].kpi = k
                                /\ Reports!ClassOf(bank, k).domain = bank[i].domain
                                /\ Reports!ClassOf(bank, k).subDomain = bank[i].subDomain
           ELSE Reports!ClassOf(bank, k) = Reports!Unmapped
<1>. DEFINE C == Reports!Classified(bank, k)
<1>1. C = {i \in 1..n : bank[i].kpi = k}
  BY DEF Reports!Classified
<1>2. CASE C = {}
  BY <1>1, <1>2 DEF Reports!ClassOf
<1>3. CASE C # {}
  <2>. DEFINE first == CHOOSE i \in C : \A j \in C : i <= j
  <2>1. C \in SUBSET Nat
    BY <1>1
  <2>2. \E i \in C : \A j \in C : i <= j
    BY <1>3, <2>1, LeastOf
  <2>3. first \in C
    BY <2>2
  <2>4. Reports!ClassOf(bank, k) = [domain |-> bank[first].domain, subDomain |-> bank[first].subDomain,
                                    indicator |-> bank[first].indicator]
    BY <1>3 DEF Reports!ClassOf
  <2>. HIDE DEF first
  <2>. QED BY <1>1, <1>3, <2>3, <2>4
<1>. QED BY <1>2, <1>3

\* Where the tree of the report has no priority component to list, it has the
\* mean of the sub-domains.
LEMMA TreeAveraged ==
    ASSUME NEW records, IsFiniteSet(records), NEW listed, NEW subs,
           NEW d, d \in Reports!DomainsOf(records), d \notin DOMAIN listed
    PROVE  LET S == {s \in Reports!SubsOf(records, d) : s \in DOMAIN subs /\ subs[s].severity # Null}
           IN  Averaged(Reports!buildNeedHierarchy(records, listed, subs)[d].severity, S, subs)
<1>. DEFINE S == {s \in Reports!SubsOf(records, d) : s \in DOMAIN subs /\ subs[s].severity # Null}
            Sums(g, s) == IF s = {} THEN 0
                          ELSE subs[CHOOSE x \in s : TRUE].severity
                                 + g[s \ {CHOOSE x \in s : TRUE}]
            sum == CHOOSE g : g = [s \in SUBSET S |-> Sums(g, s)]
            e == [c \in S |-> subs[c].severity]
            severity == Reports!buildNeedHierarchy(records, listed, subs)[d].severity
<1>1. IsFiniteSet(S)
  <2>. DEFINE R == {m \in records : m.at.domain = d}
              f == [m \in R |-> m.at.subDomain]
              N == {m.at.subDomain : m \in R}
  <2>1. IsFiniteSet(R)
    BY FS_Subset
  <2>2. f \in Surjection(R, N)
    BY DEF Surjection
  <2>3. IsFiniteSet(N)
    BY <2>1, <2>2, FS_Surjection
  <2>4. S \subseteq N
    BY DEF Reports!SubsOf
  <2>. QED BY <2>3, <2>4, FS_Subset
<1>2. severity = IF S = {} THEN Null ELSE Reports!Mean(S, LAMBDA s : subs[s].severity)
  BY DEF Reports!buildNeedHierarchy, Null
<1>3. Reports!Mean(S, LAMBDA s : subs[s].severity) = sum[S] \div Cardinality(S)
  BY DEF Reports!Mean, Reports!SumOver, Reports!MapThenSumSet, Reports!MapThenFoldSet,
         Reports!Cardinality, Cardinality
<1>4. ASSUME NEW g PROVE IsFold(g, e, Picked(S), S) <=> g = [s \in SUBSET S |-> Sums(g, s)]
  <2>1. ASSUME NEW s \in SUBSET S PROVE Step(e, Picked(S), g, s) = Sums(g, s)
    <3>1. s # {} => /\ (CHOOSE x \in s : TRUE) \in S
                    /\ Picked(S)[s] = CHOOSE x \in s : TRUE
                    /\ subs[CHOOSE x \in s : TRUE].severity = e[CHOOSE x \in s : TRUE]
      BY DEF Picked
    <3>. HIDE DEF e
    <3>. QED BY <3>1 DEF Step
  <2>. HIDE DEF Sums, e, S
  <2>. QED BY <2>1 DEF IsFold
<1>. HIDE DEF S
<1>5. \E g : IsFold(g, e, Picked(S), S)
  <2>. HIDE DEF e
  <2>. QED BY <1>1, PickedChooses, FoldExists
<1>6. IsFold(sum, e, Picked(S), S)
  <2>. HIDE DEF e, Sums
  <2>. QED BY <1>4, <1>5
<1>. HIDE DEF sum, severity
<1>7. Averaged(severity, S, subs)
  BY <1>2, <1>3, <1>6 DEF Averaged
<1>. QED BY <1>7 DEF S, severity

\* Severities of KPIs make severities of every level.
LEMMA LevelsAreSeverities ==
    ASSUME NEW questions, IsFiniteSet(questions), NEW parent, NEW child, NEW r,
           \A c \in DOMAIN r : r[c].severity \in {Null} \cup 0..100
    PROVE  \A p \in DOMAIN Reports!Up(questions, parent, child, r) :
              Reports!Up(questions, parent, child, r)[p].severity \in {Null} \cup 0..100
<1>. DEFINE U == Reports!Up(questions, parent, child, r)
<1>1. ASSUME NEW p \in DOMAIN U PROVE U[p].severity \in {Null} \cup 0..100
  <2>. DEFINE S == {c \in Below(questions, parent, child, r, p) : r[c].severity # Null}
  <2>1. IsFiniteSet(S) /\ Averaged(U[p].severity, S, r)
    BY RollupAveraged
  <2>2. \A c \in S : r[c].severity \in 0..100
    BY DEF Below
  <2>. HIDE DEF S, U
  <2>3. IF S = {} THEN U[p].severity = Null ELSE U[p].severity \in 0..100
    BY <2>1, <2>2, AverageWithin
  <2>. QED BY <2>3
<1>. QED BY <1>1

\* The sequence of n questions is what is left of the bank Q, in which every
\* name belongs to one name of the level above.
LeftOf(Q, n, bank) ==
    /\ IsFiniteSet(Q) /\ n \in Nat /\ DOMAIN bank = 1..n /\ \A i \in 1..n : bank[i] \in Q
    /\ Nested(Q, "kpi", "indicator") /\ Nested(Q, "indicator", "subDomain") /\ Nested(Q, "subDomain", "domain")

Severities(kpis) ==
    IsFiniteSet(DOMAIN kpis) /\ \A k \in DOMAIN kpis : kpis[k].severity \in {Null} \cup 0..100

\* Whatever the bank was when the rollups were computed, as long as every name
\* belongs to one above it, and whatever it has lost since: a domain of which
\* no question was lost, or that has no severity, has the same severity in the
\* tree of the report, by the mean of the sub-domains its needs are in, as in
\* the rollups.  (buildNeedHierarchy, calculateRollups)
THEOREM BothWaysToADomain ==
    ASSUME NEW Q, NEW n, NEW bank, LeftOf(Q, n, bank), NEW kpis, Severities(kpis),
           NEW required, NEW listed, NEW d, d # "UNMAPPED"
    PROVE  LET subs    == Reports!SubDomains(Q, Reports!Indicators(Q, kpis))
               domains == Reports!Domains(Q, subs)
               tree    == Reports!buildNeedHierarchy(Reports!NeedRecords(bank, kpis, required), listed, subs)
           IN  /\ d \in DOMAIN domains /\ d \in DOMAIN tree /\ d \notin DOMAIN listed
               /\ \/ \A q \in Q : q.domain = d => \E i \in 1..n : bank[i] = q
                  \/ domains[d].severity = Null
               => tree[d].severity = domains[d].severity
<1>. DEFINE inds    == Reports!Indicators(Q, kpis)
            subs    == Reports!SubDomains(Q, inds)
            domains == Reports!Domains(Q, subs)
            records == Reports!NeedRecords(bank, kpis, required)
            tree    == Reports!buildNeedHierarchy(records, listed, subs)
            kept    == \A q \in Q : q.domain = d => \E i \in 1..n : bank[i] = q
            Rolled == {c \in Below(Q, "domain", "subDomain", subs, d) : subs[c].severity # Null}
            Told   == {s \in Reports!SubsOf(records, d) : s \in DOMAIN subs /\ subs[s].severity # Null}
<1>. SUFFICES ASSUME d \in DOMAIN domains, d \in DOMAIN tree, d \notin DOMAIN listed,
                     kept \/ domains[d].severity = Null
              PROVE  tree[d].severity = domains[d].severity
  OBVIOUS
<1>0. /\ IsFiniteSet(Q) /\ n \in Nat /\ DOMAIN bank = 1..n /\ \A i \in 1..n : bank[i] \in Q
      /\ Nested(Q, "kpi", "indicator") /\ Nested(Q, "indicator", "subDomain") /\ Nested(Q, "subDomain", "domain")
      /\ IsFiniteSet(DOMAIN kpis) /\ \A k \in DOMAIN kpis : kpis[k].severity \in {Null} \cup 0..100
  BY DEF LeftOf, Severities
<1>1. IsFiniteSet(records)
  <2>1. [k \in DOMAIN kpis |-> Reports!Record(bank, k, kpis[k], required)] \in Surjection(DOMAIN kpis, records)
    BY DEF Surjection, Reports!NeedRecords
  <2>. QED BY <1>0, <2>1, FS_Surjection
<1>2. \A c \in DOMAIN subs : subs[c].severity \in {Null} \cup 0..100
  <2>1. \A c \in DOMAIN inds : inds[c].severity \in {Null} \cup 0..100
    BY <1>0, LevelsAreSeverities DEF Reports!Indicators
  <2>. HIDE DEF inds
  <2>. QED BY <1>0, <2>1, LevelsAreSeverities DEF Reports!SubDomains
<1>3. \A k \in DOMAIN kpis : \A i \in 1..n : bank[i].kpi = k =>
         \E m \in records : m.at.domain = bank[i].domain /\ m.at.subDomain = bank[i].subDomain
  <2>1. SUFFICES ASSUME NEW k \in DOMAIN kpis, NEW i \in 1..n, bank[i].kpi = k
                 PROVE  \E m \in records : m.at.domain = bank[i].domain /\ m.at.subDomain = bank[i].subDomain
    OBVIOUS
  <2>. DEFINE m == Reports!Record(bank, k, kpis[k], required)
  <2>2. m \in records /\ m.at = Reports!ClassOf(bank, k)
    BY DEF Reports!NeedRecords, Reports!Record
  <2>3. PICK j \in 1..n : /\ bank[j].kpi = k /\ m.at.domain = bank[j].domain
                          /\ m.at.subDomain = bank[j].subDomain
    BY <2>1, <1>0, <2>2, ClassOfAQuestion
  <2>4. bank[i] \in Q /\ bank[j] \in Q
    BY <1>0
  <2>5. bank[j].subDomain = bank[i].subDomain /\ bank[j].domain = bank[i].domain
    BY <1>0, <2>1, <2>3, <2>4 DEF Nested
  <2>. QED BY <2>2, <2>3, <2>5
<1>4. ASSUME NEW m \in records, m.at.domain = d
      PROVE  \E q \in Q : q.domain = d /\ q.subDomain = m.at.subDomain
  <2>1. PICK k \in DOMAIN kpis : m.at = Reports!ClassOf(bank, k)
    BY DEF Reports!NeedRecords, Reports!Record
  <2>2. Reports!Unmapped.domain = "UNMAPPED"
    BY DEF Reports!Unmapped
  <2>3. PICK i \in 1..n : m.at.domain = bank[i].domain /\ m.at.subDomain = bank[i].subDomain
    BY <1>4, <2>1, <1>0, <2>2, ClassOfAQuestion
  <2>. QED BY <1>0, <1>4, <2>3
<1>5. \A c : c \in DOMAIN inds <=> \E q \in Q : q.indicator = c /\ q.kpi \in DOMAIN kpis
  BY <1>0, RollupAveraged DEF Reports!Indicators
<1>. HIDE DEF inds, records
<1>6. \A c : c \in DOMAIN subs <=> \E q \in Q : q.subDomain = c /\ q.indicator \in DOMAIN inds
  BY <1>0, RollupAveraged DEF Reports!SubDomains
<1>. HIDE DEF subs
<1>7. Averaged(domains[d].severity, Rolled, subs) /\ IsFiniteSet(Rolled)
  BY <1>0, RollupAveraged DEF Reports!Domains
<1>. HIDE DEF domains
<1>8. \A c \in Rolled : subs[c].severity \in 0..100
  <2>1. \A c \in Rolled : c \in DOMAIN subs /\ subs[c].severity # Null
    BY DEF Below
  <2>. HIDE DEF Rolled
  <2>. QED BY <1>2, <2>1
<1>9. \A c \in Told : c \in Rolled
  BY <1>4 DEF Below, Reports!SubsOf
<1>10. ASSUME kept, NEW c \in Rolled PROVE c \in Told
  <2>1. PICK q \in Q : q.domain = d /\ q.subDomain = c /\ c \in DOMAIN subs
    BY DEF Below
  <2>2. PICK r \in Q : r.subDomain = c /\ r.indicator \in DOMAIN inds
    BY <1>6, <2>1
  <2>3. PICK t \in Q : t.indicator = r.indicator /\ t.kpi \in DOMAIN kpis
    BY <1>5, <2>2
  <2>4. t.subDomain = c /\ t.domain = d
    BY <1>0, <2>1, <2>2, <2>3 DEF Nested
  <2>5. PICK i \in 1..n : bank[i] = t
    BY <1>10, <2>4
  <2>6. \E m \in records : m.at.domain = d /\ m.at.subDomain = c
    BY <1>3, <2>3, <2>4, <2>5
  <2>. QED BY <2>1, <2>6 DEF Reports!SubsOf
<1>11. ASSUME domains[d].severity = Null PROVE Rolled = {}
  <2>. HIDE DEF Rolled
  <2>1. IF Rolled = {} THEN domains[d].severity = Null ELSE domains[d].severity \in 0..100
    BY <1>7, <1>8, AverageWithin
  <2>2. Null \notin 0..100
    BY DEF Null, Reports!Null
  <2>. QED BY <1>11, <2>1, <2>2
<1>12. Told = Rolled
  <2>. HIDE DEF Told, Rolled, kept
  <2>. QED BY <1>9, <1>10, <1>11
<1>13. d \in Reports!DomainsOf(records)
  BY DEF Reports!buildNeedHierarchy
<1>14. Averaged(tree[d].severity, Told, subs)
  BY <1>1, <1>13, TreeAveraged
<1>15. \A x \in 0..100 : x \in Int
  BY SeveritiesAreNumbers
<1>. HIDE DEF tree, Rolled, Told
<1>16. \A c \in Rolled : subs[c].severity \in Int
  BY <1>8, <1>15, Zenon
<1>. QED BY <1>7, <1>12, <1>14, <1>16, OneAverage

PlacesOf(tree, n) == {d \in DOMAIN tree : n \in tree[d].needs}

\* Every need is in one place of the tree, that of its domain.
OnePlaceEach(tree, listed, records) ==
    /\ DOMAIN tree = DOMAIN listed \cup Reports!DomainsOf(records)
    /\ \A d \in DOMAIN listed : tree[d].severity = listed[d]
    /\ UNION {tree[d].needs : d \in DOMAIN tree} = records
    /\ \A n \in records : Cardinality(PlacesOf(tree, n)) = 1

\* A hierarchy puts every need in one place, for whatever it is built from.
LEMMA NeedsInOnePlace ==
    ASSUME NEW records, NEW listed, NEW subs
    PROVE  OnePlaceEach(Reports!buildNeedHierarchy(records, listed, subs), listed, records)
<1>. DEFINE tree == Reports!buildNeedHierarchy(records, listed, subs)
<1>1. DOMAIN tree = DOMAIN listed \cup Reports!DomainsOf(records)
  BY DEF Reports!buildNeedHierarchy
<1>2. \A d \in DOMAIN tree : tree[d].needs = {n \in records : n.at.domain = d}
  BY DEF Reports!buildNeedHierarchy
<1>3. \A d \in DOMAIN listed : tree[d].severity = listed[d]
  BY DEF Reports!buildNeedHierarchy
<1>. HIDE DEF tree
<1>4. \A n \in records : n.at.domain \in DOMAIN tree
  BY <1>1 DEF Reports!DomainsOf
<1>5. ASSUME NEW n \in records PROVE Cardinality(PlacesOf(tree, n)) = 1
  <2>1. PlacesOf(tree, n) = {n.at.domain}
    BY <1>2, <1>4 DEF PlacesOf
  <2>. QED BY <2>1, FS_Singleton
<1>6. UNION {tree[d].needs : d \in DOMAIN tree} = records
  <2>1. ASSUME NEW n \in records PROVE n \in UNION {tree[d].needs : d \in DOMAIN tree}
    BY <1>2, <1>4
  <2>2. ASSUME NEW n \in UNION {tree[d].needs : d \in DOMAIN tree} PROVE n \in records
    BY <1>2
  <2>. QED BY <2>1, <2>2
<1>. QED BY <1>1, <1>3, <1>5, <1>6 DEF tree, OnePlaceEach

\* There is a record for every KPI, and it is measured as the KPI is.
LEMMA RecordsCount ==
    ASSUME NEW bank, NEW kpis, IsFiniteSet(DOMAIN kpis), NEW required
    PROVE  LET records == Reports!NeedRecords(bank, kpis, required) IN
             /\ IsFiniteSet(records)
             /\ Cardinality(Reports!Measured(records)) = Cardinality({k \in DOMAIN kpis : kpis[k].severity # Null})
<1>. DEFINE records == Reports!NeedRecords(bank, kpis, required)
            f == [k \in DOMAIN kpis |-> Reports!Record(bank, k, kpis[k], required)]
            K == {k \in DOMAIN kpis : kpis[k].severity # Null}
<1>1. \A k \in DOMAIN kpis : f[k].kpi = k /\ f[k].severity = kpis[k].severity
  BY DEF Reports!Record
<1>2. records = {f[k] : k \in DOMAIN kpis}
  BY DEF Reports!NeedRecords
<1>. HIDE DEF f, records
<1>3. f = [k \in DOMAIN kpis |-> f[k]]
  BY DEF f
<1>4. IsFiniteSet(records)
  <2>1. f \in Surjection(DOMAIN kpis, records)
    BY <1>2, <1>3 DEF Surjection
  <2>. QED BY <2>1, FS_Surjection
<1>5. Reports!Measured(records) = {f[k] : k \in K}
  BY <1>1, <1>2 DEF Reports!Measured, Null
<1>6. IsFiniteSet(K) /\ \A k, l \in K : f[k] = f[l] => k = l
  BY <1>1, FS_Subset
<1>. HIDE DEF K
<1>7. Cardinality({f[k] : k \in K}) = Cardinality(K)
  BY <1>6, ImageCount
<1>. QED BY <1>4, <1>5, <1>7 DEF records, K

\* A pair with an element more is a triple.
LEMMA ThirdAppended ==
    ASSUME NEW a, NEW b, NEW c
    PROVE  LET s == Append(<<a, b>>, c)
           IN  DOMAIN s = 1..3 /\ Len(s) = 3 /\ s[1] = a /\ s[2] = b /\ s[3] = c
<1>. DEFINE two == <<a, b>>
            T == {a, b, c}
<1>1. two \in Seq(T) /\ c \in T /\ Len(two) = 2 /\ two[1] = a /\ two[2] = b
  OBVIOUS
<1>. HIDE DEF two, T
<1>2. two \in Seq(T) /\ c \in T
  BY <1>1
<1>3. /\ Append(two, c) \in Seq(T) /\ Len(Append(two, c)) = Len(two) + 1
      /\ \A i \in 1..Len(two) : Append(two, c)[i] = two[i]
      /\ Append(two, c)[Len(two) + 1] = c
  BY <1>2, AppendProperties
<1>4. /\ DOMAIN Append(two, c) = 1..3 /\ Len(Append(two, c)) = 3
      /\ Append(two, c)[1] = a /\ Append(two, c)[2] = b /\ Append(two, c)[3] = c
  BY <1>1, <1>3
<1>. QED BY <1>4 DEF two

\* The bank of a report, when its rollups were computed and now.
LEMMA BankOfInput ==
    ASSUME NEW x \in ReportInputs,
           NEW A, A = Question("q1", "k1", "d1"), NEW B, B = Question("q2", "k2", x.second),
           NEW C, C = Question("q3", "k3", "d1")
    PROVE  /\ DOMAIN Bank(x) = 1..Len(Bank(x)) /\ Len(Bank(x)) \in Nat
           /\ Len(Bank(x)) = IF x.lost THEN 2 ELSE 3
           /\ Bank(x)[1] = A /\ Bank(x)[2] = B /\ (~x.lost => Bank(x)[3] = C)
<1>1. x.lost \in BOOLEAN
  BY DEF ReportInputs
<1>2. CASE x.lost
  <2>1. Bank(x) = <<A, B>>
    BY <1>2 DEF Bank
  <2>. QED BY <1>2, <2>1
<1>3. CASE ~x.lost
  <2>1. Bank(x) = Append(<<A, B>>, C)
    BY <1>3 DEF Bank
  <2>. QED BY <1>3, <2>1, ThirdAppended
<1>. QED BY <1>1, <1>2, <1>3

\* The domains of a report: those of its rollups, of its bank, of its records.
LEMMA DomainsOfInput ==
    ASSUME NEW x \in ReportInputs
    PROVE  /\ DOMAIN ReportLevels(x).domain = {"d1", x.second}
           /\ Reports!AllDomains(Bank(x)) = {"d1", x.second}
           /\ Reports!DomainsOf(Reports!NeedRecords(Bank(x), x.kpis, x.required))
                = {"d1", x.second} \cup (IF x.lost THEN {"UNMAPPED"} ELSE {})
<1>. DEFINE A == Question("q1", "k1", "d1")
            B == Question("q2", "k2", x.second)
            C == Question("q3", "k3", "d1")
            Q == {A, B, C}
            bank == Bank(x)
            n == Len(bank)
            inds == Reports!Indicators(Q, x.kpis)
            subs == Reports!SubDomains(Q, inds)
            domains == Reports!Domains(Q, subs)
            records == Reports!NeedRecords(bank, x.kpis, x.required)
<1>1. /\ DOMAIN bank = 1..n /\ n \in Nat /\ n = (IF x.lost THEN 2 ELSE 3)
      /\ bank[1] = A /\ bank[2] = B /\ (~x.lost => bank[3] = C)
  BY BankOfInput
<1>2. x.lost \in BOOLEAN /\ x.second \in {"d1", "d2"} /\ DOMAIN x.kpis = {"k1", "k2", "k3"}
  BY DEF ReportInputs
<1>3. /\ A.kpi = "k1" /\ A.indicator = "k1" /\ A.subDomain = "k1" /\ A.domain = "d1"
      /\ B.kpi = "k2" /\ B.indicator = "k2" /\ B.subDomain = "k2" /\ B.domain = x.second
      /\ C.kpi = "k3" /\ C.indicator = "k3" /\ C.subDomain = "k3" /\ C.domain = "d1"
  BY DEF Question
<1>4. ReportLevels(x).domain = domains
  BY DEF ReportLevels
<1>. HIDE DEF A, B, C, bank, n
<1>5. IsFiniteSet(Q)
  <2>1. IsFiniteSet({A}) /\ IsFiniteSet({B}) /\ IsFiniteSet({C})
    BY FS_Singleton
  <2>2. IsFiniteSet({A} \cup {B})
    BY <2>1, FS_Union
  <2>3. IsFiniteSet(({A} \cup {B}) \cup {C})
    BY <2>1, <2>2, FS_Union
  <2>4. Q = ({A} \cup {B}) \cup {C}
    OBVIOUS
  <2>. QED BY <2>3, <2>4
<1>6. \A q : q \in Q <=> q \in {A, B, C}
  OBVIOUS
<1>. HIDE DEF Q
<1>7. \A p : p \in DOMAIN inds <=> \E q \in Q : q.indicator = p /\ q.kpi \in DOMAIN x.kpis
  BY <1>5, RollupAveraged DEF Reports!Indicators
<1>8. DOMAIN inds = {"k1", "k2", "k3"}
  BY <1>2, <1>3, <1>6, <1>7
<1>. HIDE DEF inds
<1>9. \A p : p \in DOMAIN subs <=> \E q \in Q : q.subDomain = p /\ q.indicator \in DOMAIN inds
  BY <1>5, RollupAveraged DEF Reports!SubDomains
<1>10. DOMAIN subs = {"k1", "k2", "k3"}
  BY <1>3, <1>6, <1>8, <1>9
<1>. HIDE DEF subs
<1>11. \A p : p \in DOMAIN domains <=> \E q \in Q : q.domain = p /\ q.subDomain \in DOMAIN subs
  BY <1>5, RollupAveraged DEF Reports!Domains
<1>12. DOMAIN domains = {"d1", x.second}
  BY <1>3, <1>6, <1>10, <1>11
<1>13. Reports!AllDomains(bank) = {"d1", x.second}
  <2>1. Reports!AllDomains(bank) = {bank[i].domain : i \in 1..n}
    BY <1>1 DEF Reports!AllDomains
  <2>2. CASE x.lost
    <3>1. 1..n = {1, 2}
      BY <1>1, <2>2
    <3>. QED BY <1>1, <1>3, <2>1, <3>1
  <2>3. CASE ~x.lost
    <3>1. 1..n = {1, 2, 3}
      BY <1>1, <2>3
    <3>. QED BY <1>1, <1>3, <2>1, <2>3, <3>1
  <2>. QED BY <1>2, <2>2, <2>3
<1>14. /\ Reports!ClassOf(bank, "k1").domain = "d1"
       /\ Reports!ClassOf(bank, "k2").domain = x.second
       /\ Reports!ClassOf(bank, "k3").domain = IF x.lost THEN "UNMAPPED" ELSE "d1"
  <2>1. \A i \in 1..n : i = 1 \/ i = 2 \/ (i = 3 /\ ~x.lost)
    BY <1>1, <1>2
  <2>2. 1 \in 1..n /\ 2 \in 1..n /\ (~x.lost => 3 \in 1..n)
    BY <1>1, <1>2
  <2>3. Reports!ClassOf(bank, "k1").domain = "d1"
    <3>1. PICK i \in 1..n : bank[i].kpi = "k1" /\ Reports!ClassOf(bank, "k1").domain = bank[i].domain
      BY <1>1, <1>3, <2>2, ClassOfAQuestion
    <3>. QED BY <1>1, <1>3, <2>1, <3>1
  <2>4. Reports!ClassOf(bank, "k2").domain = x.second
    <3>1. PICK i \in 1..n : bank[i].kpi = "k2" /\ Reports!ClassOf(bank, "k2").domain = bank[i].domain
      BY <1>1, <1>3, <2>2, ClassOfAQuestion
    <3>. QED BY <1>1, <1>3, <2>1, <3>1
  <2>5. Reports!ClassOf(bank, "k3").domain = IF x.lost THEN "UNMAPPED" ELSE "d1"
    <3>1. CASE x.lost
      <4>1. ~\E i \in 1..n : bank[i].kpi = "k3"
        BY <1>1, <1>3, <2>1, <3>1
      <4>2. Reports!ClassOf(bank, "k3") = Reports!Unmapped
        BY <1>1, <4>1, ClassOfAQuestion
      <4>. QED BY <3>1, <4>2 DEF Reports!Unmapped
    <3>2. CASE ~x.lost
      <4>1. \E i \in 1..n : bank[i].kpi = "k3"
        BY <1>1, <1>3, <2>2, <3>2
      <4>2. PICK i \in 1..n : bank[i].kpi = "k3" /\ Reports!ClassOf(bank, "k3").domain = bank[i].domain
        BY <1>1, <4>1, ClassOfAQuestion
      <4>. QED BY <1>1, <1>3, <2>1, <3>2, <4>2
    <3>. QED BY <1>2, <3>1, <3>2
  <2>. QED BY <2>3, <2>4, <2>5
<1>15. Reports!DomainsOf(records) = {Reports!ClassOf(bank, k).domain : k \in {"k1", "k2", "k3"}}
  <2>1. \A k : Reports!Record(bank, k, x.kpis[k], x.required).at = Reports!ClassOf(bank, k)
    BY DEF Reports!Record
  <2>2. Reports!DomainsOf(records)
          = {Reports!Record(bank, k, x.kpis[k], x.required).at.domain : k \in {"k1", "k2", "k3"}}
    BY <1>2 DEF Reports!DomainsOf, Reports!NeedRecords
  <2>. QED BY <2>1, <2>2
<1>16. Reports!DomainsOf(records) = {"d1", x.second} \cup (IF x.lost THEN {"UNMAPPED"} ELSE {})
  BY <1>2, <1>14, <1>15
<1>. QED BY <1>4, <1>12, <1>13, <1>16 DEF bank

\* What is listed with a priority component is listed with its own severity.
LEMMA ListedAreDomains ==
    ASSUME NEW domains, NEW configs
    PROVE  LET listed == Reports!mapDomains(domains, configs) IN
             /\ DOMAIN listed \subseteq DOMAIN domains
             /\ \A d \in DOMAIN listed : listed[d] = domains[d].severity
             /\ \A d \in DOMAIN domains \ DOMAIN listed :
                  /\ \E c \in configs : c.domain \in DOMAIN domains /\ c.domain # d
                  /\ \A c \in configs : c.domain = d => domains[d].severity = Null
<1>. DEFINE weighted == {c.domain : c \in Reports!Components(configs, domains)}
            listed == Reports!mapDomains(domains, configs)
<1>1. DOMAIN listed = IF weighted # {} THEN weighted ELSE DOMAIN domains
  BY DEF Reports!mapDomains
<1>2. \A d \in DOMAIN listed : listed[d] = domains[d].severity
  BY DEF Reports!mapDomains
<1>3. Reports!Components(configs, domains)
        = {c \in configs : c.domain \in DOMAIN domains /\ domains[c.domain].severity # Null}
  BY DEF Reports!Components, Null
<1>. HIDE DEF listed
<1>4. weighted \subseteq DOMAIN domains
  BY <1>3
<1>5. ASSUME NEW d \in DOMAIN domains \ DOMAIN listed
      PROVE  /\ \E c \in configs : c.domain \in DOMAIN domains /\ c.domain # d
             /\ \A c \in configs : c.domain = d => domains[d].severity = Null
  <2>1. weighted # {} /\ d \notin weighted
    BY <1>1, <1>5
  <2>2. PICK c \in Reports!Components(configs, domains) : TRUE
    BY <2>1
  <2>3. c \in configs /\ c.domain \in DOMAIN domains /\ c.domain # d
    BY <1>3, <2>1, <2>2
  <2>. QED BY <1>3, <2>1, <2>3
<1>6. DOMAIN listed \subseteq DOMAIN domains
  BY <1>1, <1>4
<1>. QED BY <1>2, <1>5, <1>6 DEF listed

\* The two routes meet in the report.
LEMMA TreeOfInput ==
    ASSUME NEW x \in ReportInputs, NEW d, d \in DOMAIN ReportLevels(x).domain
    PROVE  LET levels == ReportLevels(x)
               tree == Reports!buildNeedHierarchy(Reports!NeedRecords(Bank(x), x.kpis, x.required),
                          Reports!mapDomains(levels.domain, ReportConfigs(x)), levels.subDomain)
           IN  d \in DOMAIN tree => tree[d].severity = levels.domain[d].severity
<1>. DEFINE A == Question("q1", "k1", "d1")
            B == Question("q2", "k2", x.second)
            C == Question("q3", "k3", "d1")
            Q == {A, B, C}
            bank == Bank(x)
            n == Len(bank)
            levels == ReportLevels(x)
            listed == Reports!mapDomains(levels.domain, ReportConfigs(x))
            records == Reports!NeedRecords(bank, x.kpis, x.required)
            tree == Reports!buildNeedHierarchy(records, listed, levels.subDomain)
<1>. SUFFICES ASSUME d \in DOMAIN tree
              PROVE  tree[d].severity = levels.domain[d].severity
  OBVIOUS
<1>1. /\ DOMAIN bank = 1..n /\ n \in Nat /\ n = (IF x.lost THEN 2 ELSE 3)
      /\ bank[1] = A /\ bank[2] = B /\ (~x.lost => bank[3] = C)
  BY BankOfInput
<1>2. /\ x.lost \in BOOLEAN /\ x.second \in {"d1", "d2"} /\ DOMAIN x.kpis = {"k1", "k2", "k3"}
      /\ x.configured \in {{}, {"d1"}, {"d1", "d2"}}
  BY DEF ReportInputs
<1>3. \A k \in DOMAIN x.kpis : x.kpis[k].severity \in {Null} \cup 0..100
  <2>1. x.kpis \in [{"k1", "k2", "k3"} -> Kpi]
    BY DEF ReportInputs
  <2>2. \A k \in Kpi : k.severity \in {Null} \cup 0..100
    BY DEF Kpi, Null, Reports!Null
  <2>. QED BY <1>2, <2>1, <2>2
<1>4. /\ A.kpi = "k1" /\ A.indicator = "k1" /\ A.subDomain = "k1" /\ A.domain = "d1"
      /\ B.kpi = "k2" /\ B.indicator = "k2" /\ B.subDomain = "k2" /\ B.domain = x.second
      /\ C.kpi = "k3" /\ C.indicator = "k3" /\ C.subDomain = "k3" /\ C.domain = "d1"
  BY DEF Question
<1>5. DOMAIN levels.domain = {"d1", x.second}
  BY DomainsOfInput
<1>11. d \in DOMAIN levels.domain /\ d \in DOMAIN tree
  OBVIOUS
<1>6. /\ DOMAIN listed \subseteq DOMAIN levels.domain
      /\ \A e \in DOMAIN listed : listed[e] = levels.domain[e].severity
      /\ \A e \in DOMAIN levels.domain \ DOMAIN listed :
            /\ \E c \in ReportConfigs(x) : c.domain \in DOMAIN levels.domain /\ c.domain # e
            /\ \A c \in ReportConfigs(x) : c.domain = e => levels.domain[e].severity = Null
  BY ListedAreDomains
<1>7. /\ levels.subDomain = Reports!SubDomains(Q, Reports!Indicators(Q, x.kpis))
      /\ levels.domain = Reports!Domains(Q, levels.subDomain)
  BY DEF ReportLevels
<1>8. \A e : (\E c \in ReportConfigs(x) : c.domain = e) <=> e \in x.configured
  <2>. DEFINE Config(e) == [domain |-> e, weight |-> IF e = "d1" THEN 3 ELSE 1, critical |-> FALSE, threshold |-> 0]
  <2>1. ReportConfigs(x) = {Config(e) : e \in x.configured}
    BY DEF ReportConfigs
  <2>2. \A e : Config(e).domain = e
    OBVIOUS
  <2>. HIDE DEF Config
  <2>. QED BY <2>1, <2>2
<1>. HIDE DEF A, B, C, bank, n, levels, listed, records
<1>9. CASE d \in DOMAIN listed
  <2>1. tree[d].severity = listed[d]
    BY <1>9 DEF Reports!buildNeedHierarchy
  <2>. QED BY <1>6, <1>9, <2>1
<1>10. CASE d \notin DOMAIN listed
  <2>1. IsFiniteSet(Q) /\ IsFiniteSet(DOMAIN x.kpis)
    <3>1. \A a, b, c : IsFiniteSet({a, b, c})
      <4>. SUFFICES ASSUME NEW a, NEW b, NEW c PROVE IsFiniteSet({a, b, c})
        OBVIOUS
      <4>1. IsFiniteSet({a}) /\ IsFiniteSet({b}) /\ IsFiniteSet({c})
        BY FS_Singleton
      <4>2. IsFiniteSet({a} \cup {b})
        BY <4>1, FS_Union
      <4>3. IsFiniteSet(({a} \cup {b}) \cup {c})
        BY <4>1, <4>2, FS_Union
      <4>4. {a, b, c} = ({a} \cup {b}) \cup {c}
        OBVIOUS
      <4>. QED BY <4>3, <4>4
    <3>. HIDE DEF Q
    <3>2. IsFiniteSet({"k1", "k2", "k3"})
      BY <3>1
    <3>3. IsFiniteSet(DOMAIN x.kpis)
      BY <1>2, <3>2
    <3>. QED BY <3>1, <3>3 DEF Q
  <2>2. \A i \in 1..n : bank[i] \in Q
    <3>1. \A i \in 1..n : i = 1 \/ i = 2 \/ (i = 3 /\ ~x.lost)
      BY <1>1, <1>2
    <3>. QED BY <1>1, <3>1
  <2>3. /\ Nested(Q, "kpi", "indicator") /\ Nested(Q, "indicator", "subDomain")
        /\ Nested(Q, "subDomain", "domain")
    BY <1>4 DEF Nested
  <2>4. d # "UNMAPPED"
    BY <1>2, <1>5, <1>11
  <2>5. \/ \A q \in Q : q.domain = d => \E i \in 1..n : bank[i] = q
        \/ levels.domain[d].severity = Null
    <3>1. 1 \in 1..n /\ 2 \in 1..n /\ (~x.lost => 3 \in 1..n)
      BY <1>1, <1>2
    <3>2. CASE ~x.lost
      BY <1>1, <3>1, <3>2
    <3>3. CASE d = "d2"
      BY <1>1, <1>4, <3>1, <3>3
    <3>4. CASE d = "d1"
      <4>1. PICK c \in ReportConfigs(x) : TRUE
        BY <1>6, <1>10, <1>11
      <4>2. "d1" \in x.configured
        BY <1>2, <1>8, <4>1
      <4>3. \E e \in ReportConfigs(x) : e.domain = "d1"
        BY <1>8, <4>2
      <4>. QED BY <1>6, <1>10, <1>11, <3>4, <4>3
    <3>. QED BY <1>2, <1>5, <1>11, <3>2, <3>3, <3>4
  <2>. HIDE DEF Q
  <2>7. LeftOf(Q, n, bank) /\ Severities(x.kpis)
    BY <1>1, <1>3, <2>1, <2>2, <2>3 DEF LeftOf, Severities
  <2>6. LET subs    == Reports!SubDomains(Q, Reports!Indicators(Q, x.kpis))
            domains == Reports!Domains(Q, subs)
            found   == Reports!buildNeedHierarchy(Reports!NeedRecords(bank, x.kpis, x.required), listed, subs)
        IN  /\ d \in DOMAIN domains /\ d \in DOMAIN found /\ d \notin DOMAIN listed
            /\ \/ \A q \in Q : q.domain = d => \E i \in 1..n : bank[i] = q
               \/ domains[d].severity = Null
            => found[d].severity = domains[d].severity
    BY <2>4, <2>7, BothWaysToADomain
  <2>. QED BY <1>7, <1>10, <1>11, <2>5, <2>6 DEF records
<1>. QED BY <1>9, <1>10

\* The sections of every report agree.
LEMMA SectionsOfInput ==
    ASSUME NEW x \in ReportInputs
    PROVE  LET c == Reports!buildUnifiedRpt01(Bank(x), ReportLevels(x), ReportConfigs(x), x.required)
               levels == ReportLevels(x)
           IN  /\ Reports!SelfConsistent(Reports!buildCoverageBlock(levels, {}), c)
               /\ c.summary.assessed \cup c.notAssessed = Reports!AllDomains(Bank(x))
               /\ c.summary.assessed \cap c.notAssessed = {}
               /\ \A d \in DOMAIN c.tree \cap DOMAIN levels.domain :
                     c.tree[d].severity = levels.domain[d].severity
               /\ \A n \in c.records : Cardinality({d \in DOMAIN c.tree : n \in c.tree[d].needs}) = 1
<1>. DEFINE c == Reports!buildUnifiedRpt01(Bank(x), ReportLevels(x), ReportConfigs(x), x.required)
            levels == ReportLevels(x)
            records == Reports!NeedRecords(Bank(x), x.kpis, x.required)
            listed == Reports!mapDomains(levels.domain, ReportConfigs(x))
            tree == Reports!buildNeedHierarchy(records, listed, levels.subDomain)
            all == Reports!AllDomains(Bank(x))
            D == {"d1", x.second}
<1>1. levels.kpi = x.kpis
  BY DEF ReportLevels
<1>2. /\ c.records = records /\ c.tree = tree
      /\ c.summary.assessed = all \cap Reports!DomainsOf(records)
      /\ c.notAssessed = all \ DOMAIN tree
  BY <1>1 DEF Reports!buildUnifiedRpt01, Reports!composeExecutiveSummary
<1>3. x.second \in {"d1", "d2"}
  BY DEF ReportInputs
<1>4. /\ DOMAIN levels.domain = D /\ all = D
      /\ Reports!DomainsOf(records) = D \cup (IF x.lost THEN {"UNMAPPED"} ELSE {})
  BY DomainsOfInput
<1>5. DOMAIN listed \subseteq DOMAIN levels.domain
  BY ListedAreDomains
<1>6. /\ DOMAIN tree = DOMAIN listed \cup Reports!DomainsOf(records)
      /\ UNION {tree[d].needs : d \in DOMAIN tree} = records
      /\ \A n \in records : Cardinality(PlacesOf(tree, n)) = 1
  <2>1. OnePlaceEach(tree, listed, records)
    BY NeedsInOnePlace
  <2>. HIDE DEF tree, listed, records
  <2>. QED BY <2>1 DEF OnePlaceEach
<1>7. \A d \in DOMAIN levels.domain : d \in DOMAIN tree => tree[d].severity = levels.domain[d].severity
  BY TreeOfInput
<1>8. Cardinality(Reports!Measured(records)) = Cardinality({k \in DOMAIN x.kpis : x.kpis[k].severity # Null})
  <2>1. DOMAIN x.kpis = {"k1", "k2", "k3"}
    BY DEF ReportInputs
  <2>2. IsFiniteSet({"k1"}) /\ IsFiniteSet({"k2"}) /\ IsFiniteSet({"k3"})
    BY FS_Singleton
  <2>3. IsFiniteSet({"k1"} \cup {"k2"})
    BY <2>2, FS_Union
  <2>4. IsFiniteSet(({"k1"} \cup {"k2"}) \cup {"k3"})
    BY <2>2, <2>3, FS_Union
  <2>5. DOMAIN x.kpis = ({"k1"} \cup {"k2"}) \cup {"k3"}
    BY <2>1
  <2>6. IsFiniteSet(DOMAIN x.kpis)
    BY <2>4, <2>5
  <2>. QED BY <2>6, RecordsCount
<1>9. DOMAIN tree \ {"UNMAPPED"} = D
  <2>. HIDE DEF tree, listed, levels, records
  <2>. QED BY <1>3, <1>4, <1>5, <1>6
<1>10. Reports!SelfConsistent(Reports!buildCoverageBlock(levels, {}), c)
  <2>. DEFINE block == Reports!buildCoverageBlock(levels, {})
  <2>1. /\ block.domainsScored = Cardinality(DOMAIN levels.domain) + Cardinality({})
        /\ block.kpisScored = Cardinality({k \in DOMAIN levels.kpi : levels.kpi[k].severity # Null})
    BY DEF Reports!buildCoverageBlock, Reports!Cardinality, Cardinality, Null
  <2>2. Cardinality({}) = 0 /\ Cardinality(D) \in Nat
    <3>1. IsFiniteSet({"d1"}) /\ IsFiniteSet({x.second})
      BY FS_Singleton
    <3>2. IsFiniteSet({"d1"} \cup {x.second}) /\ D = {"d1"} \cup {x.second}
      BY <3>1, FS_Union
    <3>. QED BY <3>2, FS_CardinalityType, FS_EmptySet
  <2>3. \A S : Reports!Cardinality(S) = Cardinality(S)
    BY DEF Reports!Cardinality, Cardinality
  <2>. HIDE DEF block, c, tree, levels, records, D
  <2>4. block.domainsScored = Cardinality(D)
    BY <1>4, <2>1, <2>2
  <2>5. block.kpisScored = Cardinality(Reports!Measured(records))
    BY <1>1, <1>8, <2>1
  <2>6. block.domainsScored = Reports!Cardinality(DOMAIN c.tree \ {"UNMAPPED"})
    BY <1>2, <1>9, <2>3, <2>4
  <2>7. block.kpisScored = Reports!Cardinality(Reports!Measured(c.records))
    BY <1>2, <2>3, <2>5
  <2>8. UNION {c.tree[d].needs : d \in DOMAIN c.tree} = c.records
    BY <1>2, <1>6
  <2>. QED BY <2>6, <2>7, <2>8 DEF Reports!SelfConsistent, block
<1>. HIDE DEF c, tree, levels, records, all, listed
<1>11. c.summary.assessed \cup c.notAssessed = all /\ c.summary.assessed \cap c.notAssessed = {}
  BY <1>2, <1>4, <1>5, <1>6
<1>12. \A d \in DOMAIN c.tree \cap DOMAIN levels.domain : c.tree[d].severity = levels.domain[d].severity
  BY <1>2, <1>7
<1>13. \A n \in c.records : Cardinality({d \in DOMAIN c.tree : n \in c.tree[d].needs}) = 1
  BY <1>2, <1>6 DEF PlacesOf
<1>. QED BY <1>2, <1>10, <1>11, <1>12, <1>13 DEF c, levels, all

\* Whatever the severities of KPIs: none that the list of the most severe
\* leaves out is worse than one in it.  (mapTopKpis)
LEMMA WorstOnTop ==
    ASSUME NEW kpis, IsFiniteSet(DOMAIN kpis), \A k \in DOMAIN kpis : kpis[k].severity \in Int,
           NEW most \in Nat, NEW k \in DOMAIN kpis, k \notin ToSet(Reports!topKpis(kpis, most)),
           NEW t \in ToSet(Reports!topKpis(kpis, most))
    PROVE  kpis[k].severity <= kpis[t].severity
<1>. DEFINE S == DOMAIN kpis
            worth == [x \in S |-> kpis[x].severity]
            before == {p \in S \X S : worth[p[1]] > worth[p[2]]}
            r == Ranked(S, before)
            n == Cardinality(S)
            top == Leading(r, most)
<1>1. \A x \in S : worth[x] \in Int /\ worth[x] = kpis[x].severity
  OBVIOUS
<1>2. Reports!topKpis(kpis, most) = top
  <2>. DEFINE other == {p \in S \X S : kpis[p[1]].severity > kpis[p[2]].severity}
  <2>1. Reports!topKpis(kpis, most) = Reports!Leading(Reports!Ranked(S, other), most)
    BY DEF Reports!topKpis
  <2>2. other = before
    OBVIOUS
  <2>. HIDE DEF before, other, S
  <2>3. Reports!Ranked(S, before) = r
    BY DEF Reports!Ranked, Ranked, Reports!Cardinality, Cardinality
  <2>. HIDE DEF r
  <2>4. Reports!Leading(r, most) = top
    BY DEF Reports!Leading, Leading
  <2>. QED BY <2>1, <2>2, <2>3, <2>4
<1>3. \A x, y \in S : <<x, y>> \in before <=> worth[x] > worth[y]
  OBVIOUS
<1>. HIDE DEF worth
<1>4. Strict(before, S)
  BY <1>1, ByNumber
<1>. HIDE DEF before
<1>5. InOrder(r, S, before) /\ \A x \in S : \E i \in 1..n : r[i] = x
  BY <1>4, RankedInOrder
<1>6. n \in Nat
  BY FS_CardinalityType
<1>7. r \in [1..n -> S] /\ \A i, j \in 1..n : i < j => <<r[j], r[i]>> \notin before
  BY <1>5 DEF InOrder
<1>. HIDE DEF r, n
<1>8. Sized(r, n, S)
  BY <1>6, <1>7 DEF Sized
<1>9. /\ Sized(top, Lesser(n, most), S)
      /\ \A i \in 1..Lesser(n, most) : i \in 1..n /\ top[i] = r[i]
  BY <1>8, LeadingOf
<1>. DEFINE m == Lesser(n, most)
<1>10. m \in Nat /\ (m = n \/ m = most) /\ m <= n
  BY <1>6 DEF Lesser
<1>. HIDE DEF top, m
<1>11. top \in [1..m -> S] /\ \A i \in 1..m : i \in 1..n /\ top[i] = r[i]
  BY <1>9 DEF Sized, m
<1>12. ToSet(top) = {r[i] : i \in 1..m}
  BY <1>11 DEF ToSet
<1>13. PICK i \in 1..m : t = r[i]
  BY <1>2, <1>12
<1>14. PICK j \in 1..n : k = r[j]
  BY <1>5
<1>15. j \notin 1..m
  BY <1>2, <1>12, <1>14
<1>16. i \in 1..n /\ i < j
  BY <1>6, <1>10, <1>13, <1>14, <1>15
<1>17. <<k, t>> \notin before /\ t \in S
  BY <1>7, <1>13, <1>14, <1>16
<1>18. worth[k] \in Int /\ worth[t] \in Int /\ ~(worth[k] > worth[t])
  BY <1>1, <1>3, <1>17
<1>. QED BY <1>1, <1>17, <1>18

\* A need is doubted where a reason is printed, as long as no sample is
\* required; doubted for its don't-knows only in the bands that say so.
\* (buildNeedRecords, composeConfidenceReason)
LEMMA DoubtsAreNamed ==
    ASSUME NEW r, r.valid \in Int, r.dontKnow \in Int
    PROVE  /\ (Reports!Confidence(r, Null) = "LOW") = (Reports!Reasons(r, Null) # {})
           /\ "dontKnow" \in Reports!Reasons(r, Null) =>
                Reports!dontKnowBandOf(r.dontKnow) \in {"elevated", "high"}
<1>. DEFINE R == Reports!Reasons(r, Null)
<1>1. "smallSample" \in R <=> r.valid < 10
  BY DEF Reports!Reasons
<1>2. "dontKnow" \in R <=> r.dontKnow > 20
  BY DEF Reports!Reasons
<1>3. "belowTarget" \notin R
  BY DEF Reports!Reasons, Null
<1>4. R \subseteq {"smallSample", "belowTarget", "dontKnow"}
  BY DEF Reports!Reasons
<1>5. (Reports!Confidence(r, Null) = "LOW") <=> (r.valid < 10 \/ r.dontKnow > 20)
  BY DEF Reports!Confidence, Reports!isLowConfidence, Null
<1>6. r.dontKnow > 20 => Reports!dontKnowBandOf(r.dontKnow) \in {"elevated", "high"}
  BY DEF Reports!dontKnowBandOf
<1>. HIDE DEF R
<1>7. R # {} <=> r.valid < 10 \/ r.dontKnow > 20
  BY <1>1, <1>2, <1>3, <1>4
<1>. QED BY <1>2, <1>5, <1>6, <1>7 DEF R

-----------------------------------------------------------------------------
(***************************************************************************)
(* The sections of a report beside its ranking and its notes               *)
(***************************************************************************)
\* What a report is computed of.
LEMMA KpisOfInput ==
    ASSUME NEW x \in ReportInputs
    PROVE  /\ DOMAIN x.kpis = {"k1", "k2", "k3"} /\ IsFiniteSet(DOMAIN x.kpis)
           /\ \A k \in DOMAIN x.kpis : /\ x.kpis[k].severity \in {Null, 0, 40, 80}
                                       /\ x.kpis[k].valid \in {5, 12, 50} /\ x.kpis[k].dontKnow \in {0, 30}
<1>1. x.kpis \in [{"k1", "k2", "k3"} -> Kpi]
  BY DEF ReportInputs
<1>2. IsFiniteSet({"k1", "k2", "k3"})
  <2>1. IsFiniteSet({"k1"}) /\ IsFiniteSet({"k2"}) /\ IsFiniteSet({"k3"})
    BY FS_Singleton
  <2>2. IsFiniteSet({"k1"} \cup {"k2"})
    BY <2>1, FS_Union
  <2>3. IsFiniteSet(({"k1"} \cup {"k2"}) \cup {"k3"})
    BY <2>1, <2>2, FS_Union
  <2>4. {"k1", "k2", "k3"} = ({"k1"} \cup {"k2"}) \cup {"k3"}
    OBVIOUS
  <2>. QED BY <2>3, <2>4
<1>3. ASSUME NEW r \in Kpi
      PROVE  r.severity \in {Null, 0, 40, 80} /\ r.valid \in {5, 12, 50} /\ r.dontKnow \in {0, 30}
  BY DEF Kpi
<1>. HIDE DEF Kpi
<1>4. DOMAIN x.kpis = {"k1", "k2", "k3"} /\ \A k \in DOMAIN x.kpis : x.kpis[k] \in Kpi
  BY <1>1
<1>. QED BY <1>2, <1>3, <1>4

\* The records of a report are those of its KPIs.
LEMMA RecordsOfInput ==
    ASSUME NEW x \in ReportInputs,
           NEW n \in Reports!NeedRecords(Bank(x), x.kpis, x.required)
    PROVE  /\ n.kpi \in DOMAIN x.kpis /\ n = Reports!Record(Bank(x), n.kpi, x.kpis[n.kpi], x.required)
           /\ n.severity = x.kpis[n.kpi].severity /\ n.severity \in {Null, 0, 40, 80}
           /\ n.valid \in {5, 12, 50}
           /\ n.low = (Reports!Confidence(x.kpis[n.kpi], x.required) = "LOW")
           /\ n.reasons = Reports!Reasons(x.kpis[n.kpi], Null)
<1>. DEFINE bank == Bank(x)
<1>1. PICK k \in DOMAIN x.kpis : n = Reports!Record(bank, k, x.kpis[k], x.required)
  BY DEF Reports!NeedRecords
<1>. HIDE DEF bank
<1>2. /\ n.kpi = k /\ n.severity = x.kpis[k].severity /\ n.valid = x.kpis[k].valid
      /\ n.low = (Reports!Confidence(x.kpis[k], x.required) = "LOW")
      /\ n.reasons = Reports!Reasons(x.kpis[k], Null)
  BY <1>1 DEF Reports!Record, Null
<1>3. x.kpis[k].severity \in {Null, 0, 40, 80} /\ x.kpis[k].valid \in {5, 12, 50}
  BY KpisOfInput
<1>. QED BY <1>1, <1>2, <1>3 DEF bank

\* A domain weighs what it was configured with, or one.
LEMMA WeightsOfInput ==
    ASSUME NEW x \in ReportInputs, NEW records, NEW n \in records
    PROVE  Reports!Weights(records, ReportConfigs(x))[n.at.domain] \in {1, 3}
<1>. DEFINE configs == ReportConfigs(x)
            own == Reports!WeightOf(configs)
            d == n.at.domain
<1>1. \A c \in configs : c.weight \in {1, 3}
  BY DEF ReportConfigs
<1>. HIDE DEF configs
<1>2. Reports!Weights(records, configs)[d] = IF d \in DOMAIN own THEN own[d] ELSE 1
  BY DEF Reports!Weights, Reports!DomainsOf
<1>3. ASSUME d \in DOMAIN own PROVE own[d] \in {1, 3}
  <2>1. PICK e \in configs : e.domain = d
    BY <1>3 DEF Reports!WeightOf
  <2>2. own[d] = (CHOOSE c \in configs : c.domain = d).weight
    BY <2>1 DEF Reports!WeightOf
  <2>3. (CHOOSE c \in configs : c.domain = d) \in configs
    BY <2>1
  <2>. QED BY <1>1, <2>2, <2>3
<1>. QED BY <1>2, <1>3 DEF configs

\* Every report ranks what was measured, by weight.
LEMMA RankOfInput ==
    ASSUME NEW x \in ReportInputs
    PROVE  LET c == Reports!buildUnifiedRpt01(Bank(x), ReportLevels(x), ReportConfigs(x), x.required)
               weight == Reports!Weights(c.records, ReportConfigs(x))
               Worth(n) == n.severity * weight[n.at.domain]
           IN  /\ ToSet(c.ranked) = Reports!Measured(c.records)
               /\ Len(c.ranked) = Cardinality(ToSet(c.ranked))
               /\ \A i, j \in DOMAIN c.ranked : i < j => Worth(c.ranked[i]) >= Worth(c.ranked[j])
               /\ x.required = Null => \A n \in c.records : n.low = (n.reasons # {})
<1>. DEFINE c == Reports!buildUnifiedRpt01(Bank(x), ReportLevels(x), ReportConfigs(x), x.required)
            records == Reports!NeedRecords(Bank(x), x.kpis, x.required)
            weight == Reports!Weights(records, ReportConfigs(x))
            ranked == Reports!rankPriorityNeeds(records, weight)
            M == Reports!Measured(records)
            k == Cardinality(M)
            worth == [n \in M |-> n.severity * weight[n.at.domain]]
<1>1. ReportLevels(x).kpi = x.kpis
  BY DEF ReportLevels
<1>2. c.records = records /\ c.ranked = ranked
  BY <1>1 DEF Reports!buildUnifiedRpt01
<1>3. IsFiniteSet(records)
  BY KpisOfInput, RecordsCount
<1>4. \A n \in records : n.severity \in Int /\ n.valid \in Int
  BY RecordsOfInput DEF Null, Reports!Null
<1>5. \A n \in records : weight[n.at.domain] \in Int
  BY WeightsOfInput
<1>6. M \subseteq records /\ IsFiniteSet(M) /\ k \in Nat
  BY <1>3, FS_Subset, FS_CardinalityType DEF Reports!Measured
<1>7. ASSUME x.required = Null, NEW n \in records PROVE n.low = (n.reasons # {})
  <2>. DEFINE r == x.kpis[n.kpi]
  <2>1. /\ r.valid \in Int /\ r.dontKnow \in Int /\ n.low = (Reports!Confidence(r, Null) = "LOW")
        /\ n.reasons = Reports!Reasons(r, Null)
    <3>1. /\ n.kpi \in DOMAIN x.kpis /\ n.low = (Reports!Confidence(r, x.required) = "LOW")
          /\ n.reasons = Reports!Reasons(r, Null)
      BY RecordsOfInput
    <3>2. r.valid \in {5, 12, 50} /\ r.dontKnow \in {0, 30}
      BY <3>1, KpisOfInput
    <3>. QED BY <1>7, <3>1, <3>2
  <2>. HIDE DEF r
  <2>2. (Reports!Confidence(r, Null) = "LOW") = (Reports!Reasons(r, Null) # {})
    BY <2>1, DoubtsAreNamed
  <2>. QED BY <2>1, <2>2
<1>. HIDE DEF c, records, weight
<1>8. /\ Sized(ranked, k, M) /\ \A n \in M : \E i \in 1..k : ranked[i] = n
      /\ \A i, j \in 1..k : i < j => ranked[i] # ranked[j] /\ ~Heavier(ranked[j], ranked[i], weight)
  BY <1>3, <1>4, <1>5, HeaviestRankFirst
<1>. HIDE DEF ranked
<1>9. ranked \in [1..k -> M] /\ Len(ranked) = k /\ DOMAIN ranked = 1..k
  <2>. HIDE DEF k, M
  <2>. QED BY <1>6, <1>8 DEF Sized
<1>10. ToSet(ranked) = M
  BY <1>8, <1>9 DEF ToSet
<1>11. ASSUME NEW i \in 1..k, NEW j \in 1..k, i < j
       PROVE  ranked[i].severity * weight[ranked[i].at.domain] >= ranked[j].severity * weight[ranked[j].at.domain]
  <2>. DEFINE u == worth[ranked[i]]
              v == worth[ranked[j]]
  <2>1. \A n \in M : worth[n] = n.severity * weight[n.at.domain] /\ worth[n] \in Int
    <3>. HIDE DEF M
    <3>. QED BY <1>4, <1>5, <1>6
  <2>. HIDE DEF worth
  <2>2. ranked[i] \in M /\ ranked[j] \in M
    BY <1>9
  <2>3. ~(v > u)
    <3>1. ~Heavier(ranked[j], ranked[i], weight)
      BY <1>8, <1>11
    <3>. QED BY <2>1, <2>2, <3>1 DEF Heavier
  <2>4. u \in Int /\ v \in Int
    BY <2>1, <2>2
  <2>5. u >= v
    BY <2>3, <2>4
  <2>. QED BY <2>1, <2>2, <2>5
<1>. HIDE DEF M, k
<1>12. Len(ranked) = Cardinality(M)
  BY <1>9 DEF k
<1>. QED BY <1>2, <1>7, <1>9, <1>10, <1>11, <1>12 DEF c, weight, M

\* A measured severity has one of the four bands.
LEMMA MeasuredHasABand ==
    ASSUME NEW s \in Int, s # Null
    PROVE  Reports!severityBandOf(s) \in {"CRITICAL", "HIGH", "MEDIUM", "LOW"}
  BY DEF Reports!severityBandOf, Null, Reports!Null

\* Whatever the records of a report: an observation that is more than weak is
\* one of two domains and never provisional, and two needs of one band are
\* observed together.  (deriveObservations, scopeOf)
THEOREM ObservationsHaveGrounds ==
    ASSUME NEW records, IsFiniteSet(records), \A n \in records : n.severity \in Int, NEW below \in BOOLEAN
    PROVE  /\ \A o \in Reports!deriveObservations(records, below) :
                 o.strength = "moderate" => ~below /\ Cardinality({n.at.domain : n \in o.needs}) >= 2
           /\ \A n, m \in Reports!Measured(records) :
                 n # m /\ Reports!severityBandOf(n.severity) = Reports!severityBandOf(m.severity) =>
                    \E o \in Reports!deriveObservations(records, below) :
                        o.kind = "band" /\ {n, m} \subseteq o.needs
<1>. DEFINE M == Reports!Measured(records)
            In(b) == {n \in M : Reports!severityBandOf(n.severity) = b}
            bands == {c \in {"CRITICAL", "HIGH", "MEDIUM", "LOW"} : Cardinality(In(c)) >= 2}
            Strength(b) == IF ~below /\ Reports!ScopeOf(In(b)) = "cross_domain" /\ Cardinality(In(b)) >= 3
                           THEN "moderate" ELSE "weak"
            Domains(S) == {n.at.domain : n \in S}
<1>1. \A S : Reports!Cardinality(S) = Cardinality(S)
  BY DEF Reports!Cardinality, Cardinality
<1>2. \A o \in Reports!BandClusters(records, below) :
         \E b \in bands : o = Reports!Observation("band", In(b), Strength(b))
  BY <1>1 DEF Reports!BandClusters
<1>3. \A b \in bands : Reports!Observation("band", In(b), Strength(b)) \in Reports!BandClusters(records, below)
  BY <1>1 DEF Reports!BandClusters
<1>4. \A S : Reports!ScopeOf(S) = "cross_domain" => Cardinality(Domains(S)) >= 2
  <2>1. ASSUME NEW S PROVE Reports!ScopeOf(S) = "cross_domain" => Reports!Cardinality(Reports!DomainsOf(S)) >= 2
    BY DEF Reports!ScopeOf
  <2>2. \A S : Reports!DomainsOf(S) = Domains(S)
    BY DEF Reports!DomainsOf
  <2>. QED BY <1>1, <2>1, <2>2
<1>5. \A kind, S, strength : LET o == Reports!Observation(kind, S, strength)
                             IN  o.kind = kind /\ o.needs = S /\ o.strength = strength
  BY DEF Reports!Observation
<1>6. ASSUME NEW o \in Reports!deriveObservations(records, below), o.strength = "moderate"
      PROVE  ~below /\ Cardinality(Domains(o.needs)) >= 2
  <2>1. CASE o \in Reports!BandClusters(records, below)
    <3>1. PICK b \in bands : o = Reports!Observation("band", In(b), Strength(b))
      BY <1>2, <2>1
    <3>2. o.needs = In(b) /\ Strength(b) = "moderate"
      <4>. HIDE DEF In, Strength
      <4>. QED BY <1>5, <1>6, <3>1
    <3>3. ~below /\ Reports!ScopeOf(In(b)) = "cross_domain"
      BY <3>2
    <3>. QED BY <1>4, <3>2, <3>3
  <2>2. CASE o \in Reports!SeverityRange(records)
    <3>1. PICK S : o = Reports!Observation("range", S, "weak")
      BY <2>2 DEF Reports!SeverityRange
    <3>2. o.strength = "weak"
      BY <1>5, <3>1
    <3>. QED BY <1>6, <3>2
  <2>3. CASE o \in Reports!Unmeasured(records)
    <3>1. o.strength = "weak"
      BY <1>5, <2>3 DEF Reports!Unmeasured
    <3>. QED BY <1>6, <3>1
  <2>4. CASE o \in Reports!LowConfidence(records)
    <3>1. PICK scope, S : o = [Reports!Observation("confidence", S, "weak") EXCEPT !.scope = scope]
      BY <2>4 DEF Reports!LowConfidence
    <3>2. o.strength = "weak"
      BY <3>1 DEF Reports!Observation
    <3>. QED BY <1>6, <3>2
  <2>. QED BY <1>6, <2>1, <2>2, <2>3, <2>4 DEF Reports!deriveObservations
<1>7. ASSUME NEW n \in M, NEW m \in M, n # m,
             Reports!severityBandOf(n.severity) = Reports!severityBandOf(m.severity)
      PROVE  \E o \in Reports!deriveObservations(records, below) : o.kind = "band" /\ {n, m} \subseteq o.needs
  <2>. DEFINE b == Reports!severityBandOf(n.severity)
              o == Reports!Observation("band", In(b), Strength(b))
  <2>1. b \in {"CRITICAL", "HIGH", "MEDIUM", "LOW"}
    <3>1. n.severity \in Int /\ n.severity # Null
      BY DEF Reports!Measured, Null
    <3>. QED BY <3>1, MeasuredHasABand
  <2>2. {n, m} \subseteq In(b)
    BY <1>7
  <2>3. Cardinality(In(b)) >= 2
    <3>1. IsFiniteSet(In(b))
      <4>1. In(b) \subseteq records
        BY DEF Reports!Measured
      <4>. QED BY <4>1, FS_Subset
    <3>2. IsFiniteSet({n}) /\ Cardinality({n}) = 1 /\ m \notin {n}
      BY <1>7, FS_Singleton
    <3>3. IsFiniteSet({n} \cup {m}) /\ Cardinality({n} \cup {m}) = Cardinality({n}) + 1
      BY <3>2, FS_AddElement
    <3>4. {n} \cup {m} \subseteq In(b)
      BY <2>2
    <3>. HIDE DEF In
    <3>5. Cardinality({n} \cup {m}) <= Cardinality(In(b)) /\ Cardinality(In(b)) \in Nat
      BY <3>1, <3>4, FS_Subset, FS_CardinalityType
    <3>. QED BY <3>2, <3>3, <3>5
  <2>4. o \in Reports!deriveObservations(records, below)
    <3>1. b \in bands
      BY <2>1, <2>3
    <3>2. o \in Reports!BandClusters(records, below)
      <4>. HIDE DEF b, In, Strength, bands
      <4>. QED BY <1>3, <3>1
    <3>. QED BY <3>2 DEF Reports!deriveObservations
  <2>5. o.kind = "band" /\ o.needs = In(b)
    <3>. HIDE DEF In, Strength, b
    <3>. QED BY <1>5
  <2>. HIDE DEF o
  <2>. QED BY <2>2, <2>4, <2>5
<1>. QED BY <1>6, <1>7 DEF M

\* The notes of a report match its sections.
NotesMatch(kpis, r) ==
    /\ \A k \in DOMAIN kpis \ ToSet(r.top) : \A t \in ToSet(r.top) : kpis[k].severity <= kpis[t].severity
    /\ r.notes.notMeasured \cup ToSet(r.content.ranked) = r.content.records
    /\ r.notes.notMeasured \cap ToSet(r.content.ranked) = {}
    /\ \A n \in r.content.records : "dontKnow" \in n.reasons =>
          Reports!dontKnowBandOf(kpis[n.kpi].dontKnow) \in {"elevated", "high"}
    /\ \A o \in r.patterns.patterns : o.strength = "moderate" =>
          Cardinality(DOMAIN r.content.tree) >= 2 /\ Cardinality({n.at.domain : n \in o.needs}) >= 2
    /\ \A n, m \in ToSet(r.content.ranked) :
          n # m /\ Reports!severityBandOf(n.severity) = Reports!severityBandOf(m.severity) =>
             \E o \in r.patterns.patterns : o.kind = "band" /\ {n, m} \subseteq o.needs

\* The notes of every report of the runs match its sections.
LEMMA NotesOfInput == ASSUME NEW x \in ReportInputs PROVE NotesMatch(x.kpis, Report(x))
<1>. DEFINE c == Reports!buildUnifiedRpt01(Bank(x), ReportLevels(x), ReportConfigs(x), x.required)
            records == Reports!NeedRecords(Bank(x), x.kpis, x.required)
            r == Report(x)
            kpis == x.kpis
            domains == Cardinality(DOMAIN c.tree)
            t == [minResponses |-> 10, minDomains |-> 2]
            analysis == Reports!composePatternAnalysis(records, 50, domains, c.notAssessed, t)
            below == 50 < t.minResponses \/ domains < t.minDomains
<1>1. c.records = records
  BY DEF Reports!buildUnifiedRpt01, ReportLevels
<1>2. /\ r.content = c /\ r.top = Reports!topKpis(kpis, 2) /\ r.patterns = analysis
      /\ r.notes = Reports!composeDataQualityNotes(50, 40, 30, records, c.notAssessed)
  <2>. HIDE DEF c, records
  <2>. QED BY <1>1 DEF Report, c
<1>3. analysis.patterns = Reports!deriveObservations(records, below)
  <2>. HIDE DEF domains, records
  <2>. QED BY DEF Reports!composePatternAnalysis
<1>4. r.notes.notMeasured = records \ Reports!Measured(records)
  BY <1>2 DEF Reports!composeDataQualityNotes
<1>5. ToSet(c.ranked) = Reports!Measured(records)
  BY <1>1, RankOfInput
<1>6. IsFiniteSet(records) /\ \A n \in records : n.severity \in Int
  <2>1. IsFiniteSet(records)
    BY KpisOfInput, RecordsCount
  <2>2. \A n \in records : n.severity \in {Null, 0, 40, 80}
    BY RecordsOfInput
  <2>3. \A s \in {Null, 0, 40, 80} : s \in Int
    BY DEF Null, Reports!Null
  <2>. HIDE DEF records
  <2>. QED BY <2>1, <2>2, <2>3
<1>7. below \in BOOLEAN /\ (~below => domains >= 2)
  <2>1. domains \in Nat
    <3>1. DOMAIN c.tree \subseteq {"d1", x.second, "UNMAPPED"}
      <4>. DEFINE listed == Reports!mapDomains(ReportLevels(x).domain, ReportConfigs(x))
      <4>1. c.tree = Reports!buildNeedHierarchy(records, listed, ReportLevels(x).subDomain)
        BY DEF Reports!buildUnifiedRpt01, ReportLevels
      <4>2. DOMAIN c.tree = DOMAIN listed \cup Reports!DomainsOf(records)
        BY <4>1 DEF Reports!buildNeedHierarchy
      <4>3. DOMAIN listed \subseteq {"d1", x.second}
        BY ListedAreDomains, DomainsOfInput
      <4>4. Reports!DomainsOf(records) \subseteq {"d1", x.second, "UNMAPPED"}
        BY DomainsOfInput
      <4>. QED BY <4>2, <4>3, <4>4
    <3>2. IsFiniteSet({"d1", x.second, "UNMAPPED"})
      <4>1. IsFiniteSet({"d1"}) /\ IsFiniteSet({x.second}) /\ IsFiniteSet({"UNMAPPED"})
        BY FS_Singleton
      <4>2. IsFiniteSet({"d1"} \cup {x.second})
        BY <4>1, FS_Union
      <4>3. IsFiniteSet(({"d1"} \cup {x.second}) \cup {"UNMAPPED"})
        BY <4>1, <4>2, FS_Union
      <4>4. {"d1", x.second, "UNMAPPED"} = ({"d1"} \cup {x.second}) \cup {"UNMAPPED"}
        OBVIOUS
      <4>. QED BY <4>3, <4>4
    <3>. HIDE DEF c
    <3>. QED BY <3>1, <3>2, FS_Subset, FS_CardinalityType
  <2>. HIDE DEF domains
  <2>. QED BY <2>1
<1>8. ASSUME NEW k \in DOMAIN kpis \ ToSet(r.top), NEW u \in ToSet(r.top)
      PROVE  kpis[k].severity <= kpis[u].severity
  <2>1. IsFiniteSet(DOMAIN kpis) /\ \A j \in DOMAIN kpis : kpis[j].severity \in Int
    BY KpisOfInput DEF Null, Reports!Null
  <2>2. k \in DOMAIN kpis /\ k \notin ToSet(Reports!topKpis(kpis, 2)) /\ u \in ToSet(Reports!topKpis(kpis, 2))
    BY <1>2
  <2>. HIDE DEF kpis
  <2>. QED BY <2>1, <2>2, WorstOnTop
<1>9. ASSUME NEW n \in records, "dontKnow" \in n.reasons
      PROVE  Reports!dontKnowBandOf(kpis[n.kpi].dontKnow) \in {"elevated", "high"}
  <2>. DEFINE q == kpis[n.kpi]
  <2>1. n.kpi \in DOMAIN kpis /\ n.reasons = Reports!Reasons(q, Null)
    BY RecordsOfInput
  <2>2. q.valid \in {5, 12, 50} /\ q.dontKnow \in {0, 30}
    BY <2>1, KpisOfInput
  <2>3. q.valid \in Int /\ q.dontKnow \in Int /\ "dontKnow" \in Reports!Reasons(q, Null)
    BY <1>9, <2>1, <2>2
  <2>. HIDE DEF q
  <2>. QED BY <2>3, DoubtsAreNamed DEF q
<1>. HIDE DEF r, c, records, domains, below, analysis, kpis
<1>10. /\ \A o \in Reports!deriveObservations(records, below) :
             o.strength = "moderate" => ~below /\ Cardinality({n.at.domain : n \in o.needs}) >= 2
       /\ \A n, m \in Reports!Measured(records) :
             n # m /\ Reports!severityBandOf(n.severity) = Reports!severityBandOf(m.severity) =>
                \E o \in Reports!deriveObservations(records, below) : o.kind = "band" /\ {n, m} \subseteq o.needs
  BY <1>6, <1>7, ObservationsHaveGrounds
<1>11. \A o \in r.patterns.patterns : o.strength = "moderate" =>
          Cardinality(DOMAIN r.content.tree) >= 2 /\ Cardinality({n.at.domain : n \in o.needs}) >= 2
  BY <1>2, <1>3, <1>7, <1>10 DEF domains
<1>12. \A n, m \in ToSet(r.content.ranked) :
          n # m /\ Reports!severityBandOf(n.severity) = Reports!severityBandOf(m.severity) =>
             \E o \in r.patterns.patterns : o.kind = "band" /\ {n, m} \subseteq o.needs
  BY <1>2, <1>3, <1>5, <1>10
<1>13. /\ r.notes.notMeasured \cup ToSet(r.content.ranked) = r.content.records
       /\ r.notes.notMeasured \cap ToSet(r.content.ranked) = {}
  BY <1>1, <1>2, <1>4, <1>5 DEF Reports!Measured
<1>14. \A n \in r.content.records : "dontKnow" \in n.reasons =>
          Reports!dontKnowBandOf(kpis[n.kpi].dontKnow) \in {"elevated", "high"}
  BY <1>1, <1>2, <1>9
<1>15. NotesMatch(kpis, r)
  BY <1>8, <1>11, <1>12, <1>13, <1>14 DEF NotesMatch
<1>. QED BY <1>15 DEF r, kpis

-----------------------------------------------------------------------------
(***************************************************************************)
(* Groups of respondents                                                   *)
(***************************************************************************)
\* Groups of respondents have severities, or were not measured.
GroupsRated(segments) ==
    \A d \in DOMAIN segments : \A g \in segments[d] : g.severity \in {Null} \cup 0..100

\* What a dimension that is compared is like.
LEMMA ComparedGroups ==
    ASSUME NEW segments, NEW minimum, GroupsRated(segments), NEW d \in Reports!Evaluable(segments, minimum)
    PROVE  LET groups == Reports!Measurable(segments)[d] IN
             /\ d \in DOMAIN segments /\ groups = {g \in segments[d] : g.severity # Null}
             /\ Cardinality(groups) >= 2 /\ \A g \in groups : g.n >= minimum
             /\ {g.severity : g \in groups} \in SUBSET (0..100) /\ {g.severity : g \in groups} # {}
             /\ Reports!Spread(groups) = Max({g.severity : g \in groups}) - Min({g.severity : g \in groups})
             /\ Reports!Spread(groups) \in 0..100
<1>. DEFINE groups == Reports!Measurable(segments)[d]
            S == {g.severity : g \in groups}
<1>1. /\ d \in DOMAIN segments /\ groups = {g \in segments[d] : g.severity # Null}
      /\ Cardinality(groups) >= 2 /\ \A g \in groups : g.n >= minimum
  BY DEF Reports!Evaluable, Reports!Measurable, Reports!Comparable, Null, Reports!Null,
         Reports!Cardinality, Cardinality
<1>2. groups # {}
  <2>1. Cardinality({}) = 0
    BY FS_EmptySet
  <2>2. groups = {} => Cardinality(groups) = 0
    BY <2>1
  <2>. QED BY <1>1, <2>2
<1>3. Reports!Spread(groups) = Max(S) - Min(S)
  BY DEF Reports!Spread, Max, Min, Reports!Max, Reports!Min
<1>. HIDE DEF groups
<1>4. S \in SUBSET (0..100) /\ S # {}
  BY <1>1, <1>2, ZenonT(60) DEF GroupsRated
<1>5. Min(S) \in S /\ Max(S) \in S /\ Min(S) <= Max(S)
  BY <1>4, Extremes
<1>6. Min(S) \in 0..100 /\ Max(S) \in 0..100
  BY <1>4, <1>5
<1>. HIDE DEF S
<1>7. Max(S) - Min(S) \in 0..100
  BY <1>5, <1>6
<1>8. Reports!Spread(groups) \in 0..100
  BY <1>3, <1>7
<1>. QED BY <1>1, <1>3, <1>4, <1>8 DEF groups, S

\* The widest of the dimensions that are compared.
LEMMA WidestIsCompared ==
    ASSUME NEW segments, NEW minimum, GroupsRated(segments), Reports!Evaluable(segments, minimum) # {}
    PROVE  LET able == Reports!Evaluable(segments, minimum)
               widest == Reports!WidestDimension(segments, minimum)
               Spread(d) == Reports!Spread(Reports!Measurable(segments)[d])
           IN  widest \in able /\ \A d \in able : Spread(d) <= Spread(widest)
<1>. DEFINE able == Reports!Evaluable(segments, minimum)
            Spread(d) == Reports!Spread(Reports!Measurable(segments)[d])
            B == {k \in 0..100 : \E d \in able : Spread(d) = k}
<1>1. \A d \in able : Spread(d) \in 0..100
  BY ComparedGroups
<1>. HIDE DEF able, Spread
<1>2. B \in SUBSET (0..100) /\ B # {}
  BY <1>1 DEF able
<1>3. Max(B) \in B /\ \A k \in B : k <= Max(B)
  BY <1>2, Extremes
<1>4. PICK d \in able : Spread(d) = Max(B)
  BY <1>3
<1>5. \A e \in able : Spread(e) \in B
  BY <1>1
<1>6. \A e \in able : Spread(e) <= Spread(d)
  BY <1>3, <1>4, <1>5
<1>7. Reports!WidestDimension(segments, minimum) =
        CHOOSE w \in able : \A e \in able : Spread(e) <= Spread(w)
  BY DEF Reports!WidestDimension, able, Spread
<1>. QED BY <1>6, <1>7 DEF able, Spread

\* The groups of any respondents: inequality is only claimed where two groups
\* of one dimension were measured, none of that dimension is smaller than the
\* minimum, the two differ by the threshold, and the one that is named fares
\* worst; and nothing thin is shown beside a claim.  (deriveEquityFlag)
THEOREM InequalityWasMeasured ==
    ASSUME NEW segments, NEW minimum, NEW threshold \in Nat \ {0},
           GroupsRated(segments),
           Reports!deriveEquityFlag(segments, minimum, threshold).flag
    PROVE  LET r == Reports!deriveEquityFlag(segments, minimum, threshold) IN
             /\ r.observed = <<>>
             /\ \E d \in DOMAIN segments : \E g, h \in segments[d] :
                  /\ g.severity \in 0..100 /\ h.severity \in 0..100
                  /\ g.severity - h.severity >= threshold
                  /\ \A o \in segments[d] : o.severity # Null => o.n >= minimum /\ o.severity <= g.severity
                  /\ r.dimension = d /\ r.worst = g.label
<1>. DEFINE able == Reports!Evaluable(segments, minimum)
            measured == Reports!Measurable(segments)
            widest == Reports!WidestDimension(segments, minimum)
            groups == measured[widest]
            scores == {g.severity : g \in groups}
            r == Reports!deriveEquityFlag(segments, minimum, threshold)
<1>1. able # {}
  BY DEF Reports!deriveEquityFlag
<1>2. /\ r.observed = <<>> /\ r.dimension = widest
      /\ r.worst = Reports!MostDisadvantaged(groups) /\ Reports!Spread(groups) >= threshold
  BY <1>1 DEF Reports!deriveEquityFlag
<1>3. \A d \in able : /\ d \in DOMAIN segments
                      /\ measured[d] = {g \in segments[d] : g.severity # Null}
                      /\ \A g \in measured[d] : g.n >= minimum
  BY ComparedGroups
<1>4. widest \in able
  BY <1>1, WidestIsCompared
<1>5. scores \in SUBSET (0..100) /\ scores # {}
  BY <1>4, ComparedGroups
<1>. HIDE DEF r, able, measured, widest
<1>6. /\ Min(scores) \in scores /\ Max(scores) \in scores
      /\ \A s \in scores : Min(scores) <= s /\ s <= Max(scores)
  BY <1>5, Extremes
<1>. DEFINE worst == CHOOSE g \in groups : \A h \in groups : h.severity <= g.severity
<1>7. worst \in groups /\ \A h \in groups : h.severity <= worst.severity
  <2>1. PICK g \in groups : g.severity = Max(scores)
    BY <1>6
  <2>2. \A h \in groups : h.severity <= g.severity
    BY <1>6, <2>1
  <2>. QED BY <2>2
<1>8. PICK mild \in groups : mild.severity = Min(scores)
  BY <1>6
<1>9. r.worst = worst.label
  BY <1>2 DEF Reports!MostDisadvantaged
<1>. HIDE DEF worst
<1>10. worst.severity = Max(scores)
  <2>1. worst.severity \in scores
    BY <1>7
  <2>2. PICK g \in groups : g.severity = Max(scores)
    BY <1>6
  <2>3. worst.severity <= Max(scores) /\ Max(scores) <= worst.severity
    BY <1>6, <1>7, <2>1, <2>2
  <2>4. worst.severity \in 0..100 /\ Max(scores) \in 0..100
    BY <1>5, <1>6, <2>1, SMTT(60)
  <2>. HIDE DEF scores
  <2>5. PICK k \in 0..100, m \in 0..100 : k = worst.severity /\ m = Max(scores)
    BY <2>4
  <2>6. k <= m /\ m <= k
    BY <2>3, <2>5
  <2>7. k = m
    BY <2>6
  <2>. QED BY <2>5, <2>7
<1>11. worst.severity - mild.severity >= threshold
  BY <1>2, <1>8, <1>10 DEF Reports!Spread, Max, Min, Reports!Max, Reports!Min
<1>12. /\ widest \in DOMAIN segments /\ worst \in segments[widest] /\ mild \in segments[widest]
       /\ worst.severity \in 0..100 /\ mild.severity \in 0..100
       /\ \A o \in segments[widest] : o.severity # Null => o.n >= minimum /\ o.severity <= worst.severity
  <2>1. worst.severity \in scores /\ mild.severity \in scores
    BY <1>7
  <2>2. \A o \in segments[widest] : o.severity # Null => o \in groups
    BY <1>3, <1>4
  <2>. QED BY <1>3, <1>4, <1>5, <1>7, <1>8, <2>1, <2>2
<1>. QED BY <1>2, <1>9, <1>11, <1>12 DEF r

\* And it is claimed wherever two groups differ by the threshold in a dimension
\* none of whose groups is too small.  (deriveEquityFlag)
THEOREM InequalityIsClaimed ==
    ASSUME NEW segments, NEW minimum, NEW threshold \in Nat \ {0}, GroupsRated(segments),
           NEW d \in DOMAIN segments, IsFiniteSet(segments[d]),
           NEW g \in segments[d], NEW h \in segments[d], g.severity # Null, h.severity # Null,
           g.severity - h.severity >= threshold,
           \A o \in segments[d] : o.severity # Null => o.n >= minimum
    PROVE  d \in Reports!Evaluable(segments, minimum)
           /\ Reports!deriveEquityFlag(segments, minimum, threshold).flag
<1>. DEFINE able == Reports!Evaluable(segments, minimum)
            measured == Reports!Measurable(segments)
            widest == Reports!WidestDimension(segments, minimum)
            groups == measured[d]
            S == {o.severity : o \in groups}
<1>1. measured[d] = {o \in segments[d] : o.severity # Null} /\ d \in DOMAIN measured
  BY DEF Reports!Measurable, Null, Reports!Null
<1>2. g \in groups /\ h \in groups /\ g.severity \in 0..100 /\ h.severity \in 0..100
  BY <1>1 DEF GroupsRated
<1>3. g # h
  BY <1>2
<1>. HIDE DEF measured
<1>4. Cardinality(groups) >= 2
  <2>1. IsFiniteSet({g}) /\ Cardinality({g}) = 1 /\ h \notin {g}
    BY <1>3, FS_Singleton
  <2>2. IsFiniteSet({g} \cup {h}) /\ Cardinality({g} \cup {h}) = Cardinality({g}) + 1
    BY <2>1, FS_AddElement
  <2>3. groups \subseteq segments[d] /\ {g} \cup {h} \subseteq groups
    BY <1>1, <1>2
  <2>4. IsFiniteSet(groups)
    BY <2>3, FS_Subset
  <2>. HIDE DEF groups
  <2>5. Cardinality({g} \cup {h}) <= Cardinality(groups) /\ Cardinality(groups) \in Nat
    BY <2>3, <2>4, FS_Subset, FS_CardinalityType
  <2>. QED BY <2>1, <2>2, <2>5
<1>5. d \in able
  <2>1. \A o \in groups : o.n >= minimum
    BY <1>1
  <2>2. Reports!Comparable(groups, minimum)
    BY <1>4, <2>1 DEF Reports!Comparable, Reports!Cardinality, Cardinality
  <2>. QED BY <2>2 DEF Reports!Evaluable, measured
<1>6. Reports!Spread(groups) >= threshold
  <2>1. /\ S \in SUBSET (0..100) /\ S # {} /\ Reports!Spread(groups) = Max(S) - Min(S)
    BY <1>5, ComparedGroups DEF measured
  <2>2. /\ Min(S) \in S /\ Max(S) \in S
        /\ \A s \in S : Min(S) <= s /\ s <= Max(S)
    BY <2>1, Extremes
  <2>3. g.severity \in S /\ h.severity \in S
    BY <1>2
  <2>4. g.severity <= Max(S) /\ Min(S) <= h.severity /\ Min(S) \in 0..100 /\ Max(S) \in 0..100
    BY <2>1, <2>2, <2>3
  <2>5. PICK lo \in Int, hi \in Int, bad \in Int, mild \in Int :
           lo = Min(S) /\ hi = Max(S) /\ bad = g.severity /\ mild = h.severity
    <3>. HIDE DEF S, groups
    <3>1. /\ Min(S) \in 0..100 /\ Max(S) \in 0..100
          /\ g.severity \in 0..100 /\ h.severity \in 0..100
      BY <1>2, <2>4
    <3>2. /\ Min(S) \in Int /\ Max(S) \in Int
          /\ g.severity \in Int /\ h.severity \in Int
      BY <3>1, SeveritiesAreNumbers, Zenon
    <3>. QED BY <3>2, Zenon
  <2>6. bad <= hi /\ lo <= mild
    BY <2>4, <2>5
  <2>7. bad - mild >= threshold /\ Reports!Spread(groups) = hi - lo
    BY <2>1, <2>5
  <2>. HIDE DEF groups
  <2>. QED BY <2>6, <2>7
<1>7. Reports!Spread(groups) <= Reports!Spread(measured[widest]) /\ widest \in able
  BY <1>5, WidestIsCompared DEF measured
<1>8. Reports!Spread(groups) \in 0..100 /\ Reports!Spread(measured[widest]) \in 0..100
  BY <1>5, <1>7, ComparedGroups DEF measured
<1>9. Reports!Spread(measured[widest]) >= threshold
  <2>. HIDE DEF groups, widest
  <2>. QED BY <1>6, <1>7, <1>8
<1>10. Reports!deriveEquityFlag(segments, minimum, threshold).flag
         = (Reports!Spread(measured[widest]) >= threshold)
  BY <1>5 DEF Reports!deriveEquityFlag, measured
<1>. QED BY <1>5, <1>9, <1>10

GroupOf(x, d, l) == [label |-> l, severity |-> x.groups[d][l].severity, n |-> x.groups[d][l].n]

\* The groups of an input.
LEMMA SegmentsOfInput ==
    ASSUME NEW x \in SegmentInputs
    PROVE  /\ DOMAIN Segments(x) = {"gender", "settlement"} /\ GroupsRated(Segments(x))
           /\ \A d \in {"gender", "settlement"} :
                /\ IsFiniteSet(Segments(x)[d])
                /\ \A g : g \in Segments(x)[d] <=> g = GroupOf(x, d, "a") \/ g = GroupOf(x, d, "b")
                /\ \A l \in {"a", "b"} : GroupOf(x, d, l).severity \in {Null, 20, 80} /\ GroupOf(x, d, l).n \in {1, 2, 12}
<1>. DEFINE segments == Segments(x)
            S == {"gender", "settlement"}
<1>1. \A d \in S : \A l \in {"a", "b"} : x.groups[d][l] \in Group
  BY DEF SegmentInputs
<1>2. ASSUME NEW r \in Group PROVE r.severity \in {Null, 20, 80} /\ r.n \in {1, 2, 12}
  BY DEF Group
<1>. HIDE DEF Group
<1>3. \A d \in S : \A l \in {"a", "b"} : GroupOf(x, d, l).severity \in {Null, 20, 80} /\ GroupOf(x, d, l).n \in {1, 2, 12}
  BY <1>1, <1>2 DEF GroupOf
<1>4. DOMAIN segments = S /\ \A d \in S : segments[d] = {GroupOf(x, d, l) : l \in {"a", "b"}}
  BY DEF Segments, GroupOf
<1>. HIDE DEF segments
<1>5. \A d \in S : \A g : g \in segments[d] <=> g = GroupOf(x, d, "a") \/ g = GroupOf(x, d, "b")
  BY <1>4
<1>6. \A d \in S : IsFiniteSet(segments[d])
  <2>1. ASSUME NEW d \in S PROVE IsFiniteSet(segments[d])
    <3>1. IsFiniteSet({GroupOf(x, d, "a")}) /\ IsFiniteSet({GroupOf(x, d, "b")})
      BY FS_Singleton
    <3>2. IsFiniteSet({GroupOf(x, d, "a")} \cup {GroupOf(x, d, "b")})
      BY <3>1, FS_Union
    <3>3. segments[d] = {GroupOf(x, d, "a")} \cup {GroupOf(x, d, "b")}
      BY <1>5
    <3>. QED BY <3>2, <3>3
  <2>. QED BY <2>1
<1>7. GroupsRated(segments)
  BY <1>3, <1>4, <1>5 DEF GroupsRated
<1>. QED BY <1>3, <1>4, <1>5, <1>6, <1>7 DEF segments

\* What is claimed of two groups of two dimensions was measured.
LEMMA EquityOfInput ==
    ASSUME NEW x \in SegmentInputs
    PROVE  EquityIsMeasured(x, Reports!deriveEquityFlag(Segments(x), 10, 60))
<1>. DEFINE segments == Segments(x)
            S == {"gender", "settlement"}
            r == Reports!deriveEquityFlag(segments, 10, 60)
            A(d) == GroupOf(x, d, "a")
            B(d) == GroupOf(x, d, "b")
            Large(d) == \A l \in {"a", "b"} : x.groups[d][l].severity # Null /\ x.groups[d][l].n >= 10
            Apart(d) == x.groups[d]["a"].severity # x.groups[d]["b"].severity
<1>1. DOMAIN segments = S /\ GroupsRated(segments)
  BY SegmentsOfInput
<1>2. \A d \in S : IsFiniteSet(segments[d]) /\ \A g : g \in segments[d] <=> g = A(d) \/ g = B(d)
  BY SegmentsOfInput
<1>3. \A d \in S : /\ A(d).severity \in {Null, 20, 80} /\ B(d).severity \in {Null, 20, 80}
                   /\ A(d).n \in {1, 2, 12} /\ B(d).n \in {1, 2, 12}
  BY SegmentsOfInput
<1>4. \A d \in S : /\ A(d).label = "a" /\ B(d).label = "b"
                   /\ A(d).severity = x.groups[d]["a"].severity /\ B(d).severity = x.groups[d]["b"].severity
                   /\ A(d).n = x.groups[d]["a"].n /\ B(d).n = x.groups[d]["b"].n
  BY DEF GroupOf
<1>. HIDE DEF segments, A, B
<1>5. ASSUME NEW d \in S
      PROVE  Large(d) <=> /\ A(d).severity # Null /\ B(d).severity # Null
                          /\ A(d).n >= 10 /\ B(d).n >= 10
  BY <1>4
<1>6. ASSUME NEW d \in S PROVE Apart(d) <=> A(d).severity # B(d).severity
  BY <1>4
<1>7. 60 \in Nat \ {0}
  OBVIOUS
<1>8. r.flag \in BOOLEAN
  <2>. DEFINE able == Reports!Evaluable(segments, 10)
              spread == Reports!Spread(Reports!Measurable(segments)[Reports!WidestDimension(segments, 10)])
  <2>1. ASSUME able # {} PROVE spread \in 0..100
    BY <1>1, <2>1, WidestIsCompared, ComparedGroups
  <2>2. (able = {} => r.flag = FALSE) /\ (able # {} => r.flag = (spread >= 60))
    BY DEF Reports!deriveEquityFlag
  <2>. HIDE DEF able, spread, r
  <2>3. able # {} => (spread >= 60) \in BOOLEAN
    BY <2>1
  <2>. QED BY <2>2, <2>3, Zenon
<1>9. ASSUME r.flag
      PROVE  /\ \E d \in S : Large(d) /\ Apart(d)
             /\ x.groups[r.dimension][r.worst].severity = 80 /\ r.observed = <<>>
  <2>1. /\ r.observed = <<>>
        /\ \E d \in DOMAIN segments : \E g, h \in segments[d] :
             /\ g.severity \in 0..100 /\ h.severity \in 0..100
             /\ g.severity - h.severity >= 60
             /\ \A o \in segments[d] : o.severity # Null => o.n >= 10 /\ o.severity <= g.severity
             /\ r.dimension = d /\ r.worst = g.label
    BY <1>1, <1>7, <1>9, InequalityWasMeasured
  <2>. HIDE DEF r, Large, Apart
  <2>2. PICK d \in S : \E g, h \in segments[d] :
             /\ g.severity \in 0..100 /\ h.severity \in 0..100
             /\ g.severity - h.severity >= 60
             /\ \A o \in segments[d] : o.severity # Null => o.n >= 10 /\ o.severity <= g.severity
             /\ r.dimension = d /\ r.worst = g.label
    BY <1>1, <2>1
  <2>3. PICK g \in segments[d], h \in segments[d] :
             /\ g.severity \in 0..100 /\ h.severity \in 0..100
             /\ g.severity - h.severity >= 60
             /\ \A o \in segments[d] : o.severity # Null => o.n >= 10 /\ o.severity <= g.severity
             /\ r.dimension = d /\ r.worst = g.label
    BY <2>2
  <2>4. (g = A(d) \/ g = B(d)) /\ (h = A(d) \/ h = B(d))
    BY <1>2
  <2>5. g.severity \in {Null, 20, 80} /\ h.severity \in {Null, 20, 80} /\ Null \notin 0..100
    BY <1>3, <2>4 DEF Null, Reports!Null
  <2>6. g.severity = 80 /\ h.severity = 20
    BY <2>3, <2>5
  <2>7. (g = A(d) /\ h = B(d)) \/ (g = B(d) /\ h = A(d))
    BY <2>4, <2>6
  <2>8. A(d) \in segments[d] /\ B(d) \in segments[d]
    BY <1>2
  <2>9. Null # 80 /\ Null # 20
    BY DEF Null, Reports!Null
  <2>10. Large(d) /\ Apart(d)
    BY <1>5, <1>6, <2>3, <2>6, <2>7, <2>8, <2>9
  <2>11. x.groups[d][g.label].severity = 80
    BY <1>4, <2>4, <2>6
  <2>. QED BY <2>1, <2>3, <2>10, <2>11
<1>10. ASSUME NEW d \in S, Large(d), NEW g \in segments[d], NEW h \in segments[d],
              g.severity - h.severity >= 60
       PROVE  r.flag
  <2>1. d \in DOMAIN segments /\ IsFiniteSet(segments[d])
    BY <1>1, <1>2
  <2>2. \A o \in segments[d] : o.severity # Null /\ o.n >= 10
    BY <1>2, <1>5, <1>10
  <2>. HIDE DEF Large
  <2>. QED BY <1>1, <1>7, <1>10, <2>1, <2>2, InequalityIsClaimed
<1>11. ASSUME NEW d \in S, Large(d), Apart(d) PROVE r.flag
  <2>1. A(d).severity \in {20, 80} /\ B(d).severity \in {20, 80} /\ A(d).severity # B(d).severity
    BY <1>3, <1>5, <1>6, <1>11
  <2>2. A(d) \in segments[d] /\ B(d) \in segments[d]
    BY <1>2
  <2>3. A(d).severity - B(d).severity >= 60 \/ B(d).severity - A(d).severity >= 60
    BY <2>1
  <2>. HIDE DEF Large, Apart, r
  <2>. QED BY <1>10, <1>11, <2>2, <2>3
<1>12. ASSUME NEW d \in DOMAIN r.observed, NEW g \in r.observed[d] PROVE g.n >= 2 /\ ~Large(d)
  <2>. DEFINE able == Reports!Evaluable(segments, 10)
              measured == Reports!Measurable(segments)
  <2>1. DOMAIN <<>> = {}
    OBVIOUS
  <2>2. able = {}
    <3>1. able # {} => r.observed = <<>>
      BY DEF Reports!deriveEquityFlag
    <3>. QED BY <1>12, <2>1, <3>1
  <2>3. r.observed = Reports!ObservedComparisons(segments, 10)
    BY <2>2 DEF Reports!deriveEquityFlag
  <2>4. d \in Reports!Rejected(segments, 10) /\ r.observed[d] = Reports!observedComparison(measured[d])
    <3>1. DOMAIN Reports!ObservedComparisons(segments, 10) \subseteq Reports!Rejected(segments, 10)
      BY DEF Reports!ObservedComparisons
    <3>2. \A e \in DOMAIN Reports!ObservedComparisons(segments, 10) :
             Reports!ObservedComparisons(segments, 10)[e] = Reports!observedComparison(measured[e])
      BY DEF Reports!ObservedComparisons
    <3>. HIDE DEF r
    <3>. QED BY <1>12, <2>3, <3>1, <3>2
  <2>5. g.n >= 2
    BY <2>4 DEF Reports!observedComparison
  <2>6. ASSUME Large(d) PROVE FALSE
    <3>1. /\ d \in DOMAIN segments /\ Cardinality(measured[d]) >= 2 /\ ~Reports!Comparable(measured[d], 10)
          /\ measured[d] = {o \in segments[d] : o.severity # Null}
      BY <2>4 DEF Reports!Rejected, Reports!Evaluable, Reports!Measurable, Null, Reports!Null,
                  Reports!Cardinality, Cardinality
    <3>2. d \in S
      BY <1>1, <3>1
    <3>3. \A o \in measured[d] : o.n >= 10
      BY <1>2, <1>5, <2>6, <3>1, <3>2
    <3>. QED BY <3>1, <3>3 DEF Reports!Comparable, Reports!Cardinality, Cardinality
  <2>. QED BY <2>5, <2>6
<1>. HIDE DEF r, Large, Apart
<1>13. r.flag = \E d \in S : Large(d) /\ Apart(d)
  BY <1>8, <1>9, <1>11
<1>14. EquityIsMeasured(x, r)
  BY <1>9, <1>12, <1>13 DEF EquityIsMeasured, Large, Apart
<1>. QED BY <1>14 DEF r, segments

-----------------------------------------------------------------------------
(***************************************************************************)
(* What is worse, and what is noted                                        *)
(***************************************************************************)
\* A worse severity of an input is shown as no less.
LEMMA ScaleOfInput == ASSUME NEW x \in ScaleInputs PROVE WorseIsNeverLess(x, Scale(x))
<1>. DEFINE mild == x.severities[1]
            bad == x.severities[2]
            equity == x.equity
            low == IF equity THEN 3 ELSE 2
            own == x.own
            prior == x.prior
            t == [acute |-> 70, chronic |-> 50]
            r == Scale(x)
            total == 10
<1>1. /\ mild \in 0..100 /\ bad \in 0..100 /\ mild <= bad
      /\ equity \in BOOLEAN /\ prior \in Int
      /\ own \in {[critical |-> 80], [critical |-> 90, high |-> 50]}
  <2>1. x.severities \in [1..2 -> {0, 35, 45, 55, 75, 85}] /\ mild <= bad
    BY DEF ScaleInputs
  <2>2. mild \in {0, 35, 45, 55, 75, 85} /\ bad \in {0, 35, 45, 55, 75, 85}
    BY <2>1
  <2>3. x.equity \in BOOLEAN /\ x.prior \in {Null, 60} /\ own \in {[critical |-> 80], [critical |-> 90, high |-> 50]}
    BY DEF ScaleInputs
  <2>4. prior \in Int
    BY <2>3 DEF Null, Reports!Null
  <2>. HIDE DEF mild, bad
  <2>. QED BY <2>1, <2>2, <2>3, <2>4
<1>2. /\ r[1].level = Reports!NeedLevel(mild, low, total, own) /\ r[2].level = Reports!NeedLevel(bad, low, total, own)
      /\ r[1].gap = Reports!deriveGapType(mild, equity, prior, t) /\ r[2].gap = Reports!deriveGapType(bad, equity, prior, t)
  BY DEF Scale
<1>3. \A k \in DOMAIN own : own[k] \in Int
  BY <1>1
<1>4. t.acute = 70 /\ t.chronic = 50 /\ t.acute \in Int /\ t.chronic \in Int /\ low \in Nat /\ total \in Nat
  OBVIOUS
<1>5. (r[1].gap = "inequality") = equity
  <2>1. mild # Reports!Null
    BY <1>1 DEF Reports!Null
  <2>. HIDE DEF mild, equity, prior, t
  <2>2. CASE equity
    BY <1>2, <2>1, <2>2, <1>1 DEF Reports!deriveGapType
  <2>3. CASE ~equity
    <3>1. r[1].gap \in {"acute", "chronic", "structural"}
      BY <1>2, <2>1, <2>3, SMTT(60) DEF Reports!deriveGapType
    <3>. QED BY <1>1, <2>3, <3>1
  <2>. QED BY <1>1, <2>2, <2>3
<1>. HIDE DEF mild, bad, equity, low, own, prior, t, total
<1>6. /\ Reports!LevelRank(Reports!NeedLevel(bad, low, total, own))
           <= Reports!LevelRank(Reports!NeedLevel(mild, low, total, own))
      /\ Depth(Reports!deriveGapType(mild, equity, prior, t))
           <= Depth(Reports!deriveGapType(bad, equity, prior, t))
  <2>1. mild \in 0..100 /\ bad \in 0..100 /\ mild <= bad /\ equity \in BOOLEAN /\ prior \in Int
    BY <1>1
  <2>2. t.acute \in Int /\ t.chronic \in Int /\ low \in Nat /\ total \in Nat
    BY <1>4
  <2>. QED BY <1>3, <2>1, <2>2, WorseNeverShownLess
<1>. HIDE DEF r
<1>7. Reports!LevelRank(r[2].level) <= Reports!LevelRank(r[1].level) /\ Depth(r[1].gap) <= Depth(r[2].gap)
  BY <1>2, <1>6
<1>8. WorseIsNeverLess(x, r)
  BY <1>5, <1>7 DEF WorseIsNeverLess, Depth, equity
<1>. QED BY <1>8 DEF r

\* One text more among those that are kept.
Kept(kept, r) == IF Contains(kept, r) THEN kept ELSE Append(kept, r)

\* The texts of seq at the places s.
Turn(seq, g, s) == IF s = {} THEN <<>> ELSE Kept(g[s \ {Max(s)}], seq[Max(s)])

IsTurn(seq, g, S) == g = [s \in SUBSET S |-> Turn(seq, g, s)]

\* There are such texts at the places of every sequence.
LEMMA TurnExists ==
    ASSUME NEW S, IsFiniteSet(S), \A s \in SUBSET S : s # {} => Max(s) \in s, NEW seq
    PROVE  \E g : IsTurn(seq, g, S)
<1>. DEFINE Small(m) == {s \in SUBSET S : Cardinality(s) <= m}
            Folds(m) == \E g : g = [s \in Small(m) |-> Turn(seq, g, s)]
            B == {m \in Nat : ~Folds(m)}
<1>0. \A s \in SUBSET S : IsFiniteSet(s) /\ Cardinality(s) \in Nat /\ Cardinality(s) <= Cardinality(S)
  BY FS_Subset, FS_CardinalityType
<1>1. Folds(0)
  <2>. DEFINE g == [s \in Small(0) |-> <<>>]
  <2>1. \A s \in Small(0) : s = {}
    BY <1>0, FS_EmptySet
  <2>2. g = [s \in Small(0) |-> Turn(seq, g, s)]
    BY <2>1 DEF Turn
  <2>. QED BY <2>2
<1>2. ASSUME NEW m \in Nat, Folds(m) PROVE Folds(m + 1)
  <2>1. PICK h : h = [s \in Small(m) |-> Turn(seq, h, s)]
    BY <1>2
  <2>. DEFINE g == [s \in Small(m + 1) |-> Turn(seq, h, s)]
  <2>2. ASSUME NEW s \in Small(m) PROVE s \in Small(m + 1) /\ g[s] = h[s]
    BY <1>0, <2>1
  <2>3. ASSUME NEW s \in Small(m + 1), s # {}
        PROVE  s \ {Max(s)} \in Small(m)
    <3>1. Max(s) \in s
      BY <2>3
    <3>2. Cardinality(s \ {Max(s)}) = Cardinality(s) - 1
      BY <1>0, <3>1, FS_RemoveElement
    <3>. QED BY <1>0, <3>2
  <2>4. ASSUME NEW s \in Small(m + 1) PROVE g[s] = Turn(seq, g, s)
    <3>1. CASE s = {}
      BY <3>1 DEF Turn
    <3>2. CASE s # {}
      <4>1. g[s \ {Max(s)}] = h[s \ {Max(s)}]
        BY <2>2, <2>3, <3>2
      <4>2. g[s] = Turn(seq, h, s)
        OBVIOUS
      <4>. HIDE DEF g
      <4>. QED BY <3>2, <4>1, <4>2 DEF Turn
    <3>. QED BY <3>1, <3>2
  <2>5. g = [s \in Small(m + 1) |-> Turn(seq, g, s)]
    BY <2>4
  <2>. QED BY <2>5
<1>. HIDE DEF Folds
<1>3. ASSUME B # {} PROVE FALSE
  <2>1. PICK m \in B : \A j \in B : m <= j
    BY <1>3, LeastOf
  <2>2. m # 0
    BY <1>1, <2>1
  <2>3. m - 1 \in Nat /\ m - 1 \notin B
    BY <2>1, <2>2
  <2>4. Folds(m - 1)
    BY <2>3
  <2>5. Folds(m)
    BY <1>2, <2>3, <2>4
  <2>. QED BY <2>1, <2>5
<1>4. Cardinality(S) \in Nat /\ Small(Cardinality(S)) = SUBSET S
  BY <1>0, FS_CardinalityType
<1>5. Folds(Cardinality(S))
  BY <1>3, <1>4
<1>. QED BY <1>4, <1>5 DEF Folds, IsTurn

\* Distinct elements of T, those of the set U.
Each(r, U, T) == r \in Seq(T) /\ IsInjective(r) /\ ToSet(r) = U

\* One more recommendation is kept once, whether it was there or not.
LEMMA EachWithOneMore ==
    ASSUME NEW T, NEW U, NEW r, Each(r, U, T), NEW e \in T
    PROVE  Each(Kept(r, e), U \cup {e}, T)
<1>. DEFINE n == Len(r)
            s == Append(r, e)
<1>1. /\ r \in Seq(T) /\ n \in Nat /\ DOMAIN r = 1..n
      /\ ToSet(r) = U /\ \A i, j \in 1..n : r[i] = r[j] => i = j
  BY DEF Each, IsInjective
<1>2. U = {r[i] : i \in 1..n}
  BY <1>1 DEF ToSet
<1>3. Contains(r, e) <=> e \in U
  BY <1>2 DEF Contains
<1>4. CASE e \in U
  <2>1. Kept(r, e) = r /\ U \cup {e} = U
    BY <1>3, <1>4 DEF Kept
  <2>. QED BY <2>1
<1>5. CASE e \notin U
  <2>1. Kept(r, e) = s
    BY <1>3, <1>5 DEF Kept
  <2>2. s \in Seq(T) /\ Len(s) = n + 1 /\ (\A i \in 1..n : s[i] = r[i]) /\ s[n + 1] = e
    BY <1>1, AppendProperties
  <2>. HIDE DEF s
  <2>3. DOMAIN s = 1..(n + 1)
    BY <2>2
  <2>. HIDE DEF n
  <2>4. \A i \in 1..(n + 1) : i \in 1..n \/ i = n + 1
    BY <1>1
  <2>5. ASSUME NEW i \in 1..(n + 1), NEW j \in 1..(n + 1), s[i] = s[j] PROVE i = j
    <3>1. \A k \in 1..n : s[k] \in U
      BY <1>2, <2>2
    <3>. QED BY <1>1, <1>5, <2>2, <2>4, <2>5, <3>1
  <2>6. 1..n \subseteq 1..(n + 1) /\ n + 1 \in 1..(n + 1)
    BY <1>1
  <2>7. ToSet(s) = U \cup {e}
    <3>1. ToSet(s) = {s[i] : i \in 1..(n + 1)}
      BY <2>3 DEF ToSet
    <3>2. ASSUME NEW y \in ToSet(s) PROVE y \in U \cup {e}
      BY <1>2, <2>2, <2>4, <3>1
    <3>3. ASSUME NEW y \in U \cup {e} PROVE y \in ToSet(s)
      BY <1>2, <2>2, <2>6, <3>1
    <3>. QED BY <3>2, <3>3
  <2>8. IsInjective(s)
    BY <2>3, <2>5 DEF IsInjective
  <2>. QED BY <2>1, <2>2, <2>7, <2>8 DEF Each
<1>. QED BY <1>4, <1>5

\* Whatever the two narratives recommend, it is printed and it is printed once.
\* (generateContent)
LEMMA RecommendedOnce ==
    ASSUME NEW T, NEW combined \in Seq(T), NEW score \in Seq(T)
    PROVE  LET r == Reports!Recommendations(combined, score)
           IN  r \in Seq(T) /\ IsInjective(r) /\ ToSet(r) = ToSet(combined) \cup ToSet(score)
<1>. DEFINE seq == combined \o score
            n == Len(seq)
            S == DOMAIN seq
            fold == CHOOSE g : IsTurn(seq, g, S)
            Texts(k) == {seq[i] : i \in 1..k}
            Good(k) == Each(fold[1..k], Texts(k), T)
            B == {k \in 0..n : ~Good(k)}
<1>1. seq \in Seq(T) /\ n \in Nat /\ S = 1..n /\ \A i \in 1..n : seq[i] \in T
  OBVIOUS
<1>2. ToSet(seq) = ToSet(combined) \cup ToSet(score)
  <2>. DEFINE a == Len(combined)
              b == Len(score)
  <2>1. /\ a \in Nat /\ b \in Nat /\ n = a + b
        /\ \A i \in 1..n : seq[i] = IF i <= a THEN combined[i] ELSE score[i - a]
    BY ConcatProperties
  <2>2. /\ ToSet(seq) = {seq[i] : i \in 1..n} /\ ToSet(combined) = {combined[i] : i \in 1..a}
        /\ ToSet(score) = {score[i] : i \in 1..b}
    BY <1>1 DEF ToSet
  <2>. HIDE DEF a, b, n, seq
  <2>3. \A i \in 1..n : (i <= a /\ i \in 1..a) \/ (~(i <= a) /\ i - a \in 1..b)
    BY <2>1
  <2>4. \A i \in 1..a : i \in 1..n /\ i <= a
    BY <2>1
  <2>5. \A i \in 1..b : i + a \in 1..n /\ ~(i + a <= a) /\ (i + a) - a = i
    BY <2>1
  <2>6. ASSUME NEW y \in ToSet(seq) PROVE y \in ToSet(combined) \cup ToSet(score)
    BY <2>1, <2>2, <2>3
  <2>7. ASSUME NEW y \in ToSet(combined) PROVE y \in ToSet(seq)
    BY <2>1, <2>2, <2>4
  <2>8. ASSUME NEW y \in ToSet(score) PROVE y \in ToSet(seq)
    <3>1. PICK i \in 1..b : y = score[i]
      BY <2>2
    <3>2. seq[i + a] = y
      BY <2>1, <2>5, <3>1
    <3>. QED BY <2>2, <2>5, <3>2
  <2>. QED BY <2>6, <2>7, <2>8
<1>3. Reports!Recommendations(combined, score) = fold[S]
  BY DEF Reports!Recommendations, Reports!FoldLeft, Reports!MapThenFoldSet, Reports!Max, Max,
         Reports!Contains, Contains, IsTurn, Turn, Kept
<1>. HIDE DEF seq, n
<1>4. \A s \in SUBSET S : s # {} => Max(s) \in s
  <2>1. ASSUME NEW s \in SUBSET S, s # {} PROVE Scoring!Max(s) \in s
    <3>1. n \in Nat /\ s \in SUBSET (1..n)
      BY <1>1
    <3>. QED BY <2>1, <3>1, LargestOf
  <2>. QED BY <2>1 DEF Scoring!Max, Max
<1>5. IsTurn(seq, fold, S)
  <2>1. IsFiniteSet(S)
    BY <1>1, FS_Interval
  <2>2. \E g : IsTurn(seq, g, S)
    <3>. HIDE DEF S
    <3>. QED BY <1>4, <2>1, TurnExists
  <2>. HIDE DEF S
  <2>. QED BY <2>2
<1>. HIDE DEF fold
<1>6. \A s \in SUBSET S : fold[s] = Turn(seq, fold, s)
  BY <1>5 DEF IsTurn
<1>7. Good(0)
  <2>1. 1..0 = {} /\ fold[{}] = <<>>
    <3>1. {} \in SUBSET S /\ 1..0 = {}
      OBVIOUS
    <3>2. fold[{}] = Turn(seq, fold, {})
      BY <1>6, <3>1
    <3>. QED BY <3>1, <3>2 DEF Turn
  <2>2. Texts(0) = {}
    BY <2>1
  <2>3. Each(<<>>, {}, T)
    BY DEF Each, IsInjective, ToSet
  <2>. QED BY <2>1, <2>2, <2>3
<1>8. ASSUME NEW k \in 1..n, Good(k - 1) PROVE Good(k)
  <2>. DEFINE j == k - 1
  <2>1. k \in Nat /\ j \in Nat /\ 1..k \subseteq 1..n /\ k \in 1..k /\ (\A i \in 1..k : i <= k)
        /\ (1..k) \ {k} = 1..j
    BY <1>1
  <2>2. Max(1..k) = k
    <3>1. \A i \in 1..k : (\A l \in 1..k : i >= l) <=> i = k
      BY <2>1
    <3>2. Max(1..k) = CHOOSE i \in 1..k : \A l \in 1..k : i >= l
      BY DEF Max
    <3>. QED BY <2>1, <3>1, <3>2
  <2>3. fold[1..k] = Kept(fold[1..j], seq[k])
    <3>1. 1..k \in SUBSET S /\ 1..k # {}
      BY <1>1, <2>1
    <3>2. fold[1..k] = Turn(seq, fold, 1..k)
      BY <1>6, <3>1
    <3>. QED BY <2>1, <2>2, <3>1, <3>2 DEF Turn
  <2>4. Texts(k) = Texts(j) \cup {seq[k]}
    <3>1. \A i \in 1..k : i \in 1..j \/ i = k
      BY <2>1
    <3>2. \A i \in 1..j : i \in 1..k
      BY <2>1
    <3>. HIDE DEF j
    <3>. QED BY <2>1, <3>1, <3>2
  <2>5. seq[k] \in T
    BY <1>1
  <2>6. Each(fold[1..j], Texts(j), T)
    BY <1>8
  <2>. HIDE DEF Texts, j
  <2>7. Each(Kept(fold[1..j], seq[k]), Texts(j) \cup {seq[k]}, T)
    BY <2>5, <2>6, EachWithOneMore
  <2>. QED BY <2>3, <2>4, <2>7
<1>. HIDE DEF Good
<1>9. ASSUME B # {} PROVE FALSE
  <2>1. B \in SUBSET Nat
    BY <1>1
  <2>2. PICK k \in B : \A j \in B : k <= j
    BY <1>9, <2>1, LeastOf
  <2>3. k \in 0..n /\ ~Good(k) /\ k # 0
    BY <1>7, <2>2
  <2>4. k \in 1..n /\ k - 1 \in 0..n /\ ~(k <= k - 1)
    BY <1>1, <2>3
  <2>5. Good(k - 1)
    BY <2>2, <2>4
  <2>. QED BY <1>8, <2>3, <2>4, <2>5
<1>10. Good(n)
  BY <1>1, <1>9
<1>11. Texts(n) = ToSet(seq)
  BY <1>1 DEF ToSet
<1>. QED BY <1>1, <1>2, <1>3, <1>10, <1>11 DEF Good, Each

\* An empty text.
Blank == ""

\* No text of a trend is the blank one.
LEMMA BlankIsNoText ==
    "unavailable" # Blank /\ \A t \in {"baseline", "no prior", "improved", "worsened", "unchanged"} : t # Blank
  BY Zenon DEF Blank

\* A change is claimed between two measured cycles.
ClaimsMeasured(trend, cycle, current, prior) ==
    /\ trend \in {"baseline", "no prior", "improved", "worsened", "unchanged"}
    /\ trend \in {"improved", "worsened", "unchanged"} => cycle = 2 /\ prior # Null /\ current # Null

\* A trend is claimed only where both cycles were measured.
LEMMA TrendIsMeasured ==
    ASSUME NEW cycle \in 1..2, NEW current \in Int, NEW prior \in Int
    PROVE  ClaimsMeasured(Reports!deriveTrendNote(cycle, current, prior), cycle, current, prior)
<1>. DEFINE trend == Reports!deriveTrendNote(cycle, current, prior)
<1>1. CASE cycle = 1
  <2>1. trend = "baseline"
    BY <1>1 DEF Reports!deriveTrendNote
  <2>. QED BY <2>1 DEF ClaimsMeasured
<1>2. CASE cycle = 2 /\ (prior = Null \/ current = Null)
  <2>1. trend = "no prior"
    <3>1. ~(cycle <= 1) /\ cycle > 1
      BY <1>2
    <3>2. ~(prior # Reports!Null /\ current # Reports!Null) /\ (prior = Reports!Null \/ current = Reports!Null)
      BY <1>2 DEF Null
    <3>. QED BY <3>1, <3>2, Zenon DEF Reports!deriveTrendNote
  <2>. QED BY <2>1 DEF ClaimsMeasured
<1>3. CASE cycle = 2 /\ prior # Null /\ current # Null
  <2>1. trend = "improved" \/ trend = "worsened" \/ trend = "unchanged"
    BY <1>3 DEF Reports!deriveTrendNote, Null, Reports!Null
  <2>. HIDE DEF trend
  <2>2. ClaimsMeasured(trend, cycle, current, prior)
    BY <1>3, <2>1 DEF ClaimsMeasured
  <2>. QED BY <2>2 DEF trend
<1>. QED BY <1>1, <1>2, <1>3

\* Both notes stand, and neither stands twice.  (promoteNotes)
LEMMA NotesStand ==
    ASSUME NEW ai, "dataQualityNote" \in DOMAIN ai, "trendNote" \in DOMAIN ai, NEW trend, trend # Blank
    PROVE  LET notes == Reports!promoteNotes(ai, trend) IN
             /\ notes.dataQualityNote # Blank /\ notes.aiSummary.dataQualityNote = Blank
             /\ notes.trendNote # Blank /\ notes.aiSummary.trendNote = Blank
             /\ notes.trendNote \in {ai.trendNote, trend}
<1>. DEFINE notes == Reports!promoteNotes(ai, trend)
<1>1. notes = [aiSummary |-> [ai EXCEPT !.dataQualityNote = Blank, !.trendNote = Blank],
               dataQualityNote |-> IF ai.dataQualityNote # Blank THEN ai.dataQualityNote ELSE "unavailable",
               trendNote |-> IF ai.trendNote # Blank THEN ai.trendNote ELSE trend]
  BY Zenon DEF Reports!promoteNotes, Blank
<1>. HIDE DEF notes
<1>2. /\ notes.dataQualityNote # Blank /\ notes.aiSummary.dataQualityNote = Blank
      /\ notes.trendNote # Blank /\ notes.aiSummary.trendNote = Blank
      /\ notes.trendNote \in {ai.trendNote, trend}
  BY <1>1, BlankIsNoText
<1>. QED BY <1>2 DEF notes

\* The notes of every cycle of the runs stand once.
LEMMA NotesOfCycle == ASSUME NEW x \in NoteInputs PROVE NotesStandOnce(x, Notes(x))
<1>. DEFINE ai == Reports!NarrativeOf(x.ai)
            trend == Reports!deriveTrendNote(x.cycle, x.current, x.prior)
            r == Notes(x)
            T == {"a", "b", "c"}
            P == {"executiveSummary", "keyFindings", "dataQualityNote", "trendNote"}
            A == Lists(T, 2)
            F == UNION {[K -> {Blank, "text"}] : K \in SUBSET {"executiveSummary", "dataQualityNote", "trendNote"}}
<1>1. NoteInputs = [kind : {"notes"}, cycle : 1..2, prior : {Null, 40}, current : {Null, 40, 60}, ai : F,
                    advice : [1..2 -> A]]
  BY Zenon DEF NoteInputs, Blank
<1>2. ai = [part \in P |-> IF part \in DOMAIN x.ai THEN x.ai[part] ELSE Blank]
  BY Zenon DEF Reports!NarrativeOf, Blank
<1>3. /\ r.notes = Reports!promoteNotes(ai, trend)
      /\ r.advice = Reports!Recommendations(x.advice[1], x.advice[2])
  BY DEF Notes
<1>. HIDE DEF A, F, T, ai, trend, r
<1>4. /\ x.cycle \in 1..2 /\ x.prior \in {Null, 40} /\ x.current \in {Null, 40, 60}
      /\ x.ai \in F /\ x.advice \in [1..2 -> A]
  BY <1>1
<1>5. /\ "dataQualityNote" \in DOMAIN ai /\ "trendNote" \in DOMAIN ai
      /\ ai.trendNote \in {Blank, "text"}
  <2>1. PICK K : x.ai \in [K -> {Blank, "text"}]
    BY <1>4 DEF F
  <2>2. ai.trendNote = IF "trendNote" \in DOMAIN x.ai THEN x.ai["trendNote"] ELSE Blank
    BY <1>2
  <2>3. "trendNote" \in DOMAIN x.ai => x.ai["trendNote"] \in {Blank, "text"}
    BY <2>1
  <2>. QED BY <1>2, <2>2, <2>3
<1>6. x.prior \in Int /\ x.current \in Int
  BY <1>4 DEF Null, Reports!Null
<1>7. /\ trend \in {"baseline", "no prior", "improved", "worsened", "unchanged"}
      /\ trend \in {"improved", "worsened", "unchanged"} => x.cycle = 2 /\ x.prior # Null /\ x.current # Null
  <2>1. ClaimsMeasured(trend, x.cycle, x.current, x.prior)
    BY <1>4, <1>6, TrendIsMeasured DEF trend
  <2>. QED BY <2>1 DEF ClaimsMeasured
<1>8. /\ r.notes.dataQualityNote # Blank /\ r.notes.aiSummary.dataQualityNote = Blank
      /\ r.notes.trendNote # Blank /\ r.notes.aiSummary.trendNote = Blank
      /\ r.notes.trendNote \in {ai.trendNote, trend}
  <2>1. trend # Blank
    BY <1>7, BlankIsNoText
  <2>. QED BY <1>3, <1>5, <2>1, NotesStand
<1>9. r.notes.trendNote \in {"improved", "worsened", "unchanged"} => x.cycle = 2 /\ x.prior # Null /\ x.current # Null
  BY <1>5, <1>7, <1>8
<1>10. IsInjective(r.advice) /\ ToSet(r.advice) = ToSet(x.advice[1]) \cup ToSet(x.advice[2])
  <2>1. x.advice[1] \in A /\ x.advice[2] \in A
    BY <1>4
  <2>2. A \subseteq Seq(T)
    BY ListsAreSequences DEF A
  <2>3. x.advice[1] \in Seq(T) /\ x.advice[2] \in Seq(T)
    BY <2>1, <2>2
  <2>. QED BY <1>3, <2>3, RecommendedOnce
<1>11. NotesStandOnce(x, r)
  BY <1>8, <1>9, <1>10, Zenon DEF NotesStandOnce, Blank
<1>. QED BY <1>11 DEF r

\* Every report tells one story: its sections agree with one another and rank
\* what was measured, its notes stand, and it claims of groups and of change
\* what was measured.  (composeExecutiveSummary, rankPriorityNeeds,
\* composePatternAnalysis, deriveEquityFlag, promoteNotes)
THEOREM ReportTellsOneStoryHolds == Spec => []ReportTellsOneStory
<1>1. ASSUME TablesInv PROVE ReportTellsOneStory
  <2>1. ASSUME Answered("report") PROVE input \in ReportInputs /\ Result = Report(input)
    BY <1>1, <2>1 DEF TablesInv, Tells, Answered, Result
  <2>2. SectionsAgree
    <3>1. ASSUME Answered("report")
          PROVE  /\ Result.coverage = Reports!buildCoverageBlock(ReportLevels(input), {})
                 /\ Result.content = Reports!buildUnifiedRpt01(Bank(input), ReportLevels(input),
                                                              ReportConfigs(input), input.required)
      BY <2>1, <3>1 DEF Report
    <3>. QED BY <2>1, <3>1, SectionsOfInput, SMTT(60) DEF SectionsAgree
  <2>3. OnlyMeasuredRank
    <3>1. ASSUME Answered("report")
          PROVE  Result.content = Reports!buildUnifiedRpt01(Bank(input), ReportLevels(input),
                                                           ReportConfigs(input), input.required)
      BY <2>1, <3>1 DEF Report
    <3>. QED BY <2>1, <3>1, RankOfInput DEF OnlyMeasuredRank, Reports!Measured, Null
  <2>4. NotesMatchSections
    <3>1. ASSUME Answered("report") PROVE NotesMatch(input.kpis, Result)
      <4>1. input \in ReportInputs /\ Result = Report(input)
        BY <2>1, <3>1
      <4>. HIDE DEF Result
      <4>. QED BY <4>1, NotesOfInput
    <3>. QED BY <3>1 DEF NotesMatchSections, NotesMatch
  <2>5. ASSUME Answered("segments") PROVE EquityIsMeasured(input, Result)
    <3>1. input \in SegmentInputs /\ Result = Reports!deriveEquityFlag(Segments(input), 10, 60)
      BY <1>1, <2>5 DEF TablesInv, Tells, Answered, Result
    <3>. QED BY <3>1, EquityOfInput
  <2>6. ASSUME Answered("scale") PROVE WorseIsNeverLess(input, Result)
    <3>1. input \in ScaleInputs /\ Result = Scale(input)
      BY <1>1, <2>6 DEF TablesInv, Tells, Answered, Result
    <3>. QED BY <3>1, ScaleOfInput
  <2>7. ASSUME Answered("notes") PROVE NotesStandOnce(input, Result)
    <3>1. input \in NoteInputs /\ Result = Notes(input)
      BY <1>1, <2>7 DEF TablesInv, Tells, Answered, Result
    <3>. QED BY <3>1, NotesOfCycle
  <2>. QED BY <2>2, <2>3, <2>4, <2>5, <2>6, <2>7 DEF ReportTellsOneStory
<1>. QED BY <1>1, TablesInvInit, TablesInvStep, PTL DEF Spec

-----------------------------------------------------------------------------
(***************************************************************************)
(* Who may do what                                                         *)
(***************************************************************************)

\* What a grant of actions on one module holds.
LEMMA GrantOf == \A m, a, n, A : <<m, a>> \in Roles!Grant(n, A) <=> m = n /\ a \in A
  BY DEF Roles!Grant

\* What a view of modules holds.
LEMMA ViewOf == \A m, a, S : <<m, a>> \in Roles!View(S) <=> m \in S /\ a = "read"
  BY DEF Roles!View

\* What a grant on several modules holds.
LEMMA GrantsOf == \A m, a, S, A : <<m, a>> \in Roles!Grants(S, A) <=> m \in S /\ a \in A
<1>. TAKE m, a, S, A
<1>1. ASSUME <<m, a>> \in Roles!Grants(S, A) PROVE m \in S /\ a \in A
  <2>1. PICK n \in S : <<m, a>> \in Roles!Grant(n, A)
    BY <1>1 DEF Roles!Grants
  <2>. QED BY <2>1, GrantOf
<1>2. ASSUME m \in S, a \in A PROVE <<m, a>> \in Roles!Grants(S, A)
  <2>1. <<m, a>> \in Roles!Grant(m, A)
    BY <1>2, GrantOf
  <2>. QED BY <1>2, <2>1 DEF Roles!Grants
<1>. QED BY <1>1, <1>2

\* What a group of routes asks.
LEMMA AskOf == \A h, p, q, H : <<h, p>> \in Roles!Ask(q, H) <=> h \in H /\ p = q
  BY DEF Roles!Ask

\* A route is a handler and what it asks.
LEMMA RoutePairs == \A q, H : \A r \in Roles!Ask(q, H) : r = <<r[1], r[2]>> /\ r[1] \in H /\ r[2] = q
  BY DEF Roles!Ask

\* The groups the routes are written down in.
LEMMA RouteIn ==
    \A r : r \in Roles!Routes <=>
        \/ r \in Roles!Surveys \/ r \in Roles!Authentication \/ r \in Roles!EvidenceDocuments
        \/ r \in Roles!EvidenceRoutes \/ r \in Roles!SystemLogs \/ r \in Roles!PublicSurveys
        \/ r \in Roles!Organizations \/ r \in Roles!Priority \/ r \in Roles!PrioritySummaries
        \/ r \in Roles!AiDecisions \/ r \in Roles!Domains \/ r \in Roles!NeedRoutes
        \/ r \in Roles!NcnpReview \/ r \in Roles!Reports \/ r \in Roles!CombinedReport
        \/ r \in Roles!StudyRoutes \/ r \in Roles!StudySharing \/ r \in Roles!ReportSharing
        \/ r \in Roles!AuditRoutes \/ r \in Roles!NcnpReportRoutes \/ r \in Roles!Archive
        \/ r \in Roles!SharingAlerts \/ r \in Roles!SupervisorOverview \/ r \in Roles!ReviewerSla
        \/ r \in Roles!QuestionBank \/ r \in Roles!CollectiveDashboard \/ r \in Roles!Quality
        \/ r \in Roles!MethodologyConfig \/ r \in Roles!Roles \/ r \in Roles!Users
        \/ r \in Roles!Consent \/ r \in Roles!Geography \/ r \in Roles!Contact \/ r \in Roles!Citizens
  BY DEF Roles!Routes

\* The permission of a handler whose routes all ask the same.
LEMMA PermissionIs ==
    ASSUME NEW h, NEW p, <<h, p>> \in Roles!Routes,
           \A r \in Roles!Routes : r[1] = h => r[2] = p
    PROVE  Roles!Permission(h) = p
<1>1. <<h, p>>[1] = h /\ <<h, p>>[2] = p
  OBVIOUS
<1>2. \E r \in Roles!Routes : r[1] = h
  BY <1>1
<1>. DEFINE r == CHOOSE r \in Roles!Routes : r[1] = h
<1>3. r \in Roles!Routes /\ r[1] = h
  BY <1>2
<1>4. Roles!Permission(h) = r[2]
  BY DEF Roles!Permission
<1>. QED BY <1>3, <1>4

\* What the steps of the workflow, and the handlers that no token guards, ask for.
Asks(h, p) ==
    /\ h \in {"createStudy", "createLink"} => p = <<"studySurvey", "create">>
    /\ h \in {"createNeed", "uploadDocument"} => p = <<"dataCollection", "create">>
    /\ h \in {"classify"} => p = <<"aiReview", "write">>
    /\ h \in {"approveDecision"} => p = <<"aiReview", "approve">>
    /\ h \in {"createEmptySurvey", "submitForApproval"} => p = <<"surveyBuilder", "write">>
    /\ h \in {"approveSurvey"} => p = <<"surveyBuilder", "approve">>
    /\ h \in {"publishSurvey"} => p = <<"surveyBuilder", "create">>
    /\ h \in {"scorePriority", "generateDocumentSummary", "generateCombined",
              "assess"} => p = <<"priorityScoring", "create">>
    /\ h \in {"approvePriority", "confirmSummary"} => p = <<"priorityScoring", "approve">>
    /\ h \in {"confirmDocumentSummary", "confirmCombined"} => p = <<"priorityScoring", "write">>
    /\ h \in {"createReport"} => p = <<"reportsDashboards", "create">>
    /\ h \in {"confirmReport"} => p = <<"reportsDashboards", "write">>
    /\ h \in {"approveReport", "rejectReport"} => p = <<"reportsDashboards", "approve">>
    /\ h \in {"exportReport"} => p = <<"reportsDashboards", "export">>
    /\ h \in {"requestStudy", "requestReport"} => p = <<"archiveSharingAudit", "create">>
    /\ h \in {"approveShare", "approveReportShare"} => p = <<"archiveSharingAudit", "approve">>
    /\ h \in {"inviteUser"} => p = <<"entityTeam", "create">>
    /\ h \in {"generateReview", "publishReview"} => p = <<"ncnpReport", "write">>
    /\ h \in {"approveReview"} => p = <<"ncnpReport", "approve">>
    /\ h \in {"login", "signup", "verifyRegistrationNumber", "forgotPassword", "resetPassword",
              "listPublicDomains", "submitContact", "listContactOrganizations"} => p = Roles!Public

\* What every route asks, found by its handler.
LEMMA RoutesAsk == \A r \in Roles!Routes : Asks(r[1], r[2])
<1>. TAKE r \in Roles!Routes
<1>1. CASE r \in Roles!Surveys
  BY <1>1, RoutePairs DEF Roles!Surveys, Asks, Roles!Public, Roles!Nobody
<1>2. CASE r \in Roles!Authentication
  BY <1>2, RoutePairs DEF Roles!Authentication, Asks, Roles!Public, Roles!Nobody
<1>3. CASE r \in Roles!EvidenceDocuments
  BY <1>3, RoutePairs DEF Roles!EvidenceDocuments, Asks, Roles!Public, Roles!Nobody
<1>4. CASE r \in Roles!EvidenceRoutes
  BY <1>4, RoutePairs DEF Roles!EvidenceRoutes, Asks, Roles!Public, Roles!Nobody
<1>5. CASE r \in Roles!SystemLogs
  BY <1>5, RoutePairs DEF Roles!SystemLogs, Asks, Roles!Public, Roles!Nobody
<1>6. CASE r \in Roles!PublicSurveys
  BY <1>6, RoutePairs DEF Roles!PublicSurveys, Asks, Roles!Public, Roles!Nobody
<1>7. CASE r \in Roles!Organizations
  BY <1>7, RoutePairs DEF Roles!Organizations, Asks, Roles!Public, Roles!Nobody
<1>8. CASE r \in Roles!Priority
  BY <1>8, RoutePairs DEF Roles!Priority, Asks, Roles!Public, Roles!Nobody
<1>9. CASE r \in Roles!PrioritySummaries
  BY <1>9, RoutePairs DEF Roles!PrioritySummaries, Asks, Roles!Public, Roles!Nobody
<1>10. CASE r \in Roles!AiDecisions
  BY <1>10, RoutePairs DEF Roles!AiDecisions, Asks, Roles!Public, Roles!Nobody
<1>11. CASE r \in Roles!Domains
  BY <1>11, RoutePairs DEF Roles!Domains, Asks, Roles!Public, Roles!Nobody
<1>12. CASE r \in Roles!NeedRoutes
  BY <1>12, RoutePairs DEF Roles!NeedRoutes, Asks, Roles!Public, Roles!Nobody
<1>13. CASE r \in Roles!NcnpReview
  BY <1>13, RoutePairs DEF Roles!NcnpReview, Asks, Roles!Public, Roles!Nobody
<1>14. CASE r \in Roles!Reports
  BY <1>14, RoutePairs DEF Roles!Reports, Asks, Roles!Public, Roles!Nobody
<1>15. CASE r \in Roles!CombinedReport
  BY <1>15, RoutePairs DEF Roles!CombinedReport, Asks, Roles!Public, Roles!Nobody
<1>16. CASE r \in Roles!StudyRoutes
  BY <1>16, RoutePairs DEF Roles!StudyRoutes, Asks, Roles!Public, Roles!Nobody
<1>17. CASE r \in Roles!StudySharing
  BY <1>17, RoutePairs DEF Roles!StudySharing, Asks, Roles!Public, Roles!Nobody
<1>18. CASE r \in Roles!ReportSharing
  BY <1>18, RoutePairs DEF Roles!ReportSharing, Asks, Roles!Public, Roles!Nobody
<1>19. CASE r \in Roles!AuditRoutes
  BY <1>19, RoutePairs DEF Roles!AuditRoutes, Asks, Roles!Public, Roles!Nobody
<1>20. CASE r \in Roles!NcnpReportRoutes
  BY <1>20, RoutePairs DEF Roles!NcnpReportRoutes, Asks, Roles!Public, Roles!Nobody
<1>21. CASE r \in Roles!Archive
  BY <1>21, RoutePairs DEF Roles!Archive, Asks, Roles!Public, Roles!Nobody
<1>22. CASE r \in Roles!SharingAlerts
  BY <1>22, RoutePairs DEF Roles!SharingAlerts, Asks, Roles!Public, Roles!Nobody
<1>23. CASE r \in Roles!SupervisorOverview
  BY <1>23, RoutePairs DEF Roles!SupervisorOverview, Asks, Roles!Public, Roles!Nobody
<1>24. CASE r \in Roles!ReviewerSla
  BY <1>24, RoutePairs DEF Roles!ReviewerSla, Asks, Roles!Public, Roles!Nobody
<1>25. CASE r \in Roles!QuestionBank
  BY <1>25, RoutePairs DEF Roles!QuestionBank, Asks, Roles!Public, Roles!Nobody
<1>26. CASE r \in Roles!CollectiveDashboard
  BY <1>26, RoutePairs DEF Roles!CollectiveDashboard, Asks, Roles!Public, Roles!Nobody
<1>27. CASE r \in Roles!Quality
  BY <1>27, RoutePairs DEF Roles!Quality, Asks, Roles!Public, Roles!Nobody
<1>28. CASE r \in Roles!MethodologyConfig
  BY <1>28, RoutePairs DEF Roles!MethodologyConfig, Asks, Roles!Public, Roles!Nobody
<1>29. CASE r \in Roles!Roles
  BY <1>29, RoutePairs DEF Roles!Roles, Asks, Roles!Public, Roles!Nobody
<1>30. CASE r \in Roles!Users
  BY <1>30, RoutePairs DEF Roles!Users, Asks, Roles!Public, Roles!Nobody
<1>31. CASE r \in Roles!Consent
  BY <1>31, RoutePairs DEF Roles!Consent, Asks, Roles!Public, Roles!Nobody
<1>32. CASE r \in Roles!Geography
  BY <1>32, RoutePairs DEF Roles!Geography, Asks, Roles!Public, Roles!Nobody
<1>33. CASE r \in Roles!Contact
  BY <1>33, RoutePairs DEF Roles!Contact, Asks, Roles!Public, Roles!Nobody
<1>34. CASE r \in Roles!Citizens
  BY <1>34, RoutePairs DEF Roles!Citizens, Asks, Roles!Public, Roles!Nobody
<1>. QED BY RouteIn, <1>1, <1>2, <1>3, <1>4, <1>5, <1>6, <1>7, <1>8, <1>9, <1>10, <1>11, <1>12, <1>13, <1>14, <1>15, <1>16, <1>17, <1>18, <1>19, <1>20, <1>21, <1>22, <1>23, <1>24, <1>25, <1>26, <1>27, <1>28, <1>29, <1>30, <1>31, <1>32, <1>33, <1>34

\* The steps of the workflow are among the routes.
LEMMA StepsAreRouted ==
    /\ \A h \in {"createStudy", "createLink"} : <<h, <<"studySurvey", "create">>>> \in Roles!Routes
    /\ \A h \in {"createNeed",
                 "uploadDocument"} : <<h, <<"dataCollection", "create">>>> \in Roles!Routes
    /\ \A h \in {"classify"} : <<h, <<"aiReview", "write">>>> \in Roles!Routes
    /\ \A h \in {"approveDecision"} : <<h, <<"aiReview", "approve">>>> \in Roles!Routes
    /\ \A h \in {"createEmptySurvey",
                 "submitForApproval"} : <<h, <<"surveyBuilder", "write">>>> \in Roles!Routes
    /\ \A h \in {"approveSurvey"} : <<h, <<"surveyBuilder", "approve">>>> \in Roles!Routes
    /\ \A h \in {"publishSurvey"} : <<h, <<"surveyBuilder", "create">>>> \in Roles!Routes
    /\ \A h \in {"scorePriority", "generateDocumentSummary", "generateCombined",
                 "assess"} : <<h, <<"priorityScoring", "create">>>> \in Roles!Routes
    /\ \A h \in {"approvePriority",
                 "confirmSummary"} : <<h, <<"priorityScoring", "approve">>>> \in Roles!Routes
    /\ \A h \in {"confirmDocumentSummary",
                 "confirmCombined"} : <<h, <<"priorityScoring", "write">>>> \in Roles!Routes
    /\ \A h \in {"createReport"} : <<h, <<"reportsDashboards", "create">>>> \in Roles!Routes
    /\ \A h \in {"confirmReport"} : <<h, <<"reportsDashboards", "write">>>> \in Roles!Routes
    /\ \A h \in {"approveReport",
                 "rejectReport"} : <<h, <<"reportsDashboards", "approve">>>> \in Roles!Routes
    /\ \A h \in {"exportReport"} : <<h, <<"reportsDashboards", "export">>>> \in Roles!Routes
    /\ \A h \in {"requestStudy",
                 "requestReport"} : <<h, <<"archiveSharingAudit", "create">>>> \in Roles!Routes
    /\ \A h \in {"approveShare",
                 "approveReportShare"} : <<h, <<"archiveSharingAudit", "approve">>>> \in Roles!Routes
    /\ \A h \in {"inviteUser"} : <<h, <<"entityTeam", "create">>>> \in Roles!Routes
    /\ \A h \in {"generateReview",
                 "publishReview"} : <<h, <<"ncnpReport", "write">>>> \in Roles!Routes
    /\ \A h \in {"approveReview"} : <<h, <<"ncnpReport", "approve">>>> \in Roles!Routes
    /\ \A h \in {"login", "signup", "verifyRegistrationNumber", "forgotPassword", "resetPassword",
                 "listPublicDomains", "submitContact",
                 "listContactOrganizations"} : <<h, Roles!Public>> \in Roles!Routes
<1>1. \A h \in {"createStudy", "createLink"} : <<h, <<"studySurvey", "create">>>> \in Roles!Routes
  BY RouteIn, AskOf DEF Roles!PublicSurveys, Roles!StudyRoutes
<1>2. \A h \in {"createNeed", "uploadDocument"} : <<h, <<"dataCollection", "create">>>> \in Roles!Routes
  BY RouteIn, AskOf DEF Roles!EvidenceDocuments, Roles!NeedRoutes
<1>3. \A h \in {"classify"} : <<h, <<"aiReview", "write">>>> \in Roles!Routes
  BY RouteIn, AskOf DEF Roles!AiDecisions
<1>4. \A h \in {"approveDecision"} : <<h, <<"aiReview", "approve">>>> \in Roles!Routes
  BY RouteIn, AskOf DEF Roles!AiDecisions
<1>5. \A h \in {"createEmptySurvey",
          "submitForApproval"} : <<h, <<"surveyBuilder", "write">>>> \in Roles!Routes
  BY RouteIn, AskOf DEF Roles!Surveys
<1>6. \A h \in {"approveSurvey"} : <<h, <<"surveyBuilder", "approve">>>> \in Roles!Routes
  BY RouteIn, AskOf DEF Roles!Surveys
<1>7. \A h \in {"publishSurvey"} : <<h, <<"surveyBuilder", "create">>>> \in Roles!Routes
  BY RouteIn, AskOf DEF Roles!Surveys
<1>8. \A h \in {"scorePriority", "generateDocumentSummary", "generateCombined",
          "assess"} : <<h, <<"priorityScoring", "create">>>> \in Roles!Routes
  BY RouteIn, AskOf DEF Roles!CombinedReport, Roles!EvidenceDocuments, Roles!Priority, Roles!Quality
<1>9. \A h \in {"approvePriority",
          "confirmSummary"} : <<h, <<"priorityScoring", "approve">>>> \in Roles!Routes
  BY RouteIn, AskOf DEF Roles!Priority, Roles!PrioritySummaries
<1>10. \A h \in {"confirmDocumentSummary",
          "confirmCombined"} : <<h, <<"priorityScoring", "write">>>> \in Roles!Routes
  BY RouteIn, AskOf DEF Roles!CombinedReport, Roles!EvidenceDocuments
<1>11. \A h \in {"createReport"} : <<h, <<"reportsDashboards", "create">>>> \in Roles!Routes
  BY RouteIn, AskOf DEF Roles!Reports
<1>12. \A h \in {"confirmReport"} : <<h, <<"reportsDashboards", "write">>>> \in Roles!Routes
  BY RouteIn, AskOf DEF Roles!Reports
<1>13. \A h \in {"approveReport",
          "rejectReport"} : <<h, <<"reportsDashboards", "approve">>>> \in Roles!Routes
  BY RouteIn, AskOf DEF Roles!Reports
<1>14. \A h \in {"exportReport"} : <<h, <<"reportsDashboards", "export">>>> \in Roles!Routes
  BY RouteIn, AskOf DEF Roles!Reports
<1>15. \A h \in {"requestStudy",
          "requestReport"} : <<h, <<"archiveSharingAudit", "create">>>> \in Roles!Routes
  BY RouteIn, AskOf DEF Roles!ReportSharing, Roles!StudySharing
<1>16. \A h \in {"approveShare",
          "approveReportShare"} : <<h, <<"archiveSharingAudit", "approve">>>> \in Roles!Routes
  BY RouteIn, AskOf DEF Roles!ReportSharing, Roles!StudySharing
<1>17. \A h \in {"inviteUser"} : <<h, <<"entityTeam", "create">>>> \in Roles!Routes
  BY RouteIn, AskOf DEF Roles!Users
<1>18. \A h \in {"generateReview", "publishReview"} : <<h, <<"ncnpReport", "write">>>> \in Roles!Routes
  BY RouteIn, AskOf DEF Roles!NcnpReview
<1>19. \A h \in {"approveReview"} : <<h, <<"ncnpReport", "approve">>>> \in Roles!Routes
  BY RouteIn, AskOf DEF Roles!NcnpReview
<1>20. \A h \in {"login", "signup", "verifyRegistrationNumber", "forgotPassword", "resetPassword",
          "listPublicDomains", "submitContact",
          "listContactOrganizations"} : <<h, Roles!Public>> \in Roles!Routes
  BY RouteIn, AskOf DEF Roles!Authentication, Roles!Contact, Roles!Domains
<1>. QED BY <1>1, <1>2, <1>3, <1>4, <1>5, <1>6, <1>7, <1>8, <1>9, <1>10, <1>11, <1>12, <1>13, <1>14, <1>15, <1>16, <1>17, <1>18, <1>19, <1>20

\* What a handler is found to ask is its permission.
LEMMA PermissionOfSteps == \A h, p : <<h, p>> \in Roles!Routes /\ (\A q : Asks(h, q) => q = p) => Roles!Permission(h) = p
  BY RoutesAsk, PermissionIs

\* Hence what each step of the workflow asks.
LEMMA StepsAsk ==
    /\ \A h \in {"createStudy", "createLink"} : Roles!Permission(h) = <<"studySurvey", "create">>
    /\ \A h \in {"createNeed",
                 "uploadDocument"} : Roles!Permission(h) = <<"dataCollection", "create">>
    /\ \A h \in {"classify"} : Roles!Permission(h) = <<"aiReview", "write">>
    /\ \A h \in {"approveDecision"} : Roles!Permission(h) = <<"aiReview", "approve">>
    /\ \A h \in {"createEmptySurvey",
                 "submitForApproval"} : Roles!Permission(h) = <<"surveyBuilder", "write">>
    /\ \A h \in {"approveSurvey"} : Roles!Permission(h) = <<"surveyBuilder", "approve">>
    /\ \A h \in {"publishSurvey"} : Roles!Permission(h) = <<"surveyBuilder", "create">>
    /\ \A h \in {"scorePriority", "generateDocumentSummary", "generateCombined",
                 "assess"} : Roles!Permission(h) = <<"priorityScoring", "create">>
    /\ \A h \in {"approvePriority",
                 "confirmSummary"} : Roles!Permission(h) = <<"priorityScoring", "approve">>
    /\ \A h \in {"confirmDocumentSummary",
                 "confirmCombined"} : Roles!Permission(h) = <<"priorityScoring", "write">>
    /\ \A h \in {"createReport"} : Roles!Permission(h) = <<"reportsDashboards", "create">>
    /\ \A h \in {"confirmReport"} : Roles!Permission(h) = <<"reportsDashboards", "write">>
    /\ \A h \in {"approveReport",
                 "rejectReport"} : Roles!Permission(h) = <<"reportsDashboards", "approve">>
    /\ \A h \in {"exportReport"} : Roles!Permission(h) = <<"reportsDashboards", "export">>
    /\ \A h \in {"requestStudy",
                 "requestReport"} : Roles!Permission(h) = <<"archiveSharingAudit", "create">>
    /\ \A h \in {"approveShare",
                 "approveReportShare"} : Roles!Permission(h) = <<"archiveSharingAudit", "approve">>
    /\ \A h \in {"inviteUser"} : Roles!Permission(h) = <<"entityTeam", "create">>
    /\ \A h \in {"generateReview",
                 "publishReview"} : Roles!Permission(h) = <<"ncnpReport", "write">>
    /\ \A h \in {"approveReview"} : Roles!Permission(h) = <<"ncnpReport", "approve">>
    /\ \A h \in {"login", "signup", "verifyRegistrationNumber", "forgotPassword", "resetPassword",
                 "listPublicDomains", "submitContact",
                 "listContactOrganizations"} : Roles!Permission(h) = Roles!Public
<1>1. \A h \in {"createStudy", "createLink"} : Roles!Permission(h) = <<"studySurvey", "create">>
  BY StepsAreRouted, PermissionOfSteps DEF Asks
<1>2. \A h \in {"createNeed", "uploadDocument"} : Roles!Permission(h) = <<"dataCollection", "create">>
  BY StepsAreRouted, PermissionOfSteps DEF Asks
<1>3. \A h \in {"classify"} : Roles!Permission(h) = <<"aiReview", "write">>
  BY StepsAreRouted, PermissionOfSteps DEF Asks
<1>4. \A h \in {"approveDecision"} : Roles!Permission(h) = <<"aiReview", "approve">>
  BY StepsAreRouted, PermissionOfSteps DEF Asks
<1>5. \A h \in {"createEmptySurvey",
          "submitForApproval"} : Roles!Permission(h) = <<"surveyBuilder", "write">>
  BY StepsAreRouted, PermissionOfSteps DEF Asks
<1>6. \A h \in {"approveSurvey"} : Roles!Permission(h) = <<"surveyBuilder", "approve">>
  BY StepsAreRouted, PermissionOfSteps DEF Asks
<1>7. \A h \in {"publishSurvey"} : Roles!Permission(h) = <<"surveyBuilder", "create">>
  BY StepsAreRouted, PermissionOfSteps DEF Asks
<1>8. \A h \in {"scorePriority", "generateDocumentSummary", "generateCombined",
          "assess"} : Roles!Permission(h) = <<"priorityScoring", "create">>
  BY StepsAreRouted, PermissionOfSteps DEF Asks
<1>9. \A h \in {"approvePriority",
          "confirmSummary"} : Roles!Permission(h) = <<"priorityScoring", "approve">>
  BY StepsAreRouted, PermissionOfSteps DEF Asks
<1>10. \A h \in {"confirmDocumentSummary",
          "confirmCombined"} : Roles!Permission(h) = <<"priorityScoring", "write">>
  BY StepsAreRouted, PermissionOfSteps DEF Asks
<1>11. \A h \in {"createReport"} : Roles!Permission(h) = <<"reportsDashboards", "create">>
  BY StepsAreRouted, PermissionOfSteps DEF Asks
<1>12. \A h \in {"confirmReport"} : Roles!Permission(h) = <<"reportsDashboards", "write">>
  BY StepsAreRouted, PermissionOfSteps DEF Asks
<1>13. \A h \in {"approveReport",
          "rejectReport"} : Roles!Permission(h) = <<"reportsDashboards", "approve">>
  BY StepsAreRouted, PermissionOfSteps DEF Asks
<1>14. \A h \in {"exportReport"} : Roles!Permission(h) = <<"reportsDashboards", "export">>
  BY StepsAreRouted, PermissionOfSteps DEF Asks
<1>15. \A h \in {"requestStudy",
          "requestReport"} : Roles!Permission(h) = <<"archiveSharingAudit", "create">>
  BY StepsAreRouted, PermissionOfSteps DEF Asks
<1>16. \A h \in {"approveShare",
          "approveReportShare"} : Roles!Permission(h) = <<"archiveSharingAudit", "approve">>
  BY StepsAreRouted, PermissionOfSteps DEF Asks
<1>17. \A h \in {"inviteUser"} : Roles!Permission(h) = <<"entityTeam", "create">>
  BY StepsAreRouted, PermissionOfSteps DEF Asks
<1>18. \A h \in {"generateReview", "publishReview"} : Roles!Permission(h) = <<"ncnpReport", "write">>
  BY StepsAreRouted, PermissionOfSteps DEF Asks
<1>19. \A h \in {"approveReview"} : Roles!Permission(h) = <<"ncnpReport", "approve">>
  BY StepsAreRouted, PermissionOfSteps DEF Asks
<1>20. \A h \in {"login", "signup", "verifyRegistrationNumber", "forgotPassword", "resetPassword",
          "listPublicDomains", "submitContact",
          "listContactOrganizations"} : Roles!Permission(h) = Roles!Public
  BY StepsAreRouted, PermissionOfSteps DEF Asks
<1>. QED BY <1>1, <1>2, <1>3, <1>4, <1>5, <1>6, <1>7, <1>8, <1>9, <1>10, <1>11, <1>12, <1>13, <1>14, <1>15, <1>16, <1>17, <1>18, <1>19, <1>20

-----------------------------------------------------------------------------
\* In an organisation, no role holds two rights that are to be held by two, and
\* whoever writes surveys may publish them or may approve them.
Divided(role) ==
    /\ ~(<<"reportsDashboards", "write">> \in role /\ <<"reportsDashboards", "approve">> \in role)
    /\ ~(<<"surveyBuilder", "create">> \in role /\ <<"surveyBuilder", "approve">> \in role)
    /\ <<"surveyBuilder", "write">> \in role =>
          <<"surveyBuilder", "create">> \in role \/ <<"surveyBuilder", "approve">> \in role

\* Of any role.
DividedAbove(role) == ~(<<"ncnpReport", "write">> \in role /\ <<"ncnpReport", "approve">> \in role)

\* The rows of the matrix, one by one: no role within an organisation holds
\* both rights of a step.
LEMMA AdminDivided == Divided(Roles!ngo_admin) /\ DividedAbove(Roles!ngo_admin)
  BY GrantOf, GrantsOf, ViewOf DEF Roles!ngo_admin, Roles!RWC, Roles!All, Divided, DividedAbove

\* The research officer.
LEMMA OfficerDivided == Divided(Roles!ngo_research_officer) /\ DividedAbove(Roles!ngo_research_officer)
  BY GrantOf, GrantsOf, ViewOf DEF Roles!ngo_research_officer, Roles!RWC, Roles!RW, Divided, DividedAbove

\* The field researcher.
LEMMA ResearcherDivided == Divided(Roles!field_researcher) /\ DividedAbove(Roles!field_researcher)
  BY GrantOf, GrantsOf, ViewOf DEF Roles!field_researcher, Roles!RWC, Divided, DividedAbove

\* The reviewer.
LEMMA ReviewerDivided == Divided(Roles!human_reviewer) /\ DividedAbove(Roles!human_reviewer)
  BY GrantOf, GrantsOf, ViewOf DEF Roles!human_reviewer, Divided, DividedAbove

\* The analyst.
LEMMA AnalystDivided == Divided(Roles!data_analyst) /\ DividedAbove(Roles!data_analyst)
  BY GrantOf, GrantsOf, ViewOf DEF Roles!data_analyst, Roles!RWC, Roles!RW, Divided, DividedAbove

\* The viewer.
LEMMA ViewerDivided == Divided(Roles!read_only_viewer) /\ DividedAbove(Roles!read_only_viewer)
  BY GrantOf, GrantsOf, ViewOf DEF Roles!read_only_viewer, Divided, DividedAbove

\* Those across organisations, who do not both prepare and release the kingdom-
\* wide report.
LEMMA OthersDivided ==
    /\ DividedAbove(Roles!system_admin) /\ DividedAbove(Roles!center_supervisor)
    /\ DividedAbove(Roles!system_reviewer)
  BY GrantOf, GrantsOf, ViewOf
     DEF Roles!system_admin, Roles!center_supervisor, Roles!system_reviewer, Roles!RWC, Roles!RW,
         Roles!All, DividedAbove

\* The roles within an organisation, and all that log in.
LEMMA RolesInMatrix ==
    /\ InOrganisation = {"ngo_admin", "ngo_research_officer", "field_researcher", "human_reviewer",
                         "data_analyst", "read_only_viewer"}
    /\ Roles!LoginRoles = InOrganisation \cup Roles!CrossEntity
  BY DEF InOrganisation, Roles!LoginRoles, Roles!CrossEntity, Roles!ROLE_MATRIX

\* So the whole matrix is divided.
LEMMA MatrixDivided ==
    /\ \A role \in InOrganisation : Divided(Roles!ROLE_MATRIX[role])
    /\ \A role \in Roles!LoginRoles : DividedAbove(Roles!ROLE_MATRIX[role])
<1>. USE AdminDivided, OfficerDivided, ResearcherDivided, ReviewerDivided, AnalystDivided, ViewerDivided, OthersDivided
<1>1. ASSUME NEW role \in InOrganisation
      PROVE  Divided(Roles!ROLE_MATRIX[role]) /\ DividedAbove(Roles!ROLE_MATRIX[role])
  BY <1>1, RolesInMatrix DEF Roles!ROLE_MATRIX
<1>2. ASSUME NEW role \in Roles!CrossEntity PROVE DividedAbove(Roles!ROLE_MATRIX[role])
  BY <1>2 DEF Roles!CrossEntity, Roles!ROLE_MATRIX
<1>. QED BY <1>1, <1>2, RolesInMatrix

\* Who can take a step.
LEMMA StaffOf ==
    \A handler, role : role \in Roles!Staff(handler) <=>
        role \in Roles!LoginRoles /\ Roles!Permission(handler) \in Roles!ROLE_MATRIX[role]
  BY DEF Roles!Staff, Roles!can, Roles!LoginRoles

\* Nobody concerned both prepares and releases.
LEMMA PreparedAndReleased ==
    ASSUME NEW steps \in Releases
    PROVE  Roles!Staff(steps[1]) \cap Roles!Staff(steps[2]) \cap steps[3] = {}
<1>. SUFFICES ASSUME NEW role \in steps[3], role \in Roles!Staff(steps[1]), role \in Roles!Staff(steps[2])
              PROVE  FALSE
  OBVIOUS
<1>. DEFINE R == Roles!ROLE_MATRIX[role]
<1>1. Roles!Permission(steps[1]) \in R /\ Roles!Permission(steps[2]) \in R
  BY StaffOf
<1>2. role \in InOrganisation => Divided(R)
  BY MatrixDivided
<1>3. role \in Roles!LoginRoles => DividedAbove(R)
  BY MatrixDivided
<1>. HIDE DEF R
<1>4. CASE steps \in {<<"confirmReport", "approveReport", InOrganisation>>, <<"confirmReport", "rejectReport", InOrganisation>>}
  BY <1>1, <1>2, <1>4, StepsAsk DEF Divided
<1>5. CASE steps = <<"publishSurvey", "approveSurvey", InOrganisation>>
  BY <1>1, <1>2, <1>5, StepsAsk DEF Divided
<1>6. CASE steps \in {<<"generateReview", "approveReview", Roles!LoginRoles>>, <<"publishReview", "approveReview", Roles!LoginRoles>>}
  BY <1>1, <1>3, <1>6, StepsAsk DEF DividedAbove
<1>. QED BY <1>4, <1>5, <1>6 DEF Releases

-----------------------------------------------------------------------------

\* Every right a step asks is held by somebody within an organisation.
LEMMA RightsInMatrix ==
    /\ \A p \in {<<"studySurvey", "create">>, <<"dataCollection", "create">>, <<"aiReview", "write">>,
                 <<"surveyBuilder", "write">>, <<"surveyBuilder", "create">>,
                 <<"archiveSharingAudit", "create">>, <<"archiveSharingAudit", "approve">>,
                 <<"entityTeam", "create">>} : p \in Roles!ngo_admin
    /\ \A p \in {<<"aiReview", "approve">>, <<"surveyBuilder", "approve">>,
                 <<"reportsDashboards", "approve">>} : p \in Roles!human_reviewer
    /\ \A p \in {<<"priorityScoring", "create">>, <<"priorityScoring", "write">>,
                 <<"priorityScoring", "approve">>, <<"reportsDashboards", "create">>,
                 <<"reportsDashboards", "write">>, <<"reportsDashboards", "export">>} :
          p \in Roles!data_analyst
<1>1. \A p \in {<<"studySurvey", "create">>, <<"dataCollection", "create">>, <<"aiReview", "write">>,
                <<"surveyBuilder", "write">>, <<"surveyBuilder", "create">>,
                <<"archiveSharingAudit", "create">>, <<"archiveSharingAudit", "approve">>,
                <<"entityTeam", "create">>} : p \in Roles!ngo_admin
  BY GrantOf, GrantsOf DEF Roles!ngo_admin, Roles!RWC, Roles!All
<1>2. \A p \in {<<"aiReview", "approve">>, <<"surveyBuilder", "approve">>,
                <<"reportsDashboards", "approve">>} : p \in Roles!human_reviewer
  BY GrantOf, GrantsOf DEF Roles!human_reviewer
<1>3. \A p \in {<<"priorityScoring", "create">>, <<"priorityScoring", "write">>,
                <<"priorityScoring", "approve">>, <<"reportsDashboards", "create">>,
                <<"reportsDashboards", "write">>, <<"reportsDashboards", "export">>} :
          p \in Roles!data_analyst
  BY GrantOf DEF Roles!data_analyst, Roles!RWC
<1>. QED BY <1>1, <1>2, <1>3

\* So every step can be taken by somebody there.
LEMMA StepsAreStaffed == \A handler \in Steps : Roles!Staff(handler) \ Roles!CrossEntity # {}
<1>. SUFFICES ASSUME NEW handler \in Steps
              PROVE  \E role \in InOrganisation : Roles!Permission(handler) \in Roles!ROLE_MATRIX[role]
  BY StaffOf DEF InOrganisation
<1>0. /\ {"ngo_admin", "human_reviewer", "data_analyst"} \subseteq InOrganisation
      /\ Roles!ROLE_MATRIX["ngo_admin"] = Roles!ngo_admin
      /\ Roles!ROLE_MATRIX["human_reviewer"] = Roles!human_reviewer
      /\ Roles!ROLE_MATRIX["data_analyst"] = Roles!data_analyst
  BY RolesInMatrix DEF Roles!ROLE_MATRIX
<1>1. CASE handler \in {"createStudy", "createLink", "createNeed", "uploadDocument", "classify",
                        "createEmptySurvey", "submitForApproval", "publishSurvey", "requestStudy",
                        "requestReport", "approveShare", "approveReportShare", "inviteUser"}
  <2>1. Roles!Permission(handler) \in Roles!ngo_admin
    BY <1>1, StepsAsk, RightsInMatrix
  <2>. QED BY <1>0, <2>1
<1>2. CASE handler \in {"approveDecision", "approveSurvey", "approveReport"}
  <2>1. Roles!Permission(handler) \in Roles!human_reviewer
    BY <1>2, StepsAsk, RightsInMatrix
  <2>. QED BY <1>0, <2>1
<1>3. CASE handler \in {"scorePriority", "generateDocumentSummary", "generateCombined", "assess",
                        "approvePriority", "confirmSummary", "confirmDocumentSummary",
                        "confirmCombined", "createReport", "confirmReport", "exportReport"}
  <2>1. Roles!Permission(handler) \in Roles!data_analyst
    BY <1>3, StepsAsk, RightsInMatrix
  <2>. QED BY <1>0, <2>1
<1>. QED BY <1>1, <1>2, <1>3 DEF Steps

\* An unsafe call of a session passes only with its token.
LEMMA SessionsBringTheirToken ==
    ASSUME NEW x, x.enforced = TRUE, x.safe = FALSE
    PROVE  SessionsCarryToken(x, Roles!Passes(x))
<1>. SUFFICES ASSUME Roles!Passes(x), x.by = "cookie", ~x.token
              PROVE  Roles!Permission(x.handler) = Roles!Public
  BY DEF SessionsCarryToken
<1>1. x.handler \in {"login", "signup", "verifyRegistrationNumber", "forgotPassword",
                     "resetPassword", "listPublicDomains", "submitContact",
                     "listContactOrganizations"}
  BY DEF Roles!Passes, Roles!csrfPasses
<1>. QED BY <1>1, StepsAsk

-----------------------------------------------------------------------------
(***************************************************************************)
(* The queues                                                              *)
(***************************************************************************)

\* Ranking loses nothing and adds nothing.
LEMMA RankedHolds ==
    ASSUME NEW S, IsFiniteSet(S), NEW before, Strict(before, S)
    PROVE  ToSet(Ranked(S, before)) = S
<1>. DEFINE r == Ranked(S, before)
<1>1. InOrder(r, S, before) /\ \A x \in S : \E i \in 1 .. Cardinality(S) : r[i] = x
  BY RankedInOrder
<1>. HIDE DEF r
<1>2. DOMAIN r = 1 .. Cardinality(S) /\ \A i \in DOMAIN r : r[i] \in S
  BY <1>1 DEF InOrder
<1>. QED BY <1>1, <1>2 DEF ToSet, r

\* The rows of the queues of the runs.
LEMMA QueueRows ==
    /\ \A s \in Queue.surveys \cup Queue.reports \cup Queue.documents : s.at \in Int
    /\ IsFiniteSet(Queue.surveys) /\ IsFiniteSet(Queue.reports) /\ IsFiniteSet(Queue.documents)
<1>1. \A s \in Queue.surveys \cup Queue.reports \cup Queue.documents : s.at \in Int
  BY DEF Queue
<1>2. ASSUME NEW a, NEW b, NEW c, NEW d PROVE IsFiniteSet({a, b, c}) /\ IsFiniteSet({a, b, c, d})
  <2>1. IsFiniteSet({a}) /\ IsFiniteSet({b}) /\ IsFiniteSet({c}) /\ IsFiniteSet({d})
    BY FS_Singleton
  <2>2. IsFiniteSet(({a} \cup {b}) \cup {c}) /\ IsFiniteSet((({a} \cup {b}) \cup {c}) \cup {d})
    BY <2>1, FS_Union
  <2>3. ({a} \cup {b}) \cup {c} = {a, b, c} /\ (({a} \cup {b}) \cup {c}) \cup {d} = {a, b, c, d}
    OBVIOUS
  <2>. QED BY <2>2, <2>3
<1>. QED BY <1>1, <1>2 DEF Queue

\* Who approves surveys is shown those that wait, of which one is overdue, and
\* whoever does not is shown what became of theirs.
LEMMA SurveyAlerts ==
    /\ \A a \in Boards!listSurveyApprovalAlerts(Queue.surveys, 100, 24) : a.kind = "survey_approval" /\ a.at \in Int
    /\ \E a \in Boards!listSurveyApprovalAlerts(Queue.surveys, 100, 24) : a.status = "breached"
    /\ \A me : \A a \in Boards!listOwnSurveyStatusAlerts(Queue.surveys, me) :
          a.kind \in {"survey_ready_to_publish", "survey_rejected"} /\ a.status = "pending" /\ a.at \in Int
<1>1. \A a \in Boards!listSurveyApprovalAlerts(Queue.surveys, 100, 24) : a.kind = "survey_approval" /\ a.at \in Int
  BY QueueRows DEF Boards!listSurveyApprovalAlerts, Boards!Alert
<1>2. \A me : \A a \in Boards!listOwnSurveyStatusAlerts(Queue.surveys, me) :
          a.kind \in {"survey_ready_to_publish", "survey_rejected"} /\ a.status = "pending" /\ a.at \in Int
  BY QueueRows DEF Boards!listOwnSurveyStatusAlerts, Boards!Alert
<1>. DEFINE s == [id |-> "s1", status |-> "SUBMITTED", creator |-> "u1", at |-> 10]
<1>3. s \in Queue.surveys /\ s.status = "SUBMITTED"
  BY DEF Queue
<1>4. Boards!statusFor(s.at + 24, 100, 24) = "breached"
  BY DEF Boards!statusFor
<1>5. Boards!Alert("survey_approval", s, "breached").status = "breached"
  BY DEF Boards!Alert
<1>. HIDE DEF s
<1>6. Boards!Alert("survey_approval", s, "breached") \in Boards!listSurveyApprovalAlerts(Queue.surveys, 100, 24)
  BY <1>3, <1>4 DEF Boards!listSurveyApprovalAlerts
<1>. QED BY <1>1, <1>2, <1>5, <1>6

\* Reports to approve are alerts of their own kind, and so are one's own
\* reports decided on.
LEMMA ReportAlerts ==
    /\ Boards!listReportApprovalAlerts(Queue.reports) # {}
    /\ \A a \in Boards!listReportApprovalAlerts(Queue.reports) :
          a.kind = "report_approval" /\ a.status = "pending" /\ a.at \in Int
    /\ \A me : \A a \in Boards!listOwnReportStatusAlerts(Queue.reports, me) :
          a.kind \in {"report_released", "report_rejected"} /\ a.status = "pending" /\ a.at \in Int
<1>1. Boards!listReportApprovalAlerts(Queue.reports) # {}
  <2>1. \E r \in Queue.reports : r.status = "submitted"
    BY DEF Queue
  <2>. QED BY <2>1 DEF Boards!listReportApprovalAlerts
<1>2. \A a \in Boards!listReportApprovalAlerts(Queue.reports) :
          a.kind = "report_approval" /\ a.status = "pending" /\ a.at \in Int
  BY QueueRows DEF Boards!listReportApprovalAlerts, Boards!Alert
<1>3. \A me : \A a \in Boards!listOwnReportStatusAlerts(Queue.reports, me) :
          a.kind \in {"report_released", "report_rejected"} /\ a.status = "pending" /\ a.at \in Int
  BY QueueRows DEF Boards!listOwnReportStatusAlerts, Boards!Alert
<1>. QED BY <1>1, <1>2, <1>3

\* Documents to summarise are alerts of their own kind.
LEMMA DocumentAlerts ==
    /\ Boards!listPendingEvidenceSummaryAlerts(Queue.documents) # {}
    /\ \A a \in Boards!listPendingEvidenceSummaryAlerts(Queue.documents) :
          a.kind = "evidence_document_uploaded" /\ a.status = "pending" /\ a.at \in Int
<1>1. Boards!listPendingEvidenceSummaryAlerts(Queue.documents) # {}
  <2>1. \E d \in Queue.documents : d.need # Boards!None /\ d.summaries = 0
    BY DEF Queue, Boards!None
  <2>. QED BY <2>1 DEF Boards!listPendingEvidenceSummaryAlerts
<1>2. \A a \in Boards!listPendingEvidenceSummaryAlerts(Queue.documents) :
          a.kind = "evidence_document_uploaded" /\ a.status = "pending" /\ a.at \in Int
  BY QueueRows DEF Boards!listPendingEvidenceSummaryAlerts, Boards!Alert
<1>. QED BY <1>1, <1>2

\* There are finitely many alerts, whoever asks.
LEMMA AlertsAreFinite ==
    ASSUME NEW role, NEW me
    PROVE  IsFiniteSet(Boards!AlertsOf(Queue, role, me, 100, 24))
<1>1. IsFiniteSet(Boards!listSurveyApprovalAlerts(Queue.surveys, 100, 24))
  <2>. DEFINE S == {x \in Queue.surveys : x.status = "SUBMITTED"}
              f == [x \in S |-> Boards!Alert("survey_approval", x, Boards!statusFor(x.at + 24, 100, 24))]
  <2>1. IsFiniteSet(S)
    BY QueueRows, FS_Subset
  <2>2. f \in Surjection(S, Boards!listSurveyApprovalAlerts(Queue.surveys, 100, 24))
    BY DEF Surjection, Boards!listSurveyApprovalAlerts
  <2>. QED BY <2>1, <2>2, FS_Surjection
<1>2. IsFiniteSet(Boards!listOwnSurveyStatusAlerts(Queue.surveys, me))
  <2>. DEFINE S == {x \in Queue.surveys : x.creator = me /\ x.status \in {"APPROVED", "REJECTED"}}
              f == [x \in S |-> Boards!Alert(IF x.status = "APPROVED" THEN "survey_ready_to_publish" ELSE "survey_rejected", x, "pending")]
  <2>1. IsFiniteSet(S)
    BY QueueRows, FS_Subset
  <2>2. f \in Surjection(S, Boards!listOwnSurveyStatusAlerts(Queue.surveys, me))
    BY DEF Surjection, Boards!listOwnSurveyStatusAlerts
  <2>. QED BY <2>1, <2>2, FS_Surjection
<1>3. IsFiniteSet(Boards!listReportApprovalAlerts(Queue.reports))
  <2>. DEFINE S == {x \in Queue.reports : x.status = "submitted"}
              f == [x \in S |-> Boards!Alert("report_approval", x, "pending")]
  <2>1. IsFiniteSet(S)
    BY QueueRows, FS_Subset
  <2>2. f \in Surjection(S, Boards!listReportApprovalAlerts(Queue.reports))
    BY DEF Surjection, Boards!listReportApprovalAlerts
  <2>. QED BY <2>1, <2>2, FS_Surjection
<1>4. IsFiniteSet(Boards!listOwnReportStatusAlerts(Queue.reports, me))
  <2>. DEFINE S == {x \in Queue.reports : x.generator = me /\ x.status \in {"released", "rejected"}}
              f == [x \in S |-> Boards!Alert(IF x.status = "released" THEN "report_released" ELSE "report_rejected", x, "pending")]
  <2>1. IsFiniteSet(S)
    BY QueueRows, FS_Subset
  <2>2. f \in Surjection(S, Boards!listOwnReportStatusAlerts(Queue.reports, me))
    BY DEF Surjection, Boards!listOwnReportStatusAlerts
  <2>. QED BY <2>1, <2>2, FS_Surjection
<1>5. IsFiniteSet(Boards!listPendingEvidenceSummaryAlerts(Queue.documents))
  <2>. DEFINE S == {x \in Queue.documents : x.need # Boards!None /\ x.summaries = 0}
              f == [x \in S |-> Boards!Alert("evidence_document_uploaded", x, "pending")]
  <2>1. IsFiniteSet(S)
    BY QueueRows, FS_Subset
  <2>2. f \in Surjection(S, Boards!listPendingEvidenceSummaryAlerts(Queue.documents))
    BY DEF Surjection, Boards!listPendingEvidenceSummaryAlerts
  <2>. QED BY <2>1, <2>2, FS_Surjection
<1>6. IsFiniteSet({})
  BY FS_EmptySet
<1>. QED BY <1>1, <1>2, <1>3, <1>4, <1>5, <1>6, FS_Union, ZenonT(60) DEF Boards!AlertsOf

\* What is shown of the work that waits is what the role may do about it.
LEMMA QueueOfRights ==
    ASSUME NEW role, NEW me
    PROVE  LET alerts == Boards!AlertsOf(Queue, role, me, 100, 24)
               Shown(kind) == \E a \in alerts : a.kind = kind
           IN  /\ Shown("survey_approval") <=> <<"surveyBuilder", "approve">> \in role
               /\ Shown("report_approval") <=> <<"reportsDashboards", "approve">> \in role
               /\ Shown("evidence_document_uploaded") <=> <<"priorityScoring", "create">> \in role
               /\ Shown("survey_ready_to_publish") => <<"surveyBuilder", "approve">> \notin role
               /\ (\E a \in alerts : a.status = "breached") <=> <<"surveyBuilder", "approve">> \in role
               /\ \A a \in alerts : a.at \in Int
<1>. DEFINE alerts == Boards!AlertsOf(Queue, role, me, 100, 24)
            waiting   == Boards!listSurveyApprovalAlerts(Queue.surveys, 100, 24)
            decided   == Boards!listOwnSurveyStatusAlerts(Queue.surveys, me)
            reports   == Boards!listReportApprovalAlerts(Queue.reports)
            own       == Boards!listOwnReportStatusAlerts(Queue.reports, me)
            documents == Boards!listPendingEvidenceSummaryAlerts(Queue.documents)
            approves  == <<"surveyBuilder", "approve">> \in role
            releases  == <<"reportsDashboards", "approve">> \in role
            writes    == <<"reportsDashboards", "write">> \in role
            scores    == <<"priorityScoring", "create">> \in role
<1>1. \A a : a \in alerts <=>
        \/ approves /\ a \in waiting
        \/ ~approves /\ a \in decided
        \/ releases /\ a \in reports
        \/ ~releases /\ writes /\ a \in own
        \/ scores /\ a \in documents
  BY DEF Boards!AlertsOf
<1>2. /\ \A a \in waiting : a.kind = "survey_approval" /\ a.at \in Int
      /\ \E a \in waiting : a.status = "breached"
      /\ \A a \in decided : a.kind \in {"survey_ready_to_publish", "survey_rejected"}
                              /\ a.status = "pending" /\ a.at \in Int
  BY SurveyAlerts
<1>3. /\ reports # {}
      /\ \A a \in reports : a.kind = "report_approval" /\ a.status = "pending" /\ a.at \in Int
      /\ \A a \in own : a.kind \in {"report_released", "report_rejected"} /\ a.status = "pending" /\ a.at \in Int
  BY ReportAlerts
<1>4. /\ documents # {}
      /\ \A a \in documents : a.kind = "evidence_document_uploaded" /\ a.status = "pending" /\ a.at \in Int
  BY DocumentAlerts
<1>. HIDE DEF alerts, waiting, decided, reports, own, documents, approves, releases, writes, scores
<1>5. (\E a \in alerts : a.kind = "survey_approval") <=> approves
  BY <1>1, <1>2, <1>3, <1>4
<1>6. (\E a \in alerts : a.kind = "report_approval") <=> releases
  BY <1>1, <1>2, <1>3, <1>4
<1>7. (\E a \in alerts : a.kind = "evidence_document_uploaded") <=> scores
  BY <1>1, <1>2, <1>3, <1>4
<1>8. (\E a \in alerts : a.kind = "survey_ready_to_publish") => ~approves
  BY <1>1, <1>2, <1>3, <1>4
<1>9. (\E a \in alerts : a.status = "breached") <=> approves
  BY <1>1, <1>2, <1>3, <1>4
<1>10. \A a \in alerts : a.at \in Int
  BY <1>1, <1>2, <1>3, <1>4
<1>. QED BY <1>5, <1>6, <1>7, <1>8, <1>9, <1>10 DEF alerts, approves, releases, scores

\* The list of alerts holds them all.
LEMMA AlertsListed ==
    ASSUME NEW role, NEW me
    PROVE  ToSet(Boards!listAlerts(Queue, role, me, 100, 24)) = Boards!AlertsOf(Queue, role, me, 100, 24)
<1>. DEFINE A == Boards!AlertsOf(Queue, role, me, 100, 24)
            newest == {p \in A \X A : p[1].at > p[2].at}
            oldest == {p \in A \X A : p[1].at < p[2].at}
<1>1. IsFiniteSet(A) /\ \A a \in A : a.at \in Int
  BY AlertsAreFinite, QueueOfRights
<1>2. Boards!listAlerts(Queue, role, me, 100, 24) \in {Boards!Oldest(A), Boards!Newest(A)}
  BY DEF Boards!listAlerts
<1>3. Boards!Newest(A) = Ranked(A, newest) /\ Boards!Oldest(A) = Ranked(A, oldest)
  BY DEF Boards!Newest, Boards!Oldest, Boards!Ranked, Ranked, Boards!Cardinality, Cardinality
<1>. HIDE DEF A
<1>4. Strict(newest, A) /\ Strict(oldest, A)
  BY <1>1 DEF Strict
<1>. HIDE DEF newest, oldest
<1>5. ToSet(Ranked(A, newest)) = A /\ ToSet(Ranked(A, oldest)) = A
  BY <1>1, <1>4, RankedHolds
<1>. QED BY <1>2, <1>3, <1>5 DEF A

\* The queues of the runs follow the rights of who asks.
LEMMA QueueOfInput ==
    ASSUME NEW x \in QueueInputs
    PROVE  QueuesFollowRights(x, QueueOf(x))
<1>. DEFINE role == Roles!ROLE_MATRIX[x.role]
            r == QueueOf(x)
            A == Boards!AlertsOf(Queue, role, x.me, 100, 24)
            late == {a \in A : a.status = "breached"}
<1>1. x.role \in InOrganisation /\ x.role \in Roles!LoginRoles /\ Divided(role)
  BY MatrixDivided, RolesInMatrix DEF QueueInputs
<1>2. ToSet(r) = A
  BY AlertsListed DEF QueueOf
<1>3. \A kind : (\E i \in DOMAIN r : r[i].kind = kind) <=> (\E a \in A : a.kind = kind)
  BY <1>2 DEF ToSet
<1>4. IsFiniteSet(A)
  BY AlertsAreFinite
<1>5. /\ (\E a \in A : a.kind = "survey_approval") <=> <<"surveyBuilder", "approve">> \in role
      /\ (\E a \in A : a.kind = "report_approval") <=> <<"reportsDashboards", "approve">> \in role
      /\ (\E a \in A : a.kind = "evidence_document_uploaded") <=> <<"priorityScoring", "create">> \in role
      /\ (\E a \in A : a.kind = "survey_ready_to_publish") => <<"surveyBuilder", "approve">> \notin role
      /\ (\E a \in A : a.status = "breached") <=> <<"surveyBuilder", "approve">> \in role
  BY QueueOfRights
<1>6. \A h : x.role \in Roles!Staff(h) <=> Roles!Permission(h) \in role
  BY <1>1, StaffOf
<1>. HIDE DEF A, r, role
<1>7. /\ x.role \in Roles!Staff("approveSurvey") <=> <<"surveyBuilder", "approve">> \in role
      /\ x.role \in Roles!Staff("approveReport") <=> <<"reportsDashboards", "approve">> \in role
      /\ x.role \in Roles!Staff("generateDocumentSummary") <=> <<"priorityScoring", "create">> \in role
      /\ x.role \in Roles!Staff("createEmptySurvey") <=> <<"surveyBuilder", "write">> \in role
      /\ x.role \in Roles!Staff("publishSurvey") <=> <<"surveyBuilder", "create">> \in role
  BY <1>6, StepsAsk
<1>8. Boards!slaComplianceFromAlerts(ToSet(r)).breached = Cardinality(late)
  BY <1>2 DEF Boards!slaComplianceFromAlerts, Boards!Cardinality, Cardinality
<1>9. IsFiniteSet(late) /\ Cardinality(late) \in Nat /\ (Cardinality(late) = 0 <=> late = {})
  BY <1>4, FS_Subset, FS_CardinalityType, FS_EmptySet
<1>10. (Cardinality(late) > 0) <=> \E a \in A : a.status = "breached"
  BY <1>9
<1>11. /\ (\E i \in DOMAIN r : r[i].kind = "survey_approval") <=> x.role \in Roles!Staff("approveSurvey")
       /\ (\E i \in DOMAIN r : r[i].kind = "report_approval") <=> x.role \in Roles!Staff("approveReport")
       /\ (\E i \in DOMAIN r : r[i].kind = "evidence_document_uploaded")
             <=> x.role \in Roles!Staff("generateDocumentSummary")
  BY <1>3, <1>5, <1>7
<1>12. (\E i \in DOMAIN r : r[i].kind = "survey_ready_to_publish") /\ x.role \in Roles!Staff("createEmptySurvey")
          => x.role \in Roles!Staff("publishSurvey")
  BY <1>1, <1>3, <1>5, <1>7 DEF Divided
<1>13. x.role \in Roles!Staff("approveSurvey") <=> Boards!slaComplianceFromAlerts(ToSet(r)).breached > 0
  BY <1>5, <1>7, <1>8, <1>10
<1>. QED BY <1>11, <1>12, <1>13 DEF QueuesFollowRights, r

\* Two prepare and release, every step can be taken, whoever can do it is shown
\* it, and no session acts without its token.  (ROLE_MATRIX, the routes,
\* ReviewerSlaService, CsrfGuard)
THEOREM RolesDivideTheWorkHolds == Spec => []RolesDivideTheWork
<1>1. ASSUME TablesInv PROVE RolesDivideTheWork
  <2>1. ReleaseTakesTwo
    <3>1. ASSUME Answered("release")
          PROVE  input.steps \in Releases /\ Result = Roles!Staff(input.steps[1]) \cap Roles!Staff(input.steps[2])
      BY <1>1, <3>1 DEF TablesInv, Tells, Answered, Result, AccessInputs
    <3>. QED BY <3>1, PreparedAndReleased DEF ReleaseTakesTwo
  <2>2. EveryStepStaffed
    <3>1. ASSUME Answered("step") PROVE input.handler \in Steps /\ Result = Roles!Staff(input.handler)
      BY <1>1, <3>1 DEF TablesInv, Tells, Answered, Result, AccessInputs
    <3>. QED BY <3>1, StepsAreStaffed DEF EveryStepStaffed
  <2>3. ASSUME Answered("queue") PROVE QueuesFollowRights(input, Result)
    <3>1. input \in QueueInputs /\ Result = QueueOf(input)
      BY <1>1, <2>3 DEF TablesInv, Tells, Answered, Result
    <3>. QED BY <3>1, QueueOfInput
  <2>4. ASSUME Answered("call") PROVE SessionsCarryToken(input, Result)
    <3>1. input \in CallInputs /\ Result = Roles!Passes(input)
      BY <1>1, <2>4 DEF TablesInv, Tells, Answered, Result
    <3>2. input.enforced = TRUE /\ input.safe = FALSE
      BY <3>1 DEF CallInputs
    <3>. QED BY <3>1, <3>2, SessionsBringTheirToken
  <2>. QED BY <2>1, <2>2, <2>3, <2>4 DEF RolesDivideTheWork
<1>. QED BY <1>1, TablesInvInit, TablesInvStep, PTL DEF Spec

-----------------------------------------------------------------------------
(***************************************************************************)
(* Reading step by step                                                    *)
(***************************************************************************)
\* What a fold over the places s of seq gives, where f is the step.
Moved(f, base, seq, g, s) == IF s = {} THEN base ELSE f[<<g[s \ {Max(s)}], seq[Max(s)]>>]

Moves(g, f, base, seq, n) == g = [s \in SUBSET (1..n) |-> Moved(f, base, seq, g, s)]

\* A sequence that is read step by step by steps within R leads through R.
LEMMA FoldRuns ==
    ASSUME NEW n \in Nat, NEW C, NEW seq \in [1..n -> C], NEW R, NEW base \in R, NEW f \in [R \X C -> R]
    PROVE  \E g \in [SUBSET (1..n) -> R] : Moves(g, f, base, seq, n)
<1>. DEFINE S == 1..n
            Small(m) == {s \in SUBSET S : Cardinality(s) <= m}
            Folds(m) == \E g \in [Small(m) -> R] : g = [s \in Small(m) |-> Moved(f, base, seq, g, s)]
            B == {m \in Nat : ~Folds(m)}
<1>0. /\ IsFiniteSet(S)
      /\ \A s \in SUBSET S : IsFiniteSet(s) /\ Cardinality(s) \in Nat /\ Cardinality(s) <= Cardinality(S)
  <2>1. IsFiniteSet(S)
    BY FS_Interval
  <2>. HIDE DEF S
  <2>. QED BY <2>1, FS_Subset, FS_CardinalityType
<1>9. \A s \in SUBSET S : s # {} => Max(s) \in s
  <2>1. ASSUME NEW s \in SUBSET S, s # {} PROVE Max(s) \in s
    <3>1. Scoring!Max(s) \in s
      BY <2>1, LargestOf
    <3>. QED BY <3>1 DEF Scoring!Max, Max
  <2>. QED BY <2>1
<1>10. \A s \in SUBSET S : \A g : s # {} /\ g[s \ {Max(s)}] \in R => Moved(f, base, seq, g, s) \in R
  <2>1. \A s \in SUBSET S : s # {} => seq[Max(s)] \in C
    BY <1>9
  <2>. QED BY <2>1 DEF Moved
<1>. HIDE DEF S
<1>1. Folds(0)
  <2>. DEFINE g == [s \in Small(0) |-> base]
  <2>1. \A s \in Small(0) : s = {}
    BY <1>0, FS_EmptySet
  <2>2. g = [s \in Small(0) |-> Moved(f, base, seq, g, s)]
    BY <2>1 DEF Moved
  <2>. QED BY <2>2
<1>2. ASSUME NEW m \in Nat, Folds(m) PROVE Folds(m + 1)
  <2>1. PICK h \in [Small(m) -> R] : h = [s \in Small(m) |-> Moved(f, base, seq, h, s)]
    BY <1>2
  <2>. DEFINE g == [s \in Small(m + 1) |-> Moved(f, base, seq, h, s)]
  <2>2. ASSUME NEW s \in Small(m) PROVE s \in Small(m + 1) /\ g[s] = h[s]
    BY <1>0, <2>1
  <2>3. ASSUME NEW s \in Small(m + 1), s # {}
        PROVE  s \ {Max(s)} \in Small(m)
    <3>1. Max(s) \in s
      BY <1>9, <2>3
    <3>2. Cardinality(s \ {Max(s)}) = Cardinality(s) - 1
      BY <1>0, <3>1, FS_RemoveElement
    <3>. QED BY <1>0, <3>2
  <2>4. ASSUME NEW s \in Small(m + 1) PROVE g[s] = Moved(f, base, seq, g, s) /\ g[s] \in R
    <3>1. CASE s = {}
      BY <3>1 DEF Moved
    <3>2. CASE s # {}
      <4>1. g[s \ {Max(s)}] = h[s \ {Max(s)}] /\ h[s \ {Max(s)}] \in R
        BY <2>1, <2>2, <2>3, <3>2
      <4>2. g[s] = Moved(f, base, seq, h, s)
        OBVIOUS
      <4>. HIDE DEF g
      <4>3. g[s] \in R
        BY <1>10, <3>2, <4>1, <4>2
      <4>. QED BY <3>2, <4>1, <4>2, <4>3 DEF Moved
    <3>. QED BY <3>1, <3>2
  <2>5. g \in [Small(m + 1) -> R] /\ g = [s \in Small(m + 1) |-> Moved(f, base, seq, g, s)]
    BY <2>4
  <2>. QED BY <2>5
<1>. HIDE DEF Folds
<1>3. ASSUME B # {} PROVE FALSE
  <2>1. PICK m \in B : \A j \in B : m <= j
    BY <1>3, LeastOf
  <2>2. m # 0
    BY <1>1, <2>1
  <2>3. m - 1 \in Nat /\ m - 1 \notin B
    BY <2>1, <2>2
  <2>4. Folds(m - 1)
    BY <2>3
  <2>5. Folds(m)
    BY <1>2, <2>3, <2>4
  <2>. QED BY <2>1, <2>5
<1>4. Cardinality(S) \in Nat /\ Small(Cardinality(S)) = SUBSET S
  BY <1>0, FS_CardinalityType
<1>5. Folds(Cardinality(S))
  BY <1>3, <1>4
<1>. QED BY <1>4, <1>5 DEF Folds, S, Moves

\* The last place of a prefix.
LEMMA LastPlace ==
    ASSUME NEW n \in Nat, NEW k \in 1..n
    PROVE  1..k \in SUBSET (1..n) /\ 1..k # {} /\ Max(1..k) = k /\ (1..k) \ {Max(1..k)} = 1..(k - 1)
<1>1. /\ 1..k \in SUBSET (1..n) /\ 1..k # {} /\ k \in 1..k /\ (\A i \in 1..k : i <= k)
      /\ (1..k) \ {k} = 1..(k - 1)
  OBVIOUS
<1>2. \A i \in 1..k : (\A l \in 1..k : i >= l) <=> i = k
  BY <1>1
<1>3. Max(1..k) = CHOOSE i \in 1..k : \A l \in 1..k : i >= l
  BY DEF Max
<1>. QED BY <1>1, <1>2, <1>3

-----------------------------------------------------------------------------
(***************************************************************************)
(* Exports                                                                 *)
(***************************************************************************)
\* One read of an export.
ReadOnce(export, table, batchSize, limit) ==
    LET take  == Exports!Min({batchSize, limit - Len(export.rows)})
        batch == Exports!Batch(export, table, take)
    IN  IF export.done \/ take = 0 THEN export
        ELSE [rows |-> export.rows \o batch, done |-> Len(batch) < take]

Unread == [rows |-> <<>>, done |-> FALSE]

\* Responses with different ids, so the newest first is an order.
Distinct(U) == /\ IsFiniteSet(U) /\ \A r \in U : r.at \in Int /\ r.id \in Int
               /\ \A r, s \in U : r.id = s.id => r = s

\* Responses with identifiers of their own are totally ordered, newest first.
LEMMA BeforeOrders ==
    ASSUME NEW U, Distinct(U)
    PROVE  /\ \A a, b, c \in U : Exports!Before(a, b) /\ Exports!Before(b, c) => Exports!Before(a, c)
           /\ \A a, b \in U : ~(Exports!Before(a, b) /\ Exports!Before(b, a))
           /\ \A a, b \in U : a # b => Exports!Before(a, b) \/ Exports!Before(b, a)
<1>1. \A r \in U : r.at \in Int /\ r.id \in Int
  BY DEF Distinct
<1>2. \A a, b, c \in U : Exports!Before(a, b) /\ Exports!Before(b, c) => Exports!Before(a, c)
  BY <1>1 DEF Exports!Before
<1>3. \A a, b \in U : ~(Exports!Before(a, b) /\ Exports!Before(b, a))
  BY <1>1 DEF Exports!Before
<1>4. \A a, b \in U : a # b => Exports!Before(a, b) \/ Exports!Before(b, a)
  BY <1>1 DEF Exports!Before, Distinct
<1>. QED BY <1>2, <1>3, <1>4

\* A batch is a sequence of what is left, newest first; and what is left and
\* not in a full batch comes after it.
LEMMA BatchOf ==
    ASSUME NEW U, Distinct(U), NEW table \in SUBSET U, NEW export, NEW take \in Nat
    PROVE  LET rest == {r \in table : export.rows = <<>> \/ Exports!Before(Exports!Last(export.rows), r)}
               b == Exports!Batch(export, table, take)
           IN  /\ b \in Seq(U) /\ Len(b) <= take
               /\ \A i \in 1..Len(b) : b[i] \in rest
               /\ \A i, j \in 1..Len(b) : i < j => Exports!Before(b[i], b[j])
               /\ \A r \in rest : \/ \E i \in 1..Len(b) : b[i] = r
                                  \/ Len(b) = take /\ \A i \in 1..Len(b) : Exports!Before(b[i], r)
<1>. DEFINE rest == {r \in table : export.rows = <<>> \/ Exports!Before(Exports!Last(export.rows), r)}
            b == Exports!Batch(export, table, take)
            before == {p \in rest \X rest : Exports!Before(p[1], p[2])}
            order == Ranked(rest, before)
            m == Cardinality(rest)
            l == Lesser(m, take)
<1>0. IsFiniteSet(rest) /\ rest \in SUBSET U /\ m \in Nat
  BY FS_Subset, FS_CardinalityType DEF Distinct
<1>1. b = Leading(order, take)
  BY DEF Exports!Batch, Exports!Leading, Leading, Exports!Ranked, Ranked, Exports!Cardinality, Cardinality
<1>. HIDE DEF b, rest
<1>2. \A x, y \in rest : <<x, y>> \in before <=> Exports!Before(x, y)
  OBVIOUS
<1>. HIDE DEF before
<1>3. Strict(before, rest)
  BY <1>0, <1>2, BeforeOrders DEF Strict
<1>4. InOrder(order, rest, before) /\ \A x \in rest : \E i \in 1..m : order[i] = x
  BY <1>0, <1>3, RankedInOrder
<1>. HIDE DEF order, m
<1>5. Sized(order, m, rest)
  BY <1>0, <1>4 DEF InOrder, Sized, m
<1>6. \A i, j \in 1..m : i < j => Exports!Before(order[i], order[j])
  <2>1. \A i, j \in 1..m : i < j => order[i] # order[j] /\ <<order[j], order[i]>> \notin before
    BY <1>4 DEF InOrder, m
  <2>2. \A i \in 1..m : order[i] \in rest
    BY <1>5 DEF Sized
  <2>. QED BY <1>0, <1>2, <2>1, <2>2, BeforeOrders
<1>7. Sized(b, l, rest) /\ \A i \in 1..l : i \in 1..m /\ b[i] = order[i]
  BY <1>1, <1>5, LeadingOf
<1>8. l \in Nat /\ l <= take /\ l <= m /\ (l = take \/ l = m)
  BY <1>0 DEF Lesser
<1>. HIDE DEF l
<1>9. b \in [1..l -> rest]
  BY <1>7 DEF Sized
<1>10. b \in Seq(U) /\ Len(b) = l
  <2>1. b \in [1..l -> U]
    BY <1>0, <1>9
  <2>. QED BY <1>8, <2>1, SeqDef, LenProperties
<1>11. ASSUME NEW r \in rest
       PROVE  \/ \E i \in 1..l : b[i] = r
              \/ l = take /\ \A i \in 1..l : Exports!Before(b[i], r)
  <2>1. PICK k \in 1..m : order[k] = r
    BY <1>4
  <2>2. CASE k <= l
    <3>1. k \in 1..l
      BY <1>0, <1>8, <2>2
    <3>. QED BY <1>7, <2>1, <3>1
  <2>3. CASE ~(k <= l)
    <3>1. l = take /\ \A i \in 1..l : i \in 1..m /\ i < k
      BY <1>0, <1>8, <2>3
    <3>. QED BY <1>6, <1>7, <2>1, <3>1
  <2>. QED BY <2>2, <2>3
<1>12. \A i, j \in 1..l : i < j => Exports!Before(b[i], b[j])
  BY <1>6, <1>7
<1>. QED BY <1>8, <1>9, <1>10, <1>11, <1>12 DEF b, rest

\* What an export may hold while it reads.
Exporting(U, limit) == {e \in [rows : Seq(U), done : BOOLEAN] : Len(e.rows) <= limit}

\* What a batch takes at most.
LEMMA TakeIs ==
    ASSUME NEW a \in Int, NEW b \in Int
    PROVE  Exports!Min({a, b}) = IF a < b THEN a ELSE b
<1>1. Exports!Min({a, b}) = CHOOSE x \in {a, b} : \A y \in {a, b} : x <= y
  BY DEF Exports!Min
<1>2. CASE a < b
  <2>1. \A x \in {a, b} : (\A y \in {a, b} : x <= y) <=> x = a
    BY <1>2
  <2>. QED BY <1>1, <1>2, <2>1
<1>3. CASE ~(a < b)
  <2>1. \A x \in {a, b} : (\A y \in {a, b} : x <= y) <=> x = b
    BY <1>3
  <2>. QED BY <1>1, <1>3, <2>1
<1>. QED BY <1>2, <1>3

\* A batch leaves an export an export.
LEMMA ReadStays ==
    ASSUME NEW U, Distinct(U), NEW limit \in Nat, NEW size \in Nat \ {0},
           NEW e \in Exporting(U, limit), NEW table \in SUBSET U
    PROVE  ReadOnce(e, table, size, limit) \in Exporting(U, limit)
<1>. DEFINE take == Exports!Min({size, limit - Len(e.rows)})
            b == Exports!Batch(e, table, take)
<1>1. e.rows \in Seq(U) /\ Len(e.rows) \in Nat /\ Len(e.rows) <= limit /\ e.done \in BOOLEAN
  BY DEF Exporting
<1>2. take = IF size < limit - Len(e.rows) THEN size ELSE limit - Len(e.rows)
  <2>. DEFINE left == limit - Len(e.rows)
  <2>1. left \in Int /\ size \in Int
    BY <1>1
  <2>. HIDE DEF left
  <2>2. Exports!Min({size, left}) = IF size < left THEN size ELSE left
    BY <2>1, TakeIs
  <2>. QED BY <2>2 DEF left
<1>3. take \in Nat /\ Len(e.rows) + take <= limit
  BY <1>1, <1>2
<1>. HIDE DEF take
<1>4. b \in Seq(U) /\ Len(b) <= take
  BY <1>3, BatchOf
<1>. HIDE DEF b
<1>5. e.rows \o b \in Seq(U) /\ Len(e.rows \o b) = Len(e.rows) + Len(b) /\ Len(b) \in Nat
  BY <1>1, <1>4, ConcatProperties
<1>6. [rows |-> e.rows \o b, done |-> Len(b) < take] \in Exporting(U, limit)
  BY <1>1, <1>3, <1>4, <1>5 DEF Exporting
<1>. QED BY <1>6 DEF ReadOnce, take, b

\* What an export holds after each read.
ExportRun(st, tables, n, size, limit) ==
    st[0] = Unread /\ \A k \in 1..n : st[k] = ReadOnce(st[k - 1], tables[k], size, limit)

\* An export passes through a state for each batch.
LEMMA ExportRuns ==
    ASSUME NEW U, Distinct(U), NEW n \in Nat, NEW tables \in [1..n -> SUBSET U],
           NEW size \in Nat \ {0}, NEW limit \in Nat
    PROVE  \E st : /\ ExportRun(st, tables, n, size, limit)
                   /\ Exports!iterateResponsesForExport(tables, size, limit) = st[n]
<1>. DEFINE R == Exporting(U, limit)
            f == [p \in R \X SUBSET U |-> ReadOnce(p[1], p[2], size, limit)]
            Op(g, s) == IF s = {} THEN Unread ELSE ReadOnce(g[s \ {Max(s)}], tables[Max(s)], size, limit)
            fold == CHOOSE g : g = [s \in SUBSET (1..n) |-> Op(g, s)]
            st == [k \in 0..n |-> fold[1..k]]
<1>1. Unread \in R
  BY DEF Unread, Exporting
<1>2. f \in [R \X SUBSET U -> R]
  BY ReadStays
<1>3. \A r \in R : \A t \in SUBSET U : f[<<r, t>>] = ReadOnce(r, t, size, limit)
  OBVIOUS
<1>. HIDE DEF R, f
<1>4. PICK g \in [SUBSET (1..n) -> R] : Moves(g, f, Unread, tables, n)
  <2>. DEFINE C == SUBSET U
  <2>1. tables \in [1..n -> C] /\ f \in [R \X C -> R]
    BY <1>2
  <2>. HIDE DEF C
  <2>. QED BY <1>1, <2>1, FoldRuns
<1>5. ASSUME NEW s \in SUBSET (1..n) PROVE Moved(f, Unread, tables, g, s) = Op(g, s)
  <2>1. CASE s = {}
    BY <2>1 DEF Moved
  <2>2. CASE s # {}
    <3>1. Max(s) \in 1..n
      <4>1. Scoring!Max(s) \in s
        BY <2>2, LargestOf
      <4>. QED BY <4>1 DEF Scoring!Max, Max
    <3>2. g[s \ {Max(s)}] \in R /\ tables[Max(s)] \in SUBSET U
      BY <3>1
    <3>. QED BY <1>3, <2>2, <3>2 DEF Moved
  <2>. QED BY <2>1, <2>2
<1>6. \E h : h = [s \in SUBSET (1..n) |-> Op(h, s)]
  <2>. HIDE DEF Op
  <2>. QED BY <1>4, <1>5 DEF Moves
<1>7. fold = [s \in SUBSET (1..n) |-> Op(fold, s)]
  <2>. HIDE DEF Op
  <2>. QED BY <1>6
<1>8. Exports!iterateResponsesForExport(tables, size, limit) = fold[DOMAIN tables]
  BY DEF Exports!iterateResponsesForExport, Exports!FoldLeft, Exports!MapThenFoldSet, Exports!Max, Max, ReadOnce, Unread
<1>. HIDE DEF fold
<1>9. \A s \in SUBSET (1..n) : fold[s] = Op(fold, s)
  <2>. HIDE DEF Op
  <2>. QED BY <1>7
<1>10. fold[1..0] = Unread
  <2>1. 1..0 = {} /\ {} \in SUBSET (1..n)
    OBVIOUS
  <2>. QED BY <1>9, <2>1
<1>11. ASSUME NEW k \in 1..n
       PROVE  fold[1..k] = ReadOnce(fold[1..(k - 1)], tables[k], size, limit)
  BY <1>9, LastPlace
<1>12. /\ st[0] = fold[1..0] /\ st[n] = fold[1..n]
       /\ \A k \in 1..n : st[k] = fold[1..k] /\ st[k - 1] = fold[1..(k - 1)]
  OBVIOUS
<1>. HIDE DEF st
<1>13. ExportRun(st, tables, n, size, limit)
  BY <1>10, <1>11, <1>12 DEF ExportRun
<1>14. Exports!iterateResponsesForExport(tables, size, limit) = st[n]
  BY <1>8, <1>12, SMTT(60)
<1>. QED BY <1>13, <1>14

\* Halfway through an export: the rows are newest first; whatever was stored
\* when it began is among them or comes after them; and it is done with, or has
\* a row for every read, or has every response there is.
Halfway(e, U, first, k) ==
    /\ e.rows \in Seq(U) /\ e.done \in BOOLEAN
    /\ \A i, j \in 1..Len(e.rows) : i < j => Exports!Before(e.rows[i], e.rows[j])
    /\ \A r \in first : \/ \E i \in 1..Len(e.rows) : e.rows[i] = r
                        \/ ~e.done /\ \A i \in 1..Len(e.rows) : Exports!Before(e.rows[i], r)
    /\ e.done \/ Len(e.rows) >= k \/ \A r \in U : \E i \in 1..Len(e.rows) : e.rows[i] = r

\* Rows in a strict order are different, so there are no more than responses.
LEMMA RowsAreDifferent ==
    ASSUME NEW U, Distinct(U), NEW rows \in Seq(U),
           \A i, j \in 1..Len(rows) : i < j => Exports!Before(rows[i], rows[j])
    PROVE  /\ Len(rows) <= Cardinality(U)
           /\ Len(rows) = Cardinality(U) => \A r \in U : \E i \in 1..Len(rows) : rows[i] = r
<1>. DEFINE n == Len(rows)
            T == {rows[i] : i \in 1..n}
<1>1. n \in Nat /\ rows \in [1..n -> U]
  BY LenProperties
<1>2. \A i, j \in 1..n : rows[i] = rows[j] => i = j
  <2>1. \A i \in 1..n : rows[i].at \in Int /\ rows[i].id \in Int
    BY <1>1 DEF Distinct
  <2>2. \A i \in 1..n : ~Exports!Before(rows[i], rows[i])
    BY <2>1 DEF Exports!Before
  <2>3. \A i, j \in 1..n : i < j \/ j < i \/ i = j
    BY <1>1
  <2>. QED BY <2>2, <2>3
<1>3. IsFiniteSet(1..n) /\ Cardinality(1..n) = n
  BY <1>1, FS_Interval
<1>. HIDE DEF n
<1>4. rows \in Bijection(1..n, T)
  <2>1. rows \in [1..n -> T]
    BY <1>1
  <2>2. rows \in Surjection(1..n, T)
    BY <2>1 DEF Surjection
  <2>3. rows \in Injection(1..n, T)
    BY <1>2, <2>1 DEF Injection, IsInjective
  <2>. QED BY <2>2, <2>3 DEF Bijection
<1>5. IsFiniteSet(T) /\ Cardinality(T) = n
  <2>1. ExistsBijection(1..n, T)
    BY <1>4 DEF ExistsBijection
  <2>. QED BY <1>3, <2>1, FS_Bijection
<1>6. T \in SUBSET U /\ IsFiniteSet(U)
  BY <1>1 DEF Distinct
<1>. HIDE DEF T
<1>7. Cardinality(T) <= Cardinality(U) /\ (Cardinality(T) = Cardinality(U) => T = U)
  BY <1>6, FS_Subset
<1>. QED BY <1>5, <1>7 DEF T, n

\* After a batch the export holds what goes before its last row, of what was
\* stored first at least.
LEMMA ReadGoesOn ==
    ASSUME NEW U, Distinct(U), NEW limit \in Nat, Cardinality(U) <= limit, NEW size \in Nat \ {0},
           NEW table \in SUBSET U, NEW first \in SUBSET table, NEW k \in Nat,
           NEW e \in Exporting(U, limit), Halfway(e, U, first, k)
    PROVE  Halfway(ReadOnce(e, table, size, limit), U, first, k + 1)
<1>. DEFINE a == e.rows
            take == Exports!Min({size, limit - Len(a)})
            b == Exports!Batch(e, table, take)
            m == Len(a)
            All(rows) == \A r \in U : \E i \in 1..Len(rows) : rows[i] = r
<1>1. /\ a \in Seq(U) /\ m \in Nat /\ m <= limit /\ e.done \in BOOLEAN
      /\ \A i, j \in 1..m : i < j => Exports!Before(a[i], a[j])
      /\ \A r \in first : \/ \E i \in 1..m : a[i] = r
                          \/ ~e.done /\ \A i \in 1..m : Exports!Before(a[i], r)
      /\ e.done \/ m >= k \/ All(a)
  BY DEF Halfway, Exporting
<1>2. take = IF size < limit - m THEN size ELSE limit - m
  <2>. DEFINE left == limit - m
  <2>1. left \in Int /\ size \in Int
    BY <1>1
  <2>. HIDE DEF left
  <2>2. Exports!Min({size, left}) = IF size < left THEN size ELSE left
    BY <2>1, TakeIs
  <2>. QED BY <2>2 DEF left
<1>3. take \in Nat
  BY <1>1, <1>2
<1>4. CASE e.done
  <2>1. ReadOnce(e, table, size, limit) = e
    BY <1>4 DEF ReadOnce
  <2>. QED BY <1>1, <1>4, <2>1 DEF Halfway
<1>5. CASE ~e.done /\ take = 0
  <2>1. ReadOnce(e, table, size, limit) = e
    BY <1>5 DEF ReadOnce
  <2>2. m <= Cardinality(U) /\ (m = Cardinality(U) => All(a))
    BY <1>1, RowsAreDifferent
  <2>3. m = limit /\ Cardinality(U) \in Nat
    BY <1>1, <1>2, <1>5, FS_CardinalityType DEF Distinct
  <2>4. All(a)
    BY <2>2, <2>3
  <2>. QED BY <1>1, <2>1, <2>4 DEF Halfway
<1>6. CASE ~e.done /\ take # 0
  <2>. DEFINE rest == {r \in table : a = <<>> \/ Exports!Before(Exports!Last(a), r)}
              l == Len(b)
              rows == a \o b
              next == [rows |-> rows, done |-> l < take]
  <2>1. ReadOnce(e, table, size, limit) = next
    BY <1>6 DEF ReadOnce
  <2>. HIDE DEF take
  <2>2. /\ b \in Seq(U) /\ l <= take
        /\ \A i \in 1..l : b[i] \in rest
        /\ \A i, j \in 1..l : i < j => Exports!Before(b[i], b[j])
        /\ \A r \in rest : \/ \E i \in 1..l : b[i] = r
                           \/ l = take /\ \A i \in 1..l : Exports!Before(b[i], r)
    BY <1>3, BatchOf
  <2>. HIDE DEF b
  <2>3. /\ l \in Nat /\ rows \in Seq(U) /\ Len(rows) = m + l
        /\ \A i \in 1..(m + l) : rows[i] = IF i <= m THEN a[i] ELSE b[i - m]
    BY <1>1, <2>2, ConcatProperties
  <2>4. ASSUME NEW i \in 1..m, NEW r \in rest PROVE Exports!Before(a[i], r)
    <3>1. Exports!Last(a) = a[m] /\ a # <<>> /\ m \in 1..m
      BY <1>1 DEF Exports!Last
    <3>2. Exports!Before(a[m], r) /\ r \in U
      BY <3>1
    <3>3. a[i] \in U /\ a[m] \in U
      BY <1>1, <3>1
    <3>4. i = m \/ i < m
      BY <1>1
    <3>5. i < m => Exports!Before(a[i], a[m])
      BY <1>1, <3>1
    <3>. QED BY <3>2, <3>3, <3>4, <3>5, BeforeOrders
  <2>5. ASSUME NEW r \in table, \A i \in 1..m : Exports!Before(a[i], r) PROVE r \in rest
    <3>1. a # <<>> => Exports!Last(a) = a[m] /\ m \in 1..m
      BY <1>1 DEF Exports!Last
    <3>. QED BY <2>5, <3>1
  <2>. HIDE DEF rest, m, l
  <2>6. \A i \in 1..(m + l) : (i <= m /\ i \in 1..m) \/ (~(i <= m) /\ i - m \in 1..l)
    BY <1>1, <2>3
  <2>7. /\ \A i \in 1..m : i \in 1..(m + l) /\ i <= m
        /\ \A i \in 1..l : i + m \in 1..(m + l) /\ ~(i + m <= m) /\ (i + m) - m = i
    BY <1>1, <2>3
  <2>. HIDE DEF a, rows
  <2>8. ASSUME NEW i \in 1..(m + l), NEW j \in 1..(m + l), i < j PROVE Exports!Before(rows[i], rows[j])
    <3>1. CASE i <= m /\ j <= m
      BY <1>1, <2>3, <2>6, <2>8, <3>1
    <3>2. CASE i <= m /\ ~(j <= m)
      BY <2>2, <2>3, <2>4, <2>6, <3>2
    <3>3. CASE ~(i <= m)
      <4>1. ~(j <= m) /\ i - m \in 1..l /\ j - m \in 1..l /\ i - m < j - m
        BY <1>1, <2>3, <2>6, <2>8, <3>3
      <4>. QED BY <2>2, <2>3, <3>3, <4>1
    <3>. QED BY <3>1, <3>2, <3>3
  <2>9. ASSUME NEW r \in first
        PROVE  \/ \E i \in 1..(m + l) : rows[i] = r
               \/ ~(l < take) /\ \A i \in 1..(m + l) : Exports!Before(rows[i], r)
    <3>1. CASE \E i \in 1..m : a[i] = r
      BY <2>3, <2>7, <3>1
    <3>2. CASE \A i \in 1..m : Exports!Before(a[i], r)
      <4>1. r \in rest
        BY <2>5, <3>2
      <4>2. CASE \E i \in 1..l : b[i] = r
        <5>1. PICK i \in 1..l : b[i] = r
          BY <4>2
        <5>2. rows[i + m] = r
          BY <2>3, <2>7, <5>1
        <5>. QED BY <2>7, <5>2
      <4>3. CASE l = take /\ \A i \in 1..l : Exports!Before(b[i], r)
        BY <1>3, <2>3, <2>6, <3>2, <4>3
      <4>. QED BY <2>2, <4>1, <4>2, <4>3
    <3>. QED BY <1>1, <3>1, <3>2
  <2>10. l < take \/ m + l >= k + 1 \/ \A r \in U : \E i \in 1..(m + l) : rows[i] = r
    <3>1. CASE m >= k
      BY <1>1, <1>3, <1>6, <2>3, <3>1
    <3>2. CASE All(a)
      BY <2>3, <2>7, <3>2 DEF m
    <3>. QED BY <1>1, <1>6, <3>1, <3>2
  <2>12. next.rows = rows /\ next.done = (l < take)
    OBVIOUS
  <2>. HIDE DEF next
  <2>13. next.done \in BOOLEAN /\ (next.done <=> l < take)
    <3>1. CASE l < take
      <4>1. (l < take) = TRUE
        BY <3>1
      <4>2. next.done = TRUE
        BY <2>12, <4>1, Zenon
      <4>. QED BY <3>1, <4>2
    <3>2. CASE ~(l < take)
      <4>1. (l < take) = FALSE
        BY <3>2
      <4>2. next.done = FALSE
        BY <2>12, <4>1, Zenon
      <4>. QED BY <3>2, <4>2
    <3>. QED BY <3>1, <3>2
  <2>11. Halfway(next, U, first, k + 1)
    BY <2>12, <2>13, <2>3, <2>8, <2>9, <2>10 DEF Halfway
  <2>. QED BY <2>1, <2>11
<1>. QED BY <1>1, <1>4, <1>5, <1>6

\* Whatever is submitted while an export reads, it has every response that was
\* stored when it began, and none twice: when the limit is none of the
\* responses' and it may read once more than there are.
\* (iterateResponsesForExport)
THEOREM ExportsHoldAll ==
    ASSUME NEW U, Distinct(U), NEW n \in Nat, n > Cardinality(U), NEW tables \in [1..n -> SUBSET U],
           \A k \in 1..n : tables[1] \subseteq tables[k],
           NEW size \in Nat \ {0}, NEW limit \in Nat, Cardinality(U) <= limit
    PROVE  LET rows == Exports!iterateResponsesForExport(tables, size, limit).rows
           IN  /\ rows \in Seq(U) /\ \A r \in tables[1] : \E i \in 1..Len(rows) : rows[i] = r
               /\ \A i, j \in 1..Len(rows) : i < j => Exports!Before(rows[i], rows[j])
<1>1. PICK st : /\ ExportRun(st, tables, n, size, limit)
                /\ Exports!iterateResponsesForExport(tables, size, limit) = st[n]
  BY ExportRuns
<1>. DEFINE Good(k) == st[k] \in Exporting(U, limit) /\ Halfway(st[k], U, tables[1], k)
            B == {k \in 0..n : ~Good(k)}
<1>2. Cardinality(U) \in Nat /\ n # 0 /\ 1 \in 1..n
  BY FS_CardinalityType DEF Distinct
<1>3. Good(0)
  <2>1. st[0] = Unread
    BY <1>1 DEF ExportRun
  <2>2. Unread.rows = <<>> /\ Unread.done = FALSE /\ Unread \in Exporting(U, limit)
    BY DEF Unread, Exporting
  <2>3. Halfway(Unread, U, tables[1], 0)
    <3>1. Unread.rows \in Seq(U) /\ Len(Unread.rows) = 0 /\ 1..Len(Unread.rows) = {} /\ Len(Unread.rows) >= 0
      BY <2>2
    <3>2. Unread.done \in BOOLEAN /\ ~Unread.done
      BY <2>2
    <3>. HIDE DEF Unread
    <3>. QED BY <3>1, <3>2 DEF Halfway
  <2>. QED BY <2>1, <2>2, <2>3
<1>4. ASSUME NEW k \in 1..n, Good(k - 1) PROVE Good(k)
  <2>. DEFINE j == k - 1
              first == tables[1]
              table == tables[k]
  <2>1. st[k] = ReadOnce(st[j], table, size, limit)
    BY <1>1 DEF ExportRun
  <2>2. j \in Nat /\ j + 1 = k /\ table \in SUBSET U /\ first \in SUBSET table
    BY <1>2
  <2>3. st[j] \in Exporting(U, limit) /\ Halfway(st[j], U, first, j)
    BY <1>4
  <2>. HIDE DEF j, first, table
  <2>4. ReadOnce(st[j], table, size, limit) \in Exporting(U, limit)
    BY <2>2, <2>3, ReadStays
  <2>5. Halfway(ReadOnce(st[j], table, size, limit), U, first, j + 1)
    BY <2>2, <2>3, ReadGoesOn
  <2>. QED BY <2>1, <2>2, <2>4, <2>5 DEF first
<1>. HIDE DEF Good
<1>5. ASSUME B # {} PROVE FALSE
  <2>1. B \in SUBSET Nat
    OBVIOUS
  <2>2. PICK k \in B : \A j \in B : k <= j
    BY <1>5, <2>1, LeastOf
  <2>3. k \in 0..n /\ ~Good(k) /\ k # 0
    BY <1>3, <2>2
  <2>4. k \in 1..n /\ k - 1 \in 0..n /\ ~(k <= k - 1)
    BY <2>3
  <2>5. Good(k - 1)
    BY <2>2, <2>4
  <2>. QED BY <1>4, <2>3, <2>4, <2>5
<1>6. Good(n)
  BY <1>5
<1>. DEFINE rows == st[n].rows
            m == Len(rows)
<1>7. /\ rows \in Seq(U) /\ m \in Nat
      /\ \A i, j \in 1..m : i < j => Exports!Before(rows[i], rows[j])
      /\ \A r \in tables[1] : \/ \E i \in 1..m : rows[i] = r
                              \/ ~st[n].done /\ \A i \in 1..m : Exports!Before(rows[i], r)
      /\ st[n].done \/ m >= n \/ \A r \in U : \E i \in 1..m : rows[i] = r
  BY <1>6 DEF Good, Halfway
<1>8. m <= Cardinality(U)
  BY <1>7, RowsAreDifferent
<1>9. tables[1] \in SUBSET U
  BY <1>2
<1>. HIDE DEF rows, m
<1>10. ~(m >= n)
  BY <1>2, <1>7, <1>8
<1>11. \A r \in tables[1] : \E i \in 1..m : rows[i] = r
  BY <1>7, <1>9, <1>10
<1>. QED BY <1>1, <1>7, <1>11 DEF rows, m

\* What is stored while the four responses are submitted.
LEMMA StoredGrows ==
    ASSUME NEW x \in PagingInputs
    PROVE  LET U == {[id |-> i, at |-> x.at[i]] : i \in 1..4}
           IN  /\ Distinct(U) /\ Cardinality(U) <= 4
               /\ Stored(x) \in [1..5 -> SUBSET U]
               /\ \A k \in 1..5 : Stored(x)[1] \subseteq Stored(x)[k]
<1>. DEFINE U == {[id |-> i, at |-> x.at[i]] : i \in 1..4}
<1>1. x.at \in [1..4 -> 1..2] /\ x.read \in [1..4 -> 1..3]
  BY DEF PagingInputs
<1>2. (\A r \in U : r.at \in Int /\ r.id \in Int) /\ \A r, s \in U : r.id = s.id => r = s
  BY <1>1
<1>3. IsFiniteSet(U) /\ Cardinality(U) <= 4
  <2>. DEFINE f == [i \in 1..4 |-> [id |-> i, at |-> x.at[i]]]
  <2>1. f \in Surjection(1..4, U)
    BY DEF Surjection
  <2>2. IsFiniteSet(1..4) /\ Cardinality(1..4) = 4
    <3>. DEFINE a == 1
                b == 4
    <3>1. a \in Int /\ b \in Int /\ a <= b /\ b - a + 1 = 4
      OBVIOUS
    <3>. HIDE DEF a, b
    <3>2. IsFiniteSet(a..b) /\ Cardinality(a..b) = b - a + 1
      BY <3>1, FS_Interval
    <3>. QED BY <3>1, <3>2 DEF a, b
  <2>. HIDE DEF U, f
  <2>. QED BY <2>1, <2>2, FS_Surjection
<1>4. Stored(x) \in [1..5 -> SUBSET U]
  BY <1>1 DEF Stored
<1>5. ASSUME NEW k \in 1..5 PROVE Stored(x)[1] \subseteq Stored(x)[k]
  <2>1. \A i \in 1..4 : x.read[i] <= 1 => x.read[i] <= k
    BY <1>1
  <2>2. 1 \in 1..5 /\ \A j \in 1..5 : Stored(x)[j] = {[id |-> i, at |-> x.at[i]] : i \in {l \in 1..4 : x.read[l] <= j}}
    BY DEF Stored
  <2>. QED BY <2>1, <2>2
<1>. QED BY <1>2, <1>3, <1>4, <1>5 DEF Distinct

\* So the exports of the runs are complete.
LEMMA ExportsAreComplete == ASSUME TablesInv PROVE ExportsComplete
<1>. SUFFICES ASSUME Answered("paging")
              PROVE  /\ Stored(input)[1] \subseteq ToSet(Result)
                     /\ \A i, j \in DOMAIN Result : i < j => Exports!Before(Result[i], Result[j])
  BY DEF ExportsComplete
<1>1. input \in PagingInputs /\ Result = Exports!iterateResponsesForExport(Stored(input), input.batch, 50).rows
  BY DEF TablesInv, Tells, Answered, Result
<1>. DEFINE U == {[id |-> i, at |-> input.at[i]] : i \in 1..4}
            tables == Stored(input)
            size == input.batch
            n == 5
            limit == 50
            rows == Exports!iterateResponsesForExport(tables, size, limit).rows
<1>2. /\ Distinct(U) /\ Cardinality(U) <= 4
      /\ tables \in [1..n -> SUBSET U]
      /\ \A k \in 1..n : tables[1] \subseteq tables[k]
  BY <1>1, StoredGrows
<1>3. Cardinality(U) \in Nat /\ n \in Nat /\ limit \in Nat /\ size \in Nat \ {0}
  BY <1>1, <1>2, FS_CardinalityType DEF Distinct, PagingInputs
<1>4. n > Cardinality(U) /\ Cardinality(U) <= limit
  BY <1>2, <1>3
<1>5. Result = rows
  BY <1>1
<1>. HIDE DEF U, tables, size, n, limit
<1>6. /\ rows \in Seq(U) /\ \A r \in tables[1] : \E i \in 1..Len(rows) : rows[i] = r
      /\ \A i, j \in 1..Len(rows) : i < j => Exports!Before(rows[i], rows[j])
  BY <1>2, <1>3, <1>4, ExportsHoldAll
<1>. HIDE DEF rows
<1>7. DOMAIN rows = 1..Len(rows)
  BY <1>6
<1>. QED BY <1>5, <1>6, <1>7 DEF ToSet, tables

=============================================================================
