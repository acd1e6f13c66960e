--------------------------- MODULE ReportContent ---------------------------
(***************************************************************************)
(* What the reports of one survey say: the snapshot of its rollups         *)
(* (ReportSummaryService.buildReportDataSnapshot), the mapping of the      *)
(* snapshot to report sections (snapshot-to-content.ts), the sections of   *)
(* the individual report (build-unified-rpt01.ts) and the report over      *)
(* documents and scores (ReportsService.generateContent).                  *)
(*                                                                         *)
(* A question is [id, kpi, indicator, subDomain, domain]; the bank is the  *)
(* sequence of them the database answers.  A rollup is that of NeedsIndex. *)
(***************************************************************************)
EXTENDS NeedsIndex, Sequences, SequencesExt, Ranking

Unmapped == [domain |-> "UNMAPPED", subDomain |-> "UNMAPPED", indicator |-> "UNMAPPED"]

-----------------------------------------------------------------------------
(***************************************************************************)
(* Bands and reasons.  Severity is worse when it is larger, priority when  *)
(* it is smaller; what was not measured has no band.                       *)
(***************************************************************************)
severityBandOf(x) ==
    CASE x = Null -> "none" [] x >= 70 -> "CRITICAL" [] x \in 50..69 -> "HIGH"
      [] x \in 30..49 -> "MEDIUM" [] OTHER -> "LOW"

priorityStatusOf(x) ==
    CASE x = Null -> "none" [] x # Null /\ x <= 40 -> "HIGH" [] x \in 41..70 -> "MEDIUM" [] OTHER -> "LOW"

dontKnowBandOf(p) ==
    CASE p < 5 -> "negligible" [] p \in 5..14 -> "moderate" [] p \in 15..25 -> "elevated" [] OTHER -> "high"

\* composeConfidenceReason: the conditions it names; none is "complete".
Reasons(r, required) ==
    {c \in {"smallSample", "belowTarget", "dontKnow"} :
        CASE c = "smallSample" -> r.valid < 10
          [] c = "belowTarget" -> r.valid >= 10 /\ required # Null /\ r.valid < required
          [] c = "dontKnow"    -> r.dontKnow > 20}

validResponseRatePct(valid, submitted) ==
    IF submitted = 0 THEN 100 ELSE (200 * valid + submitted) \div (2 * submitted)

-----------------------------------------------------------------------------
(***************************************************************************)
(* The snapshot: the rollups of one scope and methodology version.         *)
(***************************************************************************)
Levels(questions, rows) ==
    LET own   == [id \in {s.question : s \in rows} |->
                     QuestionRollup({s \in rows : s.question = id})]
        kpis  == Kpis(questions, own)
        inds  == Indicators(questions, kpis)
        subs  == SubDomains(questions, inds)
    IN  [kpi |-> kpis, indicator |-> inds, subDomain |-> subs, domain |-> Domains(questions, subs)]

\* The most severe first, at most so many, those without a severity last.
topKpis(kpis, most) ==
    LET names == DOMAIN kpis
    IN  Leading(Ranked(names, {p \in names \X names : kpis[p[1]].severity > kpis[p[2]].severity}), most)

-----------------------------------------------------------------------------
(***************************************************************************)
(* Need records: one for every KPI rollup.                                 *)
(***************************************************************************)
\* The first question of the bank with the KPI says where it belongs.
Classified(bank, kpi) == {i \in DOMAIN bank : bank[i].kpi = kpi}
ClassOf(bank, kpi) ==
    IF Classified(bank, kpi) = {} THEN Unmapped
    ELSE LET q == bank[CHOOSE i \in Classified(bank, kpi) :
                          \A j \in Classified(bank, kpi) : i <= j]
         IN  [domain |-> q.domain, subDomain |-> q.subDomain, indicator |-> q.indicator]

\* segments: a function of a dimension to the groups [severity, n] measured in
\* it.  A dimension with a group that is too small is not compared.
Comparable(groups, minimum) ==
    Cardinality(groups) >= 2 /\ \A g \in groups : g.n >= minimum

Spread(groups) ==
    Max({g.severity : g \in groups}) - Min({g.severity : g \in groups})

\* The flag is the rollup's, which knows the required sample; the reason does not.
Record(bank, k, r, required) ==
    [kpi |-> k, at |-> ClassOf(bank, k), severity |-> r.severity, valid |-> r.valid,
     low |-> Confidence(r, required) = "LOW", reasons |-> Reasons(r, Null)]

\* Faulty: a KPI without a question in the bank is left out.
RecordsOfMapped(bank, kpis, required) ==
    {Record(bank, k, kpis[k], required) : k \in {j \in DOMAIN kpis : Classified(bank, j) # {}}}

NeedRecords(bank, kpis, required) == {Record(bank, k, kpis[k], required) : k \in DOMAIN kpis}

Measured(records) == {n \in records : n.severity # Null}

-----------------------------------------------------------------------------
(***************************************************************************)
(* Sections.  Domains with a priority component are listed with it, else   *)
(* all that have a rollup; the tree adds the domains of the records.       *)
(***************************************************************************)
mapDomains(domains, configs) ==
    LET weighted == {c.domain : c \in Components(configs, domains)}
        listed   == IF weighted # {} THEN weighted ELSE DOMAIN domains
    IN  [d \in listed |-> domains[d].severity]

DomainsOf(records) == {n.at.domain : n \in records}
SubsOf(records, d) == {n.at.subDomain : n \in {m \in records : m.at.domain = d}}

\* A domain that is not listed gets the mean of its sub-domains.
buildNeedHierarchy(records, listed, subs) ==
    [d \in DOMAIN listed \cup DomainsOf(records) |->
        [severity |->
            IF d \in DOMAIN listed THEN listed[d]
            ELSE LET of == {s \in SubsOf(records, d) :
                               s \in DOMAIN subs /\ subs[s].severity # Null}
                 IN  IF of = {} THEN Null ELSE Mean(of, LAMBDA s : subs[s].severity),
         needs |-> {n \in records : n.at.domain = d}]]

\* Faulty: what was not measured ranks as 0.
RankedAsZero(records, weight) ==
    LET Worth(n) == (IF n.severity = Null THEN 0 ELSE n.severity) * weight[n.at.domain]
    IN  Ranked(records, {p \in records \X records : Worth(p[1]) > Worth(p[2])})

\* weight: 1 for a domain without a configuration.
rankPriorityNeeds(records, weight) ==
    LET Worth(n) == n.severity * weight[n.at.domain]
        MoreUrgent(n, m) ==
            \/ Worth(n) > Worth(m)
            \/ Worth(n) = Worth(m) /\ n.severity > m.severity
            \/ Worth(n) = Worth(m) /\ n.severity = m.severity /\ n.valid > m.valid
    IN  Ranked(Measured(records),
               {p \in Measured(records) \X Measured(records) : MoreUrgent(p[1], p[2])})

WeightOf(configs) ==
    [d \in {c.domain : c \in configs} |-> (CHOOSE c \in configs : c.domain = d).weight]

\* Whole-number weights: without a configuration the factor is one unit.
Weights(records, configs) ==
    [d \in DomainsOf(records) |-> IF d \in DOMAIN WeightOf(configs) THEN WeightOf(configs)[d] ELSE 1]

AllDomains(bank) == {bank[i].domain : i \in DOMAIN bank}

composeExecutiveSummary(bank, records, ranked) ==
    [total |-> Cardinality(records), measured |-> Cardinality(Measured(records)),
     assessed |-> AllDomains(bank) \cap DomainsOf(records), distribution |-> AllDomains(bank),
     top |-> SubSeq(ranked, 1, IF Len(ranked) < 3 THEN Len(ranked) ELSE 3)]

\* The tiles above the sections are counted from the stored rollups of the
\* scope, whatever methodology version they are of.
buildCoverageBlock(levels, otherDomains) ==
    [domainsScored |-> Cardinality(DOMAIN levels.domain) + Cardinality(otherDomains),
     kpisScored |-> Cardinality({k \in DOMAIN levels.kpi : levels.kpi[k].severity # Null})]

buildUnifiedRpt01(bank, levels, configs, required) ==
    LET records == NeedRecords(bank, levels.kpi, required)
        tree    == buildNeedHierarchy(records, mapDomains(levels.domain, configs), levels.subDomain)
        ranked  == rankPriorityNeeds(records, Weights(records, configs))
    IN  [records |-> records, tree |-> tree, ranked |-> ranked,
         summary |-> composeExecutiveSummary(bank, records, ranked),
         notAssessed |-> AllDomains(bank) \ DOMAIN tree,
         notMeasured |-> records \ Measured(records)]

\* assertRpt01SelfConsistent: a report that fails it is not created.
SelfConsistent(coverage, c) ==
    /\ coverage.domainsScored = Cardinality(DOMAIN c.tree \ {"UNMAPPED"})
    /\ coverage.kpisScored = Cardinality(Measured(c.records))
    /\ UNION {c.tree[d].needs : d \in DOMAIN c.tree} = c.records

-----------------------------------------------------------------------------
(***************************************************************************)
(* The reports over a study's documents and scores, and over all studies.  *)
(***************************************************************************)
\* Recommendations of both narratives, each text once, in the order met.
Recommendations(combined, score) ==
    FoldLeft(LAMBDA kept, r : IF Contains(kept, r) THEN kept ELSE Append(kept, r),
             <<>>, combined \o score)

\* RPT02: the share of each band among the scored needs.
BandOf(level) == CASE level \in {"critical", "high"} -> "High" [] level = "medium" -> "Medium"
                   [] OTHER -> "Low"

scoringDistribution(levels) ==
    [b \in {"High", "Medium", "Low"} |-> Cardinality({n \in DOMAIN levels : BandOf(levels[n]) = b})]

=============================================================================
