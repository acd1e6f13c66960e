--------------------------- MODULE ReportPatterns ---------------------------
(***************************************************************************)
(* The parts of a report that compare: groups of respondents, indicators   *)
(* with one another, a survey with its organisation, and the narrative     *)
(* with the figures (compose-pattern-analysis.ts, derive-equity-flag.ts,   *)
(* survey-report-derivations.ts, compose-data-quality-notes.ts,            *)
(* report-summary-data.provider.ts).  Records are those of ReportContent.  *)
(***************************************************************************)
EXTENDS ReportContent

(***************************************************************************)
(* Equity: a dimension is a set of groups [label, severity, n].            *)
(***************************************************************************)
Measurable(segments) ==
    [d \in DOMAIN segments |-> {g \in segments[d] : g.severity # Null}]

Evaluable(segments, minimum) ==
    {d \in DOMAIN segments : Comparable(Measurable(segments)[d], minimum)}

Rejected(segments, minimum) ==
    {d \in DOMAIN segments : Cardinality(Measurable(segments)[d]) >= 2} \ Evaluable(segments, minimum)

\* The widest of the comparable dimensions, and who fares worst in it.
WidestDimension(segments, minimum) ==
    CHOOSE d \in Evaluable(segments, minimum) :
        \A e \in Evaluable(segments, minimum) :
            Spread(Measurable(segments)[e]) <= Spread(Measurable(segments)[d])

MostDisadvantaged(groups) ==
    (CHOOSE g \in groups : \A h \in groups : h.severity <= g.severity).label

\* Below the minimum the groups are shown all the same, but never one person's.
observedComparison(groups) == {g \in groups : g.n >= 2}

ObservedComparisons(segments, minimum) ==
    [d \in {e \in Rejected(segments, minimum) :
              Cardinality(observedComparison(Measurable(segments)[e])) >= 2} |->
        observedComparison(Measurable(segments)[d])]

\* What is too thin to assert on is shown only where nothing can be asserted.
deriveEquityFlag(segments, minimum, threshold) ==
    LET groups == Measurable(segments)[WidestDimension(segments, minimum)]
    IN  IF Evaluable(segments, minimum) = {}
        THEN [flag |-> FALSE, dimension |-> "none", worst |-> "none",
              observed |-> ObservedComparisons(segments, minimum)]
        ELSE [flag |-> Spread(groups) >= threshold, worst |-> MostDisadvantaged(groups),
              dimension |-> WidestDimension(segments, minimum), observed |-> <<>>]

\* No indicator has a hint: the bank stores none.
deriveGapType(severity, equity, prior, t) ==
    IF severity = Null THEN "none"
    ELSE IF equity THEN "inequality"
    ELSE IF severity >= t.acute THEN "acute"
    ELSE IF severity >= t.chronic /\ prior # Null /\ prior >= t.chronic THEN "chronic"
    ELSE "structural"

-----------------------------------------------------------------------------
(***************************************************************************)
(* Observations on the need records.                                       *)
(***************************************************************************)
ScopeOf(records) ==
    CASE Cardinality(DomainsOf(records)) >= 2 -> "cross_domain"
      [] Cardinality(DomainsOf(records)) < 2 /\ Cardinality({n.at.subDomain : n \in records}) >= 2
           -> "cross_sub_domain"
      [] OTHER -> "within_sub_domain"

Observation(kind, records, strength) ==
    [kind |-> kind, scope |-> ScopeOf(records), needs |-> records, strength |-> strength]

\* Two or more indicators in a band.
BandClusters(records, below) ==
    LET In(b) == {n \in Measured(records) : severityBandOf(n.severity) = b} IN
      {Observation("band", In(b), IF ~below /\ ScopeOf(In(b)) = "cross_domain" /\ Cardinality(In(b)) >= 3
                                    THEN "moderate" ELSE "weak") :
          b \in {c \in {"CRITICAL", "HIGH", "MEDIUM", "LOW"} : Cardinality(In(c)) >= 2}}

SeverityRange(records) ==
    LET found == {n.severity : n \in Measured(records)} IN
      {Observation("range", Measured(records), "weak") :
          x \in {y \in {"spread"} : Cardinality(found) >= 2}}

Unmeasured(records) ==
    {Observation("gap", records \ Measured(records), "weak") :
        x \in {y \in {"gap"} : Measured(records) # records}}

\* One that says "low confidence" of some of the measured, never of all.  Two
\* sub-domains of one domain are called one.
LowConfidence(records) ==
    LET low == {n \in Measured(records) : n.low}
        scope == IF ScopeOf(low) = "cross_domain" THEN "cross_domain" ELSE "within_sub_domain"
    IN  {[Observation("confidence", low, "weak") EXCEPT !.scope = scope] :
            x \in {y \in {"low"} : low # {} /\ low # Measured(records)}}

deriveObservations(records, below) ==
    BandClusters(records, below) \cup SeverityRange(records)
      \cup Unmeasured(records) \cup LowConfidence(records)

composePatternAnalysis(records, valid, assessed, notAssessed, t) ==
    LET below == valid < t.minResponses \/ assessed < t.minDomains
    IN  [status |-> IF below THEN "provisional" ELSE "reported",
         patterns |-> deriveObservations(records, below), gaps |-> notAssessed]

-----------------------------------------------------------------------------
(***************************************************************************)
(* Notes and narrative.                                                    *)
(***************************************************************************)
deriveTrendNote(cycle, current, prior) ==
    CASE cycle <= 1 -> "baseline"
      [] cycle > 1 /\ (prior = Null \/ current = Null) -> "no prior"
      [] cycle > 1 /\ prior # Null /\ current # Null ->
           IF current = prior THEN "unchanged" ELSE IF current < prior THEN "improved" ELSE "worsened"

composeDataQualityNotes(submitted, valid, dontKnow, records, notAssessed) ==
    [validPct |-> validResponseRatePct(valid, submitted), band |-> dontKnowBandOf(dontKnow),
     notMeasured |-> records \ Measured(records), domainsNotAssessed |-> notAssessed]

\* aiOutputToSummaryBlock: what the model left out is blank.
NarrativeOf(ai) ==
    [part \in {"executiveSummary", "keyFindings", "dataQualityNote", "trendNote"} |->
        IF part \in DOMAIN ai THEN ai[part] ELSE ""]

\* The notes stand on their own and are blanked inside the narrative; one the
\* model did not write says so, or is the one that follows from the cycle.
promoteNotes(ai, trendFallback) ==
    [aiSummary |-> [ai EXCEPT !.dataQualityNote = "", !.trendNote = ""],
     dataQualityNote |-> IF ai.dataQualityNote # "" THEN ai.dataQualityNote ELSE "unavailable",
     trendNote |-> IF ai.trendNote # "" THEN ai.trendNote ELSE trendFallback]

-----------------------------------------------------------------------------
(***************************************************************************)
(* The organisation: its dashboard, and a survey held against it.  An      *)
(* entry is [need, level, severity]; a band is that of its level.          *)
(***************************************************************************)
LevelRank(level) ==
    CASE level = "critical" -> 0 [] level = "high" -> 1 [] level = "medium" -> 2 [] OTHER -> 3

topPriorities(entries) ==
    LET MoreUrgent(e, f) ==
            \/ LevelRank(e.level) < LevelRank(f.level)
            \/ LevelRank(e.level) = LevelRank(f.level) /\ e.severity > f.severity
    IN  Leading(Ranked(entries, {p \in entries \X entries : MoreUrgent(p[1], p[2])}), 5)

getCollectiveDashboard(needs, entries, quality) ==
    [needCount |-> Cardinality(needs),
     scoringDistribution |-> scoringDistribution([e \in entries |-> e.level]),
     topPriorities |-> topPriorities(entries),
     anomalies |-> {a \in {b \in {"low", "duplicate"} : needs # {}} :
                       IF a = "low" THEN \E q \in quality : q.confidence = "low"
                                    ELSE \E q \in quality : q.duplicate}]

\* Recommendations of the collective report follow its figures.
buildCollectiveNarrative(dashboard, slaPct) ==
    {r \in {"leading domain", "field-validate", "clear the queue"} :
        /\ dashboard.needCount # 0
        /\ CASE r = "leading domain" -> dashboard.topPriorities # <<>>
             [] r = "field-validate" -> "low" \in dashboard.anomalies
             [] r = "clear the queue" -> slaPct # Null /\ slaPct < 100}

Midpoint == [High |-> 80, Medium |-> 50, Low |-> 20]

\* A difference of three points or less is none.
Compared(own, organisation) ==
    [delta |-> own - organisation,
     direction |-> CASE own - organisation \in -3 .. 3 -> "inline"
                     [] own - organisation > 3 -> "above" [] OTHER -> "below"]

\* The priority score of the survey, where low is urgent, against the middles
\* of the bands of the organisation's needs, where high is.
PriorityRow(score, distribution) ==
    LET counted == MapThenSumSet(LAMBDA b : distribution[b], DOMAIN distribution)
        total   == MapThenSumSet(LAMBDA b : Midpoint[b] * distribution[b], DOMAIN distribution)
    IN  IF counted = 0 \/ score = Null \/ score <= 0 THEN {}
        ELSE {Compared(score, total \div counted)}

IndexRow(index, top) ==
    LET worth == FoldLeft(LAMBDA sum, e : sum + e.severity, 0, top)
    IN  IF index = Null \/ top = <<>> THEN {} ELSE {Compared(index, worth \div Len(top))}

buildComparisonBand(index, score, valid, submitted, dashboard) ==
    [index |-> IndexRow(index, dashboard.topPriorities),
     valid |-> IF submitted = 0 THEN {} ELSE {Compared(validResponseRatePct(valid, submitted), 100)},
     priority |-> PriorityRow(score, dashboard.scoringDistribution)]

buildPortfolioBlock(rows, responses, own) ==
    [byStatus |-> [s \in {r.status : r \in rows} |-> Cardinality({r \in rows : r.status = s})],
     share |-> IF responses = 0 THEN 0 ELSE (200 * own + responses) \div (2 * responses)]

aggregateDemographics(responses, column) ==
    LET known == {r \in responses : r[column] # "none"}
    IN  [v \in {r[column] : r \in known} |-> Cardinality({r \in known : r[column] = v})]

=============================================================================
