----------------------------- MODULE NeedsIndex -----------------------------
(***************************************************************************)
(* How question scores become the development needs index of a village     *)
(* (ScoreRollupService.calculateRollups) and its priority                  *)
(* (computeVillagePriority, PriorityService).                              *)
(*                                                                         *)
(* Numbers are integers where the code keeps floating point, so a mean is  *)
(* rounded down.  A rollup is [severity, valid, dontKnow]: severity is     *)
(* Null when nothing was scored, dontKnow the percentage of don't-knows.   *)
(***************************************************************************)
EXTENDS Integers, FiniteSets, FiniteSetsExt

Null == -1

SumOver(S, f(_)) == MapThenSumSet(f, S)
Mean(S, f(_))    == SumOver(S, f) \div Cardinality(S)
Rounded(S, f(_)) == (2 * SumOver(S, f) + Cardinality(S)) \div (2 * Cardinality(S))

\* Two sources of doubt: too few answers, too many don't-knows.
isLowConfidence(valid, dontKnow, required) ==
    valid < 10 \/ (required # Null /\ valid < required) \/ dontKnow > 20

Confidence(r, required) ==
    IF isLowConfidence(r.valid, r.dontKnow, required) THEN "LOW" ELSE "STANDARD"

\* The score rows of one question, a set of [id, status, severity, reason].
QuestionRollup(rows) ==
    LET items == {s \in rows : s.status = "SCORED" /\ s.severity # Null}
        doubt == {s \in rows : s.reason = "DONT_KNOW"}
        told  == Cardinality(items) + Cardinality(doubt)
    IN  [severity |-> IF items = {} THEN Null ELSE Mean(items, LAMBDA s : s.severity),
         valid    |-> Cardinality(items),
         dontKnow |-> IF told = 0 THEN 0 ELSE (100 * Cardinality(doubt)) \div told]

\* Faulty: what has no severity counts as 0 in the mean above it.
LevelRollupOfAll(below) ==
    [name \in DOMAIN below |->
        LET children == below[name]
            Worth(c) == IF children[c].severity = Null THEN 0 ELSE children[c].severity
        IN  [severity |-> Mean(DOMAIN children, LAMBDA c : Worth(c)),
             valid    |-> Rounded(DOMAIN children, LAMBDA c : children[c].valid),
             dontKnow |-> Mean(DOMAIN children, LAMBDA c : children[c].dontKnow)]]

\* A level is the mean of the level below, where that has a severity.
LevelRollup(below) ==
    [name \in DOMAIN below |->
        LET children == below[name]
            scored   == {c \in DOMAIN children : children[c].severity # Null}
        IN  [severity |-> IF scored = {} THEN Null
                          ELSE Mean(scored, LAMBDA c : children[c].severity),
             valid    |-> Rounded(DOMAIN children, LAMBDA c : children[c].valid),
             dontKnow |-> Mean(DOMAIN children, LAMBDA c : children[c].dontKnow)]]

\* The children of every name of a level that have a rollup of their own.
\* Names are what counts: a KPI that two indicators share is in both, whole.
Grouped(questions, parent, child, rollups) ==
    LET Names(p) == {q[child] : q \in {r \in questions : r[parent] = p}}
        Found(p) == Names(p) \cap DOMAIN rollups
    IN  [p \in {q[parent] : q \in {r \in questions : Found(r[parent]) # {}}} |->
            [c \in Found(p) |-> rollups[c]]]

Up(questions, parent, child, rollups) ==
    LevelRollup(Grouped(questions, parent, child, rollups))

Kpis(questions, byQuestion)     == Up(questions, "kpi", "id", byQuestion)
Indicators(questions, kpis)     == Up(questions, "indicator", "kpi", kpis)
SubDomains(questions, inds)     == Up(questions, "subDomain", "indicator", inds)
Domains(questions, subs)        == Up(questions, "domain", "subDomain", subs)
Overall(domains)                == LevelRollup([all \in {"OVERALL"} |-> domains])["OVERALL"]

\* calculateRollups: rows is the set of score rows of the scope.
DomainRollups(questions, rows) ==
    LET Of(q) == {s \in rows : s.question = q.id}
        asked == {q \in questions : Of(q) # {}}
        own   == [id \in {q.id : q \in asked} |->
                     QuestionRollup({s \in rows : s.question = id})]
    IN  Domains(questions, SubDomains(questions, Indicators(questions, Kpis(questions, own))))

-----------------------------------------------------------------------------
\* The weighted mean of the performances (100 - severity) of the domains that
\* have a score; a critical domain below its threshold makes it HIGH at once.
\* configs is a set of [domain, weight, critical, threshold].
Performance(domains, d) == 100 - domains[d].severity

Components(configs, domains) ==
    {c \in configs : c.domain \in DOMAIN domains /\ domains[c.domain].severity # Null}

Overridden(configs, domains) ==
    \E c \in Components(configs, domains) :
        c.critical /\ Performance(domains, c.domain) < c.threshold

PriorityScore(configs, domains) ==
    LET weights == SumOver(Components(configs, domains), LAMBDA c : c.weight)
        sum     == SumOver(Components(configs, domains),
                           LAMBDA c : c.weight * Performance(domains, c.domain))
    IN  IF weights = 0 THEN 0 ELSE sum \div weights

computeVillagePriority(configs, domains) ==
    IF Overridden(configs, domains) \/ PriorityScore(configs, domains) <= 40 THEN "HIGH"
    ELSE IF PriorityScore(configs, domains) <= 70 THEN "MEDIUM"
    ELSE "LOW"

\* Nothing is stored for a scope without a configured domain that has a score.
Assessed(configs, domains) == Components(configs, domains) # {}

-----------------------------------------------------------------------------
\* The level of a need from its overall severity, against the thresholds of
\* the organisation [critical, high, equityHigh, medium].
mapPriorityLevel(severity, equity, t) ==
    IF severity >= t.critical THEN "critical"
    ELSE IF severity >= t.high \/ (severity >= t.equityHigh /\ equity) THEN "high"
    ELSE IF severity >= t.medium THEN "medium"
    ELSE "low"

DefaultThresholds == [critical |-> 80, high |-> 70, equityHigh |-> 50, medium |-> 40]

\* Thresholds the organisation has not set are the default ones.
loadThresholds(own) ==
    [k \in DOMAIN DefaultThresholds |-> IF k \in DOMAIN own THEN own[k]
                                                            ELSE DefaultThresholds[k]]

\* Three tenths of the quality results are of low confidence.
determineEquityFlag(low, total) == total # 0 /\ 10 * low >= 3 * total

\* PriorityService.score: no rollup counts as severity 0.
NeedLevel(overall, low, total, own) ==
    mapPriorityLevel(IF overall = Null THEN 0 ELSE overall,
                     determineEquityFlag(low, total), loadThresholds(own))

-----------------------------------------------------------------------------
(***************************************************************************)
(* What the dashboards read                                                *)
(***************************************************************************)
\* The tier of a row; an override stands out as critical.
ShownLevel(configs, domains) ==
    CASE Overridden(configs, domains) -> "critical"
      [] ~Overridden(configs, domains) ->
           [HIGH |-> "high", MEDIUM |-> "medium", LOW |-> "low"][computeVillagePriority(configs, domains)]

=============================================================================
