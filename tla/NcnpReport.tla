----------------------------- MODULE NcnpReport -----------------------------
(***************************************************************************)
(* The figures of the kingdom-wide report (NcnpReportService.getReport),   *)
(* which joins in memory what some fifty separate queries answer.          *)
(*                                                                         *)
(* Rows are records with an id: an organisation is [id, active, region,    *)
(* touched], a study [id, org, status, at], a survey [id, org, need,       *)
(* status, at], a response [id, org, region, gender, age, at], a need      *)
(* [id, org, domain, subDomain], a link from a need to a place             *)
(* [need, place].  None stands for a null column; times are numbers.       *)
(***************************************************************************)
EXTENDS Integers, FiniteSets, FiniteSetsExt, Sequences, SequencesExt, Ranking

None == "none"
Consolidated == ""     \* the village of the row that is of a whole survey

Tally(S, key(_)) ==
    LET keys == {key(x) : x \in S}
    IN  [k \in keys |-> Cardinality({x \in S : key(x) = k})]

Total(counts) == MapThenSumSet(LAMBDA k : counts[k], DOMAIN counts)
CountOf(counts, k) == IF k \in DOMAIN counts THEN counts[k] ELSE 0

\* The keys of a count, the largest first, at most so many of them.
Foremost(counts, most) ==
    LET keys == DOMAIN counts
    IN  Leading(Ranked(keys, {p \in keys \X keys : counts[p[1]] > counts[p[2]]}), most)

-----------------------------------------------------------------------------
(***************************************************************************)
(* Organisations, studies and links.                                       *)
(***************************************************************************)
periodStat(rows, start, days) ==
    LET In(from, to) == Cardinality({r \in rows : from <= r.at /\ r.at < to}) IN
      [current |-> Cardinality({r \in rows : r.at >= start}),
       previous |-> In(start - days, start)]

\* The latest trace of an organisation: its own row, a study, survey or response.
mergeLastActivity(orgs, studies, surveys, responses) ==
    [o \in {x.id : x \in orgs} |->
        Max({x.touched : x \in {y \in orgs : y.id = o}}
              \cup {x.at : x \in {y \in studies \cup surveys \cup responses : y.org = o}})]

buildOrgHealth(orgs, lastActivity, cutoff) ==
    LET dormant == {o \in orgs : o.active /\ lastActivity[o.id] < cutoff}
    IN  [active |-> Cardinality({o \in orgs : o.active}),
         inactive |-> Cardinality({o \in orgs : ~o.active}),
         dormant |-> Cardinality(dormant),
         needsAttention |->
             Leading(Ranked(dormant, {p \in dormant \X dormant :
                                         lastActivity[p[1].id] < lastActivity[p[2].id]}), 10)]

buildOrgSummary(orgs, studies, surveys, responses) ==
    LET Row(o) == [studies |-> CountOf(Tally(studies, LAMBDA s : s.org), o),
                   surveys |-> CountOf(Tally(surveys, LAMBDA s : s.org), o),
                   responses |-> CountOf(Tally(responses, LAMBDA r : r.org), o)]
        rows == [o \in {x.id : x \in orgs} |-> Row(o)]
        By(column) == Foremost([o \in DOMAIN rows |-> rows[o][column]], 5)
    IN  [byStudies |-> By("studies"), bySurveys |-> By("surveys"),
         byResponses |-> By("responses"), totalOrganizations |-> Cardinality(orgs)]

\* Whatever is not archived counts as active.
buildStudyStatus(studies) ==
    [archived |-> Cardinality({s \in studies : s.status = "archived"}),
     active   |-> Cardinality({s \in studies : s.status # "archived"})]

buildPublicLinkStatus(links) ==
    [open |-> Cardinality({l \in links : l.active}), closed |-> Cardinality({l \in links : ~l.active})]

\* Study.createdAt and SurveyResponse.submittedAt, by month.
Trend(rows, start) == Tally({r \in rows : r.at >= start}, LAMBDA r : r.at \div 30)

\* An organisation without studies is in no row.
buildStudyOverview(orgs, studies, trendStart) ==
    [topOrgsByStudyCount |-> Foremost(Tally(studies, LAMBDA s : s.org), 5),
     totalOrganizations |-> Cardinality(orgs),
     studiesCreatedTrend |-> Trend(studies, trendStart)]

-----------------------------------------------------------------------------
(***************************************************************************)
(* Domains.  All active ones are listed; a name no domain has any more     *)
(* appears only among the pairs of domain and sub-domain.                  *)
(***************************************************************************)
buildDomainBreakdown(domains, needDomains) ==
    [d \in {x.name : x \in {y \in domains : y.active}} |->
        CountOf(Tally(needDomains, LAMBDA n : n.domain), d)]

buildSubDomainBreakdown(needDomains) == Tally(needDomains, LAMBDA n : <<n.domain, n.subDomain>>)

-----------------------------------------------------------------------------
(***************************************************************************)
(* Places.  An organisation without a region is in no figure by region.    *)
(***************************************************************************)
RegionOf(orgs, o) ==
    LET own == {x.region : x \in {y \in orgs : y.id = o}}
    IN  IF own = {} THEN None ELSE CHOOSE r \in own : TRUE

ByRegion(orgs, rows) ==
    Tally({r \in rows : RegionOf(orgs, r.org) # None}, LAMBDA r : RegionOf(orgs, r.org))

buildGeography(orgs, orgPlaces, studies) ==
    [organizationsByRegion |-> Tally({o \in orgs : o.region # None}, LAMBDA o : o.region),
     organizationsByPlace |-> Tally(orgPlaces, LAMBDA l : l.place),
     studiesByRegion |-> ByRegion(orgs, studies)]

\* A survey counts in every place its own need selected.
buildSurveyGeography(orgs, surveys, needPlaces) ==
    LET own == {p \in surveys \X {l.place : l \in needPlaces} :
                   [need |-> p[1].need, place |-> p[2]] \in needPlaces}
    IN  [byRegion |-> ByRegion(orgs, surveys), byPlace |-> Tally(own, LAMBDA p : p[2])]

buildNeedsGeography(orgs, needs, needPlaces) ==
    [byRegion |-> ByRegion(orgs, needs), byPlace |-> Tally(needPlaces, LAMBDA l : l.place)]

\* Surveys are in the region of their organisation, responses in their own.
buildRegionSummary(surveysByRegion, responses) ==
    [r \in DOMAIN surveysByRegion |->
        [surveyCount |-> surveysByRegion[r],
         responseCount |-> CountOf(Tally(responses, LAMBDA x : x.region), r)]]

buildDomainRegionIntersections(orgs, needDomains) ==
    LET pairs == Tally({n \in needDomains : RegionOf(orgs, n.org) # None},
                       LAMBDA n : <<RegionOf(orgs, n.org), n.domain>>)
    IN  [order |-> Foremost(pairs, 15), count |-> pairs]

-----------------------------------------------------------------------------
(***************************************************************************)
(* Surveys and responses.                                                  *)
(***************************************************************************)
\* An approved or a superseded survey is in none of the four.
toSurveyStatus(surveys) ==
    [t \in {"DRAFT", "SUBMITTED", "PUBLISHED", "REJECTED"} |->
        Cardinality({s \in surveys : s.status = t})]

buildSurveyAnalytics(orgs, surveys, responses, rejections) ==
    LET live == Cardinality({s \in surveys : s.status = "PUBLISHED"}) IN
      [platform |-> toSurveyStatus(surveys),
       byRegion |-> [r \in DOMAIN ByRegion(orgs, surveys) |->
                        [count |-> ByRegion(orgs, surveys)[r],
                         status |-> toSurveyStatus({s \in surveys : RegionOf(orgs, s.org) = r})]],
       average |-> IF live = 0 THEN 0 ELSE Cardinality(responses) \div live,
       reasons |-> Tally(rejections, LAMBDA e : e.reason)]

buildResponseAnalytics(surveys, responses) ==
    LET Known(column) == Tally({r \in responses : r[column] # None}, LAMBDA r : r[column])
        live    == Tally({s \in surveys : s.status = "PUBLISHED"}, LAMBDA s : s.org)
        counts  == Tally(responses, LAMBDA r : r.org)
        average == [o \in DOMAIN counts \cap DOMAIN live |-> counts[o] \div live[o]]
    IN  [responsesByRegion |-> Known("region"), gender |-> Known("gender"), age |-> Known("age"),
         hasResponsesWithoutAgeBracket |-> \E r \in responses : r.age = None,
         topOrgsByTotal |-> Foremost(counts, 5), topOrgsByAverage |-> Foremost(average, 5)]

-----------------------------------------------------------------------------
(***************************************************************************)
(* Priorities.  The sample is the sequence of the latest assessments, the  *)
(* newest first: [survey, village, score, status, components], where a     *)
(* component is [domain, performance, critical, override].                 *)
(***************************************************************************)
Villages(sample) == {a.village : a \in ToSet(sample)} \ {Consolidated}

\* The newest assessment of each village.
LatestByVillage(sample) ==
    [v \in Villages(sample) |-> sample[Min({i \in DOMAIN sample : sample[i].village = v})]]

DomainComparison(sample) ==
    LET parts == {<<i, c>> : i \in DOMAIN sample, c \in UNION {a.components : a \in ToSet(sample)}}
        of(d) == {p \in parts : p[2] \in sample[p[1]].components /\ p[2].domain = d}
        named == {c.domain : c \in UNION {a.components : a \in ToSet(sample)}}
    IN  [d \in named |->
            [average |-> MapThenSumSet(LAMBDA p : p[2].performance, of(d)) \div Cardinality(of(d)),
             assessments |-> Cardinality(of(d))]]

\* The ten most urgent of the villages' newest assessments.
TopVillages(latest) ==
    LET villages == DOMAIN latest
        order == Leading(Ranked(villages, {p \in villages \X villages :
                                              latest[p[1]].score < latest[p[2]].score}), 10)
    IN  [i \in DOMAIN order |-> latest[order[i]]]

\* Faulty: an assessment counts, not a village.
OverviewOfRows(sample) ==
    [byStatus |-> Tally({i \in DOMAIN sample : sample[i].village # Consolidated},
                        LAMBDA i : sample[i].status),
     domainComparison |-> DomainComparison(sample),
     topPriorityVillages |-> TopVillages(LatestByVillage(sample))]

buildPriorityOverview(sample) ==
    LET latest == LatestByVillage(sample)
    IN  [byStatus |-> Tally(DOMAIN latest, LAMBDA v : latest[v].status),
         domainComparison |-> DomainComparison(sample),
         topPriorityVillages |-> TopVillages(latest)]

\* The assessments of a need: those of all its surveys.
OfNeed(sample, surveys, n) ==
    {i \in DOMAIN sample : \E s \in surveys : s.id = sample[i].survey /\ s.need = n}

\* Faulty: the newest, whatever it is of.
FirstAssessment(sample, rows) == sample[Min(rows)]

\* The newest row of a whole survey, else the newest of a village.
BestAssessment(sample, rows) ==
    LET whole == {i \in rows : sample[i].village = Consolidated}
    IN  sample[Min(IF whole # {} THEN whole ELSE rows)]

primaryGapFrom(components) ==
    IF components = {} THEN None
    ELSE (CHOOSE c \in components : \A d \in components : c.performance <= d.performance).domain

equityFlagFrom(components) == \E c \in components : c.critical /\ c.override

\* indicators: what the questions of a survey measure, in order, as [survey,
\* indicator, domain, subDomain].  One of another domain is never named.
indicatorFor(indicators, survey, need) ==
    LET Match(column) == {i \in DOMAIN indicators :
                             /\ indicators[i].survey = survey
                             /\ need[column] # None /\ indicators[i][column] = need[column]}
    IN  CASE Match("subDomain") # {} -> indicators[Min(Match("subDomain"))].indicator
          [] Match("subDomain") = {} /\ Match("domain") # {} -> indicators[Min(Match("domain"))].indicator
          [] OTHER -> None

buildCriticalNeeds(orgs, needs, surveys, sample, evidence, indicators) ==
    LET rankable == {n \in needs : OfNeed(sample, surveys, n.id) # {}}
        Row(n) == LET a == BestAssessment(sample, OfNeed(sample, surveys, n.id)) IN
                    [need |-> n.id, score |-> a.score, status |-> a.status,
                     village |-> a.village, primaryGap |-> primaryGapFrom(a.components),
                     equityFlag |-> equityFlagFrom(a.components),
                     evidence |-> Cardinality({e \in evidence : e.need = n.id}),
                     indicator |-> indicatorFor(indicators, a.survey, n),
                     region |-> RegionOf(orgs, n.org)]
        rows  == {Row(n) : n \in rankable}
        order == Ranked(rows, {p \in rows \X rows : p[1].score < p[2].score})
    IN  [topCriticalNeeds |-> Leading(order, 3), priorityNeeds |-> Leading(order, 10),
         totalRankableNeeds |-> Cardinality(rankable), totalNeeds |-> Cardinality(needs)]

buildDataQualityNotes(responses, quality, needs, evidence) ==
    LET shown == {e.need : e \in evidence}
        rest  == Cardinality(needs) - Cardinality(shown)
    IN  [totalResponses |-> Cardinality(responses), assessedResponses |-> Cardinality(quality),
         lowConfidenceCount |-> Cardinality({q \in quality : q.confidence = "low"}),
         duplicateFlaggedCount |-> Cardinality({q \in quality : q.duplicate}),
         needsWithEvidence |-> Cardinality(shown),
         needsWithoutEvidence |-> IF rest > 0 THEN rest ELSE 0,
         needsUnclassified |-> Cardinality({n \in needs : n.domain = None})]

-----------------------------------------------------------------------------
\* What the first queries answer, over the period that ends now.
Overview(db, now, periodDays, dormantDays) ==
    LET active   == mergeLastActivity(db.orgs, db.studies, db.surveys, db.responses)
        New(rows) == periodStat(rows, now - periodDays, periodDays)
    IN  [totals |-> [organizations |-> Cardinality(db.orgs), studies |-> Cardinality(db.studies),
                     surveys |-> Cardinality(db.surveys), responses |-> Cardinality(db.responses),
                     needs |-> Cardinality(db.needs)],
         newThisPeriod |-> [studies |-> New(db.studies), surveys |-> New(db.surveys),
                            responses |-> New(db.responses)],
         orgHealth |-> buildOrgHealth(db.orgs, active, now - dormantDays),
         studyStatus |-> buildStudyStatus(db.studies),
         needDomains |-> buildDomainBreakdown(db.domains, db.needDomains),
         publicLinkStatus |-> buildPublicLinkStatus(db.links),
         surveyAnalytics |-> buildSurveyAnalytics(db.orgs, db.surveys, db.responses, db.rejections),
         responseAnalytics |-> buildResponseAnalytics(db.surveys, db.responses),
         priorityOverview |-> buildPriorityOverview(db.sample),
         geography |-> buildGeography(db.orgs, db.orgPlaces, db.studies)]

\* The overview's figures and the rest, which the code returns side by side.
getReport(db, now, periodDays, dormantDays) ==
    LET places == buildSurveyGeography(db.orgs, db.surveys, db.needPlaces)
    IN  [overview |-> Overview(db, now, periodDays, dormantDays),
         orgSummary |-> buildOrgSummary(db.orgs, db.studies, db.surveys, db.responses),
         studyOverview |-> buildStudyOverview(db.orgs, db.studies, now - 365),
         surveyGeography |-> places,
         regionSummary |-> buildRegionSummary(places.byRegion, db.responses),
         needsGeography |-> buildNeedsGeography(db.orgs, db.needs, db.needPlaces),
         needSubDomains |-> buildSubDomainBreakdown(db.needDomains),
         criticalNeeds |-> buildCriticalNeeds(db.orgs, db.needs, db.surveys, db.sample,
                                              db.evidence, db.indicators),
         dataQualityNotes |-> buildDataQualityNotes(db.responses, db.quality, db.needs, db.evidence),
         domainRegions |-> buildDomainRegionIntersections(db.orgs, db.needDomains)]

-----------------------------------------------------------------------------
(***************************************************************************)
(* A report whose figures answer for one another.                          *)
(***************************************************************************)
\* The donut of villages counts those of the table below it, each once, with
\* its newest assessment.
VillagesOnce(sample, overview) ==
    /\ Total(overview.byStatus) = Cardinality(Villages(sample))
    /\ \A i \in DOMAIN overview.topPriorityVillages :
          LET row == overview.topPriorityVillages[i] IN
            \E k \in DOMAIN sample : /\ sample[k] = row
                                     /\ \A j \in 1 .. k - 1 : sample[j].village # row.village

\* The ranking: every need with an assessment once, most critical first, and
\* by a row of a whole survey where a survey of the need has one.
NeedsRankedOnce(surveys, sample, needs, critical) ==
    LET rows == critical.priorityNeeds IN
      /\ {rows[i].need : i \in DOMAIN rows} \subseteq {n.id : n \in needs}
      /\ \A i, j \in DOMAIN rows : i < j => /\ rows[i].need # rows[j].need
                                            /\ rows[i].score <= rows[j].score
      /\ \A i \in DOMAIN rows : rows[i].village # Consolidated =>
            \A k \in OfNeed(sample, surveys, rows[i].need) : sample[k].village # Consolidated

=============================================================================
