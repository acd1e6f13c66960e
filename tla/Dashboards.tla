----------------------------- MODULE Dashboards -----------------------------
(***************************************************************************)
(* What users are shown of the state of others' work: the queues of the    *)
(* reviewers (ReviewerSlaService), of data sharing (SharingAlertsService), *)
(* the supervisors' overview (SupervisorOverviewService), the archive      *)
(* (ArchiveService) and the quality of responses (ResponseQualityService). *)
(*                                                                         *)
(* Each is computed from rows and stored nowhere; only the assessments of  *)
(* response quality are rows of their own.  Times are numbers; None is a   *)
(* null column.                                                            *)
(***************************************************************************)
EXTENDS Integers, FiniteSets, FiniteSetsExt, Sequences, SequencesExt, Ranking

None == "none"

\* Newest or oldest first.
Newest(S) == Ranked(S, {p \in S \X S : p[1].at > p[2].at})
Oldest(S) == Ranked(S, {p \in S \X S : p[1].at < p[2].at})

-----------------------------------------------------------------------------
(***************************************************************************)
(* Queues.  A role is the set of its rights, as <<module, right>>; a       *)
(* survey is [id, status, creator, at], where at is when it came to its    *)
(* status; a report is [id, status, generator, at]; a document is [id,     *)
(* need, summaries, at].                                                   *)
(***************************************************************************)
\* The last quarter of the term is at risk.
statusFor(due, now, sla) ==
    CASE due < now -> "breached"
      [] due >= now /\ 4 * (due - now) < sla -> "at_risk"
      [] OTHER -> "pending"

Alert(kind, row, status) == [kind |-> kind, of |-> row.id, at |-> row.at, status |-> status]

listSurveyApprovalAlerts(surveys, now, sla) ==
    {Alert("survey_approval", s, statusFor(s.at + sla, now, sla)) :
        s \in {x \in surveys : x.status = "SUBMITTED"}}

listOwnSurveyStatusAlerts(surveys, me) ==
    {Alert(IF s.status = "APPROVED" THEN "survey_ready_to_publish" ELSE "survey_rejected", s, "pending") :
        s \in {x \in surveys : x.creator = me /\ x.status \in {"APPROVED", "REJECTED"}}}

listReportApprovalAlerts(reports) ==
    {Alert("report_approval", r, "pending") : r \in {x \in reports : x.status = "submitted"}}

listOwnReportStatusAlerts(reports, me) ==
    {Alert(IF r.status = "released" THEN "report_released" ELSE "report_rejected", r, "pending") :
        r \in {x \in reports : x.generator = me /\ x.status \in {"released", "rejected"}}}

\* Documents of a need that no summary was made of yet.
listPendingEvidenceSummaryAlerts(documents) ==
    {Alert("evidence_document_uploaded", d, "pending") :
        d \in {x \in documents : x.need # None /\ x.summaries = 0}}

\* An approver sees what waits, the others what was decided about their own.
AlertsOf(db, role, me, now, sla) ==
    LET may(right) == right \in role IN
      (IF may(<<"surveyBuilder", "approve">>) THEN listSurveyApprovalAlerts(db.surveys, now, sla)
         ELSE listOwnSurveyStatusAlerts(db.surveys, me))
      \cup (IF may(<<"reportsDashboards", "approve">>) THEN listReportApprovalAlerts(db.reports)
            ELSE IF may(<<"reportsDashboards", "write">>) THEN listOwnReportStatusAlerts(db.reports, me)
            ELSE {})
      \cup (IF may(<<"priorityScoring", "create">>) THEN listPendingEvidenceSummaryAlerts(db.documents)
            ELSE {})

listAlerts(db, role, me, now, sla) ==
    IF role \cap {<<"surveyBuilder", "approve">>, <<"reportsDashboards", "approve">>} # {}
    THEN Oldest(AlertsOf(db, role, me, now, sla))
    ELSE Newest(AlertsOf(db, role, me, now, sla))

\* Of the alerts of whoever asks, so a reader without the queue sees 100.
slaComplianceFromAlerts(alerts) ==
    LET total    == Cardinality(alerts)
        breached == Cardinality({a \in alerts : a.status = "breached"})
    IN  [breached |-> breached,
         atRisk |-> Cardinality({a \in alerts : a.status = "at_risk"}),
         pct |-> IF total = 0 THEN None
                 ELSE ToString((200 * (total - breached) + total) \div (2 * total))]

-----------------------------------------------------------------------------
(***************************************************************************)
(* Sharing requests: [id, owner, requester, status, at].                   *)
(***************************************************************************)
toAlerts(rows, me) ==
    {Alert("request_created", r, "pending") : r \in {x \in rows : x.owner = me /\ x.status = "pending"}}
      \cup {Alert(IF r.status = "approved" THEN "request_approved" ELSE "request_rejected", r, "decided") :
              r \in {x \in rows : x.requester = me /\ x.status \in {"approved", "rejected"}
                                    /\ ~(x.owner = me /\ x.status = "pending")}}

-----------------------------------------------------------------------------
(***************************************************************************)
(* Supervisors' overview and archive.  A study is in progress while one of *)
(* its needs is short of survey_published.                                 *)
(***************************************************************************)
Open(study, needs) == \E n \in needs : n.study = study.id /\ n.status # "survey_published"

LatestOf(rows) == IF rows = {} THEN None ELSE Newest(rows)[1].id

getOverview(orgs, studies, needs, reports, requests) ==
    [totalOrganizations |-> Cardinality(orgs),
     studiesInProgress |-> Cardinality({s \in studies : Open(s, needs)}),
     reportsShared |-> Cardinality({r \in requests : r.status = "approved"}),
     pendingSharingRequests |-> Cardinality({r \in requests : r.status = "pending"}),
     rows |-> [o \in orgs |->
         [activeStudy |-> LatestOf({s \in studies : s.org = o /\ Open(s, needs)}),
          latestReport |-> LatestOf({r \in reports : r.org = o /\ r.status \in {"released", "archived"}}),
          sharing |-> LatestOf({r \in requests : o \in {r.owner, r.requester}})]]]

\* Archived, and with needs that are all published: a need added to an archived
\* study, or a study without needs, is in neither list.
Completed(study, needs) ==
    /\ study.status = "archived"
    /\ \E n \in needs : n.study = study.id
    /\ ~Open(study, needs)

\* scoped: the organisation of a caller without sight of the others.
ArchiveList(studies, needs, reports, exportable, scoped) ==
    {s.id : s \in {x \in studies : Completed(x, needs) /\ scoped \in {None, x.org}}}
      \cup {r.id : r \in {x \in reports : x.status \in exportable /\ scoped \in {None, x.org}}}

-----------------------------------------------------------------------------
(***************************************************************************)
(* Response quality.  A response is [id, contact, answers], where answers  *)
(* is a function of the fields to "" (missing), "dk" (don't know) or a     *)
(* value; responses come in the order they were submitted.                 *)
(***************************************************************************)
Count(answers, v) == Cardinality({f \in DOMAIN answers : answers[f] = v})

Completeness(answers) ==
    LET n == Cardinality(DOMAIN answers) IN
      IF n = 0 THEN 0 ELSE (200 * (n - Count(answers, "")) + n) \div (2 * n)

Earlier(responses, i) ==
    {j \in 1 .. i - 1 : /\ responses[j].contact = responses[i].contact
                        /\ responses[j].answers = responses[i].answers}

Assessed(responses, i, settings, original) ==
    LET r == responses[i]
        n == Cardinality(DOMAIN r.answers)
    IN  [response |-> r.id, completeness |-> Completeness(r.answers),
         missing |-> {f \in DOMAIN r.answers : r.answers[f] = ""},
         confidence |-> IF \/ Len(responses) < settings.minimum
                           \/ 100 * Count(r.answers, "dk") > settings.ratio * n
                        THEN "low" ELSE "standard",
         duplicateOf |-> original]

FirstOf(responses, i) ==
    IF Earlier(responses, i) = {} THEN None ELSE responses[Min(Earlier(responses, i))].id

\* Faulty: a copy is held against the copy before it.
LastOf(responses, i) ==
    IF Earlier(responses, i) = {} THEN None ELSE responses[Max(Earlier(responses, i))].id

AssessedAgainstLast(responses, settings) ==
    {Assessed(responses, i, settings, LastOf(responses, i)) : i \in DOMAIN responses}

assessResponseQuality(responses, settings) ==
    {Assessed(responses, i, settings, FirstOf(responses, i)) : i \in DOMAIN responses}

\* Every copy names the one response that is an original, and every group of
\* equal responses has exactly one.
OriginalsOnce(responses, results) ==
    LET Original(r) == CHOOSE x \in results : x.response = r.id IN
      \A r, s \in ToSet(responses) :
         LET same == r.contact = s.contact /\ r.answers = s.answers IN
           /\ Original(r).duplicateOf # None =>
                 \E t \in results : t.response = Original(r).duplicateOf /\ t.duplicateOf = None
           /\ same /\ r # s => ~(Original(r).duplicateOf = None /\ Original(s).duplicateOf = None)
           /\ ~same => Original(r).duplicateOf # s.id

\* Assessing again adds rows to those of the last time: assess() drops none,
\* and determineEquityFlag and the reports count them all.
assess(stored, results) == stored \o SetToSeq(results)

=============================================================================
