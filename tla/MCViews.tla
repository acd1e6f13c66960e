------------------------------ MODULE MCViews ------------------------------
(***************************************************************************)
(* What readers are shown of others' work: bounded inputs of the           *)
(* dashboards, queues, comparisons and notes, and of the readers of files, *)
(* each with the property of its answer r for the input x.  MCTables runs  *)
(* them.                                                                   *)
(***************************************************************************)
EXTENDS Integers, Sequences, FiniteSets, FiniteSetsExt, SequencesExt

Reports   == INSTANCE ReportPatterns
Documents == INSTANCE DocumentRows
Boards    == INSTANCE Dashboards
Roles     == INSTANCE Access

Null == Reports!Null

\* Sequences of at most n elements of S.
Lists(S, n) == UNION {[1..k -> S] : k \in 0..n}

InOrganisation == Roles!LoginRoles \ Roles!CrossEntity

-----------------------------------------------------------------------------
(***************************************************************************)
(* The organisation's dashboard: three needs, each with the severities of  *)
(* two domains of which d1 is critical below a performance of 30.          *)
(***************************************************************************)
Villages == [d1 : {0, 50, 80}, d2 : {Null, 0, 90}]

BoardInputs ==
    [kind : {"board"}, villages : [{"n1", "n2", "n3"} -> Villages], low : BOOLEAN, overdue : BOOLEAN]

BoardConfigs ==
    {[domain |-> "d1", weight |-> 1, critical |-> TRUE, threshold |-> 30],
     [domain |-> "d2", weight |-> 1, critical |-> FALSE, threshold |-> 0]}

DomainsIn(v) == [d \in {"d1", "d2"} |-> [severity |-> v[d], valid |-> 12, dontKnow |-> 0]]

Entry(x, n) ==
    LET domains == DomainsIn(x.villages[n])
    IN  [need |-> n, level |-> Reports!ShownLevel(BoardConfigs, domains),
         severity |-> 100 - Reports!PriorityScore(BoardConfigs, domains)]

Board(x) ==
    LET quality == {[confidence |-> IF x.low THEN "low" ELSE "standard", duplicate |-> FALSE]}
        board   == Reports!getCollectiveDashboard(DOMAIN x.villages, {Entry(x, n) : n \in DOMAIN x.villages}, quality)
    IN  [board |-> board, advice |-> Reports!buildCollectiveNarrative(board, IF x.overdue THEN 50 ELSE 100),
         comparison |-> Reports!buildComparisonBand(60, 35, 9, 10, board)]

\* The severities of rows added up.
Added(rows) == FoldLeft(LAMBDA sum, e : sum + e.severity, 0, rows)

\* The most urgent needs come first: those with a critical domain below its
\* threshold, then the others by severity; every scored need is in one band;
\* and a survey is held against what the dashboard shows.
\* (getCollectiveDashboard, listForOrg, buildComparisonBand)
UrgentFirst(x, r) ==
    LET top == r.board.topPriorities
        Failing(e) == x.villages[e.need].d1 > 70
        share == r.board.scoringDistribution
        mean == Added(top) \div Len(top)
    IN  /\ \A i, j \in DOMAIN top : i < j =>
              \/ Failing(top[i]) /\ ~Failing(top[j])
              \/ Failing(top[i]) = Failing(top[j]) /\ top[i].severity >= top[j].severity
        /\ share["High"] + share["Medium"] + share["Low"] = Cardinality(DOMAIN x.villages)
        /\ share["High"] = Cardinality({i \in DOMAIN top : Failing(top[i]) \/ top[i].severity >= 60})
        /\ \A c \in r.comparison.index : (c.direction = "above") = (60 > mean + 3)
        /\ "clear the queue" \in r.advice <=> x.overdue

-----------------------------------------------------------------------------
(***************************************************************************)
(* The figures of a survey within its organisation: three surveys, two of  *)
(* one need or each of its own, and at most three responses.  A response   *)
(* belongs to a need, and every survey of that need counts it.             *)
(***************************************************************************)
PortfolioInputs ==
    [kind : {"portfolio"}, of : {<<"n1", "n1", "n2">>, <<"n1", "n2", "n3">>},
     status : [1..3 -> {"PUBLISHED", "SUPERSEDED"}],
     people : Lists([need : {"n1", "n2", "n3"}, gender : {"none", "f", "m"}], 3)]

Responses(x)    == DOMAIN x.people
People(x, need) == {[id |-> i, gender |-> x.people[i].gender] : i \in {j \in Responses(x) : x.people[j].need = need}}

\* Those of the responses rs who said their gender.
Said(x, rs) == {i \in rs : x.people[i].gender # "none"}

Portfolio(x) ==
    [v \in 1..3 |->
        [block |-> Reports!buildPortfolioBlock({[id |-> w, status |-> x.status[w]] : w \in 1..3},
                                               Cardinality(Responses(x)), Cardinality(People(x, x.of[v]))),
         gender |-> Reports!aggregateDemographics(People(x, x.of[v]), "gender")]]

\* The share of a survey is that of the responses to its need, to half a point,
\* and whoever of them said their gender is counted once.  Surveys of one need
\* count the same people; so the shares make up the whole, and everyone is
\* counted, where each need has one survey, and then only to half a point for
\* each of them, as every share is rounded by itself.
\* (buildPortfolioBlock, aggregateDemographics)
SharesAddUp(x, r) ==
    LET Counted(f) == MapThenSumSet(LAMBDA v : f[v], DOMAIN f)
        total      == Cardinality(Responses(x))
        Off(v)     == 2 * (total * r[v].block.share - 100 * Cardinality(People(x, x.of[v])))
    IN  /\ \A v \in 1..3 : Off(v) \in -total..total
        /\ \A v \in 1..3 : Counted(r[v].block.byStatus) = 3
        /\ \A v \in 1..3 :
              Counted(r[v].gender) = Cardinality(Said(x, {i \in Responses(x) : x.people[i].need = x.of[v]}))
        /\ (\A v, w \in 1..3 : v # w => x.of[v] # x.of[w]) =>
              /\ total > 0 => 2 * (r[1].block.share + r[2].block.share + r[3].block.share - 100) \in -3..3
              /\ Counted(r[1].gender) + Counted(r[2].gender) + Counted(r[3].gender)
                    = Cardinality(Said(x, Responses(x)))

-----------------------------------------------------------------------------
(***************************************************************************)
(* The supervisors' overview beside the archive and the sharing queues:    *)
(* two organisations with a study each, a need, two requests, a report.    *)
(***************************************************************************)
Requests == [owner : {"o1", "o2"}, status : {"pending", "approved", "rejected"}]

OverviewInputs ==
    [kind : {"overview"}, study : [{"t1", "t2"} -> {"active", "archived"}],
     needs : UNION {[K -> [study : {"t1", "t2"}, status : {"approved", "survey_published"}]] :
                       K \in SUBSET {"n1", "n2"}},
     requests : [1..2 -> Requests], report : {"submitted", "released", "archived"}]

StudiesOf(x) == {[id |-> t, org |-> IF t = "t1" THEN "o1" ELSE "o2", status |-> x.study[t],
                  at |-> IF t = "t1" THEN 1 ELSE 2] : t \in {"t1", "t2"}}
NeedsOf(x)   == {[study |-> x.needs[n].study, status |-> x.needs[n].status] : n \in DOMAIN x.needs}
ReportsOf(x) == {[id |-> "r1", org |-> "o1", status |-> x.report, at |-> 1]}
RequestsOf(x) ==
    {[id |-> <<"a", "b">>[i], owner |-> x.requests[i].owner, status |-> x.requests[i].status,
      requester |-> IF x.requests[i].owner = "o1" THEN "o2" ELSE "o1", at |-> i] : i \in 1..2}

Overview(x) ==
    [overview |-> Boards!getOverview({"o1", "o2"}, StudiesOf(x), NeedsOf(x), ReportsOf(x), RequestsOf(x)),
     archive  |-> [o \in {"o1", "o2", Boards!None} |->
                      Boards!ArchiveList(StudiesOf(x), NeedsOf(x), ReportsOf(x), {"released", "archived"}, o)],
     queue    |-> [o \in {"o1", "o2"} |-> Boards!toAlerts(RequestsOf(x), o)]]

\* Supervisors see what the organisations see: no study is both in progress
\* and in the archive, one with an open need is in progress; the archive holds
\* the latest report of everyone; what they count as pending or shared waits in
\* an owner's queue or was answered in a requester's; and the archive of the
\* kingdom is that of the organisations.
\* (getOverview, ArchiveService.list, SharingAlertsService.listAlerts)
OverviewReconciles(x, r) ==
    LET rows    == r.overview.rows
        Queued(kind) == Cardinality({w \in {"o1", "o2"} \X UNION {r.queue[p] : p \in {"o1", "o2"}} :
                                        w[2] \in r.queue[w[1]] /\ w[2].kind = kind})
    IN  /\ \A o \in {"o1", "o2"} : rows[o].activeStudy \notin r.archive[Boards!None]
        /\ \A o \in {"o1", "o2"} : rows[o].latestReport \in r.archive[o] \cup {Boards!None}
        /\ r.overview.studiesInProgress = Cardinality({o \in {"o1", "o2"} : rows[o].activeStudy # Boards!None})
        /\ r.overview.pendingSharingRequests = Queued("request_created")
        /\ r.overview.reportsShared = Queued("request_approved")
        /\ \A n \in {m \in DOMAIN x.needs : x.needs[m].status = "approved"} :
              /\ x.needs[n].study \notin r.archive[Boards!None]
              /\ x.needs[n].study \in {rows[o].activeStudy : o \in {"o1", "o2"}}
        /\ \A o \in {"o1", "o2"} : \A a \in r.queue[o] :
              a.kind = "request_created" => \E i \in 1..2 : <<"a", "b">>[i] = a.of /\ x.requests[i].owner = o
        /\ r.archive[Boards!None] = r.archive["o1"] \cup r.archive["o2"]

-----------------------------------------------------------------------------
(***************************************************************************)
(* The reviewers' queues at time 100 with a term of 24, and the calls.     *)
(***************************************************************************)
QueueInputs == [kind : {"queue"}, role : InOrganisation, me : {"u1", "u2"}]

Queue ==
    [surveys |-> {[id |-> "s1", status |-> "SUBMITTED", creator |-> "u1", at |-> 10],
                  [id |-> "s2", status |-> "APPROVED", creator |-> "u1", at |-> 20],
                  [id |-> "s3", status |-> "REJECTED", creator |-> "u2", at |-> 30],
                  [id |-> "s4", status |-> "SUBMITTED", creator |-> "u2", at |-> 95]},
     reports |-> {[id |-> "r1", status |-> "submitted", generator |-> "u1", at |-> 40],
                  [id |-> "r2", status |-> "released", generator |-> "u1", at |-> 50],
                  [id |-> "r3", status |-> "rejected", generator |-> "u2", at |-> 60]},
     documents |-> {[id |-> "e1", need |-> "n1", summaries |-> 0, at |-> 70],
                    [id |-> "e2", need |-> Boards!None, summaries |-> 0, at |-> 80],
                    [id |-> "e3", need |-> "n1", summaries |-> 1, at |-> 90]}]

QueueOf(x) == Boards!listAlerts(Queue, Roles!ROLE_MATRIX[x.role], x.me, 100, 24)

\* Whoever is shown work can do it and whoever can do it is shown it: surveys
\* and reports that await a decision, documents without a summary, a survey
\* that may be published; and where decisions are overdue the figure says so.
\* (ReviewerSlaService.listAlerts, slaComplianceFromAlerts and the routes)
QueuesFollowRights(x, r) ==
    LET Shown(kind) == \E i \in DOMAIN r : r[i].kind = kind
        May(handler) == x.role \in Roles!Staff(handler)
    IN  /\ Shown("survey_approval") <=> May("approveSurvey")
        /\ Shown("report_approval") <=> May("approveReport")
        /\ Shown("evidence_document_uploaded") <=> May("generateDocumentSummary")
        /\ Shown("survey_ready_to_publish") /\ May("createEmptySurvey") => May("publishSurvey")
        /\ May("approveSurvey") <=> Boards!slaComplianceFromAlerts(ToSet(r)).breached > 0

CallInputs ==
    [kind : {"call"}, handler : {route[1] : route \in Roles!Routes}, role : Roles!LoginRoles \cup {"none"},
     by : {"cookie", "header"}, token : BOOLEAN, safe : {FALSE}, enforced : {TRUE}]

\* A call that writes in the name of a cookie's session carries the token: no
\* route that asks for a session or a right is excused.  (CsrfGuard,
\* PermissionGuard)
SessionsCarryToken(x, r) ==
    r /\ x.by = "cookie" /\ ~x.token => Roles!Permission(x.handler) = Roles!Public

-----------------------------------------------------------------------------
(***************************************************************************)
(* Groups of respondents; a worse severity; the notes of a report.         *)
(***************************************************************************)
Group == [severity : {Null, 20, 80}, n : {1, 2, 12}]

SegmentInputs ==
    [kind : {"segments"}, groups : [{"gender", "settlement"} -> [{"a", "b"} -> Group]]]

Segments(x) ==
    [d \in {"gender", "settlement"} |->
        {[label |-> l, severity |-> x.groups[d][l].severity, n |-> x.groups[d][l].n] : l \in {"a", "b"}}]

\* Inequality is claimed exactly where two measured groups that are large
\* enough differ by the threshold, of those who fare worst; what is shown
\* without a claim is never one person's answer.  (deriveEquityFlag)
EquityIsMeasured(x, r) ==
    LET Large(d) == \A l \in {"a", "b"} : x.groups[d][l].severity # Null /\ x.groups[d][l].n >= 10
        Apart(d) == x.groups[d]["a"].severity # x.groups[d]["b"].severity
    IN  /\ r.flag = \E d \in {"gender", "settlement"} : Large(d) /\ Apart(d)
        /\ r.flag => x.groups[r.dimension][r.worst].severity = 80
        /\ \A d \in DOMAIN r.observed : \A g \in r.observed[d] : g.n >= 2 /\ ~Large(d)

\* Two severities of one need, the second no better than the first.
ScaleInputs ==
    {x \in [kind : {"scale"}, severities : [1..2 -> {0, 35, 45, 55, 75, 85}], equity : BOOLEAN,
            prior : {Null, 60}, own : {[critical |-> 80], [critical |-> 90, high |-> 50]}] :
        x.severities[1] <= x.severities[2]}

Scale(x) ==
    [i \in 1..2 |->
        [level |-> Reports!NeedLevel(x.severities[i], IF x.equity THEN 3 ELSE 2, 10, x.own),
         gap   |-> Reports!deriveGapType(x.severities[i], x.equity, x.prior, [acute |-> 70, chronic |-> 50])]]

\* What is worse is never shown as less: neither its level nor its kind of gap.
\* (mapPriorityLevel, deriveGapType)
WorseIsNeverLess(x, r) ==
    LET Urgency(level) == Reports!LevelRank(level)
        Depth(gap) == CHOOSE i \in 1..4 : <<"structural", "chronic", "acute", "inequality">>[i] = gap
    IN  /\ Urgency(r[2].level) <= Urgency(r[1].level)
        /\ Depth(r[1].gap) <= Depth(r[2].gap)
        /\ (r[1].gap = "inequality") = x.equity

NoteInputs ==
    [kind : {"notes"}, cycle : 1..2, prior : {Null, 40}, current : {Null, 40, 60},
     ai : UNION {[K -> {"", "text"}] : K \in SUBSET {"executiveSummary", "dataQualityNote", "trendNote"}},
     advice : [1..2 -> Lists({"a", "b", "c"}, 2)]]

Notes(x) ==
    LET ai == Reports!NarrativeOf(x.ai)
    IN  [notes |-> Reports!promoteNotes(ai, Reports!deriveTrendNote(x.cycle, x.current, x.prior)),
         advice |-> Reports!Recommendations(x.advice[1], x.advice[2])]

\* Every report has both notes, each once; a change is claimed only between
\* two measured cycles, unless the model says so; and what both narratives
\* recommend is printed once.  (promoteNotes, deriveTrendNote, generateContent)
NotesStandOnce(x, r) ==
    /\ r.notes.dataQualityNote # "" /\ r.notes.aiSummary.dataQualityNote = ""
    /\ r.notes.trendNote # "" /\ r.notes.aiSummary.trendNote = ""
    /\ r.notes.trendNote \in {"improved", "worsened", "unchanged"}
          => x.cycle = 2 /\ x.prior # Null /\ x.current # Null
    /\ IsInjective(r.advice) /\ ToSet(r.advice) = ToSet(x.advice[1]) \cup ToSet(x.advice[2])

-----------------------------------------------------------------------------
(***************************************************************************)
(* Files of needs, read three ways; a text in chunks.                      *)
(***************************************************************************)
Words == {<<>>, <<"x">>, <<"comma", "x">>, <<"quote">>, <<"lf">>, <<"x", "cr", "lf", "y">>}

TableInputs == [kind : {"table"}, rows : Lists(Words \X Words, 2)]

Sheet2(x) == <<<<<<"T">>, <<"V">>>>>> \o x.rows

Table(x) ==
    [csv   |-> Documents!parseCsvNeeds(Documents!Printed(Sheet2(x)),
                   [title |-> {<<"T">>}, village |-> {<<"V">>, <<"W">>}], {"title", "village"}),
     excel |-> Documents!parseExcelNeeds(Sheet2(x))]

\* A table has the same needs saved as text and as a sheet, in one order.
\* (parseCsvNeeds, parseExcelNeeds)
SameNeeds(x, r) ==
    /\ Len(r.csv) = Len(r.excel)
    /\ \A k \in DOMAIN r.csv : /\ r.csv[k].cell["title"]   = Documents!Trim(r.excel[k].cell[1])
                               /\ r.csv[k].cell["village"] = Documents!Trim(r.excel[k].cell[2])

ChunkInputs == [kind : {"chunks"}, text : Lists({"x", "y", "space"}, 5), size : 1..3]

\* The chunks of a document are of at most one size and lose no word.
\* (splitChunks)
ChunksKeepText(x, r) ==
    LET Solid(t) == Documents!Without(t, Documents!Blank) IN
      /\ Solid(FlattenSeq(r)) = Solid(x.text)
      /\ \A k \in DOMAIN r : Len(r[k]) <= x.size

Item(parts) == [parts |-> parts, title |-> "whole", statement |-> "whole"]
Items == {Item(<<>>), Item(<<"p">>), Item(<<"p", "q">>)}

DocumentInputs ==
    [kind : {"document"}, file : [kind : {"pdf", "docx", "zip"}, readable : BOOLEAN, paragraphs : Lists(Items, 1)],
     answer : Lists(Items, 2)]

\* A document is refused or gives every need it combines a row of its own,
\* numbered without a gap; and whatever the model found in a file that could
\* be read is used.  (parseSurveyDocumentNeeds, splitCombinedNeedItems)
DocumentsNumbered(x, r) ==
    LET used == IF x.answer # <<>> THEN x.answer ELSE x.file.paragraphs
        expected == FlattenSeq([i \in DOMAIN used |->
                        IF Len(used[i].parts) = 2 THEN used[i].parts ELSE <<"whole">>])
    IN  /\ r # <<>> => [i \in DOMAIN r |-> r[i].title] = expected
        /\ \A i \in DOMAIN r : r[i].row = i
        /\ x.file.readable /\ x.file.kind # "zip" /\ x.file.paragraphs # <<>> /\ x.answer # <<>> => r # <<>>
=============================================================================
