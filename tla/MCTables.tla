------------------------------ MODULE MCTables ------------------------------
(***************************************************************************)
(* The pure parts of the system over bounded inputs: a behaviour picks one *)
(* input and computes its answer, and the properties hold the answer       *)
(* against what a reader of it relies on.                                  *)
(***************************************************************************)
EXTENDS MCViews

VARIABLES input, output

Scoring == INSTANCE SeverityScoring
Ncnp    == INSTANCE NcnpReport
Exports == INSTANCE ResponseExport

Pending == <<>>   \* the answer comes as a sequence of one

-----------------------------------------------------------------------------
(***************************************************************************)
(* Scores and rollups: three questions of two domains, two responses.      *)
(***************************************************************************)
Question(id, kpi, domain) ==
    [id |-> id, kpi |-> kpi, indicator |-> kpi, subDomain |-> kpi, domain |-> domain]

IndexQuestions == {Question("q1", "k1", "d1"), Question("q2", "k2", "d1"), Question("q3", "k3", "d2")}

Row(n, q, s) ==
    [id |-> n, question |-> q, status |-> IF s = Null THEN "EXCLUDED" ELSE "SCORED", severity |-> s,
     reason |-> IF s = Null THEN "DONT_KNOW" ELSE "none"]

IndexConfigs ==
    {[domain |-> "d1", weight |-> 3, critical |-> TRUE, threshold |-> 30],
     [domain |-> "d2", weight |-> 1, critical |-> FALSE, threshold |-> 0]}

IndexInputs ==
    [kind : {"index"}, configs : (SUBSET IndexConfigs) \ {{}},
     sheets : [1..2 -> [{"q1", "q2", "q3"} -> {Null, 0, 50, 90}]]]

RowsOf(x) == {Row(n, q, x.sheets[n][q]) : n \in 1..2, q \in {"q1", "q2", "q3"}}

Index(x) ==
    LET domains == Reports!DomainRollups(IndexQuestions, RowsOf(x))
    IN  [levels |-> Reports!Levels(IndexQuestions, RowsOf(x)), domains |-> domains,
         overall |-> Reports!Overall(domains), shown |-> Reports!ShownLevel(x.configs, domains)]

-----------------------------------------------------------------------------
(***************************************************************************)
(* One sheet: a question asked when another is answered "a", and sets of   *)
(* options of which "z" is an escape and "a" with "b" a composite.         *)
(***************************************************************************)
Lookup(options, score, excluded) ==
    [type |-> "MULTI_SELECT", options |-> options, score |-> score, excluded |-> excluded,
     floor |-> 0, ceiling |-> 0, worsens |-> "HIGHER"]

SheetRows ==
    {Lookup({"a"}, 30, FALSE), Lookup({"b"}, 80, FALSE), Lookup({"c"}, Null, FALSE),
     Lookup({"z"}, Null, TRUE), Lookup({"a", "b"}, 95, FALSE)}

SheetQuestions(op) ==
    [p |-> [mode |-> "MULTI_SELECT", scoreable |-> TRUE,
            rule |-> [parent |-> "none", operator |-> "NONE", values |-> {}]],
     q |-> [mode |-> "MULTI_SELECT", scoreable |-> TRUE,
            rule |-> [parent |-> "p", operator |-> op, values |-> {"a"}]]]

SheetInputs ==
    [kind : {"sheet"}, operator : {"IN", "NOT_IN"}, parent : Lists({"a", "b", "z"}, 2),
     child : Lists({"a", "b", "c", "z", "other"}, 3)]

Sheet(x) ==
    Scoring!ScoreSheet(SheetQuestions(x.operator),
                       [p |-> [labels |-> x.parent, number |-> Null],
                        q |-> [labels |-> x.child, number |-> Null]],
                       [p |-> SheetRows, q |-> SheetRows])

-----------------------------------------------------------------------------
(***************************************************************************)
(* The report of one survey: two KPIs of the bank and a third that a bank  *)
(* of today may have lost.                                                 *)
(***************************************************************************)
Bank(x) ==
    LET kept == <<Question("q1", "k1", "d1"), Question("q2", "k2", x.second)>>
    IN  IF x.lost THEN kept ELSE Append(kept, Question("q3", "k3", "d1"))

Kpi == [severity : {Null, 0, 40}, valid : {12}, dontKnow : {0}]
         \cup {[severity |-> 80, valid |-> 50, dontKnow |-> 0],
               [severity |-> 80, valid |-> 5, dontKnow |-> 30]}

ReportInputs ==
    [kind : {"report"}, second : {"d1", "d2"}, lost : BOOLEAN, required : {Null, 40},
     kpis : [{"k1", "k2", "k3"} -> Kpi], configured : {{}, {"d1"}, {"d1", "d2"}}]

ReportConfigs(x) ==
    {[domain |-> d, weight |-> IF d = "d1" THEN 3 ELSE 1, critical |-> FALSE, threshold |-> 0] :
        d \in x.configured}

\* The rollups are of the questions the bank had, the third one's in d1.
ReportLevels(x) ==
    LET bank == {Question("q1", "k1", "d1"), Question("q2", "k2", x.second), Question("q3", "k3", "d1")}
        inds == Reports!Indicators(bank, x.kpis)
        subs == Reports!SubDomains(bank, inds)
    IN  [kpi |-> x.kpis, indicator |-> inds, subDomain |-> subs,
         domain |-> Reports!Domains(bank, subs)]

Report(x) ==
    LET content == Reports!buildUnifiedRpt01(Bank(x), ReportLevels(x), ReportConfigs(x), x.required)
    IN  [content |-> content,
         top |-> Reports!topKpis(x.kpis, 2),
         notes |-> Reports!composeDataQualityNotes(50, 40, 30, content.records, content.notAssessed),
         coverage |-> Reports!buildCoverageBlock(ReportLevels(x), {}),
         patterns |-> Reports!composePatternAnalysis(content.records, 50, Cardinality(DOMAIN content.tree),
                          content.notAssessed, [minResponses |-> 10, minDomains |-> 2])]

-----------------------------------------------------------------------------
(***************************************************************************)
(* The kingdom-wide report: three assessments, two surveys of two needs.   *)
(***************************************************************************)
Assessments ==
    [survey : {"s1", "s2"}, village : {"", "v1", "v2"}, score : {30, 60}, status : {"HIGH", "LOW"},
     components : {{[domain |-> "d1", performance |-> 20, critical |-> TRUE, override |-> FALSE]}}]

NcnpInputs == [kind : {"ncnp"}, sample : Lists({a \in Assessments : (a.score = 30) = (a.status = "HIGH")}, 3)]

Orgs    == {[id |-> "o1", active |-> TRUE, region |-> "r1", touched |-> 1],
            [id |-> "o2", active |-> TRUE, region |-> "none", touched |-> 2]}
Needs   == {[id |-> "n1", org |-> "o1", domain |-> "d1", subDomain |-> "x"],
            [id |-> "n2", org |-> "o2", domain |-> "none", subDomain |-> "none"]}
Surveys == {[id |-> "s1", org |-> "o1", need |-> "n1", status |-> "PUBLISHED", at |-> 300],
            [id |-> "s2", org |-> "o2", need |-> "n2", status |-> "APPROVED", at |-> 310]}
Db(x) ==
    [orgs |-> Orgs, needs |-> Needs, surveys |-> Surveys, sample |-> x.sample,
     studies |-> {[id |-> "t1", org |-> "o1", status |-> "archived", at |-> 250],
                  [id |-> "t2", org |-> "o2", status |-> "active", at |-> 390]},
     responses |-> {[id |-> "a1", org |-> "o1", region |-> "r1", gender |-> "f", age |-> "none", at |-> 395],
                    [id |-> "a2", org |-> "o1", region |-> "none", gender |-> "f", age |-> "18", at |-> 350]},
     needPlaces |-> {[need |-> "n1", place |-> "p1"], [need |-> "n1", place |-> "p2"]},
     orgPlaces |-> {[org |-> "o1", place |-> "p1"]}, rejections |-> {[id |-> "e1", reason |-> "x"]},
     links |-> {[id |-> "l1", active |-> TRUE]}, domains |-> {[name |-> "d1", active |-> TRUE]},
     needDomains |-> {[id |-> "n1", org |-> "o1", domain |-> "d1", subDomain |-> "x"]},
     evidence |-> {[id |-> "e1", need |-> "n1"]}, quality |-> {[id |-> "a1", confidence |-> "low", duplicate |-> FALSE]},
     indicators |-> <<[survey |-> "s1", indicator |-> "i1", domain |-> "d1", subDomain |-> "x"]>>]

-----------------------------------------------------------------------------
(***************************************************************************)
(* Files: rows of one or two cells.                                        *)
(***************************************************************************)
Alphabet == {"x", "quote", "comma", "lf", "cr"}
Cells    == {t \in Lists(Alphabet, 2) : Documents!Trim(t) = t}

FileInputs ==
    [kind : {"file"}, rows : {<<<<a, b>>>> : a \in Cells, b \in Cells} \cup {<<<<a>>, <<b>>>> : a \in Cells, b \in Cells}]

VillageTexts == Lists({"x", "y", "comma", "semicolon", "space"}, 3)
RowInputs == [kind : {"row"}, title : {<<"x">>, <<"space", "x">>}, village : VillageTexts, reference : {<<>>, <<"space">>, <<"x">>}]

-----------------------------------------------------------------------------
(***************************************************************************)
(* Exports of responses: two versions of a survey that share a question    *)
(* and may share another; four responses, some submitted during the export.*)
(***************************************************************************)
Versions(x) ==
    LET older == [version |-> 1, questions |-> <<[id |-> "q1", text |-> "t1"], [id |-> "q2", text |-> "t2"]>>]
        newer == [version |-> 2, questions |-> <<[id |-> "q3", text |-> x.text], [id |-> "q4", text |-> "t1"]>>]
    IN  IF x.newerFirst THEN <<newer, older>> ELSE <<older, newer>>

AnswersInputs ==
    [kind : {"answers"}, newerFirst : BOOLEAN, text : {"t2", "t3"},
     answers : UNION {[K -> {"", "x", "y"}] : K \in (SUBSET {"q1", "q2"}) \cup (SUBSET {"q3", "q4"})}]

PagingInputs ==
    [kind : {"paging"}, at : [1..4 -> 1..2], read : [1..4 -> 1..3], batch : 1..2]

\* What is stored at each read of the export.
Stored(x) == [k \in 1..5 |-> {[id |-> i, at |-> x.at[i]] : i \in {j \in 1..4 : x.read[j] <= k}}]

-----------------------------------------------------------------------------
(***************************************************************************)
(* Response quality: up to four responses from two contacts.               *)
(***************************************************************************)
Answers == [{"f", "g"} -> {"", "dk", "x"}]
QualityInputs ==
    [kind : {"quality"}, sheets : UNION {[1..n -> [contact : {"c1", "c2"}, answers : {a \in Answers : a["g"] = "x"}]] : n \in 1..4}]

Submitted(x) ==
    [i \in DOMAIN x.sheets |->
        [id |-> <<"a1", "a2", "a3", "a4">>[i], contact |-> x.sheets[i].contact,
         answers |-> x.sheets[i].answers]]

Quality(x) == Boards!assessResponseQuality(Submitted(x), [minimum |-> 3, ratio |-> 40])

-----------------------------------------------------------------------------
(***************************************************************************)
(* Who does what: two steps of a workflow.                                 *)
(***************************************************************************)
\* Prepared by one, released by another.
Releases ==
    {<<"confirmReport", "approveReport", InOrganisation>>,
     <<"confirmReport", "rejectReport", InOrganisation>>,
     <<"publishSurvey", "approveSurvey", InOrganisation>>,
     <<"generateReview", "approveReview", Roles!LoginRoles>>,
     <<"publishReview", "approveReview", Roles!LoginRoles>>}

Steps ==
    {"createStudy", "createNeed", "classify", "approveDecision", "createEmptySurvey",
     "submitForApproval", "approveSurvey", "publishSurvey", "createLink", "scorePriority",
     "approvePriority", "uploadDocument", "generateDocumentSummary", "confirmDocumentSummary",
     "generateCombined", "confirmCombined", "confirmSummary", "createReport", "confirmReport",
     "approveReport", "exportReport", "requestStudy", "approveShare", "requestReport",
     "approveReportShare", "inviteUser", "assess"}

AccessInputs ==
    [kind : {"release"}, steps : Releases] \cup [kind : {"step"}, handler : Steps]

-----------------------------------------------------------------------------
Init ==
    /\ output = Pending
    /\ \/ input \in IndexInputs
       \/ input \in SheetInputs
       \/ input \in ReportInputs
       \/ input \in NcnpInputs
       \/ input \in FileInputs
       \/ input \in RowInputs
       \/ input \in AnswersInputs
       \/ input \in PagingInputs
       \/ input \in QualityInputs
       \/ input \in AccessInputs
       \/ input \in BoardInputs \/ input \in PortfolioInputs \/ input \in OverviewInputs
       \/ input \in QueueInputs \/ input \in CallInputs
       \/ input \in SegmentInputs \/ input \in ScaleInputs \/ input \in NoteInputs
       \/ input \in TableInputs \/ input \in ChunkInputs \/ input \in DocumentInputs

Answer(kind, value) ==
    /\ output = Pending /\ input.kind = kind
    /\ output' = <<value>>
    /\ UNCHANGED input

Next ==
    \/ Answer("index", Index(input))
    \/ Answer("sheet", Sheet(input))
    \/ Answer("report", Report(input))
    \/ Answer("ncnp", Ncnp!getReport(Db(input), 400, 30, 60))
    \/ Answer("file", [rows |-> Documents!parseCsvRows(Documents!Printed(input.rows), Documents!Comma),
                       line |-> Documents!parseCsvRow(Documents!Printed(<<input.rows[1]>>))])
    \/ Answer("row", Documents!StoredRow(input.title, input.village, input.reference))
    \/ Answer("answers", Exports!exportRow(input.answers, Versions(input)))
    \/ Answer("paging", Exports!iterateResponsesForExport(Stored(input), input.batch, 50).rows)
    \/ Answer("quality", Quality(input))
    \/ Answer("release", Roles!Staff(input.steps[1]) \cap Roles!Staff(input.steps[2]))
    \/ Answer("step", Roles!Staff(input.handler))
    \/ Answer("board", Board(input))
    \/ Answer("portfolio", Portfolio(input))
    \/ Answer("overview", Overview(input))
    \/ Answer("queue", QueueOf(input))
    \/ Answer("call", Roles!Passes(input))
    \/ Answer("segments", Reports!deriveEquityFlag(Segments(input), 10, 60))
    \/ Answer("scale", Scale(input))
    \/ Answer("notes", Notes(input))
    \/ Answer("table", Table(input))
    \/ Answer("chunks", Documents!splitChunks(input.text, input.size))
    \/ Answer("document", Documents!parseSurveyDocumentNeeds(input.file, input.answer))

Spec == Init /\ [][Next]_<<input, output>>

Answered(kind) == output # Pending /\ input.kind = kind
Result == output[1]

-----------------------------------------------------------------------------
\* A severity of any level lies between the least and the greatest of the
\* scores below it, so a question without a score moves nothing; the priority
\* score between the performances it is the weighted mean of; and no scope
\* with a critical domain below its threshold is shown as less than urgent.
\* (calculateRollups, computeVillagePriority, listForOrg)
LevelsWithin ==
    Answered("index") =>
        LET Scores(questions) == {r.severity : r \in {s \in RowsOf(input) : s.status = "SCORED"
                                     /\ \E q \in questions : q.id = s.question}}
            Between(severity, S) == IF S = {} THEN severity = Null ELSE severity \in Min(S) .. Max(S)
            worth == {Reports!Performance(Result.domains, c.domain) :
                         c \in Reports!Components(input.configs, Result.domains)}
        IN  /\ \A d \in DOMAIN Result.domains :
                  Between(Result.domains[d].severity, Scores({q \in IndexQuestions : q.domain = d}))
            /\ \A level \in {"kpi", "indicator", "subDomain"} : \A n \in DOMAIN Result.levels[level] :
                  Between(Result.levels[level][n].severity, Scores({q \in IndexQuestions : q[level] = n}))
            /\ Between(Result.overall.severity, Scores(IndexQuestions))
            /\ worth # {} => Reports!PriorityScore(input.configs, Result.domains) \in Min(worth) .. Max(worth)
            /\ \A c \in input.configs :
                  c.critical /\ Result.domains[c.domain].severity > 100 - c.threshold => Result.shown = "critical"
            /\ Result.shown # "critical" =>
                  LET printed == Reports!priorityStatusOf(Reports!PriorityScore(input.configs, Result.domains))
                  IN  Result.shown = [HIGH |-> "high", MEDIUM |-> "medium", LOW |-> "low"][printed]

\* An answer with an escape among its options counts nowhere, alone or with
\* others; what counts has a severity from 0 to 100; and a question that the
\* answers before it rule out counts nowhere either.  (calculateSeverity,
\* evaluateConditionalRule)
EscapesStayOut ==
    Answered("sheet") =>
        LET asked == IF input.operator = "IN" THEN "a" \in ToSet(input.parent)
                                              ELSE "a" \notin ToSet(input.parent)
        IN  /\ \A q \in {"p", "q"} : (Result[q].status = "SCORED") = (Result[q].severity \in 0..100)
            /\ "z" \in ToSet(input.parent) => Result["p"].status # "SCORED"
            /\ "z" \in ToSet(input.child)  => Result["q"].status # "SCORED"
            /\ ~asked => Result["q"].status # "SCORED"

\* The sections of a report tell one story: the coverage it is refused for
\* missing is met, every domain of the bank is either assessed or listed as
\* not assessed, what the domain tree says of a domain is what the rollups
\* say, whichever of the two ways it got there, and every measured need is in
\* exactly one place of the tree.  (buildUnifiedRpt01, buildNeedHierarchy,
\* composeExecutiveSummary, assertRpt01SelfConsistent)
SectionsAgree ==
    Answered("report") =>
        LET c == Result.content
            levels == ReportLevels(input)
        IN  /\ Reports!SelfConsistent(Result.coverage, c)
            /\ c.summary.assessed \cup c.notAssessed = Reports!AllDomains(Bank(input))
            /\ c.summary.assessed \cap c.notAssessed = {}
            /\ \A d \in DOMAIN c.tree \cap DOMAIN levels.domain :
                  c.tree[d].severity = levels.domain[d].severity
            /\ \A n \in c.records : Cardinality({d \in DOMAIN c.tree : n \in c.tree[d].needs}) = 1

\* Only what was measured is ranked, each need once, and none above one that
\* weighs more; without a required sample a need is marked as of low
\* confidence exactly when a reason is printed.  (rankPriorityNeeds,
\* buildNeedRecords)
OnlyMeasuredRank ==
    Answered("report") =>
        LET c == Result.content
            weight == Reports!Weights(c.records, ReportConfigs(input))
            Worth(n) == n.severity * weight[n.at.domain]
        IN  /\ ToSet(c.ranked) = {n \in c.records : n.severity # Null}
            /\ Len(c.ranked) = Cardinality(ToSet(c.ranked))
            /\ \A i, j \in DOMAIN c.ranked : i < j => Worth(c.ranked[i]) >= Worth(c.ranked[j])
            /\ input.required = Null => \A n \in c.records : n.low = (n.reasons # {})

\* Nothing outside the list of the most severe KPIs is worse than one inside;
\* what the notes call not measured is what is not ranked; and a KPI that is
\* doubted for its don't-knows is in no lower band than "elevated".  Needs of
\* one band are observed together, and more than a weak observation takes two
\* domains.  (mapTopKpis, composeDataQualityNotes, composeConfidenceReason,
\* composePatternAnalysis)
NotesMatchSections ==
    Answered("report") =>
        LET kpis == input.kpis
        IN  /\ \A k \in DOMAIN kpis \ ToSet(Result.top) : \A t \in ToSet(Result.top) :
                  kpis[k].severity <= kpis[t].severity
            /\ Result.notes.notMeasured \cup ToSet(Result.content.ranked) = Result.content.records
            /\ Result.notes.notMeasured \cap ToSet(Result.content.ranked) = {}
            /\ \A n \in Result.content.records : "dontKnow" \in n.reasons =>
                  Reports!dontKnowBandOf(kpis[n.kpi].dontKnow) \in {"elevated", "high"}
            /\ \A o \in Result.patterns.patterns : o.strength = "moderate" =>
                  Cardinality(DOMAIN Result.content.tree) >= 2 /\ Cardinality({n.at.domain : n \in o.needs}) >= 2
            /\ \A n, m \in ToSet(Result.content.ranked) :
                  n # m /\ Reports!severityBandOf(n.severity) = Reports!severityBandOf(m.severity) =>
                     \E o \in Result.patterns.patterns : o.kind = "band" /\ {n, m} \subseteq o.needs

\* The sections of a report agree with one another and rank what was measured,
\* its notes stand, and it claims of groups and of change what was measured.
\* (composeExecutiveSummary, rankPriorityNeeds, deriveEquityFlag)
ReportTellsOneStory ==
    /\ SectionsAgree /\ OnlyMeasuredRank /\ NotesMatchSections
    /\ Answered("segments") => EquityIsMeasured(input, Result)
    /\ Answered("scale")    => WorseIsNeverLess(input, Result)
    /\ Answered("notes")    => NotesStandOnce(input, Result)

\* The figures of the kingdom-wide report answer for one another: the villages
\* of the donut are those of the table, each with its newest assessment, and
\* every need is ranked once, by a row of its whole survey where there is one.
\* So do those of an organisation's dashboard, of a survey within it, and of
\* the supervisors' overview.  (buildPriorityOverview, buildCriticalNeeds,
\* getCollectiveDashboard, buildPortfolioBlock, getOverview)
FiguresReconcile ==
    /\ Answered("ncnp") => /\ Ncnp!VillagesOnce(input.sample, Result.overview.priorityOverview)
                           /\ Ncnp!NeedsRankedOnce(Surveys, input.sample, Needs, Result.criticalNeeds)
    /\ Answered("board")     => UrgentFirst(input, Result)
    /\ Answered("portfolio") => SharesAddUp(input, Result)
    /\ Answered("overview")  => OverviewReconciles(input, Result)

\* What the export of needs prints the import reads back, quotes, commas and
\* line breaks included; and a row that is imported again has the key of the
\* need that was stored of it, however its villages were spaced.  A row without
\* a line break reads the same for the lookups; a table, a sheet and a document
\* lose no need.  (exportCsv, parseCsvRows, parseCsvRow, dedupeKey)
FilesReadBack ==
    /\ Answered("file") =>
          /\ (\A k \in DOMAIN input.rows : \E i \in DOMAIN input.rows[k] : input.rows[k][i] # <<>>)
                => Result.rows = input.rows
          /\ (\A i \in DOMAIN input.rows[1] : ToSet(input.rows[1][i]) \cap {"cr", "lf"} = {})
                => Result.line = input.rows[1]
    /\ Answered("table")    => SameNeeds(input, Result)
    /\ Answered("chunks")   => ChunksKeepText(input, Result)
    /\ Answered("document") => DocumentsNumbered(input, Result)
    /\ Answered("row") /\ Documents!Importable([title |-> input.title, statement |-> input.title,
                                                village |-> input.village], 300)
          => Result.village # <<>> /\ <<>> \notin ToSet(Result.village)
    /\ Answered("row") => Documents!dedupeKey(input.title, input.village, input.reference)
                             = Documents!StoredKey(Result)

\* Whatever a citizen answered under any version stands in the row of the
\* response once, under the text of the question, and nothing else does; the
\* row names the version that was answered, and the response on its own shows
\* the same answers.  (groupQuestionsByText, resolveAnswerAcrossVersions,
\* resolveResponseVersion, toResponseDetail)
AnswersReadBack ==
    Answered("answers") =>
        LET questions == Exports!buildQuestionMap(Versions(input))
            given == {[text |-> questions[i].text, answer |-> input.answers[questions[i].id]] :
                         i \in {j \in DOMAIN questions : questions[j].id \in DOMAIN input.answers}}
            solid == {g \in given : g.answer # ""}
        IN  /\ {c \in ToSet(Result.cells) : c.answer # Exports!None} = solid
            /\ \A c, d \in DOMAIN Result.cells : Result.cells[c].text = Result.cells[d].text => c = d
            /\ \A q \in DOMAIN input.answers : (Result.version = 1) = (q \in {"q1", "q2"})
            /\ ToSet(Exports!toResponseDetail(input.answers, questions)) = given

\* An export holds every response that was stored when it began, none twice
\* and newest first, whatever is submitted meanwhile.
\* (iterateResponsesForExport)
ExportsComplete ==
    Answered("paging") =>
        /\ Stored(input)[1] \subseteq ToSet(Result)
        /\ \A i, j \in DOMAIN Result : i < j => Exports!Before(Result[i], Result[j])

\* What is printed can be read back: files, answers and whole exports.
\* (exportCsv, parseCsvRows, exportResponsesCsv)
RowsReadBack == FilesReadBack /\ AnswersReadBack /\ ExportsComplete

\* Every copy of a response names the one original, and of equal responses
\* exactly one is the original.  (assessResponseQuality)
OriginalsOnce == Answered("quality") => Boards!OriginalsOnce(Submitted(input), Result)

\* What one role prepares another one releases: nobody in an organisation both
\* confirms and approves a report or publishes and approves a survey, and
\* nobody at all both generates or publishes and approves the kingdom-wide
\* report.  (ROLE_MATRIX and the routes)
ReleaseTakesTwo == Answered("release") => Result \cap input.steps[3] = {}

\* Every step of the workflow of an organisation can be taken by somebody in
\* it.  (ROLE_MATRIX and the routes)
EveryStepStaffed == Answered("step") => Result \ Roles!CrossEntity # {}

\* The roles divide the work so that it takes two and can be done, whoever can
\* do it is shown it, and no session acts without its token.  (ROLE_MATRIX, the
\* routes, ReviewerSlaService, CsrfGuard)
RolesDivideTheWork ==
    /\ ReleaseTakesTwo /\ EveryStepStaffed
    /\ Answered("queue") => QueuesFollowRights(input, Result)
    /\ Answered("call")  => SessionsCarryToken(input, Result)
=============================================================================
