--------------------------- MODULE ResponseExport ---------------------------
(***************************************************************************)
(* What an organisation reads of the answers citizens gave                 *)
(* (PublicSurveysService): the list, one response, and the CSV and Excel   *)
(* exports, over the answers of every version of a survey.                 *)
(*                                                                         *)
(* A survey version is a record of its number, its status and the sequence *)
(* of its questions; a question has an id of its own version and a text    *)
(* that the next version copies.  The answers of a response are a function *)
(* of question ids; Blank stands for any text that trims to nothing.       *)
(***************************************************************************)
EXTENDS Naturals, Sequences, FiniteSets, FiniteSetsExt, SequencesExt, Ranking

Blank   == ""
None    == "none"

-----------------------------------------------------------------------------
\* Questions of all versions; the rows come in no particular order of versions.
buildQuestionMap(surveys) == FlattenSeq([i \in DOMAIN surveys |-> surveys[i].questions])

\* One column for each text: the id met first and the aliases it has in the
\* other versions.
groupQuestionsByText(questions) ==
    LET first == {i \in DOMAIN questions :
                     \A j \in 1 .. i - 1 : questions[j].text # questions[i].text}
        same(q) == Without(questions, {p \in ToSet(questions) : p.text # q.text})
        order == Ranked(first, {p \in first \X first : p[1] < p[2]})
    IN  [k \in DOMAIN order |->
            [text |-> questions[order[k]].text,
             ids  |-> LET twins == same(questions[order[k]])
                      IN  [i \in DOMAIN twins |-> twins[i].id]]]

\* The first of the ids that was answered.
resolveAnswerAcrossVersions(answers, ids) ==
    LET given == {i \in DOMAIN ids : ids[i] \in DOMAIN answers /\ answers[ids[i]] # Blank}
    IN  IF given = {} THEN None ELSE answers[ids[Min(given)]]

\* The version that owns most of the keys, the lowest one of several.
resolveResponseVersion(answers, surveys) ==
    LET Overlap(v) == Cardinality({q \in DOMAIN answers : \E p \in ToSet(v.questions) : p.id = q})
        best == {v \in ToSet(surveys) :
                   /\ Overlap(v) > 0
                   /\ \A w \in ToSet(surveys) :
                         Overlap(w) < Overlap(v) \/ (Overlap(w) = Overlap(v) /\ v.version <= w.version)}
    IN  IF best = {} THEN None ELSE (CHOOSE v \in best : TRUE).version

\* One response on its own: the questions it has a key for.
toResponseDetail(answers, questions) ==
    LET shown == Without(questions, {q \in ToSet(questions) : q.id \notin DOMAIN answers})
    IN  [i \in DOMAIN shown |-> [text |-> shown[i].text, answer |-> answers[shown[i].id]]]

\* One response as a row of the exports and, a column at a time, of the page
\* of one question.
exportRow(answers, surveys) ==
    LET columns == groupQuestionsByText(buildQuestionMap(surveys))
    IN  [version |-> resolveResponseVersion(answers, surveys),
         cells   |-> [k \in DOMAIN columns |->
                         [text   |-> columns[k].text,
                          answer |-> resolveAnswerAcrossVersions(answers, columns[k].ids)]]]

-----------------------------------------------------------------------------
(***************************************************************************)
(* An export reads in batches, newest first, each from the last row of the *)
(* batch before it on; citizens go on submitting while it does.            *)
(***************************************************************************)
Before(a, b) == a.at > b.at \/ (a.at = b.at /\ a.id > b.id)

\* Faulty: a batch skips as many rows as there have been.
BatchByOffset(export, table, take) ==
    LET order == Ranked(table, {p \in table \X table : Before(p[1], p[2])})
    IN  SubSeq(order, Len(export.rows) + 1, Min({Len(order), Len(export.rows) + take}))

Batch(export, table, take) ==
    LET rest  == {r \in table : export.rows = <<>> \/ Before(Last(export.rows), r)}
    IN  Leading(Ranked(rest, {p \in rest \X rest : Before(p[1], p[2])}), take)

\* Read by read over what the table holds at each.
iterateResponsesForExport(tables, batchSize, limit) ==
    LET Read(export, table) ==
            LET take  == Min({batchSize, limit - Len(export.rows)})
                batch == Batch(export, table, take)
            IN  IF export.done \/ take = 0 THEN export
                ELSE [rows |-> export.rows \o batch, done |-> Len(batch) < take]
    IN  FoldLeft(Read, [rows |-> <<>>, done |-> FALSE], tables)
=============================================================================
