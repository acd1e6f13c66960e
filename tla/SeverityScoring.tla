-------------------------- MODULE SeverityScoring --------------------------
(***************************************************************************)
(* What DeterministicScoringService makes of one sheet of answers.         *)
(*                                                                         *)
(* A question is a record [mode, scoreable, rule]; a row of its scoring    *)
(* lookup is [type, options, score, excluded, floor, ceiling, worsens],    *)
(* where options is the set of option identifiers its composite key stands *)
(* for and score is Null when the column is null.  Labels are already      *)
(* normalised: an option identifier stands for every label with that key.  *)
(***************************************************************************)
EXTENDS Integers, Sequences, SequencesExt

Null == -1

NonScoringModes == {"TEMPLATE_PATTERN", "METADATA_MODULE",
                    "PERSON_ROSTER_MODULE", "OPEN_TEXT", "DIAGNOSTIC"}
SetModes == {"MULTI_SELECT", "CHECKLIST_MATRIX"}

Missing == [options |-> <<>>, number |-> Null]

\* A raw answer is [labels, number]: what was chosen, and the number it reads
\* as, or Null.  Any mode but the set modes keeps one value.
Parse(raw, mode) ==
    IF raw.labels = <<>> THEN Missing
    ELSE CASE mode = "NUMERIC"  -> [Missing EXCEPT !.number = raw.number]
           [] mode \in SetModes -> [Missing EXCEPT !.options = raw.labels]
           [] OTHER             -> [Missing EXCEPT !.options = <<Head(raw.labels)>>]

-----------------------------------------------------------------------------
\* May the question be asked, given the other answers?  A rule is
\* [parent, operator, values]; a rule in prose, or without values, holds.
Applicable(rule, answers) ==
    \/ rule.operator \in {"NONE", "PROSE"}
    \/ /\ rule.parent \in DOMAIN answers
       /\ \/ rule.values = {}
          \/ (ToSet(answers[rule.parent].options) \cap rule.values # {})
                = (rule.operator = "IN")

-----------------------------------------------------------------------------
Scored(severity) == [status |-> "SCORED", severity |-> severity]
Without(status)  == [status |-> status, severity |-> Null]

Clamp(n) == IF n < 0 THEN 0 ELSE IF n > 100 THEN 100 ELSE n

\* The place of the number between floor and ceiling, from the mild end.
Numeric(a, rows) ==
    LET config == {l \in rows : l.type = "NUMERIC"} IN
      IF config = {} THEN Without("ERROR")
      ELSE LET l == CHOOSE x \in config : TRUE
               n == IF a.number = Null THEN l.floor ELSE a.number
           IN  Scored(Clamp((100 * (IF l.worsens = "HIGHER" THEN n - l.floor
                                                            ELSE l.ceiling - n))
                              \div (l.ceiling - l.floor)))

RowOf(option, rows) == {l \in rows : l.options = {option}}

\* Faulty: an escape takes the answer out only when it stands alone.
SetOfLoneEscape(a, mode, rows) ==
    LET own      == {l \in rows : l.type = IF mode = "CHECKLIST_MATRIX"
                                             THEN "CHECKLIST" ELSE "MULTI_SELECT"}
        escapes  == {l \in own : l.excluded /\ l.options = ToSet(a.options)}
        Worth(o) == IF RowOf(o, own) = {} THEN 0
                    ELSE LET l == CHOOSE x \in RowOf(o, own) : TRUE
                         IN  IF l.score = Null THEN 0 ELSE l.score
    IN  IF own = {} THEN Without("ERROR")
        ELSE IF escapes # {} THEN Without("EXCLUDED")
        ELSE IF \A o \in ToSet(a.options) : RowOf(o, own) = {} THEN Without("ERROR")
        ELSE Scored(Clamp(FoldLeft(LAMBDA sum, o : sum + Worth(o), 0, a.options)))

\* A selection scores as the composite it is, else as the capped sum of its
\* options; one escape ("don't know") takes the whole answer out.
SetOf(a, mode, rows) ==
    LET own       == {l \in rows : l.type = IF mode = "CHECKLIST_MATRIX"
                                              THEN "CHECKLIST" ELSE "MULTI_SELECT"}
        escapes   == {l \in own : l.excluded /\ \E o \in ToSet(a.options) : l.options = {o}}
        composite == {l \in own : /\ l.options = ToSet(a.options)
                                  /\ Cardinality(l.options) = Len(a.options)
                                  /\ l.score # Null}
        Worth(o)  == IF RowOf(o, own) = {} THEN 0
                     ELSE LET l == CHOOSE x \in RowOf(o, own) : TRUE
                          IN  IF l.score = Null THEN 0 ELSE l.score
    IN  IF own = {} THEN Without("ERROR")
        ELSE IF escapes # {} THEN Without("EXCLUDED")
        ELSE IF composite # {} THEN Scored((CHOOSE l \in composite : TRUE).score)
        ELSE IF \A o \in ToSet(a.options) : RowOf(o, own) = {} THEN Without("ERROR")
        ELSE Scored(Clamp(FoldLeft(LAMBDA sum, o : sum + Worth(o), 0, a.options)))

Single(a, mode, rows) ==
    LET match == {l \in RowOf(Head(a.options), rows) :
                     l.type = IF mode = "LIKERT_5" THEN "LIKERT" ELSE "OPTION"}
    IN  IF match = {} THEN Without("ERROR")
        ELSE LET l == CHOOSE x \in match : TRUE IN
               IF l.excluded THEN Without("EXCLUDED") ELSE Scored(l.score)

calculateSeverity(q, a, rows) ==
    CASE q.mode \in NonScoringModes -> Without("NOT_SCOREABLE")
      [] q.mode = "NUMERIC"         -> Numeric(a, rows)
      [] q.mode \in SetModes        -> SetOf(a, q.mode, rows)
      [] OTHER                      -> Single(a, q.mode, rows)

\* An excluded row of any type takes a single choice out.
OptionExcluded(q, a, rows) ==
    /\ q.mode \notin SetModes /\ a.options # <<>>
    /\ \E l \in RowOf(Head(a.options), rows) : l.excluded

\* scoreResponse, for one question of the sheet.
Outcome(q, questions, answers, rows) ==
    LET a == answers[q]
        d == questions[q]
    IN  IF ~Applicable(d.rule, answers) THEN Without("NOT_APPLICABLE")
        ELSE IF ~d.scoreable THEN Without("NOT_SCOREABLE")
        ELSE IF a = Missing \/ OptionExcluded(d, a, rows[q]) THEN Without("EXCLUDED")
        ELSE calculateSeverity(d, a, rows[q])

\* The answers are parsed before the first question is looked at.
ScoreSheet(questions, sheet, rows) ==
    LET answers == [q \in DOMAIN questions |-> Parse(sheet[q], questions[q].mode)]
    IN  [q \in DOMAIN questions |-> Outcome(q, questions, answers, rows)]

-----------------------------------------------------------------------------
(***************************************************************************)
(* uploadLookups: the lines of a file, each inserted or written over the   *)
(* row with its question, type and option.  A line is [question, type,     *)
(* option, values]; one without a question or a type is skipped.           *)
(***************************************************************************)
Blank == ""

KeyOf(line) == <<line.question, line.type, line.option>>

UpsertLine(table, line) ==
    IF line.question = Blank \/ line.type = Blank THEN table
    ELSE {l \in table : KeyOf(l) # KeyOf(line)} \cup {line}

InsertLine(table, line) ==   \* faulty: nothing is looked up first
    IF line.question = Blank \/ line.type = Blank THEN table ELSE table \cup {line}

uploadLookups(table, lines) == FoldLeft(UpsertLine, table, lines)

=============================================================================
