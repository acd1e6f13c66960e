---------------------------- MODULE DocumentRows ----------------------------
(***************************************************************************)
(* How files become rows: the CSV reader and the document readers of the   *)
(* needs import (needs-import.parser.ts), the key that finds a duplicate   *)
(* (NeedsImportService), the lookup reader (PriorityService), the chunks   *)
(* of an evidence document; and the CSV that the exports print.            *)
(*                                                                         *)
(* A text is a sequence of characters of an alphabet in which only those   *)
(* that a reader treats differently are distinguished.                     *)
(***************************************************************************)
EXTENDS Naturals, Sequences, FiniteSets, SequencesExt, Ranking

Quote     == "quote"
Comma     == "comma"
Semicolon == "semicolon"
Tab       == "tab"
CR        == "cr"
LF        == "lf"
Space     == "space"

Blank == {Space, Tab, CR, LF}

\* String.prototype.trim
Trim(t) ==
    LET solid == {i \in DOMAIN t : t[i] \notin Blank}
    IN  IF solid = {} THEN <<>>
        ELSE SubSeq(t, CHOOSE i \in solid : \A j \in solid : i <= j,
                       CHOOSE i \in solid : \A j \in solid : j <= i)

CountIn(t, c) == Cardinality({i \in DOMAIN t : t[i] = c})

\* The text up to the first line break, quoted or not.
FirstLine(t) ==
    LET ends == {i \in DOMAIN t : t[i] \in {CR, LF}}
    IN  IF ends = {} THEN t ELSE SubSeq(t, 1, (CHOOSE i \in ends : \A j \in ends : i <= j) - 1)

detectDelimiter(line) ==
    LET commas     == CountIn(line, Comma)
        semicolons == CountIn(line, Semicolon)
        tabs       == CountIn(line, Tab)
    IN  IF semicolons > commas /\ semicolons > tabs THEN Semicolon
        ELSE IF tabs > commas /\ tabs > semicolons THEN Tab ELSE Comma

-----------------------------------------------------------------------------
(***************************************************************************)
(* The reader sees one character at a time.  "mode" is where it stands:    *)
(* outside quotes, inside, after a quote inside quotes (which may be the   *)
(* first of two), or after a carriage return (which may be one break with  *)
(* the line feed that follows).                                            *)
(***************************************************************************)
AtStart == [rows |-> <<>>, row |-> <<>>, cell |-> <<>>, mode |-> "plain"]

EndCell(r) == [r EXCEPT !.row = Append(@, Trim(r.cell)), !.cell = <<>>, !.mode = "plain"]
EndRow(r)  == LET e == EndCell(r) IN [e EXCEPT !.rows = Append(@, e.row), !.row = <<>>]
Take(r, c, mode) == [r EXCEPT !.cell = Append(@, c), !.mode = mode]

Quoted(r, c) == IF c = Quote THEN [r EXCEPT !.mode = "held"] ELSE Take(r, c, "quoted")

Outside(r, c, delimiter) ==
    CASE c = Quote     -> [r EXCEPT !.mode = "quoted"]
      [] c = delimiter -> EndCell(r)
      [] c = CR        -> [EndRow(r) EXCEPT !.mode = "return"]
      [] c = LF        -> IF r.mode = "return" THEN [r EXCEPT !.mode = "plain"] ELSE EndRow(r)
      [] OTHER         -> Take(r, c, "plain")

\* Faulty: a doubled quote is not an escape.
ReadUnescaped(r, c, delimiter) ==
    IF r.mode = "quoted" THEN Quoted(r, c) ELSE Outside(r, c, delimiter)

ReadCharacter(r, c, delimiter) ==
    IF r.mode = "quoted" THEN Quoted(r, c)
    ELSE IF r.mode = "held" /\ c = Quote THEN Take(r, Quote, "quoted")
    ELSE Outside(r, c, delimiter)

\* Rows whose cells are all empty are left out.
parseCsvRows(text, delimiter) ==
    LET end  == FoldLeft(LAMBDA r, c : ReadCharacter(r, c, delimiter), AtStart, text)
        last == IF end.cell # <<>> \/ end.row # <<>> THEN EndRow(end) ELSE end
    IN  Without(last.rows, {row \in ToSet(last.rows) : \A i \in DOMAIN row : row[i] = <<>>})

\* The header names the columns, each field by any of its aliases; rows are numbered from 2 among those kept.
parseCsvNeeds(text, columnOf, Fields) ==
    LET parsed == parseCsvRows(text, detectDelimiter(FirstLine(text)))
        Column(f) == LET at == {i \in DOMAIN parsed[1] : parsed[1][i] \in columnOf[f]}
                     IN  IF at = {} THEN 0 ELSE CHOOSE i \in at : \A j \in at : i <= j
        Cell(k, i) == IF i \in DOMAIN parsed[k] THEN parsed[k][i] ELSE <<>>
    IN  IF Len(parsed) < 2 THEN <<>>
        ELSE [k \in 1..Len(parsed) - 1 |->
                 [row  |-> k + 1,
                  cell |-> [f \in Fields |-> Cell(k + 1, Column(f))]]]

\* A spreadsheet keeps the number a row has in the sheet.
parseExcelNeeds(sheet) ==
    LET rows == [r \in 1..Len(sheet) - 1 |-> [row |-> r + 1, cell |-> sheet[r + 1]]]
    IN  Without(rows, {x \in ToSet(rows) : \A i \in DOMAIN x.cell : Trim(x.cell[i]) = <<>>})

\* parseCsvRow of the lookup import: a line at a time, quotes toggle.
parseCsvRow(line) ==
    LET end == FoldLeft(LAMBDA r, c : IF c \in {CR, LF} THEN Take(r, c, IF r.mode = "quoted" THEN "quoted" ELSE "plain")
                                      ELSE ReadCharacter(r, c, Comma), AtStart, line)
    IN  EndCell(end).row

-----------------------------------------------------------------------------
(***************************************************************************)
(* The exports (audit, system logs): every cell in quotes, quotes doubled, *)
(* rows ended by a line feed except the last.                              *)
(***************************************************************************)
Escaped(t) == <<Quote>> \o FlattenSeq([i \in DOMAIN t |->
                  IF t[i] = Quote THEN <<Quote, Quote>> ELSE <<t[i]>>]) \o <<Quote>>

Joined(parts, separator) ==
    FlattenSeq([i \in DOMAIN parts |-> IF i = 1 THEN parts[i] ELSE <<separator>> \o parts[i]])

Printed(rows) ==
    Joined([k \in DOMAIN rows |->
               Joined([i \in DOMAIN rows[k] |-> Escaped(rows[k][i])], Comma)], LF)

-----------------------------------------------------------------------------
(***************************************************************************)
(* Duplicates: a reference id, or the title and the set of the villages.   *)
(***************************************************************************)
Pieces(t, separators) ==
    LET Step(r, c) == IF c \in separators THEN [done |-> Append(r.done, Trim(r.now)), now |-> <<>>]
                      ELSE [r EXCEPT !.now = Append(@, c)]
        end == FoldLeft(Step, [done |-> <<>>, now |-> <<>>], t)
    IN  Without(Append(end.done, Trim(end.now)), {<<>>})

splitVillages(t) == Pieces(t, {Comma, Semicolon})

\* Faulty: the text is compared as it was written.
dedupeKeyAsWritten(title, village, reference) ==
    IF Trim(reference) # <<>> THEN <<"ref", Trim(reference)>>
    ELSE <<"title-village", Trim(title), village>>

\* Sorted, so the order does not matter; names repeated do.
dedupeKey(title, village, reference) ==
    LET names == splitVillages(village) IN
    IF Trim(reference) # <<>> THEN <<"ref", Trim(reference)>>
    ELSE <<"title-village", Trim(title),
           [n \in ToSet(names) |-> Cardinality({i \in DOMAIN names : names[i] = n})]>>

\* What is stored of a row, and the key its need has in the next import.
StoredRow(title, village, reference) ==
    [title |-> Trim(title), village |-> splitVillages(village), reference |-> Trim(reference)]

StoredKey(need) == dedupeKey(need.title, Joined(need.village, Comma), need.reference)

-----------------------------------------------------------------------------
(***************************************************************************)
(* Documents.  An item of the model's answer has the numbered parts that   *)
(* are found in its statement; with two or more each becomes a row.  A     *)
(* document without an answer is cut at its empty lines.                   *)
(***************************************************************************)
splitCombinedNeedItems(items) ==
    LET RowsOf(item) == IF Len(item.parts) > 1
                        THEN [i \in DOMAIN item.parts |->
                                 [title |-> item.parts[i], statement |-> item.parts[i]]]
                        ELSE <<[title |-> item.title, statement |-> item.statement]>>
        rows == FlattenSeq([i \in DOMAIN items |-> RowsOf(items[i])])
    IN  [i \in DOMAIN rows |->
            [row |-> i, title |-> rows[i].title, statement |-> rows[i].statement]]

Refusal == <<>>   \* no rows and an error

\* file: its kind, whether it can be read, its paragraphs; answer: the items
\* the model found, or none when it failed or is not configured.
parsePdfNeeds(file, answer) ==
    IF file.kind # "pdf" \/ ~file.readable \/ file.paragraphs = <<>> THEN Refusal
    ELSE splitCombinedNeedItems(IF answer # <<>> THEN answer ELSE file.paragraphs)

\* Without an answer every kind of file is read again as a PDF.
parseSurveyDocumentNeeds(file, answer) ==
    IF \/ file.kind \notin {"pdf", "docx", "doc", "xlsx", "xls", "csv", "txt"}
       \/ ~file.readable \/ file.paragraphs = <<>>
    THEN Refusal
    ELSE IF answer # <<>> THEN splitCombinedNeedItems(answer)
    ELSE parsePdfNeeds(file, answer)

\* validateRow
Importable(need, TitleLimit) ==
    /\ need.title # <<>> /\ Len(need.title) <= TitleLimit
    /\ need.statement # <<>>
    /\ splitVillages(need.village) # <<>>

\* splitChunks: pieces of one size, each trimmed.
splitChunks(text, size) ==
    [k \in 1..((Len(text) + size - 1) \div size) |->
        Trim(SubSeq(text, (k - 1) * size + 1,
                    IF k * size < Len(text) THEN k * size ELSE Len(text)))]

-----------------------------------------------------------------------------
=============================================================================
