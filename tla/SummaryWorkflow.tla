--------------------------- MODULE SummaryWorkflow ---------------------------
(***************************************************************************)
(* The narratives an AI writes about one survey and officers edit, confirm *)
(* and save: of its scores (ReportSummaryService), of a document           *)
(* (DocumentSummaryService), and of both (CombinedReportSummaryService);   *)
(* and the documents they summarise (EvidenceDocumentsService).            *)
(*                                                                         *)
(* Identifiers of narratives are numbers in the order of creation.  A      *)
(* request reads, waits for the AI, and writes, each in a transaction of   *)
(* its own; the score narratives' other handlers are one transaction.      *)
(***************************************************************************)
EXTENDS Naturals, FiniteSets

CONSTANTS
    Papers,         \* EvidenceDocument identifiers
    MaxNarratives,  \* bound: narratives ever written
    MaxFigures,     \* bound: how often the scores change
    Officers        \* requests in flight

VARIABLES
    parsing,    \* EvidenceDocument.parsingStatus, "none" without a row
    included,   \* EvidenceDocument.isIncludedInCombinedReport
    kind,       \* "score", "paper" or "combined"
    standing,   \* status of the narrative, "none" without a row
    subject,    \* the document it is about
    basis,      \* the score narrative a combined one starts from
    sources,    \* the document narratives a combined one draws on
    told,       \* the state of the scores a score narrative was written from
    figures,    \* the state of the scores now
    filed,      \* reports saved: does the narrative tell the figures printed?
    task        \* what each officer's request is about to do

narratives == <<kind, standing, subject, basis, sources, told>>
shelf == <<parsing, included, narratives, figures, filed>>
summaryVars == <<shelf, task>>

Ids == 1..MaxNarratives
Free == [step |-> "idle"]

Standings == {"none", "DRAFT", "OFFICER_CONFIRMED", "SAVED", "STALE", "SUPERSEDED"}

Tasks ==
    {Free}
      \cup [step : {"summarise"}, paper : Papers]
      \cup [step : {"toggle", "unconfirm", "delete"}, paper : Papers]
      \cup [step : {"narrate"}, figures : 0..MaxFigures]
      \cup [step : {"combine"}, score : Ids, of : SUBSET Ids]
      \cup [step : {"edit", "supersede", "confirm"}, id : Ids]
      \cup [step : {"file"}, told : 0..MaxFigures]

TypeOK ==
    /\ parsing \in [Papers -> {"none", "PARSED", "FAILED", "deleted"}]
    /\ included \in [Papers -> BOOLEAN]
    /\ kind \in [Ids -> {"score", "paper", "combined"}]
    /\ standing \in [Ids -> Standings]
    /\ subject \in [Ids -> SUBSET Papers]
    /\ basis \in [Ids -> SUBSET Ids]
    /\ sources \in [Ids -> SUBSET Ids]
    /\ told \in [Ids -> 0..MaxFigures]
    /\ figures \in 0..MaxFigures
    /\ filed \subseteq BOOLEAN
    /\ task \in [Officers -> Tasks]

Init ==
    /\ parsing = [d \in Papers |-> "none"]
    /\ included = [d \in Papers |-> TRUE]
    /\ kind = [i \in Ids |-> "score"]
    /\ standing = [i \in Ids |-> "none"]
    /\ subject = [i \in Ids |-> {}]
    /\ basis = [i \in Ids |-> {}]
    /\ sources = [i \in Ids |-> {}]
    /\ told = [i \in Ids |-> 0]
    /\ figures = 0
    /\ filed = {}
    /\ task = [o \in Officers |-> Free]

-----------------------------------------------------------------------------
Rows(k) == {i \in Ids : kind[i] = k /\ standing[i] # "none"}
Confirmed(k) == {i \in Rows(k) : standing[i] = "OFFICER_CONFIRMED"}
About(d) == {i \in Rows("paper") : subject[i] = {d}}
HasText(d) == parsing[d] = "PARSED"
Stored(d) == parsing[d] \in {"PARSED", "FAILED"}

\* The next identifier: larger than every one used.
Unused(i) == standing[i] = "none" /\ \A j \in Ids : standing[j] # "none" => j < i
Fresh == {i \in Ids : Unused(i) /\ \A j \in Ids : Unused(j) => i <= j}

Begin(o, t) == task[o] = Free /\ task' = [task EXCEPT ![o] = t] /\ UNCHANGED shelf
Goto(o, t)  == task' = [task EXCEPT ![o] = t]
Answer(o)   == task' = [task EXCEPT ![o] = Free]

Insert(i, k, about, on, drawn, of) ==
    /\ i \in Fresh
    /\ kind' = [kind EXCEPT ![i] = k]
    /\ subject' = [subject EXCEPT ![i] = about]
    /\ basis' = [basis EXCEPT ![i] = on]
    /\ sources' = [sources EXCEPT ![i] = drawn]
    /\ told' = [told EXCEPT ![i] = of]

Mark(ids, st) == standing' = [i \in Ids |-> IF i \in ids THEN st ELSE standing[i]]

\* The foreign keys delete what refers to a deleted row.
Erase(ids) ==
    LET gone == ids \cup {i \in Rows("combined") : basis[i] \cap ids # {}} IN
      /\ Mark(gone, "none")
      /\ sources' = [i \in Ids |-> IF i \in gone THEN {} ELSE sources[i] \ gone]

OnlyStanding == UNCHANGED <<parsing, included, kind, subject, basis, sources, told, figures, filed>>

-----------------------------------------------------------------------------
(***************************************************************************)
(* Documents.  A file without text is kept with its parse error.           *)
(***************************************************************************)
UploadDocument(d) ==
    /\ parsing[d] = "none"
    /\ \E outcome \in {"PARSED", "FAILED"} : parsing' = [parsing EXCEPT ![d] = outcome]
    /\ UNCHANGED <<included, narratives, figures, filed, task>>

BeginToggle(o, d) == Stored(d) /\ Begin(o, [step |-> "toggle", paper |-> d])

Toggle(o) ==
    /\ task[o].step = "toggle"
    /\ Stored(task[o].paper)
    /\ included' = [included EXCEPT ![task[o].paper] = ~@]
    /\ Goto(o, [step |-> "unconfirm", paper |-> task[o].paper])
    /\ UNCHANGED <<parsing, narratives, figures, filed>>

\* The study's confirmed combined narratives, in a transaction of its own.
Unconfirm(o) ==
    /\ task[o].step = "unconfirm"
    /\ Mark(Confirmed("combined"), "STALE")
    /\ OnlyStanding /\ Answer(o)

\* Faulty: any combined narrative but a confirmed one's draft keeps it.
BeginDeleteUnchecked(o, d) == Stored(d) /\ Begin(o, [step |-> "delete", paper |-> d])

\* Refused while a confirmed combined narrative draws on the document.
BeginDelete(o, d) ==
    /\ Stored(d)
    /\ \A i \in Confirmed("combined") : sources[i] \cap About(d) = {}
    /\ Begin(o, [step |-> "delete", paper |-> d])

Delete(o) ==
    /\ task[o].step = "delete"
    /\ Stored(task[o].paper)
    /\ parsing' = [parsing EXCEPT ![task[o].paper] = "deleted"]
    /\ Erase(About(task[o].paper))
    /\ UNCHANGED <<included, kind, subject, basis, told, figures, filed>>
    /\ Answer(o)

-----------------------------------------------------------------------------
(***************************************************************************)
(* Narratives of a document                                                *)
(***************************************************************************)
BeginSummarise(o, d) == HasText(d) /\ Begin(o, [step |-> "summarise", paper |-> d])

Summarise(o) ==
    /\ task[o].step = "summarise"
    /\ Stored(task[o].paper)
    /\ \E i \in Fresh :
          /\ Insert(i, "paper", {task[o].paper}, {}, {}, 0)
          /\ Mark({i}, "DRAFT")
    /\ UNCHANGED <<parsing, included, figures, filed>>
    /\ Answer(o)

-----------------------------------------------------------------------------
(***************************************************************************)
(* Combined narratives: a score narrative of the study, the latest one by  *)
(* default, and at least one selected identifier; of these the documents'  *)
(* latest narratives are used, whatever their status.                      *)
(***************************************************************************)
LatestOf(d) == {i \in About(d) : \A j \in About(d) : j <= i}

BeginCombine(o) ==
    \E s \in Rows("score"), chosen \in SUBSET Rows("paper") :
       /\ chosen # {}
       /\ Begin(o, [step |-> "combine", score |-> s,
                    of |-> chosen \cap UNION {LatestOf(d) : d \in Papers}])

Combine(o) ==
    /\ task[o].step = "combine"
    /\ standing[task[o].score] # "none"
    /\ task[o].of \subseteq Rows("paper")
    /\ \E i \in Fresh :
          /\ Insert(i, "combined", {}, {task[o].score}, task[o].of, 0)
          /\ Mark({i}, "DRAFT")
    /\ UNCHANGED <<parsing, included, figures, filed>>
    /\ Answer(o)

-----------------------------------------------------------------------------
(***************************************************************************)
(* Editing and confirming a document's or a combined narrative: an edit    *)
(* makes any of them a draft again, confirming first supersedes the        *)
(* confirmed one of the same document or study.                            *)
(***************************************************************************)
Peers(i) == {j \in Confirmed(kind[i]) : j # i /\ (kind[i] = "paper" => subject[j] = subject[i])}

BeginEdit(o) ==
    \E i \in Rows("paper") \cup Rows("combined"), step \in {"edit", "supersede"} :
       Begin(o, [step |-> step, id |-> i])

Edit(o) ==
    /\ task[o].step = "edit"
    /\ standing[task[o].id] # "none"
    /\ Mark({task[o].id}, "DRAFT")
    /\ OnlyStanding /\ Answer(o)

\* Faulty: nothing is superseded.
SupersedeNone(o) ==
    /\ task[o].step = "supersede"
    /\ Goto(o, [step |-> "confirm", id |-> task[o].id])
    /\ UNCHANGED shelf

Supersede(o) ==
    /\ task[o].step = "supersede"
    /\ Mark(Peers(task[o].id), "SUPERSEDED")
    /\ Goto(o, [step |-> "confirm", id |-> task[o].id])
    /\ OnlyStanding

Confirm(o) ==
    /\ task[o].step = "confirm"
    /\ standing[task[o].id] # "none"
    /\ Mark({task[o].id}, "OFFICER_CONFIRMED")
    /\ OnlyStanding /\ Answer(o)

-----------------------------------------------------------------------------
(***************************************************************************)
(* Narratives of the scores                                                *)
(***************************************************************************)
BeginNarrate(o) == Begin(o, [step |-> "narrate", figures |-> figures])

Narrate(o) ==
    /\ task[o].step = "narrate"
    /\ \E i \in Fresh :
          /\ Insert(i, "score", {}, {}, {}, task[o].figures)
          /\ standing' = [j \in Ids |->
                IF j = i THEN "DRAFT"
                ELSE IF j \in Rows("score") /\ standing[j] \in {"DRAFT", "STALE"} THEN "SUPERSEDED"
                ELSE standing[j]]
    /\ UNCHANGED <<parsing, included, figures, filed>>
    /\ Answer(o)

\* confirmSummary and saveSummary, from any status.
Settle(i) ==
    /\ i \in Rows("score")
    /\ \E st \in {"OFFICER_CONFIRMED", "SAVED"} : Mark({i}, st)
    /\ OnlyStanding /\ UNCHANGED task

\* toggleEvidenceInclusion of the needs' evidence.
EvidenceToggled ==
    /\ Mark({i \in Rows("score") : standing[i] \in {"DRAFT", "OFFICER_CONFIRMED"}}, "STALE")
    /\ OnlyStanding /\ UNCHANGED task

DeleteSavedSummary(i) ==
    /\ i \in Rows("score")
    /\ Erase({i})
    /\ UNCHANGED <<parsing, included, kind, subject, basis, told, figures, filed, task>>

\* The report prints the scores of now beside the narrative.
BeginFile(o) ==
    \E i \in Confirmed("score") : Begin(o, [step |-> "file", told |-> told[i]])

File(o) ==
    /\ task[o].step = "file"
    /\ filed' = filed \cup {task[o].told = figures}
    /\ UNCHANGED <<parsing, included, narratives, figures>>
    /\ Answer(o)

\* Responses are scored; nothing calls invalidateIfStale.
FiguresChange ==
    /\ figures < MaxFigures
    /\ figures' = figures + 1
    /\ UNCHANGED <<parsing, included, narratives, filed, task>>

\* A request is refused, fails, or its AI call does.
Fail(o) == task[o] # Free /\ Answer(o) /\ UNCHANGED shelf

-----------------------------------------------------------------------------
Request(o) ==
    \/ \E d \in Papers : BeginToggle(o, d) \/ BeginDelete(o, d) \/ BeginSummarise(o, d)
    \/ BeginCombine(o) \/ BeginEdit(o) \/ BeginNarrate(o) \/ BeginFile(o)

Write(o) ==
    \/ Toggle(o) \/ Unconfirm(o) \/ Delete(o) \/ Summarise(o) \/ Combine(o)
    \/ Edit(o) \/ Supersede(o) \/ Confirm(o) \/ Narrate(o) \/ File(o) \/ Fail(o)

Next ==
    \/ \E o \in Officers : Request(o) \/ Write(o)
    \/ \E d \in Papers : UploadDocument(d)
    \/ \E i \in Ids : Settle(i) \/ DeleteSavedSummary(i)
    \/ EvidenceToggled \/ FiguresChange

Spec == Init /\ [][Next]_summaryVars

-----------------------------------------------------------------------------
\* Until requests overlap, a document has at most one confirmed narrative and
\* the study at most one confirmed combined one.  (confirmSummary,
\* confirmCombinedSummary)
OneConfirmed == \A i \in Ids : standing[i] = "OFFICER_CONFIRMED" /\ kind[i] # "score" => Peers(i) = {}

\* While a combined narrative stays confirmed it keeps every document it draws
\* on.  (deleteDocument: "included in an officer-confirmed combined report")
ConfirmedKeepsSources(i) == i \in Confirmed("combined") /\ standing'[i] = "OFFICER_CONFIRMED"
                               => sources'[i] = sources[i]

=============================================================================
