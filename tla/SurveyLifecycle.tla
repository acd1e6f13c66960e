-------------------------- MODULE SurveyLifecycle ---------------------------
(***************************************************************************)
(* The surveys of one need: drafting, review, publication and versioning,  *)
(* as SurveysService runs them.                                            *)
(*                                                                         *)
(* A worker is one HTTP request in flight.  Transactions are READ          *)
(* COMMITTED and take no row locks on what they read, so every handler is  *)
(* split where another request can come between its reads and its writes:  *)
(* a Begin... action performs the reads and the checks, a later action     *)
(* performs the writes, which hit the row by id whatever its status has    *)
(* become.  The writes of one transaction are one step.                    *)
(*                                                                         *)
(* Of its questions a survey keeps whether it has Question Bank rows and   *)
(* whether it has additional rows; saving a list deletes the rows and      *)
(* inserts new ones even when it looks the same.                           *)
(***************************************************************************)
EXTENDS Naturals

CONSTANTS
    Surveys,    \* identifiers of survey rows, used or still free
    Workers,    \* requests that may be in flight at once
    NoSurvey    \* null in previousVersionId, and the target of an idle worker

ASSUME NoSurveyAssumption == NoSurvey \notin Surveys

VARIABLES
    status,       \* Survey.status, "ABSENT" while the identifier is free
    version,      \* Survey.version
    prev,         \* Survey.previousVersionId
    bank,         \* the survey has Question Bank rows
    custom,       \* the survey has additional question rows
    methodology,  \* Survey.methodologyVersion is set
    sample,       \* the four sample-description columns are set
    notes,        \* Survey.approverComments is set
    reason,       \* Survey.rejectionReasonCode is set
    approved,     \* Survey.approvedAt / approvedBy are set
    published,    \* Survey.publishedAt / publishedBy are set
    need,         \* Need.status, all statuses before a review in one
    pc,           \* the step each worker performs next
    target,       \* the survey each worker acts on
    copied        \* what createNewVersion has read of the survey it copies

content == <<bank, custom, methodology, sample>>
review  == <<notes, reason, approved, published>>
chain   == <<version, prev>>
vars    == <<status, chain, content, review, need, pc, target, copied>>

Statuses == {"ABSENT", "DRAFT", "SUBMITTED", "REJECTED", "APPROVED",
             "PUBLISHED", "SUPERSEDED"}
NeedStatuses == {"unreviewed", "reviewer_approved", "survey_created",
                 "survey_published"}
Steps == {"idle", "counting", "submitting", "approving", "publishing",
          "rejecting", "saving", "versioning", "methodology", "sample",
          "creating", "awaitingAi", "regenerating", "reviewing"}
Copies == [bank : BOOLEAN, custom : BOOLEAN, methodology : BOOLEAN,
           sample : BOOLEAN]
NothingCopied == [bank |-> FALSE, custom |-> FALSE, methodology |-> FALSE,
                  sample |-> FALSE]

TypeOK ==
    /\ status \in [Surveys -> Statuses]
    /\ version \in [Surveys -> Nat]
    /\ prev \in [Surveys -> Surveys \cup {NoSurvey}]
    /\ bank \in [Surveys -> BOOLEAN]
    /\ custom \in [Surveys -> BOOLEAN]
    /\ methodology \in [Surveys -> BOOLEAN]
    /\ sample \in [Surveys -> BOOLEAN]
    /\ notes \in [Surveys -> BOOLEAN]
    /\ reason \in [Surveys -> BOOLEAN]
    /\ approved \in [Surveys -> BOOLEAN]
    /\ published \in [Surveys -> BOOLEAN]
    /\ need \in NeedStatuses
    /\ pc \in [Workers -> Steps]
    /\ target \in [Workers -> Surveys \cup {NoSurvey}]
    /\ copied \in [Workers -> Copies]

Init ==
    /\ status = [s \in Surveys |-> "ABSENT"]
    /\ version = [s \in Surveys |-> 0]
    /\ prev = [s \in Surveys |-> NoSurvey]
    /\ bank = [s \in Surveys |-> FALSE]
    /\ custom = [s \in Surveys |-> FALSE]
    /\ methodology = [s \in Surveys |-> FALSE]
    /\ sample = [s \in Surveys |-> FALSE]
    /\ notes = [s \in Surveys |-> FALSE]
    /\ reason = [s \in Surveys |-> FALSE]
    /\ approved = [s \in Surveys |-> FALSE]
    /\ published = [s \in Surveys |-> FALSE]
    /\ need = "unreviewed"
    /\ pc = [w \in Workers |-> "idle"]
    /\ target = [w \in Workers |-> NoSurvey]
    /\ copied = [w \in Workers |-> NothingCopied]

-----------------------------------------------------------------------------
(***************************************************************************)
(* Helpers                                                                 *)
(***************************************************************************)

Exists(s) == status[s] # "ABSENT"

NoSurveyYet == \A s \in Surveys : ~Exists(s)

\* findFirst({ orderBy: { version: 'desc' } }): one of the newest rows.
IsLatest(s) ==
    /\ Exists(s)
    /\ \A t \in Surveys : Exists(t) => version[t] <= version[s]

\* assertEditable
Editable(st, allowWhileSubmitted) ==
    /\ st \notin {"ABSENT", "PUBLISHED", "APPROVED"}
    /\ st = "SUBMITTED" => allowWhileSubmitted

\* assertClassificationApproved
ClassificationApproved ==
    need \in {"reviewer_approved", "survey_created", "survey_published"}

\* A request has read what it needs and goes on to its writes.
Begin(w, step, s) ==
    /\ pc[w] = "idle"
    /\ pc' = [pc EXCEPT ![w] = step]
    /\ target' = [target EXCEPT ![w] = s]

\* A request answers.
Answer(w) ==
    /\ pc' = [pc EXCEPT ![w] = "idle"]
    /\ target' = [target EXCEPT ![w] = NoSurvey]
    /\ copied' = [copied EXCEPT ![w] = NothingCopied]

\* Insert a DRAFT row with its version, its predecessor and its content.
Insert(n, v, p, c) ==
    /\ status' = [status EXCEPT ![n] = "DRAFT"]
    /\ version' = [version EXCEPT ![n] = v]
    /\ prev' = [prev EXCEPT ![n] = p]
    /\ bank' = [bank EXCEPT ![n] = c.bank]
    /\ custom' = [custom EXCEPT ![n] = c.custom]
    /\ methodology' = [methodology EXCEPT ![n] = c.methodology]
    /\ sample' = [sample EXCEPT ![n] = c.sample]
    /\ UNCHANGED review

\* Nothing in the database changes.
ReadOnly == UNCHANGED <<status, chain, content, review, need>>

-----------------------------------------------------------------------------
(***************************************************************************)
(* Faulty variants of the actions below, one slip each: not part of Next.  *)
(* The properties are checked to notice every one of them.                 *)
(***************************************************************************)

\* The missing-row check is forgotten.
CreateEmptyUnchecked(w) ==
    /\ ClassificationApproved
    /\ Begin(w, "creating", NoSurvey)
    /\ UNCHANGED copied /\ ReadOnly

\* The copy keeps its version number.
NewVersionSameNumber(w) ==
    /\ pc[w] = "versioning"
    /\ \E n \in Surveys :
         /\ ~Exists(n)
         /\ \A t \in Surveys : prev[t] # target[w]
         /\ Insert(n, version[target[w]], target[w], copied[w])
    /\ UNCHANGED need
    /\ Answer(w)

\* The old version is superseded when the copy is made, not when it goes live.
NewVersionSupersedes(w) ==
    /\ pc[w] = "versioning"
    /\ \E n \in Surveys :
         /\ ~Exists(n)
         /\ \A t \in Surveys : prev[t] # target[w]
         /\ status' = [status EXCEPT ![n] = "DRAFT", ![target[w]] = "SUPERSEDED"]
         /\ version' = [version EXCEPT ![n] = version[target[w]] + 1]
         /\ prev' = [prev EXCEPT ![n] = target[w]]
    /\ UNCHANGED <<content, review, need>>
    /\ Answer(w)

\* The methodology gate is forgotten.
SubmitUngated(w, s) ==
    /\ status[s] \in {"DRAFT", "REJECTED"}
    /\ Begin(w, "counting", s)
    /\ UNCHANGED copied /\ ReadOnly

\* A submitted survey may be published without an approval.
PublishUnapproved(w, s) ==
    /\ status[s] \in {"SUBMITTED", "APPROVED"}
    /\ Begin(w, "publishing", s)
    /\ UNCHANGED copied /\ ReadOnly

\* The previous version is not superseded.
PublishBeside(w) ==
    /\ pc[w] = "publishing"
    /\ status' = [status EXCEPT ![target[w]] = "PUBLISHED"]
    /\ published' = [published EXCEPT ![target[w]] = TRUE]
    /\ need' = "survey_published"
    /\ UNCHANGED <<chain, content, notes, reason, approved>>
    /\ Answer(w)

\* The previous version is superseded even where there is none.
PublishSupersedesNull(w) ==
    /\ pc[w] = "publishing"
    /\ status' = [s \in Surveys \cup {prev[target[w]]} |->
                    IF s = target[w] THEN "PUBLISHED"
                    ELSE IF s = prev[target[w]] THEN "SUPERSEDED"
                    ELSE status[s]]
    /\ published' = [published EXCEPT ![target[w]] = TRUE]
    /\ need' = "survey_published"
    /\ UNCHANGED <<chain, content, notes, reason, approved>>
    /\ Answer(w)

-----------------------------------------------------------------------------
(***************************************************************************)
(* Creating a survey                                                       *)
(***************************************************************************)

\* createEmptySurvey: one transaction, but its reads come first.
BeginCreateEmpty(w) ==
    /\ ClassificationApproved
    /\ NoSurveyYet
    /\ Begin(w, "creating", NoSurvey)
    /\ UNCHANGED copied /\ ReadOnly

CreateEmpty(w) ==
    /\ pc[w] = "creating"
    /\ \E n \in Surveys : ~Exists(n) /\ Insert(n, 1, NoSurvey, NothingCopied)
    /\ need' = "survey_created"
    /\ Answer(w)

\* createNewVersion: reads the published survey with its questions ...
BeginNewVersion(w, s) ==
    /\ status[s] = "PUBLISHED"
    /\ \A t \in Surveys : prev[t] # s
    /\ Begin(w, "versioning", s)
    /\ copied' = [copied EXCEPT ![w] =
                    [bank |-> bank[s], custom |-> custom[s],
                     methodology |-> methodology[s], sample |-> sample[s]]]
    /\ ReadOnly

\* ... and inserts the copy.  The unique index on previousVersionId makes the
\* second of two concurrent inserts fail, which rolls its transaction back.
NewVersion(w) ==
    /\ pc[w] = "versioning"
    /\ LET s == target[w] IN
         IF \E t \in Surveys : prev[t] = s
         THEN ReadOnly
         ELSE /\ \E n \in Surveys :
                   /\ ~Exists(n)
                   /\ Insert(n, version[s] + 1, s, copied[w])
              /\ UNCHANGED need
    /\ Answer(w)

-----------------------------------------------------------------------------
(***************************************************************************)
(* Suggesting questions: check, a slow AI call, find the survey again      *)
(* without checking it again, replace its Question Bank rows.              *)
(***************************************************************************)

\* generateSuggestedQuestions, first transaction.  The caller's role decides
\* whether a SUBMITTED survey may be regenerated.
BeginSuggest(w) ==
    /\ \/ NoSurveyYet
       \/ \E s \in Surveys :
            /\ IsLatest(s)
            /\ status[s] # "PUBLISHED"
            /\ \E allowWhileSubmitted \in BOOLEAN :
                 status[s] = "SUBMITTED" => allowWhileSubmitted
    /\ Begin(w, "awaitingAi", NoSurvey)
    /\ UNCHANGED copied /\ ReadOnly

\* The AI has answered (or failed, with every eligible question as fallback).
SuggestFind(w) ==
    /\ pc[w] = "awaitingAi"
    /\ \/ NoSurveyYet /\ UNCHANGED target
       \/ \E s \in Surveys :
            IsLatest(s) /\ target' = [target EXCEPT ![w] = s]
    /\ pc' = [pc EXCEPT ![w] = "regenerating"]
    /\ UNCHANGED copied /\ ReadOnly

\* some = FALSE: no Question Bank entry matched the domain.
SuggestWrite(w) ==
    /\ pc[w] = "regenerating"
    /\ \E some \in BOOLEAN :
         \/ /\ target[w] = NoSurvey
            /\ \E n \in Surveys :
                 /\ ~Exists(n)
                 /\ Insert(n, 1, NoSurvey,
                           [bank |-> some, custom |-> FALSE,
                            methodology |-> TRUE, sample |-> FALSE])
         \/ /\ target[w] # NoSurvey
            /\ bank' = [bank EXCEPT ![target[w]] = some]
            /\ UNCHANGED <<status, chain, custom, methodology, sample, review>>
    /\ UNCHANGED need
    /\ Answer(w)

-----------------------------------------------------------------------------
(***************************************************************************)
(* Editing a survey                                                        *)
(***************************************************************************)

\* updateQuestions: everyone but the research officer may save while SUBMITTED.
BeginUpdateQuestions(w, s) ==
    /\ \E allowWhileSubmitted \in BOOLEAN :
         Editable(status[s], allowWhileSubmitted)
    /\ Begin(w, "saving", s)
    /\ UNCHANGED copied /\ ReadOnly

UpdateQuestions(w) ==
    /\ pc[w] = "saving"
    /\ \E b, c \in BOOLEAN :
         /\ bank' = [bank EXCEPT ![target[w]] = b]
         /\ custom' = [custom EXCEPT ![target[w]] = c]
    /\ UNCHANGED <<status, chain, methodology, sample, review, need>>
    /\ Answer(w)

BeginSetMethodology(w, s) ==
    /\ Editable(status[s], FALSE)
    /\ Begin(w, "methodology", s)
    /\ UNCHANGED copied /\ ReadOnly

SetMethodologyVersion(w) ==
    /\ pc[w] = "methodology"
    /\ methodology' = [methodology EXCEPT ![target[w]] = TRUE]
    /\ UNCHANGED <<status, chain, bank, custom, sample, review, need>>
    /\ Answer(w)

BeginSetSample(w, s) ==
    /\ Editable(status[s], FALSE)
    /\ Begin(w, "sample", s)
    /\ UNCHANGED copied /\ ReadOnly

SetSampleDescription(w) ==
    /\ pc[w] = "sample"
    /\ sample' = [sample EXCEPT ![target[w]] = TRUE]
    /\ UNCHANGED <<status, chain, bank, custom, methodology, review, need>>
    /\ Answer(w)

-----------------------------------------------------------------------------
(***************************************************************************)
(* Review and publication                                                  *)
(***************************************************************************)

\* submitForApproval reads the survey, then counts its questions, then writes:
\* three transactions.
BeginSubmit(w, s) ==
    /\ status[s] \in {"DRAFT", "REJECTED"}
    /\ methodology[s]
    /\ Begin(w, "counting", s)
    /\ UNCHANGED copied /\ ReadOnly

SubmitCount(w) ==
    /\ pc[w] = "counting"
    /\ IF ~bank[target[w]] /\ ~custom[target[w]]
       THEN Answer(w)
       ELSE /\ pc' = [pc EXCEPT ![w] = "submitting"]
            /\ UNCHANGED <<target, copied>>
    /\ ReadOnly

SubmitWrite(w) ==
    /\ pc[w] = "submitting"
    /\ status' = [status EXCEPT ![target[w]] = "SUBMITTED"]
    /\ notes' = [notes EXCEPT ![target[w]] = FALSE]
    /\ reason' = [reason EXCEPT ![target[w]] = FALSE]
    /\ UNCHANGED <<chain, content, approved, published, need>>
    /\ Answer(w)

\* approveSurvey: DRAFT is accepted too, for the AI review flow.
BeginApprove(w, s) ==
    /\ status[s] \in {"SUBMITTED", "DRAFT"}
    /\ Begin(w, "approving", s)
    /\ UNCHANGED copied /\ ReadOnly

ApproveWrite(w) ==
    /\ pc[w] = "approving"
    /\ status' = [status EXCEPT ![target[w]] = "APPROVED"]
    /\ approved' = [approved EXCEPT ![target[w]] = TRUE]
    /\ notes' = [notes EXCEPT ![target[w]] = TRUE]
    /\ UNCHANGED <<chain, content, reason, published, need>>
    /\ Answer(w)

BeginReject(w, s) ==
    /\ status[s] = "SUBMITTED"
    /\ Begin(w, "rejecting", s)
    /\ UNCHANGED copied /\ ReadOnly

RejectWrite(w) ==
    /\ pc[w] = "rejecting"
    /\ status' = [status EXCEPT ![target[w]] = "REJECTED"]
    /\ reason' = [reason EXCEPT ![target[w]] = TRUE]
    /\ notes' = [notes EXCEPT ![target[w]] = TRUE]
    /\ UNCHANGED <<chain, content, approved, published, need>>
    /\ Answer(w)

BeginPublish(w, s) ==
    /\ status[s] = "APPROVED"
    /\ Begin(w, "publishing", s)
    /\ UNCHANGED copied /\ ReadOnly

\* The survey goes live, the version it came from is superseded and the need
\* is marked, all in one transaction.
PublishWrite(w) ==
    /\ pc[w] = "publishing"
    /\ status' = [s \in Surveys |->
                    IF s = target[w] THEN "PUBLISHED"
                    ELSE IF s = prev[target[w]] THEN "SUPERSEDED"
                    ELSE status[s]]
    /\ published' = [published EXCEPT ![target[w]] = TRUE]
    /\ need' = "survey_published"
    /\ UNCHANGED <<chain, content, notes, reason, approved>>
    /\ Answer(w)

\* AiDecisionsService.review of the need's classification: its transaction
\* reads the need's status and then writes it.
BeginReview(w) ==
    /\ need = "unreviewed"
    /\ Begin(w, "reviewing", NoSurvey)
    /\ UNCHANGED copied /\ ReadOnly

ReviewWrite(w) ==
    /\ pc[w] = "reviewing"
    /\ need' \in {"reviewer_approved", "unreviewed"}
    /\ UNCHANGED <<status, chain, content, review>>
    /\ Answer(w)

\* A request dies between two transactions: a database error, a restart.
Fail(w) ==
    /\ pc[w] # "idle"
    /\ Answer(w)
    /\ ReadOnly

-----------------------------------------------------------------------------
Create(w)  == BeginCreateEmpty(w) \/ CreateEmpty(w) \/ NewVersion(w)
                \/ \E s \in Surveys : BeginNewVersion(w, s)
Suggest(w) == BeginSuggest(w) \/ SuggestFind(w) \/ SuggestWrite(w)
Edit(w)    == UpdateQuestions(w) \/ SetMethodologyVersion(w)
                \/ SetSampleDescription(w)
                \/ \E s \in Surveys : \/ BeginUpdateQuestions(w, s)
                                      \/ BeginSetMethodology(w, s)
                                      \/ BeginSetSample(w, s)
Decide(w)  == SubmitCount(w) \/ SubmitWrite(w) \/ ApproveWrite(w)
                \/ RejectWrite(w) \/ PublishWrite(w)
                \/ \E s \in Surveys : \/ BeginSubmit(w, s) \/ BeginApprove(w, s)
                                      \/ BeginReject(w, s) \/ BeginPublish(w, s)
Review(w)  == BeginReview(w) \/ ReviewWrite(w)

Next == \E w \in Workers :
            Create(w) \/ Suggest(w) \/ Edit(w) \/ Decide(w) \/ Review(w) \/ Fail(w)

Spec == Init /\ [][Next]_vars

-----------------------------------------------------------------------------
(***************************************************************************)
(* What holds whatever requests are in flight                              *)
(***************************************************************************)

\* The versions of a survey form chains that never branch: a row is a first
\* version, or the only successor of a row that has been published, one
\* version later.  (createNewVersion; Survey.previousVersionId @unique)
VersionChain ==
    \A s \in Surveys : Exists(s) =>
        IF prev[s] = NoSurvey THEN version[s] = 1
        ELSE /\ Exists(prev[s])
             /\ published[prev[s]]
             /\ version[s] = version[prev[s]] + 1
             /\ \A t \in Surveys \ {s} : prev[t] # prev[s]

\* Nothing goes live that no approver has approved, however late the publish
\* request lands.  (publishSurvey reads APPROVED and writes without rechecking)
PublishedWasApproved == \A s \in Surveys : published[s] => approved[s]

\* A survey is only retired for a newer version of it that has gone live.
\* (publishSurvey is the one place that supersedes)
RetiredHasSuccessor ==
    \A s \in Surveys : status[s] = "SUPERSEDED" =>
        \E t \in Surveys : prev[t] = s /\ published[t]

\* A survey under review or sent back has its methodology version, which
\* nothing takes away again.  (submitForApproval checks it two transactions
\* before it writes SUBMITTED)
ReviewedHasMethodology ==
    \A s \in Surveys : status[s] \in {"SUBMITTED", "REJECTED"} => methodology[s]

\* The outstanding note belongs to the status: a survey waiting for review
\* shows no feedback of an earlier round, a rejected one shows its reason and
\* an approved one the reviewer's notes.  (three handlers write these columns)
FeedbackMatchesStatus ==
    \A s \in Surveys :
        /\ status[s] = "SUBMITTED" => ~notes[s] /\ ~reason[s]
        /\ status[s] = "REJECTED" => notes[s] /\ reason[s]
        /\ status[s] = "APPROVED" => notes[s]

-----------------------------------------------------------------------------
(***************************************************************************)
(* What holds while requests on a need do not overlap                      *)
(***************************************************************************)

\* At most one survey of the need is still being worked on, and no two of its
\* surveys carry the same version, so "the latest version" names one row.
\* (createEmptySurvey, generateSuggestedQuestions and createNewVersion look
\* for an existing row before they insert one)
OneWorkingVersion ==
    \A s, t \in {r \in Surveys : Exists(r)} : s # t =>
        /\ version[s] # version[t]
        /\ {status[s], status[t]} \cap {"PUBLISHED", "SUPERSEDED"} # {}

\* Seen from the outside the surveys of a need behave as LiveSurvey says.
Live == INSTANCE LiveSurvey WITH
            live    <- {s \in Surveys : status[s] = "PUBLISHED"},
            retired <- {s \in Surveys : status[s] = "SUPERSEDED"}

-----------------------------------------------------------------------------
(***************************************************************************)
(* What the comments and the schema say of the code, and the code does not *)
(* keep                                                                    *)
(***************************************************************************)

\* A request deletes the question rows of a survey in this status and inserts
\* others.
ReplacesQuestions(w, st) ==
    /\ UpdateQuestions(w) \/ SuggestWrite(w)
    /\ target[w] # NoSurvey
    /\ status[target[w]] = st

\* "PUBLISHED is always terminal": a survey only leaves PUBLISHED when a newer
\* version supersedes it.  (comment of assertEditable)
PublishedIsTerminal ==
    [][\A s \in Surveys : status[s] = "PUBLISHED" =>
            status'[s] \in {"PUBLISHED", "SUPERSEDED"}]_vars

=============================================================================
