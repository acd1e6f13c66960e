------------------------- MODULE NeedClassification -------------------------
(***************************************************************************)
(* The AI classification of one need and its human review                  *)
(* (AiDecisionsService), with the edits of NeedsService that start another *)
(* attempt.                                                                *)
(*                                                                         *)
(* Creating or editing a need fires an attempt nobody waits for.  An       *)
(* attempt reads the need in one transaction, calls the AI, and writes     *)
(* what came out in another one, by id.  A worker is a request or such an  *)
(* attempt in flight; transactions are READ COMMITTED, so reads and writes *)
(* of a handler are separate steps.  What surveys do with an approved need *)
(* is the subject of SurveyLifecycle.                                      *)
(***************************************************************************)
EXTENDS Naturals

CONSTANTS
    Workers,       \* requests and attempts in flight at once
    MaxEditions,   \* bound: versions of the need's text
    MaxDecisions   \* bound: AiDecision rows

ASSUME BoundsAssumption == MaxEditions \in Nat \ {0} /\ MaxDecisions \in Nat

VARIABLES
    status,      \* Need.status; no code path assigns the column's default, draft
    edition,     \* how often the statement has been written
    allDomains,  \* Need.allDomainsSelected
    domain,      \* where Need.domain / subDomain come from
    rows,        \* where the NeedDomain rows come from
    error,       \* Need.classificationError is set
    proposed,    \* Need.proposedDomains is set
    made,        \* AiDecision rows so far, the newest has this number
    about,       \* the edition a decision classified
    named,       \* its suggestion names a domain (the AI did not decline)
    human,       \* its humanDecision, "none" while undecided
    fired,       \* attempts that have been fired and have not started
    pc, seen, pick   \* each worker's step, the edition and decision it has read

needVars     == <<status, edition, allDomains, domain, rows, error, proposed>>
decisionVars == <<made, about, named, human>>
workerVars   == <<pc, seen, pick>>
vars         == <<needVars, decisionVars, fired, workerVars>>

Decisions == 1..MaxDecisions

TypeOK ==
    /\ status \in {"pending", "failed", "classified", "approved"}
    /\ edition \in 1..MaxEditions
    /\ allDomains \in BOOLEAN
    /\ domain \in {"none", "suggested", "override", "manual"}
    /\ rows \in {"none", "suggested", "override"}
    /\ error \in BOOLEAN
    /\ proposed \in BOOLEAN
    /\ made \in 0..MaxDecisions
    /\ about \in [Decisions -> 0..MaxEditions]
    /\ named \in [Decisions -> BOOLEAN]
    /\ human \in [Decisions -> {"none", "approved", "modified", "rejected"}]
    /\ fired \in Nat
    /\ pc \in [Workers -> {"idle", "editing", "retrying", "attempting", "awaitingAi",
                           "picking", "checking", "deciding", "selecting"}]
    /\ seen \in [Workers -> 0..MaxEditions]
    /\ pick \in [Workers -> 0..MaxDecisions]

\* NeedsService.create (or the import) has inserted the need.
Init ==
    /\ status = "pending"
    /\ edition = 1
    /\ allDomains = FALSE
    /\ domain = "none"
    /\ rows = "none"
    /\ error = FALSE
    /\ proposed = FALSE
    /\ made = 0
    /\ about = [d \in Decisions |-> 0]
    /\ named = [d \in Decisions |-> FALSE]
    /\ human = [d \in Decisions |-> "none"]
    /\ fired = 1
    /\ pc = [w \in Workers |-> "idle"]
    /\ seen = [w \in Workers |-> 0]
    /\ pick = [w \in Workers |-> 0]

-----------------------------------------------------------------------------
Goto(w, step) == pc' = [pc EXCEPT ![w] = step]

ReadOnly == UNCHANGED <<needVars, decisionVars, fired>>

\* A request answers, an attempt ends.
Answer(w) ==
    /\ Goto(w, "idle")
    /\ seen' = [seen EXCEPT ![w] = 0]
    /\ pick' = [pick EXCEPT ![w] = 0]

\* A handler has read and checked what it needs and goes on to its writes.
Begin(w, step) ==
    /\ pc[w] = "idle"
    /\ Goto(w, step)
    /\ ReadOnly /\ UNCHANGED <<seen, pick>>

Undecided(d) == d \in 1..made /\ human[d] = "none"

\* NEED_EDITABLE_STATUSES, and what an attempt accepts.
Editable == status \in {"pending", "failed"}

-----------------------------------------------------------------------------
(***************************************************************************)
(* NeedsService.update                                                     *)
(***************************************************************************)
BeginUpdate(w) == edition < MaxEditions /\ Editable /\ Begin(w, "editing")

\* A need whose classification is not there yet or is out of date is
\* classified again.
Update(w) ==
    /\ pc[w] = "editing"
    /\ edition < MaxEditions
    /\ edition' = edition + 1
    /\ fired' = IF Editable THEN fired + 1 ELSE fired
    /\ UNCHANGED <<status, allDomains, domain, rows, error, proposed, decisionVars>>
    /\ Answer(w)

-----------------------------------------------------------------------------
(***************************************************************************)
(* runAndPersistClassification                                             *)
(***************************************************************************)

\* An attempt that was fired starts.
StartAttempt(w) ==
    /\ pc[w] = "idle"
    /\ fired > 0
    /\ fired' = fired - 1
    /\ Goto(w, "attempting")
    /\ UNCHANGED <<needVars, decisionVars, seen, pick>>

\* It reads the need, or gives up: the need was classified in the meantime.
ReadNeed(w) ==
    /\ pc[w] = "attempting"
    /\ IF Editable
       THEN /\ Goto(w, "awaitingAi")
            /\ seen' = [seen EXCEPT ![w] = edition]
            /\ UNCHANGED pick
       ELSE Answer(w)
    /\ ReadOnly

\* The call failed for a technical reason.
Failed(w) ==
    /\ pc[w] = "awaitingAi"
    /\ status' = "failed"
    /\ error' = TRUE
    /\ UNCHANGED <<edition, allDomains, domain, rows, proposed, decisionVars, fired>>
    /\ Answer(w)

\* Faulty: a classification the AI is sure of needs no review.
ClassifiedApproves(w) ==
    /\ pc[w] = "awaitingAi"
    /\ made < MaxDecisions
    /\ made' = made + 1
    /\ about' = [about EXCEPT ![made + 1] = seen[w]]
    /\ named' = [named EXCEPT ![made + 1] = TRUE]
    /\ domain' = "suggested"
    /\ status' = "approved"
    /\ error' = FALSE
    /\ UNCHANGED <<edition, allDomains, rows, proposed, human, fired>>
    /\ Answer(w)

\* The AI has named a domain, or declined: then all of them are in scope.
Classified(w) ==
    /\ pc[w] = "awaitingAi"
    /\ made < MaxDecisions
    /\ made' = made + 1
    /\ about' = [about EXCEPT ![made + 1] = seen[w]]
    /\ \E n \in BOOLEAN :
         /\ named' = [named EXCEPT ![made + 1] = n]
         /\ allDomains' = ~n
    /\ status' = "classified"
    /\ error' = FALSE
    /\ UNCHANGED <<edition, domain, rows, proposed, human, fired>>
    /\ Answer(w)

-----------------------------------------------------------------------------
(***************************************************************************)
(* retryClassification and manualClassify, for a need whose attempt failed *)
(***************************************************************************)
BeginRetry(w) == status = "failed" /\ Begin(w, "retrying")

\* Faulty: retrying sets a status the column does not have.
RetryUnknownStatus(w) ==
    /\ pc[w] = "retrying"
    /\ status' = "retrying"
    /\ error' = FALSE
    /\ UNCHANGED <<edition, allDomains, domain, rows, proposed, decisionVars,
                   fired, seen, pick>>
    /\ Goto(w, "attempting")

Retry(w) ==
    /\ pc[w] = "retrying"
    /\ status' = "pending"
    /\ error' = FALSE
    /\ UNCHANGED <<edition, allDomains, domain, rows, proposed, decisionVars,
                   fired, seen, pick>>
    /\ Goto(w, "attempting")

BeginManual(w) == status = "failed" /\ Begin(w, "selecting")

ManualClassify(w) ==
    /\ pc[w] = "selecting"
    /\ domain' = "manual"
    /\ status' = "approved"
    /\ error' = FALSE
    /\ UNCHANGED <<edition, allDomains, rows, proposed, decisionVars, fired>>
    /\ Answer(w)

-----------------------------------------------------------------------------
(***************************************************************************)
(* approveAiReview and rejectAiReview: find the newest undecided decision, *)
(* check it and the need again in review's transaction, write both.        *)
(***************************************************************************)
BeginReview(w) == Begin(w, "picking")

PickDecision(w) ==
    /\ pc[w] = "picking"
    /\ IF \E d \in Decisions : Undecided(d)
       THEN /\ \E d \in Decisions :
                 /\ Undecided(d)
                 /\ \A e \in Decisions : Undecided(e) => e <= d
                 /\ pick' = [pick EXCEPT ![w] = d]
            /\ Goto(w, "checking")
            /\ UNCHANGED seen
       ELSE Answer(w)
    /\ ReadOnly

CheckDecision(w) ==
    /\ pc[w] = "checking"
    /\ IF human[pick[w]] = "none" /\ status = "classified"
       THEN Goto(w, "deciding") /\ UNCHANGED <<seen, pick>>
       ELSE Answer(w)
    /\ ReadOnly

\* Approved as suggested or with other domains: they replace the rows, unless
\* there are none because the AI had declined.
Approve(w) ==
    /\ pc[w] = "deciding"
    /\ status' = "approved"
    /\ proposed' = FALSE
    /\ \/ /\ human' = [human EXCEPT ![pick[w]] = "modified"]
          /\ domain' = "override" /\ rows' = "override" /\ allDomains' = FALSE
       \/ /\ human' = [human EXCEPT ![pick[w]] = "approved"]
          /\ named[pick[w]]
          /\ domain' = "suggested" /\ rows' = "suggested" /\ allDomains' = FALSE
       \/ /\ human' = [human EXCEPT ![pick[w]] = "approved"]
          /\ ~named[pick[w]]
          /\ UNCHANGED <<domain, rows, allDomains>>
    /\ UNCHANGED <<edition, error, made, about, named, fired>>
    /\ Answer(w)

\* Faulty: a rejection leaves the need's status to the survey's reject.
RejectDecisionOnly(w) ==
    /\ pc[w] = "deciding"
    /\ proposed' = FALSE
    /\ human' = [human EXCEPT ![pick[w]] = "rejected"]
    /\ UNCHANGED <<status, edition, allDomains, domain, rows, error, made, about,
                   named, fired>>
    /\ Answer(w)

Reject(w) ==
    /\ pc[w] = "deciding"
    /\ status' = "pending"
    /\ proposed' = FALSE
    /\ human' = [human EXCEPT ![pick[w]] = "rejected"]
    /\ UNCHANGED <<edition, allDomains, domain, rows, error, made, about, named, fired>>
    /\ Answer(w)

\* overrideDomainPreview stages a proposal, whatever the need's status.
PreviewOverride(w) ==
    /\ pc[w] = "idle"
    /\ proposed' = TRUE
    /\ UNCHANGED <<status, edition, allDomains, domain, rows, error, decisionVars,
                   fired, workerVars>>

-----------------------------------------------------------------------------
\* A request or an attempt dies at any point: a database error.
Fail(w) == pc[w] # "idle" /\ Answer(w) /\ ReadOnly

\* A restart forgets every request and every attempt.
Restart ==
    /\ fired' = 0
    /\ pc' = [w \in Workers |-> "idle"]
    /\ seen' = [w \in Workers |-> 0]
    /\ pick' = [w \in Workers |-> 0]
    /\ UNCHANGED <<needVars, decisionVars>>

Attempt(w) == StartAttempt(w) \/ ReadNeed(w) \/ Failed(w) \/ Classified(w)
Decide(w)  == PickDecision(w) \/ CheckDecision(w) \/ Approve(w) \/ Reject(w)
Request(w) == BeginUpdate(w) \/ Update(w) \/ BeginManual(w) \/ ManualClassify(w)
                \/ BeginReview(w) \/ PreviewOverride(w)
RetryFlow(w) == BeginRetry(w) \/ Retry(w)

Next == \/ \E w \in Workers :
              Attempt(w) \/ Decide(w) \/ Request(w) \/ RetryFlow(w) \/ Fail(w)
        \/ Restart

Spec == Init /\ [][Next]_vars

-----------------------------------------------------------------------------
(***************************************************************************)
(* What holds however attempts, edits and reviews overlap                  *)
(***************************************************************************)

\* The AI alone never approves a need: an approved need has a decision that a
\* human has approved or modified, or domains picked by hand, even after a
\* late reviewer has overwritten a decision.  (review, manualClassify)
ApprovedByAHuman ==
    status = "approved" =>
        \/ domain = "manual"
        \/ \E d \in 1..made : human[d] \in {"approved", "modified"}

\* A need that is shown as awaiting review can be reviewed: its newest
\* decision is undecided.  (latestUndecidedDecision finds it)
ClassifiedIsReviewable == status = "classified" => made > 0 /\ human[made] = "none"

=============================================================================
