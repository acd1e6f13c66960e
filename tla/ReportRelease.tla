--------------------------- MODULE ReportRelease ---------------------------
(***************************************************************************)
(* One report of an organisation: an officer confirms it, a reviewer       *)
(* releases or rejects it, it is archived (ReportsService), and other      *)
(* organisations ask to see it (ReportSharingService).                     *)
(*                                                                         *)
(* Every handler reads the row in one transaction, decides by the status   *)
(* it found, and writes the row by its id in another.                      *)
(***************************************************************************)
EXTENDS Naturals

CONSTANTS
    Workers,    \* requests in flight at once
    Asks        \* sharing requests that may be made

VARIABLES
    status,     \* Report.status
    confirmed,  \* Report.officerConfirmedAt is set
    reviewed,   \* Report.reviewedAt is set
    archived,   \* Report.archivedAt is set
    ask,        \* the ReportSharingRequest rows and their status
    pc,         \* each worker's step
    about       \* the sharing request it decides

reportVars == <<status, confirmed, reviewed, archived>>
vars       == <<reportVars, ask, pc, about>>

Statuses == {"draft", "submitted", "released", "rejected", "archived"}

\* EXPORTABLE_STATUSES
Exportable == {"released", "archived"}

Steps == {"idle", "confirming", "approving", "rejecting", "archiving", "asking", "deciding"}

TypeOK ==
    /\ status \in Statuses
    /\ confirmed \in BOOLEAN /\ reviewed \in BOOLEAN /\ archived \in BOOLEAN
    /\ ask \in [Asks -> {"unused", "pending", "approved", "rejected"}]
    /\ pc \in [Workers -> Steps]
    /\ about \in [Workers -> SUBSET Asks]

Init ==
    /\ status = "draft"
    /\ confirmed = FALSE /\ reviewed = FALSE /\ archived = FALSE
    /\ ask = [q \in Asks |-> "unused"]
    /\ pc = [w \in Workers |-> "idle"]
    /\ about = [w \in Workers |-> {}]

-----------------------------------------------------------------------------
\* The row was read and its status allows the step.
Begin(w, step) ==
    /\ pc[w] = "idle"
    /\ pc' = [pc EXCEPT ![w] = step]
    /\ UNCHANGED <<reportVars, ask>>

Answer(w) ==
    /\ pc' = [pc EXCEPT ![w] = "idle"]
    /\ about' = [about EXCEPT ![w] = {}]

BeginConfirm(w) == status = "draft" /\ Begin(w, "confirming") /\ UNCHANGED about

Confirm(w) ==
    /\ pc[w] = "confirming"
    /\ status' = "submitted" /\ confirmed' = TRUE
    /\ UNCHANGED <<reviewed, archived, ask>>
    /\ Answer(w)

BeginApprove(w) == status = "submitted" /\ Begin(w, "approving") /\ UNCHANGED about

Approve(w) ==
    /\ pc[w] = "approving"
    /\ status' = "released" /\ reviewed' = TRUE
    /\ UNCHANGED <<confirmed, archived, ask>>
    /\ Answer(w)

BeginReject(w) == status = "submitted" /\ Begin(w, "rejecting") /\ UNCHANGED about

Reject(w) ==
    /\ pc[w] = "rejecting"
    /\ status' = "rejected" /\ reviewed' = TRUE
    /\ UNCHANGED <<confirmed, archived, ask>>
    /\ Answer(w)

BeginArchive(w) == status = "released" /\ Begin(w, "archiving") /\ UNCHANGED about

\* Faulty: a status the column does not have.
ArchiveUnknownStatus(w) ==
    /\ pc[w] = "archiving"
    /\ status' = "filed" /\ archived' = TRUE
    /\ UNCHANGED <<confirmed, reviewed, ask>>
    /\ Answer(w)

Archive(w) ==
    /\ pc[w] = "archiving"
    /\ status' = "archived" /\ archived' = TRUE
    /\ UNCHANGED <<confirmed, reviewed, ask>>
    /\ Answer(w)

-----------------------------------------------------------------------------
\* Faulty: a submitted report may be asked for.
BeginAskSubmitted(w) == status # "draft" /\ Begin(w, "asking") /\ UNCHANGED about

BeginAsk(w) == status \in Exportable /\ Begin(w, "asking") /\ UNCHANGED about

Ask(w) ==
    /\ pc[w] = "asking"
    /\ \E q \in Asks : ask[q] = "unused" /\ ask' = [ask EXCEPT ![q] = "pending"]
    /\ UNCHANGED reportVars
    /\ Answer(w)

\* The owner decides a request that is pending.
BeginDecide(w, q) ==
    /\ ask[q] = "pending"
    /\ Begin(w, "deciding")
    /\ about' = [about EXCEPT ![w] = {q}]

Decide(w) ==
    /\ pc[w] = "deciding"
    /\ \E verdict \in {"approved", "rejected"} :
          ask' = [q \in Asks |-> IF q \in about[w] THEN verdict ELSE ask[q]]
    /\ UNCHANGED reportVars
    /\ Answer(w)

\* A request is refused or fails before it writes.
Fail(w) == pc[w] # "idle" /\ Answer(w) /\ UNCHANGED <<reportVars, ask>>

Review(w) == \/ BeginConfirm(w) \/ Confirm(w) \/ BeginApprove(w) \/ Approve(w)
             \/ BeginReject(w) \/ Reject(w) \/ BeginArchive(w) \/ Archive(w)

Share(w) == \/ BeginAsk(w) \/ Ask(w) \/ Decide(w)
            \/ \E q \in Asks : BeginDecide(w, q)

Next == \E w \in Workers : Review(w) \/ Share(w) \/ Fail(w)

Spec == Init /\ [][Next]_vars

-----------------------------------------------------------------------------
(***************************************************************************)
(* What holds however requests overlap                                     *)
(***************************************************************************)

\* approve asks for the status only, not for the officer's fields ("this alone
\* is now sufficient"): whatever requests overlap, a report that has left draft
\* was confirmed, and one that can be exported was reviewed as well.
TwoSteps ==
    /\ status # "draft" => confirmed
    /\ status \in Exportable => reviewed

\* "sharing only ever starts from an already-approved report": who sees a
\* report of another organisation sees one that a reviewer has looked at, also
\* when its status has been overwritten since.  (getSharedSnapshot does not
\* look at the status)
SharedWasReviewed == \A q \in Asks : ask[q] # "unused" => confirmed /\ reviewed

=============================================================================
