----------------------------- MODULE NcnpReview -----------------------------
(***************************************************************************)
(* The review of the compiled report over all organisations: a system      *)
(* administrator has a snapshot made, a system reviewer approves or        *)
(* rejects it, the administrator publishes it, and only then is it         *)
(* exported (NcnpReportReviewService).  The status is read in one          *)
(* transaction and written by id in another.  The report as it is now can  *)
(* be exported at any time, without a snapshot or a review                 *)
(* (NcnpReportService).                                                    *)
(***************************************************************************)
EXTENDS Naturals

CONSTANTS Snapshots, Desks   \* review rows, requests in flight

VARIABLES
    verdict,    \* NcnpReportReview.status, "none" without a row
    reviewedBy, \* reviewedAt is set
    publishedBy,\* publishedAt is set
    exported,   \* what was handed out: snapshots, and the live report
    desk        \* the write each request is about to make

ncnpVars == <<verdict, reviewedBy, publishedBy, exported, desk>>

Clear == [to |-> "idle"]

Live == "live"

Outcomes == {"approved", "rejected", "released"}

TypeOK ==
    /\ verdict \in [Snapshots -> {"none", "draft"} \cup Outcomes]
    /\ reviewedBy \in [Snapshots -> BOOLEAN] /\ publishedBy \in [Snapshots -> BOOLEAN]
    /\ exported \subseteq Snapshots \cup {Live}
    /\ desk \in [Desks -> {Clear} \cup [to : Outcomes, row : Snapshots]]

Init ==
    /\ verdict = [s \in Snapshots |-> "none"]
    /\ reviewedBy = [s \in Snapshots |-> FALSE]
    /\ publishedBy = [s \in Snapshots |-> FALSE]
    /\ exported = {}
    /\ desk = [d \in Desks |-> Clear]

-----------------------------------------------------------------------------
Generate(s) ==
    /\ verdict[s] = "none"
    /\ verdict' = [verdict EXCEPT ![s] = "draft"]
    /\ UNCHANGED <<reviewedBy, publishedBy, exported, desk>>

\* Faulty: a snapshot may be published before its review.
ReadyFromDraft(s, to) == verdict[s] = "draft"

\* A reviewer decides a draft, the administrator publishes what is approved.
Ready(s, to) == verdict[s] = IF to = "released" THEN "approved" ELSE "draft"

Begin(d, s) ==
    /\ desk[d] = Clear
    /\ \E to \in Outcomes : Ready(s, to) /\ desk' = [desk EXCEPT ![d] = [to |-> to, row |-> s]]
    /\ UNCHANGED <<verdict, reviewedBy, publishedBy, exported>>

Write(d) ==
    /\ desk[d] # Clear
    /\ LET s == desk[d].row
           published == desk[d].to = "released" IN
         /\ verdict' = [verdict EXCEPT ![s] = desk[d].to]
         /\ reviewedBy' = [reviewedBy EXCEPT ![s] = @ \/ ~published]
         /\ publishedBy' = [publishedBy EXCEPT ![s] = @ \/ published]
    /\ desk' = [desk EXCEPT ![d] = Clear]
    /\ UNCHANGED exported

Fail(d) ==
    /\ desk[d] # Clear
    /\ desk' = [desk EXCEPT ![d] = Clear]
    /\ UNCHANGED <<verdict, reviewedBy, publishedBy, exported>>

Export(s) ==
    /\ verdict[s] = "released"
    /\ exported' = exported \cup {s}
    /\ UNCHANGED <<verdict, reviewedBy, publishedBy, desk>>

\* Nothing but the permission to read is asked for.
ExportLive ==
    /\ exported' = exported \cup {Live}
    /\ UNCHANGED <<verdict, reviewedBy, publishedBy, desk>>

Next ==
    \/ ExportLive
    \/ \E s \in Snapshots : Generate(s) \/ Export(s)
    \/ \E d \in Desks : Write(d) \/ Fail(d) \/ \E s \in Snapshots : Begin(d, s)

Spec == Init /\ [][Next]_ncnpVars

-----------------------------------------------------------------------------
\* However decisions overlap, a snapshot that was handed out has been reviewed
\* and then published, and none is published that no reviewer has decided.
\* (The live report is exported without either.)
ExportedIsReviewed ==
    /\ \A s \in exported \ {Live} : reviewedBy[s] /\ publishedBy[s]
    /\ \A s \in Snapshots : publishedBy[s] => reviewedBy[s]

\* A released snapshot stays released.  (no handler starts from released)
ReleasedStays(s) == verdict[s] = "released" => verdict'[s] = "released"

=============================================================================
