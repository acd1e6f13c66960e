------------------------ MODULE MCNeedClassification ------------------------
(***************************************************************************)
(* Instances of NeedClassification.  The history variable overlapped tells *)
(* whether two requests or attempts have ever been in flight at once, for  *)
(* the properties that hold until then.                                    *)
(***************************************************************************)
EXTENDS NeedClassification, TLC

VARIABLE overlapped

CONSTANTS
    OverlapEditions, OverlapDecisions   \* the bounds once requests overlap

InFlight == {w \in Workers : pc[w] # "idle"}

MCInit == Init /\ overlapped = FALSE

MCNext ==
    /\ Next
    /\ overlapped' = (overlapped \/ \E v, w \in InFlight' : v # w)

MCSpec == MCInit /\ [][MCNext]_<<vars, overlapped>>

\* Bounds: attempts waiting to start, editions and decisions after an overlap.
Bounded ==
    /\ fired <= 2
    /\ overlapped => edition <= OverlapEditions /\ made <= OverlapDecisions

WorkerSymmetry == Permutations(Workers)

-----------------------------------------------------------------------------
(***************************************************************************)
(* What holds until requests or attempts overlap                           *)
(***************************************************************************)

\* The classification under review, or approved by review, is one of the text
\* the need has now.  (NEED_EDITABLE_STATUSES: no edit once it is classified)
ClassificationIsCurrent ==
    ~overlapped =>
        /\ status = "classified" => about[made] = edition
        /\ status = "approved" /\ domain # "manual" => about[made] = edition

\* An error message is shown exactly while the last attempt has failed.
\* (Need.classificationError)
ErrorExactlyWhenFailed == ~overlapped => (error <=> status = "failed")

\* Never two decisions wait for a reviewer.  (latestUndecidedDecision)
OneUndecided ==
    ~overlapped => \A d, e \in Decisions : Undecided(d) /\ Undecided(e) => d = e

\* What a reviewer is shown can be decided, however attempts overlap; and until
\* they do it is the one decision there is about the text as it reads.
\* (latestUndecidedDecision, review)
ReviewIsCurrent ==
    ClassifiedIsReviewable /\ ClassificationIsCurrent /\ ErrorExactlyWhenFailed /\ OneUndecided

=============================================================================
