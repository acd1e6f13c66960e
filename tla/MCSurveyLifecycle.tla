------------------------- MODULE MCSurveyLifecycle --------------------------
(***************************************************************************)
(* An instance of SurveyLifecycle: three survey rows of one need and two   *)
(* requests.  The history variable overlapped tells whether two requests   *)
(* have ever been in flight at once, for what the code keeps until then.   *)
(***************************************************************************)
EXTENDS SurveyLifecycle, TLC, FiniteSets

VARIABLE overlapped

InFlight == {w \in Workers : pc[w] # "idle"}

MCInit == Init /\ overlapped = FALSE

MCNext ==
    /\ Next
    /\ overlapped' = (overlapped \/ \E v, w \in InFlight' : v # w)

MCSpec == MCInit /\ [][MCNext]_<<vars, overlapped>>

\* Bounds: once requests overlap, two survey rows, and the sample description,
\* which is only written and copied, stays empty.
Bounded ==
    overlapped => /\ \A s \in Surveys : ~sample[s]
                  /\ Cardinality({s \in Surveys : Exists(s)}) <= 2

WorkerSymmetry == Permutations(Surveys) \cup Permutations(Workers)

-----------------------------------------------------------------------------
\* Until requests overlap, at most one survey of the need is being worked on
\* and no two have the same version.  (createEmptySurvey, createNewVersion)
OneAtATime == ~overlapped => OneWorkingVersion

\* Seen from the outside the surveys of a need behave as LiveSurvey says, as
\* long as requests do not overlap.  (publish, with the supersession)
OneLiveSurvey ==
    Live!Init /\ [][overlapped' \/ Live!Next]_(Live!vars)

=============================================================================
