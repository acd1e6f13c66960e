----------------------------- MODULE LiveSurvey -----------------------------
(***************************************************************************)
(* What the rest of the platform relies on about the surveys of one need:  *)
(* citizen links, scoring, priorities and reports all look up "the"        *)
(* PUBLISHED survey.  At most one survey is live, a survey that has been   *)
(* retired never comes back, and once a first survey has gone live the     *)
(* need is never left without one.                                         *)
(***************************************************************************)
EXTENDS FiniteSets

CONSTANT Surveys

VARIABLES live, retired

vars == <<live, retired>>

Init == live = {} /\ retired = {}

(***************************************************************************)
(* A survey nobody has seen before goes live and takes the place of the    *)
(* live one, if there is one.                                              *)
(***************************************************************************)
GoLive(s) ==
    /\ s \notin live \cup retired
    /\ live' = {s}
    /\ retired' = retired \cup live

Next == \E s \in Surveys : GoLive(s)

Spec == Init /\ [][Next]_vars

=============================================================================
