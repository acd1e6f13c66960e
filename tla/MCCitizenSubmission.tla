------------------------ MODULE MCCitizenSubmission ------------------------
(***************************************************************************)
(* Instances of CitizenSubmission: the links of one need.                  *)
(***************************************************************************)
EXTENDS CitizenSubmission, TLC

CONSTANT n1

SameNeed == [l \in Links |-> n1]

PeopleSymmetry == Permutations(Contacts) \cup Permutations(Mobiles)
                    \cup Permutations(Challenges) \cup Permutations(Workers)
                    \cup Permutations(Links)

=============================================================================
