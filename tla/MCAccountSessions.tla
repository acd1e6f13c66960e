------------------------- MODULE MCAccountSessions -------------------------
(***************************************************************************)
(* Instances of AccountSessions.  The history variables tell whether       *)
(* anything has ever happened while another request was in flight, and how *)
(* many wrong passwords were given since the last right one.               *)
(***************************************************************************)
EXTENDS AccountSessions, TLC, FiniteSets

CONSTANT OverlapVersion   \* the bound on sessionVersion once requests overlap

VARIABLES overlapped, guesses

MCInit == Init /\ overlapped = FALSE /\ guesses = 0

InFlight == {w \in Workers : pc[w] # "idle"}

MCNext ==
    /\ Next
    /\ overlapped' = \/ overlapped \/ \E v, w \in InFlight' : v # w
                     \/ InFlight # {} /\ pc' = pc
    /\ guesses' = IF overlapped' \/ \E w \in Workers : RightPassword(w) THEN 0
                  ELSE IF \E w \in Workers : WrongPassword(w) THEN guesses + 1
                  ELSE guesses

MCSpec == MCInit /\ [][MCNext]_<<vars, overlapped, guesses>>

\* Bounds: tokens handed out, versions after an overlap.
Bounded ==
    /\ Cardinality(tokens) <= 2
    /\ overlapped => version <= OverlapVersion

WorkerSymmetry == Permutations(Workers) \cup Permutations(Links)

-----------------------------------------------------------------------------
(***************************************************************************)
(* What holds until requests overlap                                       *)
(***************************************************************************)

\* A token that is accepted dates from a password given since the sessions
\* were last ended.  (logout, changePassword, resetPassword, UsersService)
SessionsEnd == ~overlapped => EndedForGood

\* "only the link just emailed should be able to reset the password".
\* (forgotPassword)
OneOpenLink ==
    ~overlapped => \A q, r \in Links : link[q] = "open" /\ link[r] = "open" => q = r

\* What gave access once no longer does, when it was taken back.
\* (logout, forgotPassword)
CredentialsEnd == SessionsEnd /\ OneOpenLink

\* MAX_FAILED wrong passwords in a row lock the account, through every request
\* that is not a right password.
LockedAfterGuesses == guesses >= MaxFailed => lock # "none"

\* The lock and its counter agree however requests overlap, and guesses lock
\* the account.  (login)
LockHolds == LockMatchesCounter /\ LockedAfterGuesses

\* Only an administrator enables a disabled account again; what the user may
\* still do with old sessions or reset links does not.
OnlyAdminsEnable ==
    [][status = "disabled" /\ status' # "disabled" /\ ~overlapped'
            => \A w \in Workers : ~(Consent(w) \/ ChangePassword(w))]_vars

=============================================================================
