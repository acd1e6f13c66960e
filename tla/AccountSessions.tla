-------------------------- MODULE AccountSessions --------------------------
(***************************************************************************)
(* One user account: login and its lockout, the sessions it hands out and  *)
(* what ends them, password changes, reset links, and what administrators  *)
(* do to the account (AuthService, JwtAuthGuard, and the account part of   *)
(* UsersService and OrganizationsService).                                 *)
(*                                                                         *)
(* Sessions are tokens that carry the account's sessionVersion; the guard  *)
(* of a request compares it with the database's, in a transaction of its   *)
(* own.  Every handler after it reads and writes in further transactions,  *)
(* with a password hash computed in between.  hash = "temporary" stands    *)
(* for mustChangePassword as well: both are always written together.       *)
(***************************************************************************)
EXTENDS Naturals

CONSTANTS
    Workers,       \* requests in flight at once
    Links,         \* password reset links that may be issued
    MaxFailed,     \* MAX_FAILED
    MaxAttempts,   \* bound: failedLoginAttempts
    MaxVersion     \* bound: sessionVersion

ASSUME BoundsAssumption ==
    /\ MaxFailed \in Nat \ {0}
    /\ MaxAttempts \in Nat /\ MaxAttempts >= MaxFailed
    /\ MaxVersion \in Nat

VARIABLES
    orgActive,   \* Organisation.isActive
    approved,    \* Organisation.approvedAt is set
    status,      \* User.status
    hash,        \* what User.passwordHash is the hash of
    attempts,    \* User.failedLoginAttempts
    lock,        \* User.lockedUntil: not set, in the future, in the past
    version,     \* User.sessionVersion
    link,        \* the PasswordResetToken rows
    tokens,      \* session tokens handed out
    pc,          \* each worker's step
    basis,       \* the version it has read, or the one its session dates from
    counted,     \* the attempts it has read
    held         \* the reset links it has read

orgVars     == <<orgActive, approved>>
loginVars   == <<attempts, lock>>
accountVars == <<status, hash, version>>
workerVars  == <<pc, basis, counted, held>>
vars        == <<orgVars, loginVars, accountVars, link, tokens, workerVars>>

Statuses == {"invited", "active", "disabled"}

Steps == {"idle", "verifying", "refusing", "refreshing", "leaving", "consenting",
          "changing", "rewriting", "forgetting", "issuing", "resetting",
          "provisioning", "approving"}

\* A session token: its sessionVersion claim, and the version at which its
\* holder last gave a password.
Tokens == [ver : 0..MaxVersion, since : 0..MaxVersion]

TypeOK ==
    /\ orgActive \in BOOLEAN /\ approved \in BOOLEAN
    /\ status \in Statuses
    /\ hash \in {"none", "temporary", "chosen"}
    /\ attempts \in 0..MaxAttempts
    /\ lock \in {"none", "running", "over"}
    /\ version \in 0..MaxVersion
    /\ link \in [Links -> {"unused", "open", "expired", "consumed"}]
    /\ tokens \subseteq Tokens
    /\ pc \in [Workers -> Steps]
    /\ basis \in [Workers -> 0..MaxVersion]
    /\ counted \in [Workers -> 0..MaxAttempts]
    /\ held \in [Workers -> SUBSET Links]

\* The administrator of an organisation that has signed up, or a user invited
\* to an active one, before or after the invitation's password was stored.
Init ==
    /\ orgActive \in BOOLEAN /\ approved = orgActive
    /\ status = IF approved THEN "invited" ELSE "active"
    /\ hash \in IF approved THEN {"none", "temporary"} ELSE {"temporary"}
    /\ attempts = 0 /\ lock = "none"
    /\ version = 0
    /\ link = [r \in Links |-> "unused"]
    /\ tokens = {}
    /\ pc = [w \in Workers |-> "idle"]
    /\ basis = [w \in Workers |-> 0]
    /\ counted = [w \in Workers |-> 0]
    /\ held = [w \in Workers |-> {}]

-----------------------------------------------------------------------------
Goto(w, step) == pc' = [pc EXCEPT ![w] = step]

\* A request ends and forgets what it has read.
Answer(w) ==
    /\ Goto(w, "idle")
    /\ basis' = [basis EXCEPT ![w] = 0]
    /\ counted' = [counted EXCEPT ![w] = 0]
    /\ held' = [held EXCEPT ![w] = {}]

ReadOnly == UNCHANGED <<orgVars, loginVars, accountVars, link, tokens>>

\* A request has passed the first checks of its handler.
Begin(w, step) ==
    /\ pc[w] = "idle"
    /\ Goto(w, step)
    /\ ReadOnly

\* Faulty: the guard accepts any token of an active organisation.
ValidAnyVersion(t) == orgActive

\* The guard accepts a token of the current version.
Valid(t) == t.ver = version /\ orgActive

\* A request has passed the guard.
Enter(w, step) ==
    /\ \E t \in tokens : Valid(t) /\ basis' = [basis EXCEPT ![w] = t.since]
    /\ Begin(w, step)
    /\ UNCHANGED <<counted, held>>

\* The sessions handed out so far are of an older version from here on.
EndSessions == version < MaxVersion /\ version' = version + 1

-----------------------------------------------------------------------------
(***************************************************************************)
(* login                                                                   *)
(***************************************************************************)
BeginLogin(w) ==
    /\ hash # "none"
    /\ lock # "running"
    /\ Begin(w, IF status # "disabled" /\ orgActive THEN "verifying" ELSE "refusing")
    /\ basis' = [basis EXCEPT ![w] = version]
    /\ counted' = [counted EXCEPT ![w] = attempts]
    /\ UNCHANGED held

\* Writes one more than it has read, and with it whether the account is locked.
WrongPassword(w) ==
    /\ pc[w] \in {"verifying", "refusing"}
    /\ counted[w] < MaxAttempts
    /\ attempts' = counted[w] + 1
    /\ lock' = IF counted[w] + 1 >= MaxFailed THEN "running" ELSE "none"
    /\ UNCHANGED <<orgVars, accountVars, link, tokens>>
    /\ Answer(w)

\* Faulty: the counter starts again, the lock stays.
RightPasswordKeepsLock(w) ==
    /\ pc[w] = "verifying"
    /\ attempts' = 0
    /\ tokens' = tokens \cup {[ver |-> basis[w], since |-> basis[w]]}
    /\ UNCHANGED <<lock, orgVars, accountVars, link>>
    /\ Answer(w)

\* The token is signed after an audit record, which may fail.
RightPassword(w) ==
    /\ pc[w] = "verifying"
    /\ attempts' = 0 /\ lock' = "none"
    /\ \/ tokens' = tokens \cup {[ver |-> basis[w], since |-> basis[w]]}
       \/ UNCHANGED tokens
    /\ UNCHANGED <<orgVars, accountVars, link>>
    /\ Answer(w)

LockExpires ==
    /\ lock = "running"
    /\ lock' = "over"
    /\ UNCHANGED <<attempts, orgVars, accountVars, link, tokens, workerVars>>

-----------------------------------------------------------------------------
(***************************************************************************)
(* me, logout and consent: requests with a session                         *)
(***************************************************************************)

\* Faulty: me does not look at the status again.
RefreshDisabled(w) ==
    /\ pc[w] = "refreshing"
    /\ tokens' = IF orgActive THEN tokens \cup {[ver |-> version, since |-> basis[w]]}
                 ELSE tokens
    /\ UNCHANGED <<orgVars, loginVars, accountVars, link>>
    /\ Answer(w)

\* me reads the account again and signs a token of the version it finds.
Refresh(w) ==
    /\ pc[w] = "refreshing"
    /\ tokens' = IF status # "disabled" /\ orgActive
                 THEN tokens \cup {[ver |-> version, since |-> basis[w]]}
                 ELSE tokens
    /\ UNCHANGED <<orgVars, loginVars, accountVars, link>>
    /\ Answer(w)

Logout(w) ==
    /\ pc[w] = "leaving"
    /\ EndSessions
    /\ UNCHANGED <<orgVars, loginVars, status, hash, link, tokens>>
    /\ Answer(w)

\* Faulty: onboarding ends in a status the column does not have.
ConsentUnknownStatus(w) ==
    /\ pc[w] = "consenting"
    /\ status' = "onboarded"
    /\ UNCHANGED <<orgVars, loginVars, hash, version, link, tokens>>
    /\ Answer(w)

\* Accepting the policies completes the onboarding.
Consent(w) ==
    /\ pc[w] = "consenting"
    /\ status' = "active"
    /\ UNCHANGED <<orgVars, loginVars, hash, version, link, tokens>>
    /\ Answer(w)

-----------------------------------------------------------------------------
(***************************************************************************)
(* changePassword                                                          *)
(***************************************************************************)

\* The current password is right and the organisation active.
VerifyCurrent(w) ==
    /\ pc[w] = "changing"
    /\ hash # "none" /\ orgActive
    /\ Goto(w, "rewriting")
    /\ ReadOnly
    /\ UNCHANGED <<basis, counted, held>>

ChangePassword(w) ==
    /\ pc[w] = "rewriting"
    /\ EndSessions
    /\ hash' = "chosen"
    /\ status' = "active"
    /\ \/ tokens' = tokens \cup {[ver |-> version', since |-> version']}
       \/ UNCHANGED tokens
    /\ UNCHANGED <<orgVars, loginVars, link>>
    /\ Answer(w)

-----------------------------------------------------------------------------
(***************************************************************************)
(* forgotPassword and resetPassword                                        *)
(***************************************************************************)
BeginForgot(w) ==
    /\ hash # "none" /\ orgActive
    /\ Begin(w, "forgetting")
    /\ UNCHANGED <<basis, counted, held>>

\* The first statement of the transaction sees the links committed so far.
FindOldLinks(w) ==
    /\ pc[w] = "forgetting"
    /\ held' = [held EXCEPT ![w] = {r \in Links : link[r] \in {"open", "expired"}}]
    /\ Goto(w, "issuing")
    /\ ReadOnly
    /\ UNCHANGED <<basis, counted>>

IssueLink(w) ==
    /\ pc[w] = "issuing"
    /\ \E new \in Links :
         /\ link[new] = "unused"
         /\ link' = [r \in Links |-> IF r = new THEN "open"
                                     ELSE IF r \in held[w] THEN "consumed" ELSE link[r]]
    /\ UNCHANGED <<orgVars, loginVars, accountVars, tokens>>
    /\ Answer(w)

BeginReset(w, r) ==
    /\ link[r] = "open"
    /\ Begin(w, "resetting")
    /\ held' = [held EXCEPT ![w] = {r}]
    /\ UNCHANGED <<basis, counted>>

ResetPassword(w) ==
    /\ pc[w] = "resetting"
    /\ EndSessions
    /\ hash' = "chosen"
    /\ link' = [r \in Links |-> IF r \in held[w] THEN "consumed" ELSE link[r]]
    /\ UNCHANGED <<orgVars, loginVars, status, tokens>>
    /\ Answer(w)

LinkExpires(r) ==
    /\ link[r] = "open"
    /\ link' = [link EXCEPT ![r] = "expired"]
    /\ UNCHANGED <<orgVars, loginVars, accountVars, tokens, workerVars>>

-----------------------------------------------------------------------------
(***************************************************************************)
(* Administrators                                                          *)
(***************************************************************************)

\* Faulty: the sessions of the user go on.
UpdateUserKeepsSessions ==
    /\ status' \in Statuses
    /\ UNCHANGED <<orgVars, loginVars, hash, version, link, tokens, workerVars>>

\* An administrator sets the status or the role: whatever is written, also
\* when it is what was there, ends the sessions.
UpdateUser ==
    /\ EndSessions
    /\ status' \in Statuses
    /\ UNCHANGED <<orgVars, loginVars, hash, link, tokens, workerVars>>

BeginResend(w) ==
    /\ status = "invited" /\ orgActive
    /\ Begin(w, "provisioning")
    /\ UNCHANGED <<basis, counted, held>>

ProvisionPassword(w) ==
    /\ pc[w] = "provisioning"
    /\ hash' = "temporary"
    /\ UNCHANGED <<orgVars, loginVars, status, version, link, tokens>>
    /\ Answer(w)

BeginApprove(w) ==
    /\ ~approved
    /\ Begin(w, "approving")
    /\ UNCHANGED <<basis, counted, held>>

Approve(w) ==
    /\ pc[w] = "approving"
    /\ orgActive' = TRUE /\ approved' = TRUE
    /\ hash' = "temporary"
    /\ UNCHANGED <<loginVars, status, version, link, tokens>>
    /\ Answer(w)

SetOrgActive ==
    /\ orgActive' \in BOOLEAN
    /\ UNCHANGED <<approved, loginVars, accountVars, link, tokens, workerVars>>

-----------------------------------------------------------------------------
\* A request is refused or fails before it writes.
Fail(w) == pc[w] # "idle" /\ Answer(w) /\ ReadOnly

Login(w)   == BeginLogin(w) \/ WrongPassword(w) \/ RightPassword(w)
Session(w) == \/ \E step \in {"refreshing", "leaving", "consenting", "changing"} :
                     Enter(w, step)
              \/ Refresh(w) \/ Logout(w) \/ Consent(w)
              \/ VerifyCurrent(w) \/ ChangePassword(w)
Recover(w) == \/ BeginForgot(w) \/ FindOldLinks(w) \/ IssueLink(w)
              \/ ResetPassword(w) \/ \E r \in Links : BeginReset(w, r)
Administer(w) == BeginResend(w) \/ ProvisionPassword(w) \/ BeginApprove(w) \/ Approve(w)

Next ==
    \/ \E w \in Workers :
          Login(w) \/ Session(w) \/ Recover(w) \/ Administer(w) \/ Fail(w)
    \/ UpdateUser \/ SetOrgActive
    \/ LockExpires \/ \E r \in Links : LinkExpires(r)

Spec == Init /\ [][Next]_vars

-----------------------------------------------------------------------------
(***************************************************************************)
(* What holds however requests overlap                                     *)
(***************************************************************************)

\* A disabled account has no session the guard accepts, although the guard
\* does not look at the status: logins and refreshes that were under way when
\* it was disabled only yield tokens of an older version.
DisabledHasNoSession ==
    status = "disabled" => \A t \in tokens : t.ver # version

\* The counter and the lock are written by several requests at once, and still
\* never disagree: an account is or was locked exactly when the failures the
\* counter shows have reached the limit.  (login writes both in one update)
LockMatchesCounter == attempts >= MaxFailed <=> lock # "none"

-----------------------------------------------------------------------------
(***************************************************************************)
(* What a comment says of the code, and the code does not keep             *)
(***************************************************************************)

\* Ending the sessions "invalidates every outstanding token for this user": a
\* token that is accepted dates from a password given since.  (logout, and the
\* same in changePassword and resetPassword)
EndedForGood == \A t \in tokens : Valid(t) => t.since = version

=============================================================================
