----------------------- MODULE AccountSessionsProofs -----------------------
(***************************************************************************)
(* AccountSessions for any number of overlapping requests, reset links and *)
(* tokens, and what holds besides until two of them overlap.               *)
(***************************************************************************)
EXTENDS MCAccountSessions, TLAPS

\* No token is ahead of the account.
TokensFromThePast == \A t \in tokens : t.ver <= version

\* A login that may still succeed has read an account that was not disabled:
\* if it is by now, its version has moved on.
LoginsAreOlder ==
    \A w \in Workers : pc[w] = "verifying" =>
        /\ basis[w] <= version
        /\ status = "disabled" => basis[w] # version

\* The inductive invariant.
IInv ==
    /\ TypeOK
    /\ TokensFromThePast
    /\ LoginsAreOlder
    /\ DisabledHasNoSession
    /\ LockMatchesCounter

\* The parts of it that a worker's own variables belong to.
WorkersOK ==
    /\ pc \in [Workers -> Steps]
    /\ basis \in [Workers -> 0..MaxVersion]
    /\ counted \in [Workers -> 0..MaxAttempts]
    /\ held \in [Workers -> SUBSET Links]

-----------------------------------------------------------------------------
\* A new account satisfies the invariant.
LEMMA InitInv == Init => IInv
<1> SUFFICES ASSUME Init PROVE IInv
  OBVIOUS
<1>1. 0 \in 0..MaxVersion /\ 0 \in 0..MaxAttempts /\ ~(0 >= MaxFailed)
  BY BoundsAssumption
<1>2. TypeOK
  BY <1>1 DEF Init, TypeOK, Statuses, Steps, Tokens
<1>3. TokensFromThePast /\ LoginsAreOlder /\ DisabledHasNoSession
  BY DEF Init, TokensFromThePast, LoginsAreOlder, DisabledHasNoSession
<1>4. LockMatchesCounter
  BY <1>1 DEF Init, LockMatchesCounter
<1> QED
  BY <1>2, <1>3, <1>4 DEF IInv

\* A worker that answers keeps its types, and leaves the logins under way to
\* the others.
LEMMA AnswerOK ==
    ASSUME NEW w \in Workers, IInv, Answer(w)
    PROVE  /\ WorkersOK'
           /\ \A v \in Workers : pc'[v] = "verifying" =>
                  pc[v] = "verifying" /\ basis'[v] = basis[v]
<1>1. 0 \in 0..MaxVersion /\ 0 \in 0..MaxAttempts
  BY BoundsAssumption
<1>2. WorkersOK'
  BY <1>1 DEF IInv, TypeOK, Answer, Goto, WorkersOK, Steps
<1>3. ASSUME NEW v \in Workers, pc'[v] = "verifying"
      PROVE  pc[v] = "verifying" /\ basis'[v] = basis[v]
  BY <1>3 DEF IInv, TypeOK, Answer, Goto
<1> QED
  BY <1>2, <1>3

\* A step that reads, and takes no login to its password check.
LEMMA ReadStep ==
    ASSUME IInv, ReadOnly, WorkersOK',
           \A v \in Workers : pc'[v] = "verifying" =>
               pc[v] = "verifying" /\ basis'[v] = basis[v]
    PROVE  IInv'
  BY DEF IInv, TypeOK, WorkersOK, ReadOnly, TokensFromThePast, LoginsAreOlder,
         DisabledHasNoSession, LockMatchesCounter, orgVars, loginVars, accountVars

\* A step that moves a worker on, but not to the password check.
LEMMA MoveOK ==
    ASSUME NEW w \in Workers, IInv, NEW step, step # "verifying", Goto(w, step),
           \A v \in Workers \ {w} : basis'[v] = basis[v]
    PROVE  \A v \in Workers : pc'[v] = "verifying" =>
               pc[v] = "verifying" /\ basis'[v] = basis[v]
  BY DEF IInv, TypeOK, Goto

\* A write that ends the sessions makes every token and every login older.
LEMMA EndingStep ==
    ASSUME IInv, EndSessions, WorkersOK', UNCHANGED loginVars,
           orgActive' \in BOOLEAN, approved' \in BOOLEAN,
           status' \in Statuses, hash' \in {"none", "temporary", "chosen"},
           link' \in [Links -> {"unused", "open", "expired", "consumed"}],
           UNCHANGED tokens,
           \A v \in Workers : pc'[v] = "verifying" =>
               pc[v] = "verifying" /\ basis'[v] = basis[v]
    PROVE  IInv'
<1>1. version' \in 0..MaxVersion /\ version' = version + 1 /\ version \in 0..MaxVersion
  BY BoundsAssumption DEF IInv, TypeOK, EndSessions
<1>2. TypeOK'
  BY <1>1 DEF IInv, TypeOK, WorkersOK, loginVars
<1>3. ASSUME NEW t \in tokens PROVE t.ver < version'
  <2>1. t.ver <= version /\ t.ver \in 0..MaxVersion
    BY DEF IInv, TypeOK, TokensFromThePast, Tokens
  <2> QED
    BY <2>1, <1>1
<1>4. TokensFromThePast'
  <2>1. \A t \in tokens : t.ver \in 0..MaxVersion
    BY DEF IInv, TypeOK, Tokens
  <2> QED
    BY <1>1, <1>3, <2>1 DEF TokensFromThePast
<1>5. DisabledHasNoSession'
  BY <1>1, <1>3 DEF DisabledHasNoSession
<1>6. LoginsAreOlder'
  <2> SUFFICES ASSUME NEW v \in Workers, pc'[v] = "verifying"
               PROVE  basis'[v] < version'
    <3>1. basis' \in [Workers -> 0..MaxVersion]
      BY DEF WorkersOK
    <3> QED
      BY <1>1, <3>1 DEF LoginsAreOlder
  <2>1. basis'[v] <= version /\ basis'[v] \in 0..MaxVersion
    BY DEF IInv, TypeOK, LoginsAreOlder
  <2> QED
    BY <1>1, <2>1
<1>7. LockMatchesCounter'
  BY DEF IInv, LockMatchesCounter, loginVars
<1> QED
  BY <1>2, <1>4, <1>5, <1>6, <1>7 DEF IInv

-----------------------------------------------------------------------------
\* A failed or a successful login.
LEMMA LoginStep == ASSUME NEW w \in Workers, IInv, Login(w) PROVE IInv'
<1>1. CASE BeginLogin(w)
  <2>1. WorkersOK'
    BY <1>1 DEF IInv, TypeOK, BeginLogin, Begin, Goto, WorkersOK, Steps
  <2>2. ReadOnly
    BY <1>1 DEF BeginLogin, Begin
  <2>3. TypeOK' /\ TokensFromThePast' /\ DisabledHasNoSession' /\ LockMatchesCounter'
    BY <2>1, <2>2 DEF IInv, TypeOK, WorkersOK, ReadOnly, TokensFromThePast,
       DisabledHasNoSession, LockMatchesCounter, orgVars, loginVars, accountVars
  <2>4. ASSUME NEW v \in Workers, pc'[v] = "verifying"
        PROVE  basis'[v] <= version' /\ (status' = "disabled" => basis'[v] # version')
    <3>1. version' = version /\ status' = status /\ version \in Nat
      BY <2>2 DEF ReadOnly, accountVars, IInv, TypeOK
    <3>2. CASE v = w
      <4>1. status # "disabled"
        BY <1>1, <2>4, <3>2 DEF IInv, TypeOK, BeginLogin, Begin, Goto
      <4>2. basis'[v] = version
        BY <1>1, <3>2 DEF IInv, TypeOK, BeginLogin
      <4> QED
        BY <3>1, <4>1, <4>2
    <3>3. CASE v # w
      <4>1. pc[v] = "verifying" /\ basis'[v] = basis[v]
        BY <1>1, <2>4, <3>3 DEF IInv, TypeOK, BeginLogin, Begin, Goto
      <4> QED
        BY <3>1, <4>1 DEF IInv, LoginsAreOlder
    <3> QED
      BY <3>2, <3>3
  <2>5. LoginsAreOlder'
    BY <2>4 DEF LoginsAreOlder
  <2> QED
    BY <2>3, <2>5 DEF IInv
<1>2. CASE WrongPassword(w)
  <2>1. /\ WorkersOK'
        /\ \A v \in Workers : pc'[v] = "verifying" =>
               pc[v] = "verifying" /\ basis'[v] = basis[v]
    BY <1>2, AnswerOK DEF WrongPassword
  <2>2. counted[w] \in 0..MaxAttempts /\ counted[w] < MaxAttempts
    BY <1>2 DEF IInv, TypeOK, WrongPassword
  <2>3. /\ attempts' \in 0..MaxAttempts
        /\ lock' \in {"none", "running", "over"}
        /\ attempts' >= MaxFailed <=> lock' # "none"
    BY <1>2, <2>2, BoundsAssumption DEF WrongPassword
  <2>4. UNCHANGED <<orgVars, accountVars, link, tokens>>
    BY <1>2 DEF WrongPassword
  <2> QED
    BY <2>1, <2>3, <2>4 DEF IInv, TypeOK, WorkersOK, TokensFromThePast, LoginsAreOlder,
       DisabledHasNoSession, LockMatchesCounter, orgVars, accountVars
<1>3. CASE RightPassword(w)
  <2>1. /\ WorkersOK'
        /\ \A v \in Workers : pc'[v] = "verifying" =>
               pc[v] = "verifying" /\ basis'[v] = basis[v]
    BY <1>3, AnswerOK DEF RightPassword
  <2>2. attempts' = 0 /\ lock' = "none" /\ UNCHANGED <<orgVars, accountVars, link>>
    BY <1>3 DEF RightPassword
  <2>3. 0 \in 0..MaxAttempts /\ ~(0 >= MaxFailed)
    BY BoundsAssumption
  <2>4. /\ basis[w] \in 0..MaxVersion /\ basis[w] <= version
        /\ status = "disabled" => basis[w] # version
    BY <1>3 DEF IInv, TypeOK, LoginsAreOlder, RightPassword
  <2>5. \A t \in tokens' : t \in tokens \/ t = [ver |-> basis[w], since |-> basis[w]]
    BY <1>3 DEF RightPassword
  <2>6. tokens' \subseteq Tokens
    BY <2>4, <2>5 DEF IInv, TypeOK, Tokens
  <2>7. TokensFromThePast'
    BY <2>2, <2>4, <2>5 DEF IInv, TokensFromThePast, accountVars
  <2>8. DisabledHasNoSession'
    BY <2>2, <2>4, <2>5 DEF IInv, DisabledHasNoSession, accountVars
  <2>9. TypeOK' /\ LockMatchesCounter'
    BY <2>1, <2>2, <2>3, <2>6 DEF IInv, TypeOK, WorkersOK, LockMatchesCounter, orgVars,
       accountVars
  <2>10. LoginsAreOlder'
    BY <2>1, <2>2 DEF IInv, LoginsAreOlder, accountVars
  <2> QED
    BY <2>7, <2>8, <2>9, <2>10 DEF IInv
<1> QED
  BY <1>1, <1>2, <1>3 DEF Login

\* A worker that moves on, and not to the password check, keeps its types.
LEMMA GotoTypes ==
    ASSUME NEW w \in Workers, IInv, NEW step \in Steps, Goto(w, step),
           basis' \in [Workers -> 0..MaxVersion], UNCHANGED counted,
           held' \in [Workers -> SUBSET Links]
    PROVE  WorkersOK'
  BY DEF IInv, TypeOK, Goto, WorkersOK, Steps

\* A request with a session.
LEMMA SessionStep == ASSUME NEW w \in Workers, IInv, Session(w) PROVE IInv'
<1>1. ASSUME NEW step \in {"refreshing", "leaving", "consenting", "changing"},
             Enter(w, step)
      PROVE  IInv'
  <2>1. ReadOnly /\ Goto(w, step) /\ UNCHANGED <<counted, held>>
    BY <1>1 DEF Enter, Begin
  <2>2. PICK t \in tokens : basis' = [basis EXCEPT ![w] = t.since]
    BY <1>1 DEF Enter
  <2>3. basis' \in [Workers -> 0..MaxVersion]
    <3>1. t.since \in 0..MaxVersion
      BY DEF IInv, TypeOK, Tokens
    <3> QED
      BY <2>2, <3>1 DEF IInv, TypeOK
  <2>4. step \in Steps /\ step # "verifying"
    BY DEF Steps
  <2>5. WorkersOK'
    BY <2>1, <2>3, <2>4, GotoTypes DEF IInv, TypeOK
  <2>6. \A v \in Workers \ {w} : basis'[v] = basis[v]
    BY <2>2 DEF IInv, TypeOK
  <2> QED
    BY <2>1, <2>4, <2>5, <2>6, MoveOK, ReadStep
<1>2. CASE Refresh(w)
  <2>1. /\ WorkersOK'
        /\ \A v \in Workers : pc'[v] = "verifying" =>
               pc[v] = "verifying" /\ basis'[v] = basis[v]
    BY <1>2, AnswerOK DEF Refresh
  <2>2. UNCHANGED <<orgVars, loginVars, accountVars, link>>
    BY <1>2 DEF Refresh
  <2>3. \A t \in tokens' : \/ t \in tokens
                           \/ /\ t = [ver |-> version, since |-> basis[w]]
                              /\ status # "disabled"
    BY <1>2 DEF Refresh
  <2>4. version \in 0..MaxVersion /\ basis[w] \in 0..MaxVersion /\ version <= version
    BY DEF IInv, TypeOK
  <2>5. tokens' \subseteq Tokens
    BY <2>3, <2>4 DEF IInv, TypeOK, Tokens
  <2>6. TypeOK' /\ LockMatchesCounter'
    BY <2>1, <2>2, <2>5 DEF IInv, TypeOK, WorkersOK, LockMatchesCounter, orgVars,
       loginVars, accountVars
  <2>7. TokensFromThePast'
    BY <2>2, <2>3, <2>4 DEF IInv, TokensFromThePast, accountVars
  <2>8. DisabledHasNoSession'
    BY <2>2, <2>3 DEF IInv, DisabledHasNoSession, accountVars
  <2>9. LoginsAreOlder'
    BY <2>1, <2>2 DEF IInv, LoginsAreOlder, accountVars
  <2> QED
    BY <2>6, <2>7, <2>8, <2>9 DEF IInv
<1>3. CASE Logout(w)
  <2>1. Answer(w)
    BY <1>3 DEF Logout
  <2> QED
    BY <1>3, <2>1, AnswerOK, EndingStep DEF Logout, IInv, TypeOK, orgVars
<1>4. CASE Consent(w)
  <2>1. /\ WorkersOK'
        /\ \A v \in Workers : pc'[v] = "verifying" =>
               pc[v] = "verifying" /\ basis'[v] = basis[v]
    BY <1>4, AnswerOK DEF Consent
  <2>2. status' = "active" /\ UNCHANGED <<orgVars, loginVars, hash, version, link, tokens>>
    BY <1>4 DEF Consent
  <2> QED
    BY <2>1, <2>2 DEF IInv, TypeOK, WorkersOK, TokensFromThePast, LoginsAreOlder,
       DisabledHasNoSession, LockMatchesCounter, orgVars, loginVars, Statuses
<1>5. CASE VerifyCurrent(w)
  <2>1. ReadOnly /\ Goto(w, "rewriting") /\ UNCHANGED <<basis, counted, held>>
    BY <1>5 DEF VerifyCurrent
  <2>2. "rewriting" \in Steps
    BY DEF Steps
  <2>3. WorkersOK'
    BY <2>1, <2>2, GotoTypes DEF IInv, TypeOK
  <2> QED
    BY <2>1, <2>3, MoveOK, ReadStep
<1>6. CASE ChangePassword(w)
  <2>1. /\ WorkersOK'
        /\ \A v \in Workers : pc'[v] = "verifying" =>
               pc[v] = "verifying" /\ basis'[v] = basis[v]
    BY <1>6, AnswerOK DEF ChangePassword
  <2>2. /\ hash' = "chosen" /\ status' = "active"
        /\ UNCHANGED <<orgVars, loginVars, link>>
    BY <1>6 DEF ChangePassword
  <2>3. version' \in 0..MaxVersion /\ version' = version + 1 /\ version \in 0..MaxVersion
    BY <1>6, BoundsAssumption DEF IInv, TypeOK, ChangePassword, EndSessions
  <2>4. \A t \in tokens' : t \in tokens \/ t = [ver |-> version', since |-> version']
    BY <1>6 DEF ChangePassword
  <2>5. tokens' \subseteq Tokens
    BY <2>3, <2>4 DEF IInv, TypeOK, Tokens
  <2>6. TypeOK' /\ LockMatchesCounter' /\ DisabledHasNoSession'
    BY <2>1, <2>2, <2>3, <2>5 DEF IInv, TypeOK, WorkersOK, LockMatchesCounter,
       DisabledHasNoSession, orgVars, loginVars, Statuses
  <2>7. TokensFromThePast'
    <3> SUFFICES ASSUME NEW t \in tokens' PROVE t.ver <= version'
      BY DEF TokensFromThePast
    <3>1. CASE t \in tokens
      <4>1. t.ver \in 0..MaxVersion /\ t.ver <= version
        BY <3>1 DEF IInv, TypeOK, Tokens, TokensFromThePast
      <4> QED
        BY <2>3, <4>1
    <3>2. CASE t = [ver |-> version', since |-> version']
      BY <2>3, <3>2
    <3> QED
      BY <2>4, <3>1, <3>2
  <2>8. LoginsAreOlder'
    <3> SUFFICES ASSUME NEW v \in Workers, pc'[v] = "verifying"
                 PROVE  basis'[v] <= version' /\ status' # "disabled"
      BY DEF LoginsAreOlder
    <3>1. basis'[v] \in 0..MaxVersion /\ basis'[v] <= version
      BY <2>1 DEF IInv, TypeOK, LoginsAreOlder
    <3> QED
      BY <2>2, <2>3, <3>1
  <2> QED
    BY <2>6, <2>7, <2>8 DEF IInv
<1> QED
  BY <1>1, <1>2, <1>3, <1>4, <1>5, <1>6 DEF Session

\* A write that touches neither the version, nor the status, nor the tokens.
LEMMA WriteStep ==
    ASSUME IInv, WorkersOK', UNCHANGED <<loginVars, status, version, tokens>>,
           orgActive' \in BOOLEAN, approved' \in BOOLEAN,
           hash' \in {"none", "temporary", "chosen"},
           link' \in [Links -> {"unused", "open", "expired", "consumed"}],
           \A v \in Workers : pc'[v] = "verifying" =>
               pc[v] = "verifying" /\ basis'[v] = basis[v]
    PROVE  IInv'
  BY DEF IInv, TypeOK, WorkersOK, TokensFromThePast, LoginsAreOlder,
         DisabledHasNoSession, LockMatchesCounter, loginVars

\* Asking for a reset link, and using one.
LEMMA RecoverStep == ASSUME NEW w \in Workers, IInv, Recover(w) PROVE IInv'
<1>1. CASE BeginForgot(w)
  <2>1. ReadOnly /\ Goto(w, "forgetting") /\ UNCHANGED <<basis, counted, held>>
    BY <1>1 DEF BeginForgot, Begin
  <2>2. "forgetting" \in Steps
    BY DEF Steps
  <2>3. WorkersOK'
    BY <2>1, <2>2, GotoTypes DEF IInv, TypeOK
  <2> QED
    BY <2>1, <2>3, MoveOK, ReadStep
<1>2. CASE FindOldLinks(w)
  <2>1. ReadOnly /\ Goto(w, "issuing") /\ UNCHANGED <<basis, counted>>
    BY <1>2 DEF FindOldLinks
  <2>2. "issuing" \in Steps /\ held' \in [Workers -> SUBSET Links]
    BY <1>2 DEF Steps, FindOldLinks, IInv, TypeOK
  <2>3. WorkersOK'
    BY <2>1, <2>2, GotoTypes DEF IInv, TypeOK
  <2> QED
    BY <2>1, <2>3, MoveOK, ReadStep
<1>3. CASE IssueLink(w)
  <2>1. link' \in [Links -> {"unused", "open", "expired", "consumed"}]
    BY <1>3 DEF IssueLink, IInv, TypeOK
  <2> QED
    BY <1>3, <2>1, AnswerOK, WriteStep
       DEF IssueLink, IInv, TypeOK, orgVars, accountVars
<1>4. CASE ResetPassword(w)
  <2>1. /\ link' \in [Links -> {"unused", "open", "expired", "consumed"}]
        /\ hash' \in {"none", "temporary", "chosen"}
    BY <1>4 DEF ResetPassword, IInv, TypeOK
  <2> QED
    BY <1>4, <2>1, AnswerOK, EndingStep DEF ResetPassword, IInv, TypeOK, orgVars
<1>5. ASSUME NEW r \in Links, BeginReset(w, r) PROVE IInv'
  <2>1. ReadOnly /\ Goto(w, "resetting") /\ UNCHANGED <<basis, counted>>
    BY <1>5 DEF BeginReset, Begin
  <2>2. "resetting" \in Steps /\ held' \in [Workers -> SUBSET Links]
    BY <1>5 DEF Steps, BeginReset, IInv, TypeOK
  <2>3. WorkersOK'
    BY <2>1, <2>2, GotoTypes DEF IInv, TypeOK
  <2> QED
    BY <2>1, <2>3, MoveOK, ReadStep
<1> QED
  BY <1>1, <1>2, <1>3, <1>4, <1>5 DEF Recover

\* Invitations and approvals.
LEMMA AdministerStep == ASSUME NEW w \in Workers, IInv, Administer(w) PROVE IInv'
<1>1. CASE BeginResend(w)
  <2>1. ReadOnly /\ Goto(w, "provisioning") /\ UNCHANGED <<basis, counted, held>>
    BY <1>1 DEF BeginResend, Begin
  <2>2. "provisioning" \in Steps
    BY DEF Steps
  <2>3. WorkersOK'
    BY <2>1, <2>2, GotoTypes DEF IInv, TypeOK
  <2> QED
    BY <2>1, <2>3, MoveOK, ReadStep
<1>2. CASE BeginApprove(w)
  <2>1. ReadOnly /\ Goto(w, "approving") /\ UNCHANGED <<basis, counted, held>>
    BY <1>2 DEF BeginApprove, Begin
  <2>2. "approving" \in Steps
    BY DEF Steps
  <2>3. WorkersOK'
    BY <2>1, <2>2, GotoTypes DEF IInv, TypeOK
  <2> QED
    BY <2>1, <2>3, MoveOK, ReadStep
<1>3. CASE ProvisionPassword(w)
  BY <1>3, AnswerOK, WriteStep DEF ProvisionPassword, IInv, TypeOK, orgVars
<1>4. CASE Approve(w)
  BY <1>4, AnswerOK, WriteStep DEF Approve, IInv, TypeOK
<1> QED
  BY <1>1, <1>2, <1>3, <1>4 DEF Administer

\* Steps that belong to no worker.
LEMMA OutsideStep ==
    ASSUME IInv,
           UpdateUser \/ SetOrgActive \/ LockExpires \/ \E r \in Links : LinkExpires(r)
    PROVE  IInv'
<1>1. ASSUME UNCHANGED workerVars
      PROVE  /\ WorkersOK'
             /\ \A v \in Workers : pc'[v] = "verifying" =>
                    pc[v] = "verifying" /\ basis'[v] = basis[v]
  BY <1>1 DEF workerVars, IInv, TypeOK, WorkersOK
<1>2. CASE UpdateUser
  BY <1>1, <1>2, EndingStep DEF UpdateUser, IInv, TypeOK, orgVars
<1>3. CASE SetOrgActive
  BY <1>1, <1>3, WriteStep DEF SetOrgActive, IInv, TypeOK, accountVars
<1>4. CASE LockExpires
  <2>1. lock = "running" /\ lock' = "over" /\ UNCHANGED attempts
    BY <1>4 DEF LockExpires
  <2>2. UNCHANGED <<orgVars, accountVars, link, tokens, workerVars>>
    BY <1>4 DEF LockExpires
  <2> QED
    BY <2>1, <2>2 DEF IInv, TypeOK, TokensFromThePast, LoginsAreOlder,
       DisabledHasNoSession, LockMatchesCounter, orgVars, accountVars, workerVars
<1>5. ASSUME NEW r \in Links, LinkExpires(r) PROVE IInv'
  BY <1>1, <1>5, WriteStep DEF LinkExpires, IInv, TypeOK, orgVars, accountVars
<1> QED
  BY <1>2, <1>3, <1>4, <1>5

\* Every step preserves the invariant.
LEMMA NextPreserves == IInv /\ [Next]_vars => IInv'
<1> SUFFICES ASSUME IInv, [Next]_vars PROVE IInv'
  OBVIOUS
<1>1. ASSUME NEW w \in Workers, Fail(w) PROVE IInv'
  BY <1>1, AnswerOK, ReadStep DEF Fail
<1>2. CASE UNCHANGED vars
  BY <1>2 DEF IInv, TypeOK, TokensFromThePast, LoginsAreOlder, DisabledHasNoSession,
     LockMatchesCounter, vars, orgVars, loginVars, accountVars, workerVars
<1> QED
  BY <1>1, <1>2, LoginStep, SessionStep, RecoverStep, AdministerStep, OutsideStep
     DEF Next

-----------------------------------------------------------------------------
(***************************************************************************)
(* Until anything happens while a request is in flight (MCSpec): what the  *)
(* request has read is still so, a token of the current version dates from *)
(* a password given at that version, and one reset link is open at most.   *)
(***************************************************************************)

OneInFlight == \A v, w \in InFlight : v = w

\* What the request in flight has read is still so when it writes; one that
\* came through the guard belongs to an account that is not disabled.
StillAsRead ==
    \A w \in Workers :
        /\ pc[w] \in {"verifying", "refusing"} => counted[w] = attempts
        /\ pc[w] \in {"verifying", "refreshing"} => basis[w] = version
        /\ pc[w] \in {"consenting", "changing", "rewriting"} => status # "disabled"
        /\ pc[w] = "issuing" => \A r \in Links : link[r] = "open" => r \in held[w]

TokensDateFromPassword == \A t \in tokens : t.ver = version => t.since = version

OpenOnce == \A q, r \in Links : link[q] = "open" /\ link[r] = "open" => q = r

CalmInv == OneInFlight /\ StillAsRead /\ TokensDateFromPassword /\ OpenOnce

SerialInv ==
    /\ overlapped \in BOOLEAN
    /\ guesses \in Nat /\ guesses <= attempts
    /\ ~overlapped => CalmInv

\* The parts of the invariant that are about tokens and links.
Tidy == TokensDateFromPassword /\ OpenOnce

\* A step that changes no token, version or link.
LEMMA SameTidy == Tidy /\ UNCHANGED <<tokens, version, link>> => Tidy'
  BY DEF Tidy, TokensDateFromPassword, OpenOnce

\* When a request answers, none is left in flight.
LEMMA CalmAnswer ==
    ASSUME NEW w \in Workers, IInv, CalmInv, pc[w] # "idle", Answer(w), Tidy'
    PROVE  CalmInv'
<1>1. \A v \in Workers : v # w => pc[v] = "idle"
  BY DEF CalmInv, OneInFlight, InFlight
<1>2. \A v \in Workers : pc'[v] = "idle"
  BY <1>1 DEF Answer, Goto, IInv, TypeOK
<1>3. StillAsRead' /\ OneInFlight'
  BY <1>2 DEF StillAsRead, OneInFlight, InFlight
<1> QED
  BY <1>3 DEF CalmInv, Tidy

\* A request that only reads goes on, alone, to a step whose checks it has made.
LEMMA CalmMove ==
    ASSUME NEW w \in Workers, NEW step, IInv, CalmInv, OneInFlight',
           Goto(w, step), step # "idle", ReadOnly,
           step \in {"verifying", "refusing"} => counted'[w] = attempts,
           step \in {"verifying", "refreshing"} => basis'[w] = version,
           step \in {"consenting", "changing", "rewriting"} => status # "disabled",
           step = "issuing" => \A r \in Links : link[r] = "open" => r \in held'[w]
    PROVE  CalmInv'
<1>1. pc'[w] = step
  BY DEF Goto, IInv, TypeOK
<1>2. \A v \in Workers : v # w => pc'[v] = "idle"
  BY <1>1 DEF OneInFlight, InFlight
<1>3. StillAsRead'
  BY <1>1, <1>2 DEF StillAsRead, ReadOnly, loginVars, accountVars
<1>4. Tidy'
  BY SameTidy DEF CalmInv, Tidy, ReadOnly, accountVars
<1> QED
  BY <1>3, <1>4 DEF CalmInv, Tidy

\* A step outside every request leaves the requests in flight none.
LEMMA CalmOutside ==
    ASSUME CalmInv, InFlight = {}, pc' = pc, Tidy'
    PROVE  CalmInv'
<1>1. \A v \in Workers : pc'[v] = "idle"
  BY DEF InFlight
<1>2. StillAsRead' /\ OneInFlight'
  BY <1>1 DEF StillAsRead, OneInFlight, InFlight
<1> QED
  BY <1>2 DEF CalmInv, Tidy

\* Tokens of earlier versions are no longer accepted once the sessions end.
LEMMA EndingTidy ==
    ASSUME IInv, CalmInv, EndSessions,
           \A t \in tokens' : t \in tokens \/ t.since = version',
           OpenOnce'
    PROVE  Tidy'
<1>1. version' = version + 1 /\ version \in Nat
  BY DEF IInv, TypeOK, EndSessions
<1>2. \A t \in tokens : t.ver \in Nat /\ t.ver <= version
  BY DEF IInv, TypeOK, Tokens, TokensFromThePast
<1>3. \A t \in tokens : t.ver # version'
  BY <1>1, <1>2
<1> QED
  BY <1>3 DEF Tidy, TokensDateFromPassword

\* A login signs a token of the version at which it checked the password.
LEMMA CalmLogin ==
    ASSUME NEW w \in Workers, IInv, CalmInv, OneInFlight', Login(w) PROVE CalmInv'
<1>1. CASE BeginLogin(w)
  <2>1. counted'[w] = attempts /\ basis'[w] = version
    BY <1>1 DEF BeginLogin, IInv, TypeOK
  <2>2. CASE status # "disabled" /\ orgActive
    BY <1>1, <2>1, <2>2, CalmMove DEF BeginLogin, Begin
  <2>3. CASE ~(status # "disabled" /\ orgActive)
    <3>1. Goto(w, "refusing") /\ ReadOnly
      BY <1>1, <2>3 DEF BeginLogin, Begin
    <3> QED
      BY <2>1, <3>1, CalmMove
  <2> QED
    BY <2>2, <2>3
<1>2. CASE WrongPassword(w)
  <2>1. Tidy'
    BY <1>2, SameTidy DEF WrongPassword, CalmInv, Tidy, accountVars
  <2> QED
    BY <1>2, <2>1, CalmAnswer DEF WrongPassword
<1>3. CASE RightPassword(w)
  <2>1. basis[w] = version
    BY <1>3 DEF RightPassword, CalmInv, StillAsRead
  <2>2. \A t \in tokens' : t \in tokens \/ t.since = version
    BY <1>3, <2>1 DEF RightPassword
  <2>3. Tidy'
    BY <1>3, <2>2 DEF RightPassword, CalmInv, Tidy, TokensDateFromPassword, OpenOnce,
                      accountVars
  <2> QED
    BY <1>3, <2>3, CalmAnswer DEF RightPassword
<1> QED
  BY <1>1, <1>2, <1>3 DEF Login

\* A request with a session comes from a password of the current version.
LEMMA CalmSession ==
    ASSUME NEW w \in Workers, IInv, CalmInv, OneInFlight', Session(w) PROVE CalmInv'
<1>1. ASSUME NEW step \in {"refreshing", "leaving", "consenting", "changing"},
             Enter(w, step)
      PROVE  CalmInv'
  <2>1. PICK t \in tokens : t.ver = version /\ basis' = [basis EXCEPT ![w] = t.since]
    BY <1>1 DEF Enter, Valid
  <2>2. basis'[w] = version
    BY <2>1 DEF CalmInv, TokensDateFromPassword, IInv, TypeOK
  <2>3. status # "disabled"
    BY <2>1 DEF IInv, DisabledHasNoSession
  <2> QED
    BY <1>1, <2>2, <2>3, CalmMove DEF Enter, Begin
<1>2. CASE Refresh(w)
  <2>1. basis[w] = version
    BY <1>2 DEF Refresh, CalmInv, StillAsRead
  <2>2. \A t \in tokens' : t \in tokens \/ t.since = version
    BY <1>2, <2>1 DEF Refresh
  <2>3. Tidy'
    BY <1>2, <2>2 DEF Refresh, CalmInv, Tidy, TokensDateFromPassword, OpenOnce,
                      accountVars
  <2> QED
    BY <1>2, <2>3, CalmAnswer DEF Refresh
<1>3. CASE Logout(w)
  <2>1. Tidy'
    BY <1>3, EndingTidy DEF Logout, CalmInv, OpenOnce
  <2> QED
    BY <1>3, <2>1, CalmAnswer DEF Logout
<1>4. CASE Consent(w)
  <2>1. Tidy'
    BY <1>4, SameTidy DEF Consent, CalmInv, Tidy
  <2> QED
    BY <1>4, <2>1, CalmAnswer DEF Consent
<1>5. CASE VerifyCurrent(w)
  <2>1. status # "disabled"
    BY <1>5 DEF VerifyCurrent, CalmInv, StillAsRead
  <2> QED
    BY <1>5, <2>1, CalmMove DEF VerifyCurrent
<1>6. CASE ChangePassword(w)
  <2>1. \A t \in tokens' : t \in tokens \/ t.since = version'
    BY <1>6 DEF ChangePassword
  <2>2. Tidy'
    BY <1>6, <2>1, EndingTidy DEF ChangePassword, CalmInv, OpenOnce
  <2> QED
    BY <1>6, <2>2, CalmAnswer DEF ChangePassword
<1> QED
  BY <1>1, <1>2, <1>3, <1>4, <1>5, <1>6 DEF Session

\* A new link goes out when every open one is found and used up.
LEMMA CalmRecover ==
    ASSUME NEW w \in Workers, IInv, CalmInv, OneInFlight', Recover(w) PROVE CalmInv'
<1>1. CASE BeginForgot(w)
  BY <1>1, CalmMove DEF BeginForgot, Begin
<1>2. CASE FindOldLinks(w)
  <2>1. \A r \in Links : link[r] = "open" => r \in held'[w]
    BY <1>2 DEF FindOldLinks, IInv, TypeOK
  <2> QED
    BY <1>2, <2>1, CalmMove DEF FindOldLinks
<1>3. CASE IssueLink(w)
  <2>1. \A r \in Links : link[r] = "open" => r \in held[w]
    BY <1>3 DEF IssueLink, CalmInv, StillAsRead
  <2>2. OpenOnce'
    BY <1>3, <2>1 DEF IssueLink, OpenOnce
  <2>3. Tidy'
    BY <1>3, <2>2 DEF IssueLink, CalmInv, Tidy, TokensDateFromPassword, accountVars
  <2> QED
    BY <1>3, <2>3, CalmAnswer DEF IssueLink
<1>4. CASE ResetPassword(w)
  <2>1. OpenOnce'
    BY <1>4 DEF ResetPassword, CalmInv, OpenOnce
  <2>2. Tidy'
    BY <1>4, <2>1, EndingTidy DEF ResetPassword
  <2> QED
    BY <1>4, <2>2, CalmAnswer DEF ResetPassword
<1>5. ASSUME NEW r \in Links, BeginReset(w, r) PROVE CalmInv'
  BY <1>5, CalmMove DEF BeginReset, Begin
<1> QED
  BY <1>1, <1>2, <1>3, <1>4, <1>5 DEF Recover

\* Invitations, approvals and requests that fail.
LEMMA CalmAdminister ==
    ASSUME NEW w \in Workers, IInv, CalmInv, OneInFlight', Administer(w) \/ Fail(w)
    PROVE  CalmInv'
<1>1. CASE BeginResend(w) \/ BeginApprove(w)
  BY <1>1, CalmMove DEF BeginResend, BeginApprove, Begin
<1>2. CASE ProvisionPassword(w) \/ Approve(w) \/ Fail(w)
  <2>1. Tidy'
    BY <1>2, SameTidy DEF ProvisionPassword, Approve, Fail, CalmInv, Tidy, ReadOnly,
                          accountVars
  <2>2. pc[w] # "idle" /\ Answer(w)
    BY <1>2 DEF ProvisionPassword, Approve, Fail
  <2> QED
    BY <2>1, <2>2, CalmAnswer
<1> QED
  BY <1>1, <1>2 DEF Administer

\* What administrators and the clock do while nothing is in flight.
LEMMA CalmAlone ==
    ASSUME IInv, CalmInv, InFlight = {},
           UpdateUser \/ SetOrgActive \/ LockExpires \/ \E r \in Links : LinkExpires(r)
    PROVE  CalmInv'
<1>1. pc' = pc
  BY DEF UpdateUser, SetOrgActive, LockExpires, LinkExpires, workerVars
<1>2. CASE UpdateUser
  <2>1. Tidy'
    BY <1>2, EndingTidy DEF UpdateUser, CalmInv, OpenOnce
  <2> QED
    BY <1>1, <2>1, CalmOutside
<1>3. CASE SetOrgActive \/ LockExpires
  <2>1. Tidy'
    BY <1>3, SameTidy DEF SetOrgActive, LockExpires, CalmInv, Tidy, accountVars
  <2> QED
    BY <1>1, <2>1, CalmOutside
<1>4. ASSUME NEW r \in Links, LinkExpires(r) PROVE CalmInv'
  <2>1. OpenOnce'
    BY <1>4 DEF LinkExpires, CalmInv, OpenOnce, IInv, TypeOK
  <2>2. Tidy'
    BY <1>4, <2>1 DEF LinkExpires, CalmInv, Tidy, TokensDateFromPassword, accountVars
  <2> QED
    BY <1>1, <2>2, CalmOutside
<1> QED
  BY <1>2, <1>3, <1>4

\* A step of the account changes the counter of failures only as a login does:
\* it starts again at a right password, and counts every wrong one.
LEMMA AttemptsChange ==
    ASSUME IInv, Next, \A w \in Workers : ~RightPassword(w)
    PROVE  \/ attempts' = attempts /\ \A w \in Workers : ~WrongPassword(w)
           \/ \E w \in Workers : WrongPassword(w)
<1>1. CASE \E w \in Workers : WrongPassword(w)
  BY <1>1
<1>2. CASE \A w \in Workers : ~WrongPassword(w)
  <2>1. CASE UpdateUser \/ SetOrgActive \/ LockExpires \/ \E r \in Links : LinkExpires(r)
    BY <1>2, <2>1 DEF UpdateUser, SetOrgActive, LockExpires, LinkExpires, loginVars
  <2>2. ASSUME NEW w \in Workers, Login(w) \/ Administer(w) \/ Fail(w)
        PROVE  attempts' = attempts
    BY <1>2, <2>2 DEF Login, BeginLogin, Begin, Administer, BeginResend, BeginApprove,
       ProvisionPassword, Approve, Fail, ReadOnly, loginVars
  <2>3. ASSUME NEW w \in Workers, Session(w) PROVE attempts' = attempts
    BY <2>3 DEF Session, Enter, Begin, Refresh, Logout, Consent, VerifyCurrent,
       ChangePassword, ReadOnly, loginVars
  <2>4. ASSUME NEW w \in Workers, Recover(w) PROVE attempts' = attempts
    BY <2>4 DEF Recover, BeginForgot, Begin, FindOldLinks, IssueLink, BeginReset,
       ResetPassword, ReadOnly, loginVars
  <2> QED
    BY <1>2, <2>1, <2>2, <2>3, <2>4 DEF Next
<1> QED
  BY <1>1, <1>2

\* The invariant of both kinds holds of every execution.
LEMMA SerialInvariant == MCSpec => [](IInv /\ SerialInv)
<1>1. MCInit => IInv /\ SerialInv
  <2> SUFFICES ASSUME Init, overlapped = FALSE, guesses = 0 PROVE IInv /\ SerialInv
    BY DEF MCInit
  <2>1. CalmInv
    BY DEF Init, CalmInv, OneInFlight, InFlight, StillAsRead, TokensDateFromPassword,
           OpenOnce
  <2>2. guesses \in Nat /\ guesses <= attempts
    BY DEF Init
  <2> QED
    BY <2>1, <2>2, InitInv DEF SerialInv
<1>2. IInv /\ SerialInv /\ [MCNext]_<<vars, overlapped, guesses>> => (IInv /\ SerialInv)'
  <2> SUFFICES ASSUME IInv, SerialInv, [MCNext]_<<vars, overlapped, guesses>>
               PROVE  (IInv /\ SerialInv)'
    OBVIOUS
  <2>1. IInv'
    BY NextPreserves DEF MCNext
  <2>2. CASE UNCHANGED <<vars, overlapped, guesses>>
    <3>1. SerialInv'
      BY <2>2 DEF SerialInv, CalmInv, OneInFlight, InFlight, StillAsRead,
         TokensDateFromPassword, OpenOnce, vars, loginVars, accountVars, workerVars
    <3> QED
      BY <2>1, <3>1
  <2>3. CASE MCNext
    <3>1. overlapped' \in BOOLEAN
      BY <2>3 DEF MCNext, SerialInv
    <3>2. ASSUME ~overlapped' PROVE CalmInv'
      <4>1. /\ OneInFlight' /\ CalmInv
            /\ InFlight = {} \/ pc' # pc
        BY <2>3, <3>2 DEF MCNext, SerialInv, OneInFlight
      <4>2. CASE UpdateUser \/ SetOrgActive \/ LockExpires \/ \E r \in Links : LinkExpires(r)
        <5>1. pc' = pc
          BY <4>2 DEF UpdateUser, SetOrgActive, LockExpires, LinkExpires, workerVars
        <5> QED
          BY <4>1, <4>2, <5>1, CalmAlone
      <4> QED
        BY <2>3, <4>1, <4>2, CalmLogin, CalmSession, CalmRecover, CalmAdminister
           DEF MCNext, Next
    <3>3. guesses' \in Nat /\ guesses' <= attempts'
      <4>0. attempts' \in Nat
        BY <2>1, BoundsAssumption DEF IInv, TypeOK
      <4>1. CASE overlapped' \/ \E w \in Workers : RightPassword(w)
        <5>1. guesses' = 0
          BY <2>3, <4>1 DEF MCNext
        <5> QED
          BY <4>0, <5>1
      <4>2. CASE ~overlapped' /\ \A w \in Workers : ~RightPassword(w)
        <5>0. CalmInv /\ Next
          BY <2>3, <4>2 DEF MCNext, SerialInv
        <5>1. CASE \E w \in Workers : WrongPassword(w)
          <6>1. PICK w \in Workers : WrongPassword(w)
            BY <5>1
          <6>2. attempts' = attempts + 1
            BY <5>0, <6>1 DEF WrongPassword, CalmInv, StillAsRead
          <6>3. guesses' = guesses + 1
            BY <2>3, <4>2, <5>1 DEF MCNext
          <6>4. guesses \in Nat /\ guesses <= attempts /\ attempts \in Nat
            BY DEF SerialInv, IInv, TypeOK
          <6> QED
            BY <6>2, <6>3, <6>4
        <5>2. CASE \A w \in Workers : ~WrongPassword(w)
          <6>1. attempts' = attempts
            BY <4>2, <5>0, <5>2, AttemptsChange
          <6>2. guesses' = guesses
            BY <2>3, <4>2, <5>2 DEF MCNext
          <6> QED
            BY <6>1, <6>2 DEF SerialInv
        <5> QED
          BY <5>1, <5>2
      <4> QED
        BY <4>1, <4>2
    <3> QED
      BY <2>1, <3>1, <3>2, <3>3 DEF SerialInv
  <2> QED
    BY <2>2, <2>3
<1> QED
  BY <1>1, <1>2, PTL DEF MCSpec

-----------------------------------------------------------------------------
\* Every variable keeps its type.
THEOREM TypeCorrect == Spec => []TypeOK
<1>1. IInv => TypeOK
  BY DEF IInv
<1> QED
  BY <1>1, InitInv, NextPreserves, PTL DEF Spec

\* A disabled account has no session the guard accepts, and the counter of
\* failures and the lock never disagree, whatever requests overlap.
THEOREM DisabledIsOut == Spec => [](DisabledHasNoSession /\ LockMatchesCounter)
<1>1. IInv => DisabledHasNoSession /\ LockMatchesCounter
  BY DEF IInv
<1> QED
  BY <1>1, InitInv, NextPreserves, PTL DEF Spec

\* The lock and its counter agree, and as many wrong passwords in a row as the
\* code allows lock the account, with any requests between the guesses.
THEOREM GuessesLock == MCSpec => []LockHolds
<1>1. IInv /\ SerialInv => LockHolds
  <2> SUFFICES ASSUME IInv, SerialInv PROVE LockMatchesCounter /\ LockedAfterGuesses
    BY DEF LockHolds
  <2>1. attempts \in Nat /\ MaxFailed \in Nat
    BY BoundsAssumption DEF IInv, TypeOK
  <2> QED
    BY <2>1 DEF IInv, SerialInv, LockMatchesCounter, LockedAfterGuesses
<1> QED
  BY <1>1, SerialInvariant, PTL

\* Until requests overlap, logging out or changing the password ends every
\* session for good, and asking for a reset link ends the links before it.
THEOREM CredentialsEndHolds == MCSpec => []CredentialsEnd
<1>1. IInv /\ SerialInv => CredentialsEnd
  BY DEF SerialInv, CalmInv, TokensDateFromPassword, OpenOnce, CredentialsEnd,
         SessionsEnd, EndedForGood, OneOpenLink, Valid
<1> QED
  BY <1>1, SerialInvariant, PTL

\* Until requests overlap, no session and no reset link brings a disabled
\* account back.
THEOREM OnlyAdminsEnableHolds == MCSpec => OnlyAdminsEnable
<1>1. IInv /\ SerialInv /\ [MCNext]_<<vars, overlapped, guesses>>
         => [status = "disabled" /\ status' # "disabled" /\ ~overlapped'
                => \A w \in Workers : ~(Consent(w) \/ ChangePassword(w))]_vars
  <2> SUFFICES ASSUME SerialInv, [MCNext]_<<vars, overlapped, guesses>>, ~overlapped',
                      status = "disabled", NEW w \in Workers,
                      Consent(w) \/ ChangePassword(w)
               PROVE  FALSE
    OBVIOUS
  <2>1. ~overlapped
    BY DEF MCNext, SerialInv
  <2> QED
    BY <2>1 DEF SerialInv, CalmInv, StillAsRead, Consent, ChangePassword
<1> QED
  BY <1>1, SerialInvariant, PTL DEF MCSpec, OnlyAdminsEnable

=============================================================================
