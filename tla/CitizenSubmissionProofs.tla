---------------------- MODULE CitizenSubmissionProofs -----------------------
(***************************************************************************)
(* CitizenSubmission for any number of links, sessions, people and         *)
(* overlapping requests.                                                   *)
(***************************************************************************)
EXTENDS CitizenSubmission, TLAPS

\* A row that has been inserted knows whom it is for; a free identifier has
\* not been verified.
RowsFilled ==
    \A c \in Challenges :
        /\ chLink[c] # None => contact[c] # None /\ mobile[c] # None
        /\ chLink[c] = None => ~verified[c]

\* The two steps a request performs inside its transaction.
InTransaction == {"checking", "inserting"}

\* A claimed row belongs to the request whose transaction is open.
ClaimsOwned ==
    /\ \A c \in Challenges, w \in Workers :
          locked[c] = w => pc[w] \in InTransaction /\ ch[w] = c
    /\ \A w \in Workers : pc[w] \in InTransaction =>
          /\ ch[w] \in Challenges
          /\ locked[ch[w]] = w
          /\ verified[ch[w]] /\ ~consumed[ch[w]]

\* A request works under the link it was sent to.
RequestsFiled ==
    /\ \A w \in Workers :
          /\ pc[w] # "idle" => ch[w] \in Challenges /\ lk[w] \in Links
          /\ pc[w] \in InTransaction \cup {"claiming", "verifying"}
                => lk[w] = chLink[ch[w]]
          /\ pc[w] = "requesting" => chLink[ch[w]] = None
    /\ \A v, w \in Workers :
          pc[v] = "requesting" /\ pc[w] = "requesting" /\ v # w => ch[v] # ch[w]

\* Only a response that was stored waits to be scored.
UnscoredStored == \A c \in unscored : verified[c]

\* The safety properties of the flow, together.
Safety == /\ OneResponsePerPerson
          /\ SpentExactlyOnce
          /\ FiledWhereVerified
          /\ AttemptLimit

\* The inductive invariant.
IInv == TypeOK /\ Safety /\ RowsFilled /\ UnscoredStored /\ ClaimsOwned /\ RequestsFiled

-----------------------------------------------------------------------------
\* The initial state satisfies the invariant.
LEMMA InitInv == Init => IInv
<1> SUFFICES ASSUME Init PROVE IInv
  OBVIOUS
<1> USE NoneAssumption, MaxAttemptsAssumption, LinksAssumption DEF Init
<1>1. TypeOK
  BY DEF TypeOK, Steps
<1>2. Safety
  BY DEF Safety, OneResponsePerPerson, SpentExactlyOnce, FiledWhereVerified, AttemptLimit
<1>3. RowsFilled /\ UnscoredStored /\ ClaimsOwned /\ RequestsFiled
  BY DEF RowsFilled, UnscoredStored, ClaimsOwned, RequestsFiled, InTransaction
<1> QED
  BY <1>1, <1>2, <1>3 DEF IInv

\* Safety only speaks of the responses and the sessions.
LEMMA SafetyStable ==
    Safety /\ UNCHANGED <<ledgerRows, consumed, chLink, contact, mobile, verified, attempts>>
        => Safety'
  BY DEF Safety, OneResponsePerPerson, SpentExactlyOnce, FiledWhereVerified, AttemptLimit

\* A request that begins: it has found its link and, but for a new session,
\* the session under that link.
LEMMA BeginStep ==
    ASSUME NEW w \in Workers, NEW l \in Links, NEW c \in Challenges,
           NEW v \in 0..MaxVersion,
           NEW step \in {"requesting", "verifying", "claiming"},
           IInv, Begin(w, step, l, c, v),
           step # "requesting" => chLink[c] = l,
           step = "requesting" => chLink[c] = None /\ \A u \in Workers : ch[u] # c
    PROVE  IInv'
<1> USE DEF IInv, Begin, challengeVars, commitVars, scoreVars
<1>1. TypeOK'
  BY DEF TypeOK, Steps
<1>2. Safety' /\ RowsFilled' /\ UnscoredStored'
  BY SafetyStable DEF RowsFilled, UnscoredStored
<1>3. ClaimsOwned'
  BY DEF ClaimsOwned, InTransaction, TypeOK, Steps
<1>4. RequestsFiled'
  BY DEF RequestsFiled, InTransaction, TypeOK, Steps
<1> QED
  BY <1>1, <1>2, <1>3, <1>4

\* Undoing a transaction releases its claim and nothing else.
LEMMA RollbackStep ==
    ASSUME NEW w \in Workers, IInv, Rollback(w)
    PROVE  IInv'
<1> USE NoneAssumption DEF IInv, Rollback, Answer, challengeVars, scoreVars
<1>1. TypeOK'
  BY LinksAssumption DEF TypeOK, Steps
<1>2. Safety' /\ RowsFilled' /\ UnscoredStored'
  BY SafetyStable DEF RowsFilled, UnscoredStored
<1>3. ClaimsOwned'
  BY DEF ClaimsOwned, InTransaction, TypeOK, Steps
<1>4. RequestsFiled'
  BY DEF RequestsFiled, InTransaction, TypeOK, Steps
<1> QED
  BY <1>1, <1>2, <1>3, <1>4

\* Inserting a new session does not touch one that responses rest on.
LEMMA RequestOtpStep ==
    ASSUME NEW w \in Workers, IInv, RequestOtp(w)
    PROVE  IInv'
<1> USE NoneAssumption
        DEF IInv, RequestOtp, Answer, challengeVars, commitVars, scoreVars
<1>1. ch[w] \in Challenges /\ lk[w] \in Links /\ chLink[ch[w]] = None
  BY DEF RequestsFiled
<1>2. TypeOK'
  <2>1. PICK k \in Contacts : contact' = [contact EXCEPT ![ch[w]] = k]
    OBVIOUS
  <2>2. PICK m \in Mobiles : mobile' = [mobile EXCEPT ![ch[w]] = m]
    OBVIOUS
  <2> HIDE DEF RequestOtp
  <2>3. /\ chLink' = [chLink EXCEPT ![ch[w]] = lk[w]]
        /\ UNCHANGED <<attempts, expired, verified, commitVars, scoreVars, linkOpen, live>>
        /\ Answer(w)
    BY DEF RequestOtp
  <2> QED
    BY <1>1, <2>1, <2>2, <2>3, LinksAssumption DEF TypeOK, Steps
<1>3. Safety'
  BY <1>1 DEF Safety, OneResponsePerPerson, SpentExactlyOnce, FiledWhereVerified,
              AttemptLimit, RowsFilled, TypeOK, Ledger!Entry
<1>4. RowsFilled' /\ UnscoredStored'
  BY <1>1 DEF RowsFilled, UnscoredStored, TypeOK
<1>5. ClaimsOwned'
  BY DEF ClaimsOwned, InTransaction, TypeOK, Steps
<1>6. RequestsFiled'
  BY <1>1 DEF RequestsFiled, InTransaction, TypeOK, Steps
<1> QED
  BY <1>2, <1>3, <1>4, <1>5, <1>6

\* Writing the outcome of a guess, on a session that is still usable.
LEMMA VerifyOtpStep ==
    ASSUME NEW w \in Workers, IInv, VerifyOtp(w)
    PROVE  IInv'
<1> USE NoneAssumption, MaxAttemptsAssumption
        DEF IInv, VerifyOtp, StillUsable, Answer, commitVars, scoreVars
<1>1. ch[w] \in Challenges /\ lk[w] \in Links /\ lk[w] = chLink[ch[w]]
  BY DEF RequestsFiled
<1>2. TypeOK'
  <2>1. /\ UNCHANGED <<chLink, contact, mobile, expired, commitVars, scoreVars, linkOpen, live>>
        /\ Answer(w)
    BY DEF VerifyOtp
  <2>2. verified' \in [Challenges -> BOOLEAN] /\ attempts' \in [Challenges -> Nat]
    <3>1. \/ verified' = [verified EXCEPT ![ch[w]] = TRUE] /\ UNCHANGED attempts
          \/ attempts' = [attempts EXCEPT ![ch[w]] = @ + 1] /\ UNCHANGED verified
          \/ UNCHANGED <<attempts, verified>>
      BY DEF VerifyOtp
    <3>2. /\ verified \in [Challenges -> BOOLEAN]
          /\ attempts \in [Challenges -> Nat]
      BY DEF TypeOK
    <3>3. verified' \in [Challenges -> BOOLEAN]
      BY ONLY <3>1, <3>2, <1>1
    <3>4. \A n \in Nat : n + 1 \in Nat
      OBVIOUS
    <3>5. attempts[ch[w]] + 1 \in Nat
      BY <3>2, <3>4, <1>1
    <3>6. attempts' \in [Challenges -> Nat]
      BY ONLY <3>1, <3>2, <3>5, <1>1
    <3> QED
      BY <3>3, <3>6
  <2> HIDE DEF VerifyOtp
  <2> QED
    BY <2>1, <2>2, LinksAssumption DEF TypeOK, Steps
<1>3. OneResponsePerPerson' /\ SpentExactlyOnce'
  BY DEF Safety, OneResponsePerPerson, SpentExactlyOnce
<1>4. FiledWhereVerified'
  BY <1>1 DEF Safety, FiledWhereVerified, TypeOK, Ledger!Entry
<1>5. AttemptLimit'
  BY <1>1 DEF Safety, AttemptLimit, TypeOK
<1>6. RowsFilled' /\ UnscoredStored'
  BY <1>1 DEF RowsFilled, UnscoredStored, TypeOK
<1>7. ClaimsOwned'
  BY <1>1 DEF ClaimsOwned, InTransaction, TypeOK, Steps
<1>8. RequestsFiled'
  BY <1>1 DEF RequestsFiled, InTransaction, TypeOK, Steps
<1> QED
  BY <1>2, <1>3, <1>4, <1>5, <1>6, <1>7, <1>8 DEF Safety

\* Claiming a row that nobody holds.
LEMMA ClaimStep ==
    ASSUME NEW w \in Workers, IInv, Claim(w)
    PROVE  IInv'
<1> USE NoneAssumption DEF IInv, Claim, challengeVars, commitVars, scoreVars
<1>1. ch[w] \in Challenges /\ lk[w] \in Links /\ lk[w] = chLink[ch[w]]
  BY DEF RequestsFiled
<1>2. TypeOK'
  BY <1>1, LinksAssumption DEF TypeOK, Steps, Answer
<1>3. Safety' /\ RowsFilled' /\ UnscoredStored'
  BY SafetyStable DEF RowsFilled, UnscoredStored
<1>4. ClaimsOwned'
  BY <1>1 DEF ClaimsOwned, InTransaction, TypeOK, Steps, Answer
<1>5. RequestsFiled'
  BY <1>1 DEF RequestsFiled, InTransaction, TypeOK, Steps, Answer
<1> QED
  BY <1>2, <1>3, <1>4, <1>5

\* The checks inside the transaction: undo it, or go on to the insert.
LEMMA CheckStep ==
    ASSUME NEW w \in Workers, IInv, Check(w)
    PROVE  IInv'
<1>1. CASE Rollback(w)
  BY <1>1, RollbackStep
<1>2. CASE ~Rollback(w)
  <2> USE <1>2 DEF IInv, Check, challengeVars, commitVars, scoreVars
  <2>1. TypeOK'
    BY DEF TypeOK, Steps
  <2>2. Safety' /\ RowsFilled' /\ UnscoredStored'
    BY SafetyStable DEF RowsFilled, UnscoredStored
  <2>3. ClaimsOwned'
    BY DEF ClaimsOwned, InTransaction, TypeOK, Steps
  <2>4. RequestsFiled'
    BY DEF RequestsFiled, InTransaction, TypeOK, Steps
  <2> QED
    BY <2>1, <2>2, <2>3, <2>4
<1> QED
  BY <1>1, <1>2

\* What an insert that is about to happen stores.
LEMMA EntryIsWellFormed ==
    ASSUME NEW w \in Workers, IInv, pc[w] \in InTransaction
    PROVE  /\ Entry(w) \in Ledger!Entry
           /\ Entry(w).via = ch[w] /\ Entry(w).link = chLink[ch[w]]
           /\ Entry(w).contact = contact[ch[w]] /\ Entry(w).mobile = mobile[ch[w]]
<1>1. /\ ch[w] \in Challenges /\ lk[w] \in Links
      /\ lk[w] = chLink[ch[w]] /\ chLink[ch[w]] # None
  BY NoneAssumption DEF IInv, RequestsFiled, InTransaction
<1>2. contact[ch[w]] \in Contacts /\ mobile[ch[w]] \in Mobiles /\ page[w] \in 0..MaxVersion
  BY <1>1 DEF IInv, TypeOK, RowsFilled
<1> QED
  BY <1>1, <1>2 DEF Entry, Ledger!Entry

\* Storing a response spends its session, and only when no one of the same
\* address or number has responded.
LEMMA InsertStep ==
    ASSUME NEW w \in Workers, IInv, Insert(w)
    PROVE  IInv'
<1>1. CASE Duplicate(w)
  BY <1>1, RollbackStep DEF Insert
<1>2. CASE ~Duplicate(w)
  <2> DEFINE e == Entry(w)
             c == ch[w]
  <2>0. /\ pc[w] = "inserting"
        /\ ledgerRows' = ledgerRows \cup {e}
        /\ consumed' = [consumed EXCEPT ![c] = TRUE]
        /\ locked' = [locked EXCEPT ![c] = None]
        /\ unscored' = unscored \cup {c}
        /\ UNCHANGED <<challengeVars, scoredAs, linkOpen, live>>
        /\ Answer(w)
    BY <1>2 DEF Insert
  <2>1. /\ c \in Challenges /\ locked[c] = w
        /\ verified[c] /\ ~consumed[c]
    BY <2>0 DEF IInv, ClaimsOwned, InTransaction
  <2>2. /\ e \in Ledger!Entry /\ e.via = c /\ e.link = chLink[c]
        /\ e.contact = contact[c] /\ e.mobile = mobile[c]
    BY <2>0, EntryIsWellFormed DEF InTransaction
  <2> HIDE DEF e, c
  <2> USE NoneAssumption DEF IInv, Safety, challengeVars, Answer
  <2>3. TypeOK'
    BY <2>0, <2>1, <2>2, LinksAssumption DEF TypeOK, Steps
  <2>4. OneResponsePerPerson'
    <3>1. \A q \in ledgerRows : ~Ledger!SamePerson(e, q) /\ ~Ledger!SamePerson(q, e)
      BY <1>2 DEF Duplicate, e, Ledger!SamePerson
    <3> QED
      BY <2>0, <3>1 DEF OneResponsePerPerson
  <2>5. SpentExactlyOnce'
    BY <2>0, <2>1, <2>2 DEF SpentExactlyOnce, TypeOK
  <2>6. FiledWhereVerified' /\ AttemptLimit'
    BY <2>0, <2>1, <2>2 DEF FiledWhereVerified, AttemptLimit
  <2>7. RowsFilled' /\ UnscoredStored'
    BY <2>0, <2>1 DEF RowsFilled, UnscoredStored
  <2>8. ClaimsOwned'
    BY <2>0, <2>1 DEF ClaimsOwned, InTransaction, TypeOK, Steps, c
  <2>9. RequestsFiled'
    BY <2>0 DEF RequestsFiled, InTransaction, TypeOK, Steps
  <2> QED
    BY <2>3, <2>4, <2>5, <2>6, <2>7, <2>8, <2>9
<1> QED
  BY <1>1, <1>2

\* What happens around the requests.
LEMMA EnvironmentStep == IInv /\ Environment => IInv'
<1> SUFFICES ASSUME IInv, Environment PROVE IInv'
  OBVIOUS
<1> USE LinksAssumption
        DEF IInv, challengeVars, commitVars, scoreVars, workerVars, RowsFilled,
            UnscoredStored, ClaimsOwned, RequestsFiled
<1>1. ASSUME NEW c \in Challenges, Expire(c) PROVE IInv'
  BY <1>1, SafetyStable DEF Expire, TypeOK
<1>2. ASSUME NEW c \in Challenges, ScoreResponse(c) PROVE IInv'
  <2>1. PICK r \in 0..MaxVersion : scoredAs' = [scoredAs EXCEPT ![c] = r]
    <3>1. CASE UNCHANGED scoredAs
      BY <3>1 DEF TypeOK
    <3>2. CASE scoredAs' = [scoredAs EXCEPT ![c] = live[NeedOf[chLink[c]]]]
      <4>1. c \in unscored /\ chLink[c] \in Links
        BY <1>2 DEF ScoreResponse, TypeOK
      <4>2. live[NeedOf[chLink[c]]] \in 0..MaxVersion
        BY <4>1 DEF TypeOK
      <4> QED
        BY <3>2, <4>2
    <3> QED
      BY <1>2, <3>1, <3>2 DEF ScoreResponse
  <2> QED
    BY <1>2, <2>1, SafetyStable DEF ScoreResponse, TypeOK
<1>3. ASSUME NEW l \in Links, CloseLink(l) PROVE IInv'
  BY <1>3, SafetyStable DEF CloseLink, TypeOK
<1>4. ASSUME NEW n \in Needs, GoLive(n) PROVE IInv'
  BY <1>4, SafetyStable DEF GoLive, TypeOK
<1> QED
  BY <1>1, <1>2, <1>3, <1>4 DEF Environment

\* Every step of the system preserves the invariant.
LEMMA NextPreserves == IInv /\ [Next]_vars => IInv'
<1> SUFFICES ASSUME IInv, [Next]_vars PROVE IInv'
  OBVIOUS
<1>1. CASE UNCHANGED vars
  BY <1>1, SafetyStable DEF vars, IInv, TypeOK, RowsFilled, UnscoredStored, ClaimsOwned,
      RequestsFiled,
        challengeVars, commitVars, scoreVars, workerVars
<1>2. ASSUME NEW w \in Workers, NEW l \in Links, NEW c \in Challenges,
             BeginRequestOtp(w, l, c) \/ BeginVerify(w, l, c) \/ BeginSubmit(w, l, c)
      PROVE  IInv'
  <2>1. 0 \in 0..MaxVersion
    BY LinksAssumption
  <2>2. ASSUME BeginRequestOtp(w, l, c) PROVE IInv'
    BY <2>1, <2>2, BeginStep DEF BeginRequestOtp
  <2>3. ASSUME BeginVerify(w, l, c) PROVE IInv'
    BY <2>1, <2>3, BeginStep DEF BeginVerify, FoundUnder
  <2>4. ASSUME BeginSubmit(w, l, c) PROVE IInv'
    <3>1. PICK v \in 0..live[NeedOf[l]] : Begin(w, "claiming", l, c, v)
      BY <2>4 DEF BeginSubmit
    <3>2. v \in 0..MaxVersion
      BY <3>1, LinksAssumption DEF IInv, TypeOK
    <3> QED
      BY <2>4, <3>1, <3>2, BeginStep DEF BeginSubmit, FoundUnder
  <2> QED
    BY <1>2, <2>2, <2>3, <2>4
<1>3. ASSUME NEW w \in Workers, Work(w) PROVE IInv'
  BY <1>3, RequestOtpStep, VerifyOtpStep, ClaimStep, CheckStep, InsertStep DEF Work
<1>4. ASSUME NEW w \in Workers, Fail(w) PROVE IInv'
  BY <1>4, RollbackStep DEF Fail
<1> QED
  BY <1>1, <1>2, <1>3, <1>4, EnvironmentStep DEF Next, Arrive

-----------------------------------------------------------------------------
\* Every variable keeps its type, whatever requests overlap.
THEOREM TypeCorrect == Spec => []TypeOK
<1>1. IInv => TypeOK
  BY DEF IInv
<1> QED
  BY <1>1, InitInv, NextPreserves, PTL DEF Spec

\* A person answers a need once at most, whatever links, sessions and requests
\* overlap.
THEOREM SubmissionIsSafe == Spec => []OneResponsePerPerson
<1>1. IInv => OneResponsePerPerson
  BY DEF IInv, Safety
<1> QED
  BY <1>1, InitInv, NextPreserves, PTL DEF Spec

\* Every response has spent a session of its own, every spent session stands
\* for a response filed under the link it was verified for, and no session
\* counts more guesses than it allows.
THEOREM SessionsAreAccounted == Spec => []SessionsAccountForResponses
<1>1. IInv => SessionsAccountForResponses
  BY DEF IInv, Safety, SessionsAccountForResponses
<1> QED
  BY <1>1, InitInv, NextPreserves, PTL DEF Spec

\* One step leaves the verdict on a session that has expired or was verified.
LEMMA StepKeepsVerdict ==
    IInv /\ [Next]_vars =>
        \A c \in Challenges : expired[c] \/ verified[c] =>
            UNCHANGED <<verified[c], attempts[c]>>
<1> SUFFICES ASSUME IInv, [Next]_vars,
                    NEW c \in Challenges, expired[c] \/ verified[c]
             PROVE  verified'[c] = verified[c] /\ attempts'[c] = attempts[c]
  OBVIOUS
<1>1. ASSUME NEW w \in Workers, VerifyOtp(w)
      PROVE  verified'[c] = verified[c] /\ attempts'[c] = attempts[c]
  <2>1. CASE ch[w] = c
    <3>1. ~StillUsable(ch[w])
      BY <2>1 DEF StillUsable
    <3> QED
      BY <1>1, <3>1 DEF VerifyOtp
  <2>2. CASE ch[w] # c
    BY <1>1, <2>2 DEF VerifyOtp, IInv, TypeOK
  <2> QED
    BY <2>1, <2>2
<1>2. ASSUME NEW w \in Workers,
             RequestOtp(w) \/ Claim(w) \/ Check(w) \/ Insert(w) \/ Fail(w)
      PROVE  UNCHANGED <<verified, attempts>>
  BY <1>2 DEF RequestOtp, Claim, Check, Insert, Fail, Rollback, challengeVars
<1>3. ASSUME NEW w \in Workers, Arrive(w) PROVE UNCHANGED <<verified, attempts>>
  BY <1>3 DEF Arrive, BeginRequestOtp, BeginVerify, BeginSubmit, Begin, challengeVars
<1>4. ASSUME Environment PROVE UNCHANGED <<verified, attempts>>
  BY <1>4 DEF Environment, Expire, ScoreResponse, CloseLink, GoLive, challengeVars
<1>5. CASE UNCHANGED vars
  BY <1>5 DEF vars, challengeVars
<1> QED
  BY <1>1, <1>2, <1>3, <1>4, <1>5 DEF Next, Work

\* Whatever guesses are in flight, none changes a session that has expired or
\* was verified before it is written.
THEOREM DeadSessionsStay == Spec => DeadSessionIsInert
<1>1. IInv /\ [Next]_vars =>
        [\A c \in Challenges : expired[c] \/ verified[c] =>
            UNCHANGED <<verified[c], attempts[c]>>]_vars
  BY StepKeepsVerdict
<1> QED
  BY <1>1, InitInv, NextPreserves, PTL DEF Spec, DeadSessionIsInert

\* Every step of the flow records one response as the ledger allows, or leaves
\* the ledger alone.
LEMMA StepRefines == IInv /\ [Next]_vars => [Ledger!Next]_(Ledger!vars)
<1> SUFFICES ASSUME IInv, [Next]_vars
             PROVE  Ledger!Next \/ UNCHANGED <<ledgerRows, consumed>>
  BY DEF Ledger!vars
<1>1. ASSUME NEW w \in Workers, Insert(w), ~Duplicate(w) PROVE Ledger!Next
  <2>1. /\ pc[w] = "inserting"
        /\ ledgerRows' = ledgerRows \cup {Entry(w)}
        /\ consumed' = [consumed EXCEPT ![ch[w]] = TRUE]
    BY <1>1 DEF Insert
  <2>2. ch[w] \in Challenges /\ ~consumed[ch[w]]
    BY <2>1 DEF IInv, ClaimsOwned, InTransaction
  <2>3. Entry(w) \in Ledger!Entry /\ Entry(w).via = ch[w]
    BY <2>1, EntryIsWellFormed DEF InTransaction
  <2>4. {c \in Challenges : consumed'[c]} = {c \in Challenges : consumed[c]} \cup {ch[w]}
    BY <2>1, <2>2 DEF IInv, TypeOK
  <2>5. PICK e \in Ledger!Entry : e = Entry(w)
    BY <2>3
  <2>6. Ledger!Record(e)
    BY <1>1, <2>1, <2>2, <2>3, <2>4, <2>5 DEF Ledger!Record, Duplicate
  <2> QED
    BY <2>6 DEF Ledger!Next
<1>2. ASSUME NEW w \in Workers, Insert(w), Duplicate(w)
      PROVE  UNCHANGED <<ledgerRows, consumed>>
  BY <1>2 DEF Insert, Rollback
<1>3. ASSUME NEW w \in Workers, RequestOtp(w) \/ VerifyOtp(w) \/ Claim(w) \/ Check(w) \/ Fail(w)
      PROVE  UNCHANGED <<ledgerRows, consumed>>
  BY <1>3 DEF RequestOtp, VerifyOtp, Claim, Check, Fail, Rollback, commitVars
<1>4. ASSUME NEW w \in Workers, Arrive(w) PROVE UNCHANGED <<ledgerRows, consumed>>
  BY <1>4 DEF Arrive, BeginRequestOtp, BeginVerify, BeginSubmit, Begin, commitVars
<1>5. ASSUME Environment PROVE UNCHANGED <<ledgerRows, consumed>>
  BY <1>5 DEF Environment, Expire, ScoreResponse, CloseLink, GoLive, commitVars
<1>6. CASE UNCHANGED vars
  BY <1>6 DEF vars, commitVars
<1> QED
  BY <1>1, <1>2, <1>3, <1>4, <1>5, <1>6 DEF Next, Work

\* The citizen flow implements the ledger: whatever requests overlap and fail,
\* responses are only added, each for a session nobody has used before and for
\* a person who has not responded to the need.
THEOREM FlowImplementsLedger == Spec => RecordsResponses
<1>1. Init => Ledger!Init
  BY DEF Init, Ledger!Init
<1> QED
  BY <1>1, InitInv, NextPreserves, StepRefines, PTL DEF Spec, RecordsResponses, Ledger!Spec

=============================================================================
