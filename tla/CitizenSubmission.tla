------------------------- MODULE CitizenSubmission --------------------------
(***************************************************************************)
(* The citizen flow: ask for a one-time code, verify it, submit a response *)
(* to the survey behind a link, and the scoring that follows it            *)
(* (CitizenService).                                                       *)
(*                                                                         *)
(* A worker is one HTTP request in flight.  submitResponse runs one READ   *)
(* COMMITTED transaction: its claim of the challenge is a conditional      *)
(* update that keeps the row locked until the transaction ends, so the     *)
(* claim, the checks and the insert are steps of their own, a failure      *)
(* before the commit undoes the claim, and other claims of the same row    *)
(* wait.  Which survey version is live comes from SurveysService; here it  *)
(* is the version number LiveSurvey promises there is at most one of.      *)
(***************************************************************************)
EXTENDS Naturals

CONSTANTS
    Links, Needs, NeedOf, Challenges, Contacts, Mobiles, MaxVersion,
    Workers,      \* requests that may be in flight at once
    MaxAttempts,  \* OTP_MAX_ATTEMPTS
    None          \* null: no link, contact, mobile, challenge or worker

VARIABLES
    ledgerRows,   \* the SurveyResponse rows
    linkOpen,     \* link active and not expired, organisation active
    live,         \* the published survey version of each need, 0 if none
    chLink,       \* CitizenOtpChallenge.surveyLinkId, None while there is no row
    contact, mobile,
    attempts,
    expired,      \* the challenge's expiresAt has passed
    verified,     \* verifiedAt is set
    consumed,     \* consumedAt is set, in a committed transaction
    locked,       \* the request whose open transaction has claimed the row
    unscored,     \* responses whose detached scoring task has yet to run
    scoredAs,     \* the survey version a response was scored against, 0 if none
    pc, ch, lk, page   \* each worker's step, challenge, link and answers

challengeVars == <<chLink, contact, mobile, attempts, expired, verified>>
commitVars    == <<ledgerRows, consumed, locked>>
scoreVars     == <<unscored, scoredAs>>
workerVars    == <<pc, ch, lk, page>>
vars == <<challengeVars, commitVars, scoreVars, workerVars, linkOpen, live>>

Ledger == INSTANCE ResponseLedger WITH
              ledger <- ledgerRows, spent <- {c \in Challenges : consumed[c]}

ASSUME NoneAssumption ==
    None \notin Links \cup Challenges \cup Contacts \cup Mobiles \cup Workers
ASSUME MaxAttemptsAssumption == MaxAttempts \in Nat \ {0}
ASSUME LinksAssumption == NeedOf \in [Links -> Needs] /\ MaxVersion \in Nat

Steps == {"idle", "requesting", "verifying", "claiming", "checking", "inserting"}

TypeOK ==
    /\ ledgerRows \subseteq Ledger!Entry
    /\ linkOpen \in [Links -> BOOLEAN]
    /\ live \in [Needs -> 0..MaxVersion]
    /\ chLink \in [Challenges -> Links \cup {None}]
    /\ contact \in [Challenges -> Contacts \cup {None}]
    /\ mobile \in [Challenges -> Mobiles \cup {None}]
    /\ attempts \in [Challenges -> Nat]
    /\ expired \in [Challenges -> BOOLEAN]
    /\ verified \in [Challenges -> BOOLEAN]
    /\ consumed \in [Challenges -> BOOLEAN]
    /\ locked \in [Challenges -> Workers \cup {None}]
    /\ unscored \subseteq Challenges
    /\ scoredAs \in [Challenges -> 0..MaxVersion]
    /\ pc \in [Workers -> Steps]
    /\ ch \in [Workers -> Challenges \cup {None}]
    /\ lk \in [Workers -> Links \cup {None}]
    /\ page \in [Workers -> 0..MaxVersion]

Init ==
    /\ ledgerRows = {}
    /\ linkOpen = [l \in Links |-> TRUE]
    /\ live = [n \in Needs |-> 0]
    /\ chLink = [c \in Challenges |-> None]
    /\ contact = [c \in Challenges |-> None]
    /\ mobile = [c \in Challenges |-> None]
    /\ attempts = [c \in Challenges |-> 0]
    /\ expired = [c \in Challenges |-> FALSE]
    /\ verified = [c \in Challenges |-> FALSE]
    /\ consumed = [c \in Challenges |-> FALSE]
    /\ locked = [c \in Challenges |-> None]
    /\ unscored = {}
    /\ scoredAs = [c \in Challenges |-> 0]
    /\ pc = [w \in Workers |-> "idle"]
    /\ ch = [w \in Workers |-> None]
    /\ lk = [w \in Workers |-> None]
    /\ page = [w \in Workers |-> 0]

-----------------------------------------------------------------------------
\* A request has done its first reads: findActiveLinkOrThrow found the link of
\* its token open, and findChallengeOrThrow its challenge under that link.
Begin(w, step, l, c, v) ==
    /\ pc[w] = "idle"
    /\ linkOpen[l]
    /\ pc' = [pc EXCEPT ![w] = step]
    /\ ch' = [ch EXCEPT ![w] = c]
    /\ lk' = [lk EXCEPT ![w] = l]
    /\ page' = [page EXCEPT ![w] = v]
    /\ UNCHANGED <<challengeVars, commitVars, scoreVars, linkOpen, live>>

\* findChallengeOrThrow: the session of this link.
FoundUnder(c, l) == chLink[c] = l

\* A request answers.
Answer(w) ==
    /\ pc' = [pc EXCEPT ![w] = "idle"]
    /\ ch' = [ch EXCEPT ![w] = None]
    /\ lk' = [lk EXCEPT ![w] = None]
    /\ page' = [page EXCEPT ![w] = 0]

\* Faulty: the row stays locked.
RollbackKeepsLock(w) ==
    /\ UNCHANGED <<commitVars, challengeVars, scoreVars, linkOpen, live>>
    /\ Answer(w)

\* Its transaction, if it has one open, is undone: the claim is released.
Rollback(w) ==
    /\ locked' = [c \in Challenges |->
                    IF locked[c] = w THEN None ELSE locked[c]]
    /\ UNCHANGED <<ledgerRows, consumed, challengeVars, scoreVars, linkOpen, live>>
    /\ Answer(w)

Entry(w) == [via |-> ch[w], link |-> lk[w], contact |-> contact[ch[w]],
             mobile |-> mobile[ch[w]], version |-> page[w]]

\* A response of this contact or this mobile is already there for the need.
Duplicate(w) == \E q \in ledgerRows : Ledger!SamePerson(Entry(w), q)

-----------------------------------------------------------------------------
(***************************************************************************)
(* requestOtp: look the link up, hash a code, insert a challenge under an  *)
(* identifier nobody has.  A code that cannot be texted is no error.       *)
(***************************************************************************)
BeginRequestOtp(w, l, c) ==
    /\ chLink[c] = None
    /\ \A v \in Workers : ch[v] # c
    /\ Begin(w, "requesting", l, c, 0)

\* Faulty: the mobile number is not stored.
RequestOtpNoMobile(w) ==
    /\ pc[w] = "requesting"
    /\ chLink' = [chLink EXCEPT ![ch[w]] = lk[w]]
    /\ \E k \in Contacts : contact' = [contact EXCEPT ![ch[w]] = k]
    /\ UNCHANGED <<mobile, attempts, expired, verified, commitVars, scoreVars,
                   linkOpen, live>>
    /\ Answer(w)

RequestOtp(w) ==
    /\ pc[w] = "requesting"
    /\ chLink' = [chLink EXCEPT ![ch[w]] = lk[w]]
    /\ \E k \in Contacts : contact' = [contact EXCEPT ![ch[w]] = k]
    /\ \E m \in Mobiles : mobile' = [mobile EXCEPT ![ch[w]] = m]
    /\ UNCHANGED <<attempts, expired, verified, commitVars, scoreVars, linkOpen, live>>
    /\ Answer(w)

(***************************************************************************)
(* verifyOtp: read the challenge, compare hashes, and write the outcome    *)
(* only if the row is still usable.  A challenge already verified answers  *)
(* at once.                                                                *)
(***************************************************************************)
BeginVerify(w, l, c) ==
    /\ FoundUnder(c, l)
    /\ ~verified[c] /\ ~expired[c] /\ attempts[c] < MaxAttempts
    /\ Begin(w, "verifying", l, c, 0)

\* Faulty: the where clause forgets the expiry.
UsableDespiteExpiry(c) == ~verified[c] /\ ~consumed[c] /\ attempts[c] < MaxAttempts

\* The where clause of updateMany.
StillUsable(c) ==
    ~verified[c] /\ ~consumed[c] /\ ~expired[c] /\ attempts[c] < MaxAttempts

VerifyOtp(w) ==
    /\ pc[w] = "verifying"
    /\ LET c == ch[w] IN
         \/ /\ StillUsable(c)
            /\ \/ /\ verified' = [verified EXCEPT ![c] = TRUE]
                  /\ UNCHANGED attempts
               \/ /\ attempts' = [attempts EXCEPT ![c] = @ + 1]
                  /\ UNCHANGED verified
         \/ ~StillUsable(c) /\ UNCHANGED <<attempts, verified>>
    /\ UNCHANGED <<chLink, contact, mobile, expired, commitVars, scoreVars,
                   linkOpen, live>>
    /\ Answer(w)

(***************************************************************************)
(* submitResponse.  The page answers a version that was live when it was   *)
(* loaded (0: it has no answers).                                          *)
(***************************************************************************)
BeginSubmit(w, l, c) ==
    /\ FoundUnder(c, l)
    /\ verified[c] /\ ~consumed[c]
    /\ \E v \in 0..live[NeedOf[l]] : Begin(w, "claiming", l, c, v)

\* Faulty: the claim commits on its own, before the response is stored.
ClaimCommitted(w) ==
    /\ pc[w] = "claiming"
    /\ locked[ch[w]] = None
    /\ IF verified[ch[w]] /\ ~consumed[ch[w]]
       THEN /\ consumed' = [consumed EXCEPT ![ch[w]] = TRUE]
            /\ locked' = [locked EXCEPT ![ch[w]] = w]
            /\ pc' = [pc EXCEPT ![w] = "checking"]
            /\ UNCHANGED <<ledgerRows, ch, lk, page>>
       ELSE UNCHANGED commitVars /\ Answer(w)
    /\ UNCHANGED <<challengeVars, scoreVars, linkOpen, live>>

\* The claim waits while another open transaction holds the row.
Claim(w) ==
    /\ pc[w] = "claiming"
    /\ locked[ch[w]] = None
    /\ IF verified[ch[w]] /\ ~consumed[ch[w]]
       THEN /\ locked' = [locked EXCEPT ![ch[w]] = w]
            /\ pc' = [pc EXCEPT ![w] = "checking"]
            /\ UNCHANGED <<ledgerRows, consumed, ch, lk, page>>
       ELSE UNCHANGED commitVars /\ Answer(w)
    /\ UNCHANGED <<challengeVars, scoreVars, linkOpen, live>>

\* Looks for an earlier response and for the live survey.
Check(w) ==
    /\ pc[w] = "checking"
    /\ IF Duplicate(w) \/ live[NeedOf[lk[w]]] = 0
          \/ page[w] \notin {0, live[NeedOf[lk[w]]]}
       THEN Rollback(w)
       ELSE /\ pc' = [pc EXCEPT ![w] = "inserting"]
            /\ UNCHANGED <<challengeVars, commitVars, scoreVars, ch, lk, page,
                           linkOpen, live>>

\* Faulty: no unique index, only the check made before.
InsertUnindexed(w) ==
    /\ pc[w] = "inserting"
    /\ ledgerRows' = ledgerRows \cup {Entry(w)}
    /\ consumed' = [consumed EXCEPT ![ch[w]] = TRUE]
    /\ locked' = [locked EXCEPT ![ch[w]] = None]
    /\ unscored' = unscored \cup {ch[w]}
    /\ UNCHANGED <<challengeVars, scoredAs, linkOpen, live>>
    /\ Answer(w)

\* Faulty: the session is not marked as used.
InsertUnpaid(w) ==
    /\ pc[w] = "inserting"
    /\ IF Duplicate(w)
       THEN Rollback(w)
       ELSE /\ ledgerRows' = ledgerRows \cup {Entry(w)}
            /\ locked' = [locked EXCEPT ![ch[w]] = None]
            /\ unscored' = unscored \cup {ch[w]}
            /\ UNCHANGED <<challengeVars, consumed, scoredAs, linkOpen, live>>
            /\ Answer(w)

\* Inserts and commits, unless a unique index finds a response that came in
\* after the check.
Insert(w) ==
    /\ pc[w] = "inserting"
    /\ IF Duplicate(w)
       THEN Rollback(w)
       ELSE /\ ledgerRows' = ledgerRows \cup {Entry(w)}
            /\ consumed' = [consumed EXCEPT ![ch[w]] = TRUE]
            /\ locked' = [locked EXCEPT ![ch[w]] = None]
            /\ unscored' = unscored \cup {ch[w]}
            /\ UNCHANGED <<challengeVars, scoredAs, linkOpen, live>>
            /\ Answer(w)

\* A request dies at any point: a database error, a restart.
Fail(w) == pc[w] # "idle" /\ Rollback(w)

(***************************************************************************)
(* The detached continuation of submitResponse: the scoring engine looks   *)
(* up the survey that is live when it runs.  Its failure is only logged,   *)
(* and a restart forgets it.                                               *)
(***************************************************************************)
ScoreResponse(c) ==
    /\ c \in unscored
    /\ unscored' = unscored \ {c}
    /\ \/ scoredAs' = [scoredAs EXCEPT ![c] = live[NeedOf[chLink[c]]]]
       \/ UNCHANGED scoredAs
    /\ UNCHANGED <<challengeVars, commitVars, workerVars, linkOpen, live>>

(***************************************************************************)
(* What happens around the flow: codes expire, links are closed, and new   *)
(* survey versions go live.                                                *)
(***************************************************************************)
Expire(c) ==
    /\ chLink[c] # None
    /\ expired' = [expired EXCEPT ![c] = TRUE]
    /\ UNCHANGED <<chLink, contact, mobile, attempts, verified, commitVars,
                   scoreVars, workerVars, linkOpen, live>>

CloseLink(l) ==
    /\ linkOpen' = [linkOpen EXCEPT ![l] = FALSE]
    /\ UNCHANGED <<challengeVars, commitVars, scoreVars, workerVars, live>>

GoLive(n) ==
    /\ live[n] < MaxVersion
    /\ live' = [live EXCEPT ![n] = @ + 1]
    /\ UNCHANGED <<challengeVars, commitVars, scoreVars, workerVars, linkOpen>>

-----------------------------------------------------------------------------
Work(w) == RequestOtp(w) \/ VerifyOtp(w) \/ Claim(w) \/ Check(w) \/ Insert(w)

Arrive(w) == \E l \in Links, c \in Challenges :
                 BeginRequestOtp(w, l, c) \/ BeginVerify(w, l, c) \/ BeginSubmit(w, l, c)

Environment ==
    \/ \E c \in Challenges : Expire(c) \/ ScoreResponse(c)
    \/ \E l \in Links : CloseLink(l)
    \/ \E n \in Needs : GoLive(n)

Next == \/ \E w \in Workers : Arrive(w) \/ Work(w) \/ Fail(w)
        \/ Environment

Spec == Init /\ [][Next]_vars

-----------------------------------------------------------------------------
(***************************************************************************)
(* Properties                                                              *)
(***************************************************************************)

\* A need has at most one response per email address and per mobile number,
\* through whatever links and sessions they came.
OneResponsePerPerson ==
    \A r, q \in ledgerRows : r # q => ~Ledger!SamePerson(r, q)

\* A verified session is spent exactly once: it is consumed when one response
\* was stored for it, and a request that failed half-way has not burnt it.
\* (the atomic claim of submitResponse)
SpentExactlyOnce ==
    /\ \A c \in Challenges : consumed[c] <=> \E r \in ledgerRows : r.via = c
    /\ \A r, q \in ledgerRows : r.via = q.via => r = q

\* A response is stored under the link its session was opened for, with the
\* address and number the session was opened for, and only once the session
\* was verified.  (findChallengeOrThrow, submitResponse)
FiledWhereVerified ==
    \A r \in ledgerRows :
        /\ verified[r.via]
        /\ r.link = chLink[r.via]
        /\ r.contact = contact[r.via] /\ r.mobile = mobile[r.via]

\* However many guesses arrive at once, the wrong ones are counted up to the
\* limit, and a session that has used them all up is never verified.
\* (verifyOtp: OTP_MAX_ATTEMPTS in the where clause of updateMany)
AttemptLimit ==
    \A c \in Challenges :
        /\ attempts[c] <= MaxAttempts
        /\ verified[c] => attempts[c] < MaxAttempts

\* Sessions and responses agree: spent once, filed where verified, within the
\* limit.  (requestOtp, verifyOtp, submitResponse)
SessionsAccountForResponses == SpentExactlyOnce /\ FiledWhereVerified /\ AttemptLimit

\* Once a session has expired or was verified, no late guess changes it.
\* (verifyOtp rechecks both when it writes)
DeadSessionIsInert ==
    [][\A c \in Challenges : expired[c] \/ verified[c] =>
            UNCHANGED <<verified[c], attempts[c]>>]_vars

\* The flow keeps the promise of ResponseLedger.
RecordsResponses == Ledger!Spec

\* Every request is answered: none waits for ever for a row that another one
\* has claimed.  The event loop and the database keep working on a request,
\* and the lock queue of a row is served in order.
Fairness == \A w \in Workers : WF_vars(Work(w)) /\ SF_vars(Claim(w))

FairSpec == Spec /\ Fairness

EveryRequestAnswered == \A w \in Workers : pc[w] # "idle" ~> pc[w] = "idle"

-----------------------------------------------------------------------------
(***************************************************************************)
(* What comments say of the code, and the code does not keep               *)
(***************************************************************************)

\* "existing responses stay attached to the version they were collected
\* under": scoring resolves a response's answers against that version.
\* (comment on the Survey model; scoreResponse)
ScoredAsAnswered ==
    \A r \in ledgerRows :
        r.version # 0 /\ scoredAs[r.via] # 0 => scoredAs[r.via] = r.version

=============================================================================
