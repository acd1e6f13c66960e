---------------------- MODULE NeedClassificationProofs ----------------------
(***************************************************************************)
(* NeedClassification for any number of overlapping requests, attempts,    *)
(* edits and decisions, and what holds besides until two of them overlap.  *)
(***************************************************************************)
EXTENDS MCNeedClassification, TLAPS

\* A reviewer only ever decides on a row that exists.
PicksExist ==
    \A w \in Workers : pc[w] \in {"checking", "deciding"} => pick[w] \in 1..made

\* A decision that has not been made yet has not been decided.
FutureUndecided == \A d \in Decisions : d > made => human[d] = "none"

\* The inductive invariant.
IInv ==
    /\ TypeOK
    /\ ApprovedByAHuman
    /\ ClassifiedIsReviewable
    /\ PicksExist
    /\ FutureUndecided

-----------------------------------------------------------------------------
\* The numbers that stand for "nothing read yet" and for a first edition.
LEMMA Ranges == 0 \in 0..MaxEditions /\ 0 \in 0..MaxDecisions /\ 1 \in 1..MaxEditions
                    /\ 1..MaxEditions \subseteq 0..MaxEditions
                    /\ Decisions \subseteq 0..MaxDecisions
  BY BoundsAssumption DEF Decisions

\* The type of a worker's step, and of what it has read.
WorkersOK ==
    /\ pc \in [Workers -> {"idle", "editing", "retrying", "attempting", "awaitingAi",
                           "picking", "checking", "deciding", "selecting"}]
    /\ seen \in [Workers -> 0..MaxEditions]
    /\ pick \in [Workers -> 0..MaxDecisions]

\* A worker that answers keeps its types.
LEMMA AnswerTypes == ASSUME NEW w \in Workers, IInv, Answer(w) PROVE WorkersOK'
  BY Ranges DEF IInv, TypeOK, Answer, Goto, WorkersOK

\* A new need satisfies the invariant.
LEMMA InitInv == Init => IInv
<1> SUFFICES ASSUME Init PROVE IInv
  OBVIOUS
<1>1. TypeOK
  BY Ranges DEF Init, TypeOK
<1>2. ApprovedByAHuman /\ ClassifiedIsReviewable /\ PicksExist /\ FutureUndecided
  BY DEF Init, ApprovedByAHuman, ClassifiedIsReviewable, PicksExist, FutureUndecided
<1> QED
  BY <1>1, <1>2 DEF IInv

\* A step that only moves a worker on and lets it read.
LEMMA ReadStep ==
    ASSUME IInv, UNCHANGED <<needVars, decisionVars>>,
           fired' \in Nat,
           WorkersOK',
           PicksExist'
    PROVE  IInv'
  BY DEF IInv, TypeOK, WorkersOK, ApprovedByAHuman, ClassifiedIsReviewable,
         FutureUndecided, needVars, decisionVars

\* An attempt starts, reads the need, fails or classifies.
LEMMA AttemptStep == ASSUME NEW w \in Workers, IInv, Attempt(w) PROVE IInv'
<1>1. CASE StartAttempt(w)
  <2>1. PicksExist'
    BY <1>1 DEF IInv, TypeOK, PicksExist, StartAttempt, Goto, decisionVars
  <2> QED
    BY <1>1, <2>1, ReadStep DEF IInv, TypeOK, WorkersOK, StartAttempt, Goto
<1>2. CASE ReadNeed(w)
  <2>1. PicksExist'
    BY <1>2 DEF IInv, TypeOK, PicksExist, ReadNeed, Goto, Answer, ReadOnly, decisionVars
  <2> QED
    <3>1. WorkersOK'
      BY <1>2, Ranges, AnswerTypes DEF IInv, TypeOK, WorkersOK, ReadNeed, Goto
    <3> QED
      BY <1>2, <2>1, <3>1, ReadStep DEF IInv, TypeOK, ReadNeed, ReadOnly
<1>3. CASE Failed(w)
  <2>1. TypeOK'
    BY <1>3, AnswerTypes DEF IInv, TypeOK, WorkersOK, Failed, decisionVars
  <2> QED
    BY <1>3, <2>1 DEF IInv, TypeOK, ApprovedByAHuman, ClassifiedIsReviewable, PicksExist,
          FutureUndecided, Failed, Goto, Answer, decisionVars
<1>4. CASE Classified(w)
  <2>1. TypeOK'
    <3>1. made + 1 \in Decisions /\ made' \in 0..MaxDecisions
      BY <1>4, BoundsAssumption DEF IInv, TypeOK, Classified, Decisions
    <3>2. PICK n \in BOOLEAN : named' = [named EXCEPT ![made + 1] = n] /\ allDomains' = ~n
      BY <1>4 DEF Classified
    <3>3. WorkersOK' /\ about' \in [Decisions -> 0..MaxEditions]
      BY <1>4, <3>1, AnswerTypes DEF IInv, TypeOK, Classified
    <3> QED
      BY <1>4, <3>1, <3>2, <3>3 DEF IInv, TypeOK, WorkersOK, Classified
  <2>2. ClassifiedIsReviewable' /\ ApprovedByAHuman' /\ FutureUndecided'
    BY <1>4, BoundsAssumption DEF IInv, TypeOK, ApprovedByAHuman, ClassifiedIsReviewable,
          FutureUndecided, Classified, Decisions
  <2>3. PicksExist'
    BY <1>4, BoundsAssumption DEF IInv, TypeOK, PicksExist, Classified, Goto, Answer
  <2> QED
    BY <2>1, <2>2, <2>3 DEF IInv
<1> QED
  BY <1>1, <1>2, <1>3, <1>4 DEF Attempt

\* A reviewer finds a decision, checks it and decides.
LEMMA DecideStep == ASSUME NEW w \in Workers, IInv, Decide(w) PROVE IInv'
<1>1. CASE PickDecision(w)
  <2>1. \/ \E d \in Decisions : Undecided(d) /\ pick' = [pick EXCEPT ![w] = d]
                                /\ Goto(w, "checking") /\ UNCHANGED seen
        \/ Answer(w)
    BY <1>1 DEF PickDecision
  <2>2. PicksExist'
    BY <1>1, <2>1 DEF IInv, TypeOK, PicksExist, PickDecision, Undecided, Goto, Answer,
          ReadOnly, decisionVars
  <2> QED
    <3>1. WorkersOK'
      BY <2>1, Ranges, AnswerTypes DEF IInv, TypeOK, WorkersOK, Goto
    <3> QED
      BY <1>1, <2>2, <3>1, ReadStep DEF IInv, TypeOK, PickDecision, ReadOnly
<1>2. CASE CheckDecision(w)
  <2>1. PicksExist'
    BY <1>2 DEF IInv, TypeOK, PicksExist, CheckDecision, Goto, Answer, ReadOnly, decisionVars
  <2> QED
    <3>1. WorkersOK'
      BY <1>2, AnswerTypes DEF IInv, TypeOK, WorkersOK, CheckDecision, Goto
    <3> QED
      BY <1>2, <2>1, <3>1, ReadStep DEF IInv, TypeOK, CheckDecision, ReadOnly
<1>3. CASE Approve(w)
  <2>1. pick[w] \in 1..made /\ pick[w] \in Decisions
    BY <1>3, BoundsAssumption DEF IInv, TypeOK, PicksExist, Approve, Decisions
  <2>2. PICK h \in {"approved", "modified"} : human' = [human EXCEPT ![pick[w]] = h]
    BY <1>3 DEF Approve
  <2>3. TypeOK'
    BY <1>3, <2>1, <2>2, AnswerTypes DEF IInv, TypeOK, WorkersOK, Approve
  <2>4. ApprovedByAHuman' /\ ClassifiedIsReviewable'
    BY <1>3, <2>1, <2>2 DEF IInv, TypeOK, ApprovedByAHuman, ClassifiedIsReviewable, Approve
  <2>5. PicksExist' /\ FutureUndecided'
    BY <1>3, <2>1, <2>2, BoundsAssumption DEF IInv, TypeOK, PicksExist, FutureUndecided,
          Approve, Goto, Answer, Decisions
  <2> QED
    BY <2>3, <2>4, <2>5 DEF IInv
<1>4. CASE Reject(w)
  <2>1. pick[w] \in 1..made /\ pick[w] \in Decisions
    BY <1>4, BoundsAssumption DEF IInv, TypeOK, PicksExist, Reject, Decisions
  <2>2. TypeOK'
    BY <1>4, <2>1, AnswerTypes DEF IInv, TypeOK, WorkersOK, Reject
  <2>3. ApprovedByAHuman' /\ ClassifiedIsReviewable'
    BY <1>4 DEF ApprovedByAHuman, ClassifiedIsReviewable, Reject
  <2>4. PicksExist' /\ FutureUndecided'
    BY <1>4, <2>1, BoundsAssumption DEF IInv, TypeOK, PicksExist, FutureUndecided,
          Reject, Goto, Answer, Decisions
  <2> QED
    BY <2>2, <2>3, <2>4 DEF IInv
<1> QED
  BY <1>1, <1>2, <1>3, <1>4 DEF Decide

\* Edits, retries, manual picks and proposals.
LEMMA RequestStep ==
    ASSUME NEW w \in Workers, IInv, Request(w) \/ RetryFlow(w) \/ Fail(w) PROVE IInv'
<1>1. ASSUME NEW step \in {"editing", "retrying", "selecting", "picking"}, Begin(w, step)
      PROVE  IInv'
  <2>1. PicksExist'
    BY <1>1 DEF IInv, TypeOK, PicksExist, Begin, Goto, ReadOnly, decisionVars
  <2> QED
    BY <1>1, <2>1, ReadStep DEF IInv, TypeOK, WorkersOK, Begin, Goto, ReadOnly
<1>2. CASE Update(w)
  <2>1. edition' \in 1..MaxEditions /\ fired' \in Nat
    BY <1>2, BoundsAssumption DEF IInv, TypeOK, Update
  <2>2. TypeOK'
    BY <1>2, <2>1, AnswerTypes DEF IInv, TypeOK, WorkersOK, Update, decisionVars
  <2> QED
    BY <1>2, <2>2 DEF IInv, TypeOK, ApprovedByAHuman, ClassifiedIsReviewable, PicksExist,
          FutureUndecided, Update, Goto, Answer, decisionVars
<1>3. CASE Retry(w)
  <2>1. TypeOK'
    BY <1>3 DEF IInv, TypeOK, Retry, Goto, decisionVars
  <2> QED
    BY <1>3, <2>1 DEF IInv, TypeOK, ApprovedByAHuman, ClassifiedIsReviewable, PicksExist,
          FutureUndecided, Retry, Goto, decisionVars
<1>4. CASE ManualClassify(w)
  <2>1. TypeOK'
    BY <1>4, AnswerTypes DEF IInv, TypeOK, WorkersOK, ManualClassify, decisionVars
  <2> QED
    BY <1>4, <2>1 DEF IInv, TypeOK, ApprovedByAHuman, ClassifiedIsReviewable, PicksExist,
          FutureUndecided, ManualClassify, Goto, Answer, decisionVars
<1>5. CASE PreviewOverride(w)
  BY <1>5 DEF IInv, TypeOK, ApprovedByAHuman, ClassifiedIsReviewable, PicksExist,
        FutureUndecided, PreviewOverride, decisionVars, workerVars
<1>6. CASE Fail(w)
  <2>1. PicksExist'
    BY <1>6 DEF IInv, TypeOK, PicksExist, Fail, Goto, Answer, ReadOnly, decisionVars
  <2> QED
    BY <1>6, <2>1, AnswerTypes, ReadStep DEF IInv, TypeOK, Fail, ReadOnly
<1>7. CASE BeginUpdate(w) \/ BeginManual(w) \/ BeginReview(w) \/ BeginRetry(w)
  BY <1>1, <1>7 DEF BeginUpdate, BeginManual, BeginReview, BeginRetry
<1> QED
  BY <1>2, <1>3, <1>4, <1>5, <1>6, <1>7 DEF Request, RetryFlow

\* Every step preserves the invariant.
LEMMA NextPreserves == IInv /\ [Next]_vars => IInv'
<1> SUFFICES ASSUME IInv, [Next]_vars PROVE IInv'
  OBVIOUS
<1>1. CASE Restart
  <2>1. PicksExist'
    BY <1>1 DEF PicksExist, Restart
  <2> QED
    BY <1>1, <2>1, ReadStep, Ranges DEF Restart, WorkersOK
<1>2. CASE UNCHANGED vars
  BY <1>2 DEF IInv, TypeOK, ApprovedByAHuman, ClassifiedIsReviewable, PicksExist,
        FutureUndecided, vars, needVars, decisionVars, workerVars
<1> QED
  BY <1>1, <1>2, AttemptStep, DecideStep, RequestStep DEF Next

-----------------------------------------------------------------------------
(***************************************************************************)
(* Until two requests or attempts overlap (MCSpec): one runs at a time,    *)
(* what it has read is still so, and the newest decision is about the text *)
(* as it reads and is the only one that may be open.                       *)
(***************************************************************************)

OneInFlight == \A v, w \in InFlight : v = w

\* What the worker in flight has checked is still so when it writes.
StillAsRead ==
    \A w \in Workers :
        /\ pc[w] = "editing" => Editable
        /\ pc[w] = "awaitingAi" => Editable /\ seen[w] = edition
        /\ pc[w] \in {"selecting", "retrying"} => status = "failed"
        /\ pc[w] = "deciding" => status = "classified" /\ human[pick[w]] = "none"

\* The need and its decisions tell one story.
OneStory ==
    /\ status = "classified" => about[made] = edition
    /\ status = "approved" /\ domain # "manual" => about[made] = edition
    /\ error <=> status = "failed"
    /\ \A d \in Decisions : Undecided(d) => status = "classified" /\ d = made

CalmInv == OneInFlight /\ StillAsRead /\ OneStory

SerialInv == overlapped \in BOOLEAN /\ (~overlapped => CalmInv)

\* A step that leaves the need and its decisions alone.
LEMMA SameStory == OneStory /\ UNCHANGED <<needVars, decisionVars>> => OneStory'
  BY DEF OneStory, Undecided, needVars, decisionVars

\* The other workers are idle while one is in flight.
LEMMA OthersIdle ==
    ASSUME NEW w \in Workers, CalmInv, pc[w] # "idle"
    PROVE  \A v \in Workers : v # w => pc[v] = "idle"
  BY DEF CalmInv, OneInFlight, InFlight

\* When a worker answers, none is left in flight.
LEMMA CalmAnswer ==
    ASSUME NEW w \in Workers, TypeOK, CalmInv, pc[w] # "idle", Answer(w), OneStory'
    PROVE  CalmInv'
<1>1. \A v \in Workers : pc'[v] = "idle"
  BY OthersIdle DEF Answer, Goto, TypeOK
<1>2. StillAsRead' /\ OneInFlight'
  BY <1>1 DEF StillAsRead, OneInFlight, InFlight
<1> QED
  BY <1>2 DEF CalmInv

\* A worker that only reads goes on, alone, to a step whose checks it has made.
LEMMA CalmMove ==
    ASSUME NEW w \in Workers, NEW step, TypeOK, CalmInv, OneInFlight',
           Goto(w, step), step # "idle", UNCHANGED <<needVars, decisionVars>>,
           step = "editing" => Editable,
           step = "awaitingAi" => Editable /\ seen'[w] = edition,
           step \in {"selecting", "retrying"} => status = "failed",
           step = "deciding" => status = "classified" /\ human[pick'[w]] = "none"
    PROVE  CalmInv'
<1>1. pc'[w] = step
  BY DEF Goto, TypeOK
<1>2. \A v \in Workers : v # w => pc'[v] = "idle"
  BY <1>1 DEF OneInFlight, InFlight
<1>3. StillAsRead'
  BY <1>1, <1>2 DEF StillAsRead, Editable, needVars, decisionVars
<1>4. OneStory'
  BY SameStory DEF CalmInv
<1> QED
  BY <1>3, <1>4 DEF CalmInv

\* An attempt classifies the text it has read, which is still the text.
LEMMA CalmAttempt ==
    ASSUME NEW w \in Workers, IInv, CalmInv, OneInFlight', Attempt(w) PROVE CalmInv'
<1> USE DEF IInv
<1>1. CASE StartAttempt(w)
  BY <1>1, CalmMove DEF StartAttempt
<1>2. CASE ReadNeed(w)
  <2>1. UNCHANGED <<needVars, decisionVars>> /\ pc[w] # "idle"
    BY <1>2 DEF ReadNeed, ReadOnly
  <2>2. CASE Editable
    <3>1. Goto(w, "awaitingAi") /\ seen'[w] = edition
      BY <1>2, <2>2 DEF ReadNeed, TypeOK
    <3> QED
      BY <2>1, <2>2, <3>1, CalmMove
  <2>3. CASE ~Editable
    BY <1>2, <2>1, <2>3, CalmAnswer, SameStory DEF ReadNeed, CalmInv
  <2> QED
    BY <2>2, <2>3
<1>3. CASE Failed(w)
  <2>1. status \in {"pending", "failed"} /\ pc[w] # "idle"
    BY <1>3 DEF Failed, CalmInv, StillAsRead, Editable
  <2>2. OneStory'
    BY <1>3, <2>1 DEF Failed, CalmInv, OneStory, Undecided, decisionVars
  <2> QED
    BY <1>3, <2>1, <2>2, CalmAnswer DEF Failed
<1>4. CASE Classified(w)
  <2>1. Editable /\ seen[w] = edition /\ pc[w] # "idle"
    BY <1>4 DEF Classified, CalmInv, StillAsRead
  <2>2. made \in 0..MaxDecisions /\ made + 1 \in Decisions
    BY <1>4, BoundsAssumption DEF TypeOK, Classified, Decisions
  <2>3. about'[made'] = edition' /\ made' = made + 1
    BY <1>4, <2>1, <2>2 DEF Classified, TypeOK
  <2>4. \A d \in Decisions : Undecided(d)' => d = made'
    BY <1>4, <2>1, <2>2 DEF Classified, Undecided, CalmInv, OneStory, Editable, Decisions
  <2>5. OneStory'
    BY <1>4, <2>3, <2>4 DEF Classified, OneStory
  <2> QED
    BY <1>4, <2>1, <2>5, CalmAnswer DEF Classified
<1> QED
  BY <1>1, <1>2, <1>3, <1>4 DEF Attempt

\* The reviewer decides on the one open decision.
LEMMA CalmDecide ==
    ASSUME NEW w \in Workers, IInv, CalmInv, OneInFlight', Decide(w) PROVE CalmInv'
<1> USE DEF IInv
<1>1. CASE PickDecision(w)
  <2>1. Goto(w, "checking") \/ Answer(w)
    BY <1>1 DEF PickDecision
  <2>2. UNCHANGED <<needVars, decisionVars>> /\ pc[w] # "idle"
    BY <1>1 DEF PickDecision, ReadOnly
  <2> QED
    BY <2>1, <2>2, CalmMove, CalmAnswer, SameStory DEF CalmInv
<1>2. CASE CheckDecision(w)
  <2>1. UNCHANGED <<needVars, decisionVars>> /\ pc[w] # "idle"
    BY <1>2 DEF CheckDecision, ReadOnly
  <2>2. CASE human[pick[w]] = "none" /\ status = "classified"
    <3>1. Goto(w, "deciding") /\ pick' = pick
      BY <1>2, <2>2 DEF CheckDecision
    <3> QED
      BY <2>1, <2>2, <3>1, CalmMove
  <2>3. CASE ~(human[pick[w]] = "none" /\ status = "classified")
    BY <1>2, <2>1, <2>3, CalmAnswer, SameStory DEF CheckDecision, CalmInv
  <2> QED
    BY <2>2, <2>3
<1>3. CASE Approve(w) \/ Reject(w)
  <2>1. /\ pc[w] = "deciding" /\ status = "classified" /\ human[pick[w]] = "none"
        /\ pick[w] \in 1..made /\ pick[w] \in Decisions
    BY <1>3, BoundsAssumption
       DEF Approve, Reject, CalmInv, StillAsRead, PicksExist, TypeOK, Decisions
  <2>2. pick[w] = made
    BY <2>1 DEF CalmInv, OneStory, Undecided
  <2>3. PICK h \in {"approved", "modified", "rejected"} :
          human' = [human EXCEPT ![pick[w]] = h]
    BY <1>3 DEF Approve, Reject
  <2>4. \A d \in Decisions : ~Undecided(d)'
    <3>1. made' = made
      BY <1>3 DEF Approve, Reject
    <3> QED
      BY <2>1, <2>2, <2>3, <3>1 DEF CalmInv, OneStory, Undecided, TypeOK
  <2>5. about[made] = edition /\ ~error
    BY <2>1 DEF CalmInv, OneStory
  <2>6. OneStory'
    BY <1>3, <2>4, <2>5 DEF Approve, Reject, OneStory
  <2> QED
    BY <1>3, <2>1, <2>6, CalmAnswer DEF Approve, Reject
<1> QED
  BY <1>1, <1>2, <1>3 DEF Decide

\* Edits, retries, manual picks and proposals.
LEMMA CalmRequest ==
    ASSUME NEW w \in Workers, IInv, CalmInv, OneInFlight',
           Request(w) \/ RetryFlow(w) \/ Fail(w)
    PROVE  CalmInv'
<1> USE DEF IInv
<1>1. CASE BeginUpdate(w) \/ BeginManual(w) \/ BeginReview(w) \/ BeginRetry(w)
  BY <1>1, CalmMove DEF BeginUpdate, BeginManual, BeginReview, BeginRetry, Begin, ReadOnly
<1>2. CASE Update(w)
  <2>1. Editable /\ pc[w] # "idle"
    BY <1>2 DEF Update, CalmInv, StillAsRead
  <2>2. OneStory'
    BY <1>2, <2>1 DEF Update, CalmInv, OneStory, Editable, Undecided, decisionVars
  <2> QED
    BY <1>2, <2>1, <2>2, CalmAnswer DEF Update
<1>3. CASE Retry(w)
  <2>1. status = "failed" /\ pc[w] # "idle"
    BY <1>3 DEF Retry, CalmInv, StillAsRead
  <2>2. OneStory'
    BY <1>3, <2>1 DEF Retry, CalmInv, OneStory, Undecided, decisionVars
  <2>3. pc'[w] = "attempting" /\ \A v \in Workers : v # w => pc'[v] = "idle"
    BY <1>3, <2>1, OthersIdle DEF Retry, Goto, TypeOK
  <2>4. StillAsRead'
    BY <2>3 DEF StillAsRead
  <2> QED
    BY <2>2, <2>4 DEF CalmInv
<1>4. CASE ManualClassify(w)
  <2>1. status = "failed" /\ pc[w] # "idle"
    BY <1>4 DEF ManualClassify, CalmInv, StillAsRead
  <2>2. OneStory'
    BY <1>4, <2>1 DEF ManualClassify, CalmInv, OneStory, Undecided, decisionVars
  <2> QED
    BY <1>4, <2>1, <2>2, CalmAnswer DEF ManualClassify
<1>5. CASE PreviewOverride(w)
  <2>1. OneStory' /\ StillAsRead'
    BY <1>5 DEF PreviewOverride, CalmInv, OneStory, StillAsRead, Undecided, Editable,
                decisionVars, workerVars
  <2> QED
    BY <2>1 DEF CalmInv
<1>6. CASE Fail(w)
  BY <1>6, CalmAnswer, SameStory DEF Fail, CalmInv, ReadOnly
<1> QED
  BY <1>1, <1>2, <1>3, <1>4, <1>5, <1>6 DEF Request, RetryFlow

\* The invariant of both kinds holds of every execution.
LEMMA SerialInvariant == MCSpec => [](IInv /\ SerialInv)
<1>1. MCInit => IInv /\ SerialInv
  <2>1. Init /\ overlapped = FALSE => SerialInv
    <3> SUFFICES ASSUME Init, overlapped = FALSE PROVE SerialInv
      OBVIOUS
    <3>1. OneInFlight /\ StillAsRead
      BY DEF Init, OneInFlight, InFlight, StillAsRead
    <3>2. \A d : ~Undecided(d)
      BY DEF Init, Undecided
    <3>3. OneStory
      BY <3>2 DEF Init, OneStory
    <3> QED
      BY <3>1, <3>3 DEF SerialInv, CalmInv
  <2> QED
    BY <2>1, InitInv DEF MCInit
<1>2. IInv /\ SerialInv /\ [MCNext]_<<vars, overlapped>> => (IInv /\ SerialInv)'
  <2> SUFFICES ASSUME IInv, SerialInv, [MCNext]_<<vars, overlapped>>
               PROVE  (IInv /\ SerialInv)'
    OBVIOUS
  <2>1. IInv'
    BY NextPreserves DEF MCNext
  <2>2. CASE UNCHANGED <<vars, overlapped>>
    <3>1. SerialInv'
      BY <2>2 DEF SerialInv, CalmInv, OneInFlight, InFlight, StillAsRead, OneStory,
                  Undecided, Editable, vars, needVars, decisionVars, workerVars
    <3> QED
      BY <2>1, <3>1
  <2>3. CASE MCNext
    <3>1. overlapped' \in BOOLEAN
      BY <2>3 DEF MCNext, SerialInv
    <3>2. ASSUME ~overlapped' PROVE CalmInv'
      <4>1. OneInFlight' /\ CalmInv
        BY <2>3, <3>2 DEF MCNext, SerialInv, OneInFlight
      <4>2. CASE Restart
        <5>1. \A v \in Workers : pc'[v] = "idle"
          BY <4>2 DEF Restart
        <5>2. StillAsRead' /\ OneStory'
          BY <4>1, <4>2, <5>1, SameStory DEF Restart, StillAsRead, CalmInv
        <5> QED
          BY <4>1, <5>2 DEF CalmInv
      <4> QED
        BY <2>3, <4>1, <4>2, CalmAttempt, CalmDecide, CalmRequest DEF MCNext, Next
    <3> QED
      BY <2>1, <3>1, <3>2 DEF SerialInv
  <2> QED
    BY <2>2, <2>3
<1> QED
  BY <1>1, <1>2, PTL DEF MCSpec

-----------------------------------------------------------------------------
\* Every variable keeps its type.
THEOREM TypeCorrect == Spec => []TypeOK
<1>1. IInv => TypeOK
  BY DEF IInv
<1> QED
  BY <1>1, InitInv, NextPreserves, PTL DEF Spec

\* However attempts, edits and reviews overlap, no need is approved without a
\* human, and one that is shown for review can be reviewed.
THEOREM ReviewIsHuman == Spec => [](ApprovedByAHuman /\ ClassifiedIsReviewable)
<1>1. IInv => ApprovedByAHuman /\ ClassifiedIsReviewable
  BY DEF IInv
<1> QED
  BY <1>1, InitInv, NextPreserves, PTL DEF Spec

\* What a reviewer is shown can always be decided; and until two requests or
\* attempts overlap it is the one open decision, it is about the text as it
\* reads, and an error is shown exactly while the last attempt has failed.
THEOREM ReviewIsCurrentHolds == MCSpec => []ReviewIsCurrent
<1>1. IInv /\ SerialInv => ReviewIsCurrent
  BY DEF IInv, SerialInv, CalmInv, OneStory, ReviewIsCurrent, ClassificationIsCurrent,
         ErrorExactlyWhenFailed, OneUndecided
<1> QED
  BY <1>1, SerialInvariant, PTL

=============================================================================
