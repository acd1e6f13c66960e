----------------------- MODULE SurveyLifecycleProofs ------------------------
(***************************************************************************)
(* SurveyLifecycle for any number of surveys and of overlapping requests:  *)
(* the invariants that hold whatever requests are in flight, and then what *)
(* holds until two of them overlap, with the refinement of LiveSurvey.     *)
(***************************************************************************)
EXTENDS MCSurveyLifecycle, TLAPS

(***************************************************************************)
(* The inductive invariant: what the tables satisfy, and what a request    *)
(* may rely on of the rows it has read.                                    *)
(***************************************************************************)

\* A free identifier has no predecessor.
FreeRowsUnlinked == \A s \in Surveys : ~Exists(s) => prev[s] = NoSurvey

\* The timestamps of the decisions are there in the statuses they lead to.
DecisionsDated ==
    \A s \in Surveys : /\ status[s] = "APPROVED" => approved[s]
                       /\ status[s] = "PUBLISHED" => published[s]

TableInv ==
    /\ VersionChain
    /\ PublishedWasApproved
    /\ RetiredHasSuccessor
    /\ ReviewedHasMethodology
    /\ FeedbackMatchesStatus
    /\ DecisionsDated
    /\ FreeRowsUnlinked

\* Steps that write a row the request has read.
RowSteps == {"counting", "submitting", "approving", "publishing", "rejecting",
             "saving", "versioning", "methodology", "sample"}

\* A request's row is there, and what its checks found of it that nothing can
\* take back is still so when it writes.
RequestInv ==
    \A w \in Workers :
        /\ pc[w] \in RowSteps => target[w] \in Surveys
        /\ target[w] \in Surveys => Exists(target[w])
        /\ pc[w] \in {"counting", "submitting", "rejecting"} => methodology[target[w]]
        /\ pc[w] = "publishing" => approved[target[w]]
        /\ pc[w] = "versioning" => published[target[w]]

IInv == TypeOK /\ TableInv /\ RequestInv

\* What no write takes away from a row that is there.
Grows ==
    \A s \in Surveys : Exists(s) =>
        /\ status'[s] # "ABSENT"
        /\ methodology[s] => methodology'[s]
        /\ approved[s] => approved'[s]
        /\ published[s] => published'[s]

-----------------------------------------------------------------------------
\* The initial state satisfies the invariant: there is no row and no request.
LEMMA InitInv == Init => IInv
  BY NoSurveyAssumption
     DEF Init, IInv, TypeOK, TableInv, RequestInv, VersionChain,
         PublishedWasApproved, RetiredHasSuccessor, ReviewedHasMethodology,
         FeedbackMatchesStatus, DecisionsDated, FreeRowsUnlinked, Exists, RowSteps, Statuses,
         NeedStatuses, Steps, Copies, NothingCopied

\* A step that only reads leaves the tables as they are.
LEMMA ReadOnlyKeepsTables == TableInv /\ ReadOnly => TableInv'
  BY DEF TableInv, ReadOnly, VersionChain, PublishedWasApproved,
         RetiredHasSuccessor, ReviewedHasMethodology, FeedbackMatchesStatus,
         DecisionsDated, FreeRowsUnlinked, Exists, chain, content, review

\* When a request answers, the requests still in flight know what they knew.
LEMMA OthersKeepKnowing ==
    ASSUME NEW w \in Workers, TypeOK, RequestInv, Grows, Answer(w)
    PROVE  RequestInv'
  BY NoSurveyAssumption DEF TypeOK, RequestInv, Grows, Answer, Exists, RowSteps, Steps

\* A request that begins to work on a row it has read.
LEMMA BeginStep ==
    ASSUME NEW w \in Workers, NEW step \in Steps, NEW s \in Surveys \cup {NoSurvey},
           IInv, ReadOnly, Begin(w, step, s), copied' \in [Workers -> Copies],
           step \in RowSteps => s \in Surveys,
           s \in Surveys => Exists(s),
           step \in {"counting", "submitting", "rejecting"} => methodology[s],
           step = "publishing" => approved[s],
           step = "versioning" => published[s]
    PROVE  IInv'
<1>1. TypeOK'
  BY DEF IInv, TypeOK, ReadOnly, Begin, chain, content, review
<1>2. TableInv'
  BY ReadOnlyKeepsTables DEF IInv
<1>3. RequestInv'
  BY NoSurveyAssumption
     DEF IInv, TypeOK, RequestInv, ReadOnly, Begin, Exists, RowSteps, Steps,
         chain, content, review
<1> QED
  BY <1>1, <1>2, <1>3 DEF IInv

\* Every Begin action preserves the invariant: it only reads.
LEMMA BeginsPreserve ==
    ASSUME NEW w \in Workers, IInv
    PROVE  /\ BeginCreateEmpty(w) \/ BeginSuggest(w) \/ BeginReview(w) => IInv'
           /\ \A s \in Surveys :
                 \/ BeginNewVersion(w, s) \/ BeginUpdateQuestions(w, s)
                 \/ BeginSetMethodology(w, s) \/ BeginSetSample(w, s)
                 \/ BeginSubmit(w, s) \/ BeginApprove(w, s)
                 \/ BeginReject(w, s) \/ BeginPublish(w, s)
                 => IInv'
<1> USE NoSurveyAssumption DEF Steps, RowSteps, Exists
<1>0. copied \in [Workers -> Copies]
  BY DEF IInv, TypeOK
<1>1. ASSUME BeginCreateEmpty(w) PROVE IInv'
  BY <1>0, <1>1, BeginStep DEF BeginCreateEmpty
<1>2. ASSUME BeginSuggest(w) PROVE IInv'
  BY <1>0, <1>2, BeginStep DEF BeginSuggest
<1>3. ASSUME BeginReview(w) PROVE IInv'
  BY <1>0, <1>3, BeginStep DEF BeginReview
<1>4. ASSUME NEW s \in Surveys, BeginNewVersion(w, s) PROVE IInv'
  <2>1. copied' \in [Workers -> Copies]
    BY <1>4 DEF BeginNewVersion, IInv, TypeOK, Copies
  <2>2. published[s]
    BY <1>4 DEF BeginNewVersion, IInv, TableInv, DecisionsDated
  <2> QED
    BY <1>4, <2>1, <2>2, BeginStep DEF BeginNewVersion
<1>5. ASSUME NEW s \in Surveys, BeginUpdateQuestions(w, s) PROVE IInv'
  BY <1>0, <1>5, BeginStep DEF BeginUpdateQuestions, Editable
<1>6. ASSUME NEW s \in Surveys, BeginSetMethodology(w, s) PROVE IInv'
  BY <1>0, <1>6, BeginStep DEF BeginSetMethodology, Editable
<1>7. ASSUME NEW s \in Surveys, BeginSetSample(w, s) PROVE IInv'
  BY <1>0, <1>7, BeginStep DEF BeginSetSample, Editable
<1>8. ASSUME NEW s \in Surveys, BeginSubmit(w, s) PROVE IInv'
  BY <1>0, <1>8, BeginStep DEF BeginSubmit
<1>9. ASSUME NEW s \in Surveys, BeginApprove(w, s) PROVE IInv'
  BY <1>0, <1>9, BeginStep DEF BeginApprove
<1>10. ASSUME NEW s \in Surveys, BeginReject(w, s) PROVE IInv'
  <2>1. methodology[s]
    BY <1>10 DEF BeginReject, IInv, TableInv, ReviewedHasMethodology
  <2> QED
    BY <1>0, <1>10, <2>1, BeginStep DEF BeginReject
<1>11. ASSUME NEW s \in Surveys, BeginPublish(w, s) PROVE IInv'
  <2>1. approved[s]
    BY <1>11 DEF BeginPublish, IInv, TableInv, DecisionsDated
  <2> QED
    BY <1>0, <1>11, <2>1, BeginStep DEF BeginPublish
<1> QED
  BY <1>1, <1>2, <1>3, <1>4, <1>5, <1>6, <1>7, <1>8, <1>9, <1>10, <1>11

\* The invariant after a request has written and answered follows from the
\* types, the tables and the growth of the rows.
LEMMA WriteStep ==
    ASSUME NEW w \in Workers, IInv, Answer(w), TypeOK', Grows, TableInv'
    PROVE  IInv'
  BY OthersKeepKnowing DEF IInv

\* Inserting a first version, or the only successor of a published row,
\* preserves the invariant.
LEMMA InsertStep ==
    ASSUME NEW w \in Workers, NEW n \in Surveys, NEW c \in Copies,
           NEW v, NEW p, IInv, ~Exists(n), Insert(n, v, p, c), Answer(w),
           need' \in NeedStatuses,
           \/ p = NoSurvey /\ v = 1
           \/ /\ p \in Surveys /\ Exists(p) /\ published[p]
              /\ v = version[p] + 1
              /\ \A t \in Surveys : prev[t] # p
    PROVE  IInv'
<1> USE NoSurveyAssumption DEF IInv, TypeOK, Exists, Insert, review
<1>1. v \in Nat /\ p \in Surveys \cup {NoSurvey}
  OBVIOUS
<1>2. TypeOK'
  BY <1>1 DEF Statuses, Copies, NothingCopied, Answer, Steps
<1>3. Grows
  BY DEF Grows
<1>4. VersionChain'
  BY <1>1 DEF TableInv, VersionChain, FreeRowsUnlinked
<1>5. PublishedWasApproved' /\ ReviewedHasMethodology' /\ FeedbackMatchesStatus'
  BY DEF TableInv, PublishedWasApproved, ReviewedHasMethodology, FeedbackMatchesStatus
<1>6. RetiredHasSuccessor'
  <2> SUFFICES ASSUME NEW s \in Surveys, status'[s] = "SUPERSEDED"
               PROVE  \E t \in Surveys : prev'[t] = s /\ published'[t]
    BY DEF RetiredHasSuccessor
  <2>1. status[s] = "SUPERSEDED"
    OBVIOUS
  <2>2. PICK t \in Surveys : prev[t] = s /\ published[t]
    BY <2>1 DEF TableInv, RetiredHasSuccessor
  <2>3. t # n
    BY <2>2 DEF TableInv, FreeRowsUnlinked
  <2> QED
    BY <2>2, <2>3
<1>7. DecisionsDated' /\ FreeRowsUnlinked'
  BY DEF TableInv, DecisionsDated, FreeRowsUnlinked
<1> QED
  BY <1>2, <1>3, <1>4, <1>5, <1>6, <1>7, WriteStep DEF TableInv

\* The three places that insert a survey.
LEMMA InsertsPreserve ==
    ASSUME NEW w \in Workers, IInv
    PROVE  CreateEmpty(w) \/ NewVersion(w) \/ SuggestWrite(w) => IInv'
<1> USE DEF NeedStatuses, Copies
<1>0. copied[w] \in Copies /\ need \in NeedStatuses
  BY DEF IInv, TypeOK
<1>1. ASSUME CreateEmpty(w) PROVE IInv'
  <2>1. NothingCopied \in Copies
    BY DEF NothingCopied
  <2> QED
    BY <1>1, <2>1, InsertStep DEF CreateEmpty
<1>2. ASSUME NewVersion(w) PROVE IInv'
  <2>1. /\ target[w] \in Surveys /\ Exists(target[w]) /\ published[target[w]]
        /\ Answer(w)
    BY <1>2 DEF NewVersion, IInv, RequestInv, RowSteps
  <2>2. CASE \E t \in Surveys : prev[t] = target[w]
    <3>1. ReadOnly
      BY <1>2, <2>2 DEF NewVersion
    <3>2. TypeOK'
      BY <2>1, <3>1 DEF IInv, TypeOK, ReadOnly, Answer, NothingCopied, Steps,
                        chain, content, review
    <3>3. Grows
      BY <3>1 DEF IInv, TypeOK, Grows, ReadOnly, Exists, content, review
    <3> QED
      BY <2>1, <3>1, <3>2, <3>3, WriteStep, ReadOnlyKeepsTables DEF IInv
  <2>3. CASE ~ \E t \in Surveys : prev[t] = target[w]
    <3>1. PICK n \in Surveys :
            ~Exists(n) /\ Insert(n, version[target[w]] + 1, target[w], copied[w])
      BY <1>2, <2>3 DEF NewVersion
    <3>2. need' = need
      BY <1>2, <2>3 DEF NewVersion
    <3> QED
      BY <1>0, <2>1, <2>3, <3>1, <3>2, InsertStep
  <2> QED
    BY <2>2, <2>3
<1>3. ASSUME SuggestWrite(w) PROVE IInv'
  <2>1. PICK some \in BOOLEAN :
          \/ /\ target[w] = NoSurvey
             /\ \E n \in Surveys :
                  /\ ~Exists(n)
                  /\ Insert(n, 1, NoSurvey,
                            [bank |-> some, custom |-> FALSE,
                             methodology |-> TRUE, sample |-> FALSE])
          \/ /\ target[w] # NoSurvey
             /\ bank' = [bank EXCEPT ![target[w]] = some]
             /\ UNCHANGED <<status, chain, custom, methodology, sample, review>>
    BY <1>3 DEF SuggestWrite
  <2>2. Answer(w) /\ need' = need
    BY <1>3 DEF SuggestWrite
  <2>3. CASE target[w] = NoSurvey
    <3>1. [bank |-> some, custom |-> FALSE, methodology |-> TRUE,
           sample |-> FALSE] \in Copies
      OBVIOUS
    <3> QED
      BY <1>0, <2>1, <2>2, <2>3, <3>1, InsertStep
  <2>4. CASE target[w] # NoSurvey
    <3>1. /\ bank' = [bank EXCEPT ![target[w]] = some]
          /\ UNCHANGED <<status, chain, custom, methodology, sample, review>>
      BY <2>1, <2>4
    <3>2. TypeOK'
      BY <2>2, <3>1 DEF IInv, TypeOK, Answer, NothingCopied, Steps, chain, review
    <3>3. Grows
      BY <3>1 DEF Grows, Exists, review
    <3>4. TableInv'
      BY <3>1 DEF IInv, TableInv, VersionChain, PublishedWasApproved,
                  RetiredHasSuccessor, ReviewedHasMethodology,
                  FeedbackMatchesStatus, DecisionsDated, FreeRowsUnlinked,
                  Exists, chain, review
    <3> QED
      BY <2>2, <3>2, <3>3, <3>4, WriteStep
  <2> QED
    BY <2>3, <2>4
<1> QED
  BY <1>1, <1>2, <1>3

\* Saving questions, the methodology version or the sample description.
LEMMA EditsPreserve ==
    ASSUME NEW w \in Workers, IInv
    PROVE  UpdateQuestions(w) \/ SetMethodologyVersion(w) \/ SetSampleDescription(w) => IInv'
<1> USE NoSurveyAssumption
        DEF IInv, TypeOK, Exists, chain, content, review, RequestInv, RowSteps, Steps
<1>1. ASSUME UpdateQuestions(w) PROVE IInv'
  <2>1. TypeOK'
    BY <1>1 DEF UpdateQuestions, Answer, Statuses, NeedStatuses, NothingCopied, Copies
  <2>2. Grows
    BY <1>1 DEF UpdateQuestions, Grows
  <2>3. VersionChain'
    BY <1>1 DEF UpdateQuestions, TableInv, VersionChain
  <2>4. PublishedWasApproved' /\ DecisionsDated'
    BY <1>1 DEF UpdateQuestions, TableInv, PublishedWasApproved, DecisionsDated
  <2>5. RetiredHasSuccessor' /\ FreeRowsUnlinked'
    BY <1>1 DEF UpdateQuestions, TableInv, RetiredHasSuccessor, FreeRowsUnlinked
  <2>6. ReviewedHasMethodology' /\ FeedbackMatchesStatus'
    BY <1>1 DEF UpdateQuestions, TableInv, ReviewedHasMethodology, FeedbackMatchesStatus
  <2> QED
    BY <1>1, <2>1, <2>2, <2>3, <2>4, <2>5, <2>6, WriteStep DEF UpdateQuestions, TableInv
<1>2. ASSUME SetMethodologyVersion(w) PROVE IInv'
  <2>1. TypeOK'
    BY <1>2 DEF SetMethodologyVersion, Answer, Statuses, NeedStatuses, NothingCopied, Copies
  <2>2. Grows
    BY <1>2 DEF SetMethodologyVersion, Grows
  <2>3. VersionChain'
    BY <1>2 DEF SetMethodologyVersion, TableInv, VersionChain
  <2>4. PublishedWasApproved' /\ DecisionsDated'
    BY <1>2 DEF SetMethodologyVersion, TableInv, PublishedWasApproved, DecisionsDated
  <2>5. RetiredHasSuccessor' /\ FreeRowsUnlinked'
    BY <1>2 DEF SetMethodologyVersion, TableInv, RetiredHasSuccessor, FreeRowsUnlinked
  <2>6. ReviewedHasMethodology' /\ FeedbackMatchesStatus'
    BY <1>2 DEF SetMethodologyVersion, TableInv, ReviewedHasMethodology, FeedbackMatchesStatus
  <2> QED
    BY <1>2, <2>1, <2>2, <2>3, <2>4, <2>5, <2>6, WriteStep DEF SetMethodologyVersion, TableInv
<1>3. ASSUME SetSampleDescription(w) PROVE IInv'
  <2>1. TypeOK'
    BY <1>3 DEF SetSampleDescription, Answer, Statuses, NeedStatuses, NothingCopied, Copies
  <2>2. Grows
    BY <1>3 DEF SetSampleDescription, Grows
  <2>3. VersionChain'
    BY <1>3 DEF SetSampleDescription, TableInv, VersionChain
  <2>4. PublishedWasApproved' /\ DecisionsDated'
    BY <1>3 DEF SetSampleDescription, TableInv, PublishedWasApproved, DecisionsDated
  <2>5. RetiredHasSuccessor' /\ FreeRowsUnlinked'
    BY <1>3 DEF SetSampleDescription, TableInv, RetiredHasSuccessor, FreeRowsUnlinked
  <2>6. ReviewedHasMethodology' /\ FeedbackMatchesStatus'
    BY <1>3 DEF SetSampleDescription, TableInv, ReviewedHasMethodology, FeedbackMatchesStatus
  <2> QED
    BY <1>3, <2>1, <2>2, <2>3, <2>4, <2>5, <2>6, WriteStep DEF SetSampleDescription, TableInv
<1> QED
  BY <1>1, <1>2, <1>3

\* The writes of the review workflow, and a request that dies.
LEMMA DecisionsPreserve ==
    ASSUME NEW w \in Workers, IInv
    PROVE  (SubmitWrite(w) \/ ApproveWrite(w) \/ RejectWrite(w)
            \/ PublishWrite(w) \/ ReviewWrite(w) \/ Fail(w)) => IInv'
<1> USE NoSurveyAssumption
        DEF IInv, TypeOK, Exists, chain, content, review, RequestInv, RowSteps, Steps
<1>1. ASSUME SubmitWrite(w) PROVE IInv'
  <2>1. TypeOK'
    BY <1>1 DEF SubmitWrite, Answer, Statuses, NeedStatuses, NothingCopied, Copies
  <2>2. Grows
    BY <1>1 DEF SubmitWrite, Grows
  <2>3. VersionChain'
    BY <1>1 DEF SubmitWrite, TableInv, VersionChain
  <2>4. PublishedWasApproved' /\ DecisionsDated'
    BY <1>1 DEF SubmitWrite, TableInv, PublishedWasApproved, DecisionsDated
  <2>5. RetiredHasSuccessor' /\ FreeRowsUnlinked'
    BY <1>1 DEF SubmitWrite, TableInv, RetiredHasSuccessor, FreeRowsUnlinked
  <2>6. ReviewedHasMethodology' /\ FeedbackMatchesStatus'
    BY <1>1 DEF SubmitWrite, TableInv, ReviewedHasMethodology, FeedbackMatchesStatus
  <2> QED
    BY <1>1, <2>1, <2>2, <2>3, <2>4, <2>5, <2>6, WriteStep DEF SubmitWrite, TableInv
<1>2. ASSUME ApproveWrite(w) PROVE IInv'
  <2>1. TypeOK'
    BY <1>2 DEF ApproveWrite, Answer, Statuses, NeedStatuses, NothingCopied, Copies
  <2>2. Grows
    BY <1>2 DEF ApproveWrite, Grows
  <2>3. VersionChain'
    BY <1>2 DEF ApproveWrite, TableInv, VersionChain
  <2>4. PublishedWasApproved' /\ DecisionsDated'
    BY <1>2 DEF ApproveWrite, TableInv, PublishedWasApproved, DecisionsDated
  <2>5. RetiredHasSuccessor' /\ FreeRowsUnlinked'
    BY <1>2 DEF ApproveWrite, TableInv, RetiredHasSuccessor, FreeRowsUnlinked
  <2>6. ReviewedHasMethodology' /\ FeedbackMatchesStatus'
    BY <1>2 DEF ApproveWrite, TableInv, ReviewedHasMethodology, FeedbackMatchesStatus
  <2> QED
    BY <1>2, <2>1, <2>2, <2>3, <2>4, <2>5, <2>6, WriteStep DEF ApproveWrite, TableInv
<1>3. ASSUME RejectWrite(w) PROVE IInv'
  <2>1. TypeOK'
    BY <1>3 DEF RejectWrite, Answer, Statuses, NeedStatuses, NothingCopied, Copies
  <2>2. Grows
    BY <1>3 DEF RejectWrite, Grows
  <2>3. VersionChain'
    BY <1>3 DEF RejectWrite, TableInv, VersionChain
  <2>4. PublishedWasApproved' /\ DecisionsDated'
    BY <1>3 DEF RejectWrite, TableInv, PublishedWasApproved, DecisionsDated
  <2>5. RetiredHasSuccessor' /\ FreeRowsUnlinked'
    BY <1>3 DEF RejectWrite, TableInv, RetiredHasSuccessor, FreeRowsUnlinked
  <2>6. ReviewedHasMethodology' /\ FeedbackMatchesStatus'
    BY <1>3 DEF RejectWrite, TableInv, ReviewedHasMethodology, FeedbackMatchesStatus
  <2> QED
    BY <1>3, <2>1, <2>2, <2>3, <2>4, <2>5, <2>6, WriteStep DEF RejectWrite, TableInv
<1>4. ASSUME PublishWrite(w) PROVE IInv'
  <2>1. TypeOK'
    BY <1>4 DEF PublishWrite, Answer, Statuses, NeedStatuses, NothingCopied, Copies
  <2>2. Grows
    BY <1>4 DEF PublishWrite, Grows
  <2>3. VersionChain'
    BY <1>4 DEF PublishWrite, TableInv, VersionChain
  <2>4. PublishedWasApproved' /\ DecisionsDated'
    BY <1>4 DEF PublishWrite, TableInv, PublishedWasApproved, DecisionsDated, VersionChain
  <2>5. RetiredHasSuccessor' /\ FreeRowsUnlinked'
    BY <1>4 DEF PublishWrite, TableInv, RetiredHasSuccessor, FreeRowsUnlinked, VersionChain
  <2>6. ReviewedHasMethodology' /\ FeedbackMatchesStatus'
    BY <1>4 DEF PublishWrite, TableInv, ReviewedHasMethodology, FeedbackMatchesStatus,
        VersionChain
  <2> QED
    BY <1>4, <2>1, <2>2, <2>3, <2>4, <2>5, <2>6, WriteStep DEF PublishWrite, TableInv
<1>5. ASSUME ReviewWrite(w) PROVE IInv'
  <2>1. TypeOK'
    BY <1>5 DEF ReviewWrite, Answer, Statuses, NeedStatuses, NothingCopied, Copies
  <2>2. Grows
    BY <1>5 DEF ReviewWrite, Grows
  <2>3. VersionChain'
    BY <1>5 DEF ReviewWrite, TableInv, VersionChain
  <2>4. PublishedWasApproved' /\ DecisionsDated'
    BY <1>5 DEF ReviewWrite, TableInv, PublishedWasApproved, DecisionsDated
  <2>5. RetiredHasSuccessor' /\ FreeRowsUnlinked'
    BY <1>5 DEF ReviewWrite, TableInv, RetiredHasSuccessor, FreeRowsUnlinked
  <2>6. ReviewedHasMethodology' /\ FeedbackMatchesStatus'
    BY <1>5 DEF ReviewWrite, TableInv, ReviewedHasMethodology, FeedbackMatchesStatus
  <2> QED
    BY <1>5, <2>1, <2>2, <2>3, <2>4, <2>5, <2>6, WriteStep DEF ReviewWrite, TableInv
<1>6. ASSUME Fail(w) PROVE IInv'
  <2>1. TypeOK'
    BY <1>6 DEF Fail, Answer, Statuses, NeedStatuses, NothingCopied, Copies, ReadOnly
  <2>2. Grows
    BY <1>6 DEF Fail, Grows, ReadOnly
  <2>3. TableInv'
    BY <1>6, ReadOnlyKeepsTables DEF Fail
  <2> QED
    BY <1>6, <2>1, <2>2, <2>3, WriteStep DEF Fail
<1> QED
  BY <1>1, <1>2, <1>3, <1>4, <1>5, <1>6

\* The two steps in the middle of a request: counting the questions of a survey
\* to submit, and looking the survey to regenerate up again.
LEMMA MiddlesPreserve ==
    ASSUME NEW w \in Workers, IInv
    PROVE  SubmitCount(w) \/ SuggestFind(w) => IInv'
<1> USE NoSurveyAssumption
        DEF IInv, TypeOK, RequestInv, RowSteps, Steps, Exists, chain, content, review
<1>1. ASSUME SubmitCount(w) PROVE IInv'
  <2>1. TableInv'
    BY <1>1, ReadOnlyKeepsTables DEF SubmitCount
  <2>2. target[w] \in Surveys
    BY <1>1 DEF SubmitCount
  <2>3. CASE ~bank[target[w]] /\ ~custom[target[w]]
    <3>1. Answer(w) /\ ReadOnly
      BY <1>1, <2>3 DEF SubmitCount
    <3>2. TypeOK'
      BY <3>1 DEF Answer, ReadOnly, NothingCopied, Copies
    <3>3. Grows
      BY <3>1 DEF Grows, ReadOnly
    <3> QED
      BY <2>1, <3>1, <3>2, <3>3, WriteStep
  <2>4. CASE ~(~bank[target[w]] /\ ~custom[target[w]])
    <3>1. /\ pc[w] = "counting"
          /\ pc' = [pc EXCEPT ![w] = "submitting"]
          /\ UNCHANGED <<target, copied>> /\ ReadOnly
      BY <1>1, <2>4 DEF SubmitCount
    <3>2. TypeOK' /\ RequestInv'
      BY <3>1 DEF ReadOnly
    <3> QED
      BY <2>1, <3>2
  <2> QED
    BY <2>3, <2>4
<1>2. ASSUME SuggestFind(w) PROVE IInv'
  <2>1. TableInv'
    BY <1>2, ReadOnlyKeepsTables DEF SuggestFind
  <2>2. TypeOK' /\ RequestInv'
    BY <1>2 DEF SuggestFind, IsLatest, ReadOnly
  <2> QED
    BY <2>1, <2>2
<1> QED
  BY <1>1, <1>2

\* Every step of the system preserves the invariant.
LEMMA NextPreserves == IInv /\ [Next]_vars => IInv'
<1> SUFFICES ASSUME IInv, [Next]_vars PROVE IInv'
  OBVIOUS
<1>1. CASE UNCHANGED vars
  <2>1. ReadOnly /\ UNCHANGED <<pc, target, copied>>
    BY <1>1 DEF vars, ReadOnly
  <2>2. TypeOK' /\ RequestInv'
    BY <2>1 DEF IInv, TypeOK, RequestInv, ReadOnly, Exists, chain, content, review
  <2> QED
    BY <2>1, <2>2, ReadOnlyKeepsTables DEF IInv
<1>2. ASSUME NEW w \in Workers,
             Create(w) \/ Suggest(w) \/ Edit(w) \/ Decide(w) \/ Review(w) \/ Fail(w)
      PROVE  IInv'
  BY <1>2, BeginsPreserve, InsertsPreserve, EditsPreserve, DecisionsPreserve,
     MiddlesPreserve DEF Create, Suggest, Edit, Decide, Review
<1> QED
  BY <1>1, <1>2 DEF Next

-----------------------------------------------------------------------------
\* Every variable keeps its type, whatever requests overlap.
THEOREM TypeCorrect == Spec => []TypeOK
<1>1. IInv => TypeOK
  BY DEF IInv
<1> QED
  BY <1>1, InitInv, NextPreserves, PTL DEF Spec

\* The versions of a survey form chains that never branch, with any number of
\* concurrent createNewVersion, publish and regenerate requests.
THEOREM VersionsNeverBranch == Spec => []VersionChain
<1>1. IInv => VersionChain
  BY DEF IInv, TableInv
<1> QED
  BY <1>1, InitInv, NextPreserves, PTL DEF Spec

\* Nothing goes live that no approver has approved, and nothing is retired
\* before a newer version of it has gone live, however requests overlap.
THEOREM PublicationIsReviewed == Spec => [](PublishedWasApproved /\ RetiredHasSuccessor)
<1>1. IInv => PublishedWasApproved /\ RetiredHasSuccessor
  BY DEF IInv, TableInv
<1> QED
  BY <1>1, InitInv, NextPreserves, PTL DEF Spec

\* A survey under review has its methodology version, and the note it shows
\* belongs to its status, however requests overlap.
THEOREM ReviewIsConsistent == Spec => [](ReviewedHasMethodology /\ FeedbackMatchesStatus)
<1>1. IInv => ReviewedHasMethodology /\ FeedbackMatchesStatus
  BY DEF IInv, TableInv
<1> QED
  BY <1>1, InitInv, NextPreserves, PTL DEF Spec

-----------------------------------------------------------------------------
(***************************************************************************)
(* Until two requests overlap (MCSpec): the inductive invariant says that  *)
(* one request runs at a time, that what it has read is still so, and how  *)
(* the surveys of the need line up behind the newest one.                  *)
(***************************************************************************)

OneInFlight == \A v, w \in InFlight : v = w

\* What a request's checks have found, for as long as nobody else writes.
StillAsRead ==
    \A w \in Workers :
        /\ pc[w] = "creating" => NoSurveyYet
        /\ pc[w] = "regenerating" /\ target[w] = NoSurvey => NoSurveyYet
        /\ pc[w] \in {"counting", "submitting"} => status[target[w]] \in {"DRAFT", "REJECTED"}
        /\ pc[w] = "approving" => status[target[w]] \in {"SUBMITTED", "DRAFT"}
        /\ pc[w] = "rejecting" => status[target[w]] = "SUBMITTED"
        /\ pc[w] = "publishing" => status[target[w]] = "APPROVED"
        /\ pc[w] = "versioning" => /\ status[target[w]] = "PUBLISHED"
                                   /\ \A t \in Surveys : prev[t] # target[w]

Gone == {"PUBLISHED", "SUPERSEDED"}

\* A survey that has been live is live or retired, and no other survey is.
LiveOnce ==
    \A s \in Surveys : published[s] <=> status[s] \in Gone

\* The rows differ in their versions; every row but the newest one has a
\* successor and has gone live, and of two rows that have gone live the older
\* one is retired.
InLine ==
    \A s, t \in Surveys : Exists(s) /\ Exists(t) /\ s # t =>
        /\ version[s] # version[t]
        /\ version[s] < version[t] =>
              /\ \E u \in Surveys : prev[u] = s
              /\ status[s] \in Gone
              /\ status[t] \in Gone => status[s] = "SUPERSEDED"

CalmInv == OneInFlight /\ StillAsRead /\ LiveOnce /\ InLine

SerialInv == overlapped \in BOOLEAN /\ (~overlapped => CalmInv)

\* The parts of the invariant that are about the tables.
Lined == LiveOnce /\ InLine

\* A step that leaves the rows' statuses, versions and links alone keeps them
\* in line.
LEMMA SameLine ==
    ASSUME Lined, UNCHANGED <<status, version, prev, published>>
    PROVE  Lined'
  BY DEF Lined, LiveOnce, InLine, Exists

\* A request that begins is the only one, and has just read what it relies on.
LEMMA CalmBegin ==
    ASSUME NEW w \in Workers, NEW step, NEW s, TypeOK, CalmInv, ReadOnly,
           Begin(w, step, s), OneInFlight', step # "idle",
           step \notin {"regenerating", "submitting"},
           step = "creating" => NoSurveyYet,
           step = "counting" => status[s] \in {"DRAFT", "REJECTED"},
           step = "approving" => status[s] \in {"SUBMITTED", "DRAFT"},
           step = "rejecting" => status[s] = "SUBMITTED",
           step = "publishing" => status[s] = "APPROVED",
           step = "versioning" => /\ status[s] = "PUBLISHED"
                                  /\ \A t \in Surveys : prev[t] # s
    PROVE  CalmInv'
<1>1. Lined'
  BY SameLine DEF CalmInv, Lined, ReadOnly, chain, review
<1>2. pc'[w] = step /\ target'[w] = s
  BY DEF Begin, TypeOK
<1>3. \A v \in Workers : v # w => pc'[v] = "idle"
  BY <1>2 DEF OneInFlight, InFlight
<1>4. StillAsRead'
  BY <1>2, <1>3 DEF StillAsRead, ReadOnly, NoSurveyYet, Exists, chain
<1> QED
  BY <1>1, <1>4 DEF CalmInv, Lined

\* When a request answers, none is left in flight.
LEMMA CalmAnswer ==
    ASSUME NEW w \in Workers, TypeOK, CalmInv, pc[w] # "idle", Answer(w), Lined'
    PROVE  CalmInv'
<1>1. \A v \in Workers : v # w => pc[v] = "idle"
  BY DEF CalmInv, OneInFlight, InFlight
<1>2. \A v \in Workers : pc'[v] = "idle"
  BY <1>1 DEF Answer, TypeOK
<1>3. StillAsRead' /\ OneInFlight'
  BY <1>2 DEF StillAsRead, OneInFlight, InFlight
<1> QED
  BY <1>3 DEF CalmInv, Lined

\* Every Begin action reads what it then relies on.
LEMMA CalmBegins ==
    ASSUME NEW w \in Workers, TypeOK, CalmInv, OneInFlight'
    PROVE  /\ BeginCreateEmpty(w) \/ BeginSuggest(w) \/ BeginReview(w) => CalmInv'
           /\ \A s \in Surveys :
                 \/ BeginNewVersion(w, s) \/ BeginUpdateQuestions(w, s)
                 \/ BeginSetMethodology(w, s) \/ BeginSetSample(w, s)
                 \/ BeginSubmit(w, s) \/ BeginApprove(w, s)
                 \/ BeginReject(w, s) \/ BeginPublish(w, s)
                 => CalmInv'
<1>1. ASSUME BeginCreateEmpty(w) PROVE CalmInv'
  BY <1>1, CalmBegin DEF BeginCreateEmpty
<1>2. ASSUME BeginSuggest(w) PROVE CalmInv'
  BY <1>2, CalmBegin DEF BeginSuggest
<1>3. ASSUME BeginReview(w) PROVE CalmInv'
  BY <1>3, CalmBegin DEF BeginReview
<1>4. ASSUME NEW s \in Surveys, BeginNewVersion(w, s) PROVE CalmInv'
  BY <1>4, CalmBegin DEF BeginNewVersion
<1>5. ASSUME NEW s \in Surveys, BeginUpdateQuestions(w, s) PROVE CalmInv'
  BY <1>5, CalmBegin DEF BeginUpdateQuestions
<1>6. ASSUME NEW s \in Surveys, BeginSetMethodology(w, s) PROVE CalmInv'
  BY <1>6, CalmBegin DEF BeginSetMethodology
<1>7. ASSUME NEW s \in Surveys, BeginSetSample(w, s) PROVE CalmInv'
  BY <1>7, CalmBegin DEF BeginSetSample
<1>8. ASSUME NEW s \in Surveys, BeginSubmit(w, s) PROVE CalmInv'
  BY <1>8, CalmBegin DEF BeginSubmit
<1>9. ASSUME NEW s \in Surveys, BeginApprove(w, s) PROVE CalmInv'
  BY <1>9, CalmBegin DEF BeginApprove
<1>10. ASSUME NEW s \in Surveys, BeginReject(w, s) PROVE CalmInv'
  BY <1>10, CalmBegin DEF BeginReject
<1>11. ASSUME NEW s \in Surveys, BeginPublish(w, s) PROVE CalmInv'
  BY <1>11, CalmBegin DEF BeginPublish
<1> QED
  BY <1>1, <1>2, <1>3, <1>4, <1>5, <1>6, <1>7, <1>8, <1>9, <1>10, <1>11

\* The first survey of a need, or a successor of the row that has none.
LEMMA CalmInsert ==
    ASSUME NEW n \in Surveys, NEW v, NEW p, NEW c, IInv, CalmInv,
           ~Exists(n), Insert(n, v, p, c),
           \/ NoSurveyYet /\ p = NoSurvey /\ v = 1
           \/ /\ p \in Surveys /\ status[p] = "PUBLISHED"
              /\ v = version[p] + 1
              /\ \A t \in Surveys : prev[t] # p
    PROVE  Lined'
<1> USE DEF Exists
<1>0. /\ \A s \in Surveys \ {n} : /\ status'[s] = status[s]
                                  /\ version'[s] = version[s]
                                  /\ prev'[s] = prev[s]
      /\ status'[n] = "DRAFT" /\ version'[n] = v /\ prev'[n] = p
      /\ published' = published
      /\ \A s \in Surveys : version[s] \in Nat
  BY DEF IInv, TypeOK, Insert, review
<1>1. ~published[n]
  BY DEF CalmInv, LiveOnce, Gone
<1>2. LiveOnce'
  BY <1>0, <1>1 DEF CalmInv, LiveOnce, Gone
<1>3. CASE NoSurveyYet
  BY <1>0, <1>2, <1>3 DEF NoSurveyYet, Lined, InLine
<1>4. CASE ~NoSurveyYet
  <2>1. /\ p \in Surveys /\ p # n /\ status[p] = "PUBLISHED" /\ v = version[p] + 1
        /\ \A t \in Surveys : prev[t] # p
    BY <1>4
  <2>2. \A t \in Surveys \ {p} : Exists(t) => version[t] < version[p]
    BY <1>0, <2>1 DEF CalmInv, InLine
  <2>3. \A t \in Surveys \ {n} : Exists(t) => version[t] < v
    BY <1>0, <2>1, <2>2
  <2>4. \A t \in Surveys \ {n} : Exists(t) => status[t] \in Gone
    BY <2>1, <2>2 DEF CalmInv, InLine, Gone
  <2>5. \A t \in Surveys \ {n} : Exists(t) => \E u \in Surveys : prev'[u] = t
    <3> SUFFICES ASSUME NEW t \in Surveys \ {n}, Exists(t)
                 PROVE  \E u \in Surveys : prev'[u] = t
      OBVIOUS
    <3>1. CASE t = p
      BY <1>0, <3>1
    <3>2. CASE t # p
      <4>1. PICK u \in Surveys : prev[u] = t
        BY <2>1, <2>2, <3>2 DEF CalmInv, InLine
      <4>2. u # n
        BY <4>1, NoSurveyAssumption DEF IInv, TableInv, FreeRowsUnlinked
      <4> QED
        BY <1>0, <4>1, <4>2
    <3> QED
      BY <3>1, <3>2
  <2>6. InLine'
    BY <1>0, <2>3, <2>4, <2>5 DEF CalmInv, InLine, Gone
  <2> QED
    BY <1>2, <2>6 DEF Lined
<1> QED
  BY <1>3, <1>4

\* What the rest of the platform sees of the surveys of the need.
LiveRows == {s \in Surveys : status[s] = "PUBLISHED"}
RetiredRows == {s \in Surveys : status[s] = "SUPERSEDED"}

\* A survey being worked on is the newest, and stays one being worked on.
LEMMA CalmWork ==
    ASSUME NEW s \in Surveys, NEW st \in Statuses \ (Gone \cup {"ABSENT"}), IInv, CalmInv,
           status[s] \notin Gone \cup {"ABSENT"},
           status' = [status EXCEPT ![s] = st],
           UNCHANGED <<version, prev, published>>
    PROVE  Lined' /\ LiveRows' = LiveRows /\ RetiredRows' = RetiredRows
<1>1. /\ status'[s] = st
      /\ \A t \in Surveys \ {s} : status'[t] = status[t]
  BY DEF IInv, TypeOK
<1>2. LiveOnce'
  BY <1>1 DEF CalmInv, LiveOnce
<1>3. InLine'
  BY <1>1 DEF CalmInv, InLine, Exists, Gone
<1>4. LiveRows' = LiveRows /\ RetiredRows' = RetiredRows
  BY <1>1 DEF LiveRows, RetiredRows, Gone
<1> QED
  BY <1>2, <1>3, <1>4 DEF Lined

\* The newest survey goes live: the rows behind it are all retired, but for the
\* one it came from, which it retires.
LEMMA CalmPublish ==
    ASSUME NEW w \in Workers, IInv, CalmInv, PublishWrite(w)
    PROVE  /\ Lined'
           /\ target[w] \in Surveys
           /\ target[w] \notin LiveRows \cup RetiredRows
           /\ LiveRows' = {target[w]}
           /\ RetiredRows' = RetiredRows \cup LiveRows
<1> DEFINE r == target[w]
           p == prev[r]
<1>1. r \in Surveys /\ Exists(r) /\ status[r] = "APPROVED"
  BY DEF IInv, RequestInv, RowSteps, CalmInv, StillAsRead, PublishWrite
<1>2. /\ \A s \in Surveys : status'[s] = IF s = r THEN "PUBLISHED"
                                         ELSE IF s = p THEN "SUPERSEDED"
                                         ELSE status[s]
      /\ \A s \in Surveys : published'[s] = (s = r \/ published[s])
      /\ version' = version /\ prev' = prev
      /\ \A s \in Surveys : version[s] \in Nat
  BY <1>1 DEF PublishWrite, IInv, TypeOK, chain
<1>3. \A s \in Surveys \ {r} : Exists(s) => version[s] < version[r] /\ status[s] \in Gone
  BY <1>1, <1>2 DEF CalmInv, InLine, Gone
<1>4. \A s \in Surveys : Exists(s) => version[s] >= 1
  BY <1>2 DEF IInv, TypeOK, TableInv, VersionChain
<1>5. CASE p = NoSurvey
  <2>1. \A s \in Surveys \ {r} : ~Exists(s)
    BY <1>1, <1>2, <1>3, <1>4, <1>5 DEF IInv, TableInv, VersionChain
  <2>2. \A s \in Surveys \ {r} : status'[s] = "ABSENT" /\ status[s] = "ABSENT"
    BY <1>2, <1>5, <2>1, NoSurveyAssumption DEF Exists
  <2>3. InLine'
    BY <2>2 DEF InLine, Exists
  <2>4. LiveOnce'
    BY <1>2, <2>2 DEF CalmInv, LiveOnce, Gone
  <2>5. LiveRows' = {r} /\ LiveRows = {} /\ RetiredRows' = {} /\ RetiredRows = {}
    BY <1>1, <1>2, <2>2 DEF LiveRows, RetiredRows
  <2> QED
    BY <1>1, <2>3, <2>4, <2>5 DEF Lined
<1>6. CASE p # NoSurvey
  <2>1. p \in Surveys /\ Exists(p) /\ version[r] = version[p] + 1 /\ p # r
    BY <1>1, <1>2, <1>6 DEF IInv, TypeOK, TableInv, VersionChain
  <2>2. status[p] \in Gone
    BY <1>3, <2>1
  <2>3. \A s \in Surveys \ {r, p} : Exists(s) => version[s] < version[p]
    BY <1>2, <1>3, <2>1 DEF CalmInv, InLine
  <2>4. \A s \in Surveys \ {r, p} : Exists(s) => status[s] = "SUPERSEDED"
    BY <2>1, <2>2, <2>3 DEF CalmInv, InLine
  <2>5. \A s \in Surveys \ {r} : Exists(s) => status'[s] = "SUPERSEDED"
    BY <1>2, <2>4
  <2>6. \A s \in Surveys : Exists(s)' <=> Exists(s)
    BY <1>1, <1>2, <2>1 DEF Exists
  <2>7. InLine'
    <3>1. \A s, t \in Surveys : Exists(s) /\ Exists(t) /\ s # t =>
             /\ version[s] # version[t]
             /\ version[s] < version[t] => /\ \E u \in Surveys : prev[u] = s
                                           /\ s # r
      BY <1>2, <1>3 DEF CalmInv, InLine
    <3> QED
      BY <1>2, <2>5, <2>6, <3>1 DEF InLine, Gone
  <2>8. LiveOnce'
    BY <1>2, <2>1, <2>2 DEF CalmInv, LiveOnce, Gone
  <2>9. LiveRows' = {r} /\ RetiredRows' = RetiredRows \cup LiveRows
    <3>1. LiveRows' = {r}
      BY <1>1, <1>2, <2>5, <2>6 DEF LiveRows, Exists
    <3>2. LiveRows \subseteq {p}
      BY <1>1, <2>4 DEF LiveRows, Exists
    <3>3. RetiredRows' = RetiredRows \cup {p}
      BY <1>1, <1>2, <2>1 DEF RetiredRows
    <3>4. p \in LiveRows \cup RetiredRows
      BY <2>1, <2>2 DEF LiveRows, RetiredRows, Gone
    <3> QED
      BY <3>1, <3>2, <3>3, <3>4
  <2> QED
    BY <1>1, <2>7, <2>8, <2>9 DEF Lined, LiveRows, RetiredRows
<1> QED
  BY <1>5, <1>6

\* A step that leaves the statuses alone shows nothing.
LEMMA SameShown ==
    ASSUME status' = status
    PROVE  LiveRows' = LiveRows /\ RetiredRows' = RetiredRows
  BY DEF LiveRows, RetiredRows

\* One row goes live in the place of the live ones.
Succeeds == \E s \in Surveys : /\ s \notin LiveRows \cup RetiredRows
                               /\ LiveRows' = {s}
                               /\ RetiredRows' = RetiredRows \cup LiveRows

Shown == Succeeds \/ (LiveRows' = LiveRows /\ RetiredRows' = RetiredRows)

\* The three places that insert a survey: nothing of it is seen yet.
LEMMA CalmInserts ==
    ASSUME NEW w \in Workers, IInv, CalmInv,
           CreateEmpty(w) \/ NewVersion(w) \/ SuggestWrite(w)
    PROVE  Lined' /\ Shown
<1>1. ASSUME NEW n \in Surveys, NEW v, NEW p, NEW c, ~Exists(n), Insert(n, v, p, c),
             \/ NoSurveyYet /\ p = NoSurvey /\ v = 1
             \/ /\ p \in Surveys /\ status[p] = "PUBLISHED"
                /\ v = version[p] + 1
                /\ \A t \in Surveys : prev[t] # p
      PROVE  Lined' /\ Shown
  <2>1. Lined'
    BY <1>1, CalmInsert
  <2>2. status[n] = "ABSENT" /\ status' = [status EXCEPT ![n] = "DRAFT"]
    BY <1>1 DEF Exists, Insert
  <2>3. LiveRows' = LiveRows /\ RetiredRows' = RetiredRows
    BY <2>2 DEF IInv, TypeOK, LiveRows, RetiredRows
  <2> QED
    BY <2>1, <2>3 DEF Shown
<1>2. CASE CreateEmpty(w)
  <2>1. NoSurveyYet
    BY <1>2 DEF CreateEmpty, CalmInv, StillAsRead
  <2>2. PICK n \in Surveys : ~Exists(n) /\ Insert(n, 1, NoSurvey, NothingCopied)
    BY <1>2 DEF CreateEmpty
  <2> QED
    BY <1>1, <2>1, <2>2
<1>3. CASE NewVersion(w)
  <2>1. /\ status[target[w]] = "PUBLISHED" /\ target[w] \in Surveys
        /\ \A t \in Surveys : prev[t] # target[w]
    BY <1>3 DEF NewVersion, CalmInv, StillAsRead, IInv, RequestInv, RowSteps
  <2>2. PICK n \in Surveys :
          ~Exists(n) /\ Insert(n, version[target[w]] + 1, target[w], copied[w])
    BY <1>3, <2>1 DEF NewVersion
  <2> QED
    BY <1>1, <2>1, <2>2
<1>4. CASE SuggestWrite(w)
  <2>1. CASE target[w] = NoSurvey
    <3>1. NoSurveyYet
      BY <1>4, <2>1 DEF SuggestWrite, CalmInv, StillAsRead
    <3>2. PICK some \in BOOLEAN, n \in Surveys :
            ~Exists(n) /\ Insert(n, 1, NoSurvey, [bank |-> some, custom |-> FALSE,
                                                  methodology |-> TRUE, sample |-> FALSE])
      BY <1>4, <2>1 DEF SuggestWrite
    <3> QED
      BY <1>1, <3>1, <3>2
  <2>2. CASE target[w] # NoSurvey
    <3>1. UNCHANGED <<status, version, prev, published>>
      BY <1>4, <2>2 DEF SuggestWrite, chain, review
    <3> QED
      BY <3>1, SameLine, SameShown DEF CalmInv, Lined, Shown
  <2> QED
    BY <2>1, <2>2
<1> QED
  BY <1>2, <1>3, <1>4

\* The writes of the review workflow.
LEMMA CalmDecisions ==
    ASSUME NEW w \in Workers, IInv, CalmInv,
           SubmitWrite(w) \/ ApproveWrite(w) \/ RejectWrite(w) \/ PublishWrite(w)
    PROVE  Lined' /\ Shown
<1> USE DEF Gone, Statuses
<1>0. pc[w] \in RowSteps => target[w] \in Surveys
  BY DEF IInv, RequestInv
<1>1. CASE SubmitWrite(w)
  <2>1. target[w] \in Surveys /\ status[target[w]] \in {"DRAFT", "REJECTED"}
    BY <1>0, <1>1 DEF SubmitWrite, RowSteps, CalmInv, StillAsRead
  <2> QED
    BY <1>1, <2>1, CalmWork DEF SubmitWrite, chain, Shown
<1>2. CASE ApproveWrite(w)
  <2>1. target[w] \in Surveys /\ status[target[w]] \in {"SUBMITTED", "DRAFT"}
    BY <1>0, <1>2 DEF ApproveWrite, RowSteps, CalmInv, StillAsRead
  <2> QED
    BY <1>2, <2>1, CalmWork DEF ApproveWrite, chain, Shown
<1>3. CASE RejectWrite(w)
  <2>1. target[w] \in Surveys /\ status[target[w]] = "SUBMITTED"
    BY <1>0, <1>3 DEF RejectWrite, RowSteps, CalmInv, StillAsRead
  <2> QED
    BY <1>3, <2>1, CalmWork DEF RejectWrite, chain, Shown
<1>4. CASE PublishWrite(w)
  BY <1>4, CalmPublish DEF Shown, Succeeds
<1> QED
  BY <1>1, <1>2, <1>3, <1>4

\* A request that ends: its writes keep the rows in line.
LEMMA CalmEnds ==
    ASSUME NEW w \in Workers, IInv, CalmInv,
           \/ CreateEmpty(w) \/ NewVersion(w) \/ SuggestWrite(w)
           \/ UpdateQuestions(w) \/ SetMethodologyVersion(w) \/ SetSampleDescription(w)
           \/ SubmitWrite(w) \/ ApproveWrite(w) \/ RejectWrite(w) \/ PublishWrite(w)
           \/ ReviewWrite(w) \/ Fail(w)
    PROVE  CalmInv' /\ Shown
<1>1. pc[w] # "idle" /\ Answer(w)
  BY DEF CreateEmpty, NewVersion, SuggestWrite, UpdateQuestions,
         SetMethodologyVersion, SetSampleDescription, SubmitWrite, ApproveWrite,
         RejectWrite, PublishWrite, ReviewWrite, Fail
<1>2. Lined' /\ Shown
  <2>1. CASE CreateEmpty(w) \/ NewVersion(w) \/ SuggestWrite(w)
    BY <2>1, CalmInserts
  <2>2. CASE SubmitWrite(w) \/ ApproveWrite(w) \/ RejectWrite(w) \/ PublishWrite(w)
    BY <2>2, CalmDecisions
  <2>3. CASE \/ UpdateQuestions(w) \/ SetMethodologyVersion(w)
             \/ SetSampleDescription(w) \/ ReviewWrite(w) \/ Fail(w)
    <3>1. UNCHANGED <<status, version, prev, published>>
      BY <2>3 DEF UpdateQuestions, SetMethodologyVersion, SetSampleDescription,
                  ReviewWrite, Fail, ReadOnly, chain, review
    <3> QED
      BY <3>1, SameLine, SameShown DEF CalmInv, Lined, Shown
  <2> QED
    BY <2>1, <2>2, <2>3
<1> QED
  BY <1>1, <1>2, CalmAnswer DEF IInv

\* The two steps in the middle of a request.
LEMMA CalmMiddles ==
    ASSUME NEW w \in Workers, IInv, CalmInv, OneInFlight', SubmitCount(w) \/ SuggestFind(w)
    PROVE  CalmInv' /\ Shown
<1>1. ReadOnly /\ pc[w] # "idle" /\ w \in Workers
  BY DEF SubmitCount, SuggestFind
<1>2. Lined' /\ Shown
  <2>1. UNCHANGED <<status, version, prev, published>>
    BY <1>1 DEF ReadOnly, chain, review
  <2> QED
    BY <2>1, SameLine, SameShown DEF CalmInv, Lined, Shown
<1>3. \A v \in Workers : v # w => pc[v] = "idle"
  BY <1>1 DEF CalmInv, OneInFlight, InFlight
<1>4. CASE Answer(w)
  BY <1>1, <1>2, <1>4, CalmAnswer DEF IInv
<1>5. CASE ~Answer(w)
  <2>1. \A v \in Workers : v # w => pc'[v] = "idle"
    BY <1>3, <1>5 DEF SubmitCount, SuggestFind, IInv, TypeOK
  <2>2. CASE SubmitCount(w)
    <3>1. pc'[w] = "submitting" /\ target' = target /\ pc[w] = "counting"
      BY <1>5, <2>2 DEF SubmitCount, IInv, TypeOK
    <3>2. StillAsRead'
      BY <1>1, <2>1, <3>1 DEF CalmInv, StillAsRead, ReadOnly
    <3> QED
      BY <1>2, <3>2 DEF CalmInv, Lined
  <2>3. CASE SuggestFind(w)
    <3>1. pc'[w] = "regenerating" /\ (NoSurveyYet \/ target'[w] \in Surveys)
      BY <2>3 DEF SuggestFind, IInv, TypeOK
    <3>2. StillAsRead'
      BY <1>1, <2>1, <3>1, NoSurveyAssumption
         DEF StillAsRead, ReadOnly, NoSurveyYet, Exists
    <3> QED
      BY <1>2, <3>2 DEF CalmInv, Lined
  <2> QED
    BY <2>2, <2>3
<1> QED
  BY <1>4, <1>5

\* Every step of a request while no two overlap.
LEMMA CalmNext ==
    ASSUME IInv, CalmInv, OneInFlight', Next
    PROVE  CalmInv' /\ Shown
<1>1. PICK w \in Workers :
        Create(w) \/ Suggest(w) \/ Edit(w) \/ Decide(w) \/ Review(w) \/ Fail(w)
  BY DEF Next
<1>2. CASE \/ BeginCreateEmpty(w) \/ BeginSuggest(w) \/ BeginReview(w)
           \/ \E s \in Surveys :
                 \/ BeginNewVersion(w, s) \/ BeginUpdateQuestions(w, s)
                 \/ BeginSetMethodology(w, s) \/ BeginSetSample(w, s)
                 \/ BeginSubmit(w, s) \/ BeginApprove(w, s)
                 \/ BeginReject(w, s) \/ BeginPublish(w, s)
  <2>1. CalmInv'
    BY <1>2, CalmBegins DEF IInv
  <2>2. ReadOnly
    BY <1>2 DEF BeginCreateEmpty, BeginSuggest, BeginReview, BeginNewVersion,
                BeginUpdateQuestions, BeginSetMethodology, BeginSetSample,
                BeginSubmit, BeginApprove, BeginReject, BeginPublish
  <2> QED
    BY <2>1, <2>2, SameShown DEF ReadOnly, Shown
<1> QED
  BY <1>1, <1>2, CalmEnds, CalmMiddles DEF Create, Suggest, Edit, Decide, Review

\* The invariant of both kinds holds of every execution.
LEMMA SerialInvariant == MCSpec => [](IInv /\ SerialInv)
<1>1. MCInit => IInv /\ SerialInv
  <2>1. Init /\ overlapped = FALSE => SerialInv
    BY DEF Init, SerialInv, CalmInv, OneInFlight, InFlight, StillAsRead, LiveOnce,
           InLine, Exists, Gone
  <2> QED
    BY <2>1, InitInv DEF MCInit
<1>2. IInv /\ SerialInv /\ [MCNext]_<<vars, overlapped>> => (IInv /\ SerialInv)'
  <2> SUFFICES ASSUME IInv, SerialInv, [MCNext]_<<vars, overlapped>>
               PROVE  (IInv /\ SerialInv)'
    OBVIOUS
  <2>1. IInv'
    BY NextPreserves DEF MCNext
  <2>2. CASE UNCHANGED <<vars, overlapped>>
    <3>1. SerialInv'
      BY <2>2 DEF SerialInv, CalmInv, OneInFlight, InFlight, StillAsRead, LiveOnce,
                  InLine, Exists, NoSurveyYet, vars, chain, content, review
    <3> QED
      BY <2>1, <3>1
  <2>3. CASE MCNext
    <3>1. overlapped' \in BOOLEAN
      BY <2>3 DEF MCNext, SerialInv
    <3>2. ASSUME ~overlapped' PROVE CalmInv'
      BY <2>3, <3>2, CalmNext DEF MCNext, SerialInv, OneInFlight
    <3> QED
      BY <2>1, <3>1, <3>2 DEF SerialInv
  <2> QED
    BY <2>2, <2>3
<1> QED
  BY <1>1, <1>2, PTL DEF MCSpec

-----------------------------------------------------------------------------
\* A survey is only retired for a newer version of it that has gone live,
\* however publish and new-version requests overlap.
THEOREM RetirementHasSuccessor == Spec => []RetiredHasSuccessor
<1>1. IInv => RetiredHasSuccessor
  BY DEF IInv, TableInv
<1> QED
  BY <1>1, InitInv, NextPreserves, PTL DEF Spec

\* Until two requests overlap, "the latest version" names one row and only
\* that row is being worked on.
THEOREM OneAtATimeHolds == MCSpec => []OneAtATime
<1>1. IInv /\ SerialInv => OneAtATime
  <2> SUFFICES ASSUME IInv, SerialInv, ~overlapped, NEW s \in Surveys, NEW t \in Surveys,
                      Exists(s), Exists(t), s # t
               PROVE  /\ version[s] # version[t]
                      /\ {status[s], status[t]} \cap Gone # {}
    BY DEF OneAtATime, OneWorkingVersion, Gone
  <2>1. version[s] \in Nat /\ version[t] \in Nat
    BY DEF IInv, TypeOK
  <2> QED
    BY <2>1 DEF SerialInv, CalmInv, InLine
<1> QED
  BY <1>1, SerialInvariant, PTL

\* The surveys of a need implement LiveSurvey until requests overlap: one
\* survey is live at a time, a retired one never comes back, and a need with a
\* live survey always has one.
THEOREM ImplementsLiveSurvey == MCSpec => OneLiveSurvey
<1>1. MCInit => Live!Init
  BY DEF MCInit, Init, Live!Init
<1>2. IInv /\ SerialInv /\ [MCNext]_<<vars, overlapped>>
         => [overlapped' \/ Live!Next]_(Live!vars)
  <2> SUFFICES ASSUME IInv, SerialInv, [MCNext]_<<vars, overlapped>>, ~overlapped'
               PROVE  Live!Next \/ UNCHANGED Live!vars
    OBVIOUS
  <2>1. CASE UNCHANGED <<vars, overlapped>>
    BY <2>1 DEF vars, Live!vars
  <2>2. CASE MCNext
    <3>1. Shown
      BY <2>2, CalmNext DEF MCNext, SerialInv, OneInFlight
    <3> QED
      BY <3>1 DEF Shown, Succeeds, LiveRows, RetiredRows, Live!vars, Live!Next, Live!GoLive
  <2> QED
    BY <2>1, <2>2
<1> QED
  BY <1>1, <1>2, SerialInvariant, PTL DEF MCSpec, OneLiveSurvey

=============================================================================
