--------------------------- MODULE StudyCatalogue ---------------------------
(***************************************************************************)
(* The studies of one organisation: their cycle numbers, the needs that    *)
(* hang off them, archive and restore, deletion (StudiesService,           *)
(* NeedsService), and the requests of other organisations to see a study   *)
(* (SharingService).                                                       *)
(*                                                                         *)
(* A request reads in one step and writes in a later one: archive, restore *)
(* and decide use two transactions, create and the removals one READ       *)
(* COMMITTED transaction whose two statements see different snapshots.     *)
(***************************************************************************)
EXTENDS Naturals, FiniteSets

CONSTANTS
    Studies, Needs,   \* identifiers, used up once a row was deleted
    HomeOf,           \* Need.studyId
    Asks, AskOf,      \* sharing requests and SharingRequest.studyId
    Workers

VARIABLES
    cycle,      \* Study.cycleNumber, 0 while there is no row
    standing,   \* Study.status
    stage,      \* Need.status, as far as this module tells it apart
    released,   \* studies with a report that is released or archived
    withdrawn,  \* history: studies whose report was, and has been taken back
    ask,        \* SharingRequest.status
    gone,       \* identifiers of deleted studies and needs
    request     \* what each worker has read and is about to write

rows == <<cycle, standing, stage, released, withdrawn, ask, gone>>
vars == <<rows, request>>

\* NEED_EDITABLE_STATUSES without draft, which nothing sets.
Editable == {"pending_ai_classification", "ai_classification_failed"}
Advanced == {"ai_classified", "survey_published"}
Decided  == {"approved", "rejected"}

Idle == [op |-> "idle"]

Requests ==
    {Idle}
      \cup [op : {"create"}, study : Studies, number : 1..Cardinality(Studies)]
      \cup [op : {"removeStudy", "archive", "restore"}, study : Studies]
      \cup [op : {"removeNeed"}, need : Needs]
      \cup [op : {"ask"}, ask : Asks]
      \cup [op : {"decide"}, ask : Asks, verdict : Decided]

TypeOK ==
    /\ cycle \in [Studies -> 0..Cardinality(Studies)]
    /\ standing \in [Studies -> {"none", "active", "archived", "completed"}]
    /\ stage \in [Needs -> {"none"} \cup Editable \cup Advanced]
    /\ released \subseteq Studies /\ withdrawn \subseteq Studies
    /\ ask \in [Asks -> {"none", "pending"} \cup Decided]
    /\ gone \subseteq Studies \cup Needs
    /\ request \in [Workers -> Requests]

Init ==
    /\ cycle = [s \in Studies |-> 0]
    /\ standing = [s \in Studies |-> "none"]
    /\ stage = [n \in Needs |-> "none"]
    /\ released = {} /\ withdrawn = {}
    /\ ask = [q \in Asks |-> "none"]
    /\ gone = {}
    /\ request = [w \in Workers |-> Idle]

-----------------------------------------------------------------------------
Exists(s)  == cycle[s] # 0
NeedsOf(s) == {n \in Needs : HomeOf[n] = s /\ stage[n] # "none"}

\* A request has passed its checks and is about to write.
Begin(w, r) ==
    /\ request[w] = Idle
    /\ request' = [request EXCEPT ![w] = r]
    /\ UNCHANGED rows

Answer(w) == request' = [request EXCEPT ![w] = Idle]

\* A request is refused by the database, or fails.
Fail(w) == request[w] # Idle /\ Answer(w) /\ UNCHANGED rows

-----------------------------------------------------------------------------
(***************************************************************************)
(* create: the highest cycle number of the organisation, then the insert.  *)
(* The unique index refuses a number that was taken in between; the second *)
(* attempt is made in the transaction that this error has aborted, so it   *)
(* fails as well.                                                          *)
(***************************************************************************)
HighestCycle == CHOOSE k \in 0..Cardinality(Studies) :
                    /\ \A s \in Studies : cycle[s] <= k
                    /\ k = 0 \/ \E s \in Studies : cycle[s] = k

BeginCreate(w, s) ==
    /\ ~Exists(s) /\ s \notin gone
    /\ \A v \in Workers : request[v].op = "create" => request[v].study # s
    /\ HighestCycle < Cardinality(Studies)
    /\ Begin(w, [op |-> "create", study |-> s, number |-> HighestCycle + 1])

\* Faulty: no unique index on the organisation and the cycle number.
CreateUnindexed(w) ==
    /\ request[w].op = "create"
    /\ cycle' = [cycle EXCEPT ![request[w].study] = request[w].number]
    /\ standing' = [standing EXCEPT ![request[w].study] = "active"]
    /\ UNCHANGED <<stage, released, withdrawn, ask, gone>>
    /\ Answer(w)

Create(w) ==
    /\ request[w].op = "create"
    /\ \A s \in Studies : cycle[s] # request[w].number
    /\ cycle' = [cycle EXCEPT ![request[w].study] = request[w].number]
    /\ standing' = [standing EXCEPT ![request[w].study] = "active"]
    /\ UNCHANGED <<stage, released, withdrawn, ask, gone>>
    /\ Answer(w)

(***************************************************************************)
(* remove: refused while a need is past draft, and every need is: it is    *)
(* filed as pending.  The cascade takes every row that refers to the study *)
(* when the delete runs, a need filed in between with it.                  *)
(***************************************************************************)
BeginRemoveStudy(w, s) ==
    /\ Exists(s)
    /\ NeedsOf(s) = {}
    /\ Begin(w, [op |-> "removeStudy", study |-> s])

RemoveStudy(w) ==
    /\ request[w].op = "removeStudy"
    /\ LET s == request[w].study IN
         /\ Exists(s)
         /\ cycle' = [cycle EXCEPT ![s] = 0]
         /\ standing' = [standing EXCEPT ![s] = "none"]
         /\ stage' = [n \in Needs |-> IF n \in NeedsOf(s) THEN "none" ELSE stage[n]]
         /\ released' = released \ {s} /\ withdrawn' = withdrawn \ {s}
         /\ ask' = [q \in Asks |-> IF AskOf[q] = s THEN "none" ELSE ask[q]]
         /\ gone' = gone \cup NeedsOf(s) \cup {s}
    /\ Answer(w)

(***************************************************************************)
(* archive: every need published and a report out; restore.                *)
(***************************************************************************)
Complete(s) ==
    NeedsOf(s) # {} /\ (\A n \in NeedsOf(s) : stage[n] = "survey_published")

\* Faulty: the reports are not looked at.
BeginArchiveUnreported(w, s) ==
    /\ Exists(s) /\ standing[s] # "archived"
    /\ Complete(s)
    /\ Begin(w, [op |-> "archive", study |-> s])

BeginArchive(w, s) ==
    /\ Exists(s) /\ standing[s] # "archived"
    /\ Complete(s) /\ s \in released
    /\ Begin(w, [op |-> "archive", study |-> s])

BeginRestore(w, s) ==
    /\ standing[s] = "archived"
    /\ Begin(w, [op |-> "restore", study |-> s])

\* The row is updated by its id: a study deleted meanwhile is an error.
WriteStanding(w) ==
    /\ request[w].op \in {"archive", "restore"}
    /\ Exists(request[w].study)
    /\ standing' = [standing EXCEPT ![request[w].study] =
                       IF request[w].op = "archive" THEN "archived" ELSE "completed"]
    /\ UNCHANGED <<cycle, stage, released, withdrawn, ask, gone>>
    /\ Answer(w)

-----------------------------------------------------------------------------
(***************************************************************************)
(* Needs: created under a study that exists (the foreign key), moved on by *)
(* classification and by the publication of their survey, removed while    *)
(* editable.  A released report comes from ReportRelease, where a confirm  *)
(* or a reject that comes late takes the release back.                     *)
(***************************************************************************)
CreateNeed(n) ==
    /\ Exists(HomeOf[n]) /\ stage[n] = "none" /\ n \notin gone
    /\ stage' = [stage EXCEPT ![n] = "pending_ai_classification"]
    /\ UNCHANGED <<cycle, standing, released, withdrawn, ask, gone, request>>

ClassifyNeed(n) ==
    /\ stage[n] \in Editable
    /\ \E to \in {"ai_classified", "ai_classification_failed"} :
          stage' = [stage EXCEPT ![n] = to]
    /\ UNCHANGED <<cycle, standing, released, withdrawn, ask, gone, request>>

PublishNeed(n) ==
    /\ stage[n] = "ai_classified"
    /\ stage' = [stage EXCEPT ![n] = "survey_published"]
    /\ UNCHANGED <<cycle, standing, released, withdrawn, ask, gone, request>>

ReleaseReport(s) ==
    /\ \E n \in NeedsOf(s) : stage[n] = "survey_published"
    /\ released' = released \cup {s} /\ withdrawn' = withdrawn \ {s}
    /\ UNCHANGED <<cycle, standing, stage, ask, gone, request>>

TakeReportBack(s) ==
    /\ s \in released
    /\ released' = released \ {s} /\ withdrawn' = withdrawn \cup {s}
    /\ UNCHANGED <<cycle, standing, stage, ask, gone, request>>

BeginRemoveNeed(w, n) ==
    /\ stage[n] \in Editable
    /\ Begin(w, [op |-> "removeNeed", need |-> n])

RemoveNeed(w) ==
    /\ request[w].op = "removeNeed"
    /\ stage[request[w].need] # "none"
    /\ stage' = [stage EXCEPT ![request[w].need] = "none"]
    /\ gone' = gone \cup {request[w].need}
    /\ UNCHANGED <<cycle, standing, released, withdrawn, ask>>
    /\ Answer(w)

-----------------------------------------------------------------------------
(***************************************************************************)
(* Sharing: another organisation asks for a study, its owner decides.      *)
(***************************************************************************)
BeginAsk(w, q) ==
    /\ Exists(AskOf[q]) /\ ask[q] = "none"
    /\ \A v \in Workers : request[v].op = "ask" => request[v].ask # q
    /\ Begin(w, [op |-> "ask", ask |-> q])

Ask(w) ==
    /\ request[w].op = "ask"
    /\ Exists(AskOf[request[w].ask])
    /\ ask' = [ask EXCEPT ![request[w].ask] = "pending"]
    /\ UNCHANGED <<cycle, standing, stage, released, withdrawn, gone>>
    /\ Answer(w)

\* Faulty: a request may be decided again.
BeginDecideAgain(w, q) ==
    /\ ask[q] # "none"
    /\ \E v \in Decided : Begin(w, [op |-> "decide", ask |-> q, verdict |-> v])

BeginDecide(w, q) ==
    /\ ask[q] = "pending"
    /\ \E v \in Decided : Begin(w, [op |-> "decide", ask |-> q, verdict |-> v])

Decide(w) ==
    /\ request[w].op = "decide"
    /\ ask[request[w].ask] # "none"
    /\ ask' = [ask EXCEPT ![request[w].ask] = request[w].verdict]
    /\ UNCHANGED <<cycle, standing, stage, released, withdrawn, gone>>
    /\ Answer(w)

\* getSharedSnapshot: what a requester may read.
SharedStudies == {AskOf[q] : q \in {p \in Asks : ask[p] = "approved"}}

-----------------------------------------------------------------------------
Handle(w) ==
    \/ \E s \in Studies : \/ BeginCreate(w, s) \/ BeginRemoveStudy(w, s)
                          \/ BeginArchive(w, s) \/ BeginRestore(w, s)
    \/ \E n \in Needs : BeginRemoveNeed(w, n)
    \/ \E q \in Asks : BeginAsk(w, q) \/ BeginDecide(w, q)
    \/ Create(w) \/ RemoveStudy(w) \/ WriteStanding(w) \/ RemoveNeed(w)
    \/ Ask(w) \/ Decide(w) \/ Fail(w)

Elsewhere ==
    \/ \E n \in Needs : CreateNeed(n) \/ ClassifyNeed(n) \/ PublishNeed(n)
    \/ \E s \in Studies : ReleaseReport(s) \/ TakeReportBack(s)

Next == (\E w \in Workers : Handle(w)) \/ Elsewhere

Spec == Init /\ [][Next]_vars

-----------------------------------------------------------------------------
(***************************************************************************)
(* However requests overlap                                                *)
(***************************************************************************)

\* No two studies of an organisation have the same cycle number, also when
\* two are created at once.  (createWithCycleNumber, the unique index)
CyclesDistinct ==
    \A s, t \in Studies : s # t /\ Exists(s) => cycle[s] # cycle[t]

\* A study is in the archive only with a report that is out, or was until a
\* late decision took it back; and what another organisation may read exists
\* and is still the owner's: its deletion takes the permission with it.
\* (archive, remove, the foreign keys)
ArchivedIsReported ==
    /\ \A s \in Studies : standing[s] = "archived" => s \in released \cup withdrawn
    /\ \A s \in SharedStudies : Exists(s)

=============================================================================
