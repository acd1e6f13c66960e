---------------------------- MODULE ScoreRollup ----------------------------
(***************************************************************************)
(* Scoring after a submission (the continuation of CitizenService), the    *)
(* rollups it refreshes and the recalculation a user may ask for           *)
(* (ScoreRollupService, PriorityV2Service), for one need.                  *)
(*                                                                         *)
(* What a rollup or an assessment says is a function of the score rows it  *)
(* was computed from (NeedsIndex), so it is kept as those rows: how many   *)
(* of each response it counts.  A recalculation is one READ COMMITTED      *)
(* transaction, read in one step and written in another; the assessments   *)
(* that follow it are a transaction each.                                  *)
(***************************************************************************)
EXTENDS Naturals, FiniteSets

CONSTANTS Responses, Villages, Staff

Versions == 1..2   \* of the survey of the need
All      == "all"  \* the scope of every village, stored as ''
Scopes   == Villages \cup {All}
Most     == 2      \* rows kept apart for one response: more are no worse

VARIABLES
    answered,   \* the version a response answers, 0 before it is stored
    live,       \* the published version
    home,       \* the village of the need
    copies,     \* score rows of a response under a version, by village
    rolled,     \* what the rollups of a version and scope were computed from
    assessed,   \* what the village priority was computed from
    job,        \* the scoring of each response
    recount     \* the recalculation each member of staff has asked for

NoRows == [r \in Responses |-> 0]
Counts == [Responses -> 0..Most * Cardinality(Villages)]

Done == [at |-> "done"]
Rest == [at |-> "rest"]

Jobs == {Done} \cup [at : {"score"}]
          \cup [at : {"resolve"}] \cup [at : {"village", "all"}, version : Versions]
          \cup [at : {"writeVillage", "writeAll"}, version : Versions, rows : Counts,
                scope : Scopes]

rollupVars == <<answered, live, home, copies, rolled, assessed, job, recount>>

TypeOK ==
    /\ answered \in [Responses -> {0} \cup Versions]
    /\ live \in Versions
    /\ home \in Villages
    /\ copies \in [Responses -> [Versions -> [Villages -> 0..Most]]]
    /\ rolled \in [Versions -> [Scopes -> Counts]]
    /\ assessed \in [Versions -> [Scopes -> Counts]]
    /\ job \in [Responses -> Jobs]
    /\ DOMAIN recount = Staff

Init ==
    /\ answered = [r \in Responses |-> 0]
    /\ live = 1
    /\ home \in Villages
    /\ copies = [r \in Responses |-> [v \in Versions |-> [p \in Villages |-> 0]]]
    /\ rolled = [v \in Versions |-> [s \in Scopes |-> NoRows]]
    /\ assessed = [v \in Versions |-> [s \in Scopes |-> NoRows]]
    /\ job = [r \in Responses |-> Done]
    /\ recount = [m \in Staff |-> Rest]

-----------------------------------------------------------------------------
\* The score rows of a scope, when there are cs: of each response, how many.
VillagesOf(s) == IF s = All THEN Villages ELSE {s}

RowsOf(cs, v, s) ==
    [r \in Responses |->
        Cardinality({row \in VillagesOf(s) \X (1..Most) : row[2] <= cs[r][v][row[1]]})]

\* A scope without score rows has no question to roll up: nothing is written,
\* and what is there stays.
Upserted(table, v, s, rows) ==
    IF rows = NoRows THEN table ELSE [table EXCEPT ![v][s] = rows]

Capped(n) == IF n > Most THEN Most ELSE n

-----------------------------------------------------------------------------
(***************************************************************************)
(* The need and its survey                                                 *)
(***************************************************************************)
Publish ==
    /\ live = 1
    /\ live' = 2
    /\ UNCHANGED <<answered, home, copies, rolled, assessed, job, recount>>

Move(p) ==
    /\ home # p
    /\ home' = p
    /\ UNCHANGED <<answered, live, copies, rolled, assessed, job, recount>>

(***************************************************************************)
(* Scoring a response: a transaction that inserts its rows under the       *)
(* version that is live by then, one that looks the live version up again, *)
(* and the rollups of the village and of all.                              *)
(***************************************************************************)
Submit(r) ==
    /\ answered[r] = 0
    /\ answered' = [answered EXCEPT ![r] = live]
    /\ job' = [job EXCEPT ![r] = [at |-> "score"]]
    /\ UNCHANGED <<live, home, copies, rolled, assessed, recount>>

ScoreResponse(r) ==
    /\ job[r].at = "score"
    /\ copies' = [copies EXCEPT ![r][live][home] = Capped(@ + 1)]
    /\ job' = [job EXCEPT ![r] = [at |-> "resolve"]]
    /\ UNCHANGED <<answered, live, home, rolled, assessed, recount>>

Resolve(r) ==
    /\ job[r].at = "resolve"
    /\ job' = [job EXCEPT ![r] = [at |-> "village", version |-> live]]
    /\ UNCHANGED <<answered, live, home, copies, rolled, assessed, recount>>

ReadScores(r) ==
    /\ job[r].at \in {"village", "all"}
    /\ LET v == job[r].version
           s == IF job[r].at = "all" THEN All ELSE home
       IN  job' = [job EXCEPT ![r] =
                     [at |-> IF s = All THEN "writeAll" ELSE "writeVillage",
                      version |-> v, rows |-> RowsOf(copies, v, s), scope |-> s]]
    /\ UNCHANGED <<answered, live, home, copies, rolled, assessed, recount>>

WriteWhere(r, written) ==
    /\ job[r].at \in {"writeVillage", "writeAll"}
    /\ rolled' = IF job[r].scope \in written
                   THEN Upserted(rolled, job[r].version, job[r].scope, job[r].rows)
                   ELSE rolled
    /\ job' = [job EXCEPT ![r] = IF job[r].at = "writeAll" THEN Done
                                 ELSE [at |-> "all", version |-> job[r].version]]
    /\ UNCHANGED <<answered, live, home, copies, assessed, recount>>

WriteVillageOnly(r) == WriteWhere(r, Villages)   \* faulty
WriteRollups(r)     == WriteWhere(r, Scopes)

\* An error, or a restart: the job is only in memory and is not tried again.
Lose(r) ==
    /\ job[r] # Done
    /\ job' = [job EXCEPT ![r] = Done]
    /\ UNCHANGED <<answered, live, home, copies, rolled, assessed, recount>>

-----------------------------------------------------------------------------
(***************************************************************************)
(* recalculateStudyScores(v): every response of the need, whatever version *)
(* it answers, loses its rows and is scored under v; then the rollups of   *)
(* the village and of all, and an assessment for each scope with rollups.  *)
(***************************************************************************)
Stored == {r \in Responses : answered[r] # 0}

BeginRecount(m, v) ==
    /\ recount[m] = Rest
    /\ v <= live /\ Stored # {}
    /\ recount' = [recount EXCEPT ![m] = [at |-> "write", version |-> v, found |-> Stored]]
    /\ UNCHANGED <<answered, live, home, copies, rolled, assessed, job>>

RecountAs(m, cleared, covered) ==
    /\ recount[m].at = "write"
    /\ LET v == recount[m].version
           Rescored(r) == [u \in Versions |-> [p \in Villages |->
               (IF r \in cleared THEN 0 ELSE copies[r][u][p])
                 + (IF u = v /\ p = home THEN 1 ELSE 0)]]
           cs == [r \in Responses |-> IF r \in recount[m].found THEN Rescored(r)
                                                                ELSE copies[r]]
           rs == Upserted(Upserted(rolled, v, home, RowsOf(cs, v, home)),
                          v, All, RowsOf(cs, v, All))
       IN /\ copies' = cs
          /\ rolled' = rs
          /\ recount' = [recount EXCEPT ![m] =
                [at |-> "assess", version |-> v,
                 left |-> {s \in covered : rs[v][s] # NoRows}]]
    /\ UNCHANGED <<answered, live, home, assessed, job>>

RecountKeepingRows(m)      == RecountAs(m, {}, Scopes)         \* faulty
RecountConsolidatedOnly(m) == RecountAs(m, Responses, {All})   \* faulty
Recount(m)                 == RecountAs(m, Responses, Scopes)

\* calculateVillagePriority, the consolidated scope last.
Assess(m, s) ==
    /\ recount[m].at = "assess"
    /\ s \in recount[m].left
    /\ s = All => recount[m].left = {All}
    /\ assessed' = Upserted(assessed, recount[m].version, s, rolled[recount[m].version][s])
    /\ recount' = [recount EXCEPT ![m] =
          IF recount[m].left = {s} THEN Rest
          ELSE [recount[m] EXCEPT !.left = recount[m].left \ {s}]]
    /\ UNCHANGED <<answered, live, home, copies, rolled, job>>

Abort(m) ==
    /\ recount[m] # Rest
    /\ recount' = [recount EXCEPT ![m] = Rest]
    /\ UNCHANGED <<answered, live, home, copies, rolled, assessed, job>>

-----------------------------------------------------------------------------
Next ==
    \/ Publish
    \/ \E p \in Villages : Move(p)
    \/ \E r \in Responses :
          \/ Submit(r) \/ ScoreResponse(r) \/ Resolve(r)
          \/ ReadScores(r) \/ WriteRollups(r) \/ Lose(r)
    \/ \E m \in Staff :
          \/ \E v \in Versions : BeginRecount(m, v)
          \/ \E s \in Scopes : Assess(m, s)
          \/ Recount(m) \/ Abort(m)

Spec == Init /\ [][Next]_rollupVars

-----------------------------------------------------------------------------
Quiet == (\A r \in Responses : job[r] = Done) /\ (\A m \in Staff : recount[m] = Rest)

\* Every stored response is counted once, and what the rollups of a scope
\* say follows from the score rows of that scope.  It holds while one thing
\* happens at a time and nothing fails; see the run for what overlaps do.
\* (scoreResponse, calculateRollups, recalculateStudyScores)
CountedOnce ==
    Quiet => \A v \in Versions, s \in Scopes :
        LET rows == RowsOf(copies, v, s) IN
          /\ \A r \in Responses : rows[r] <= 1
          /\ rows # NoRows => rolled[v][s] = rows

\* When a recalculation ends, the priority of every scope it covers is that
\* of the rollups it has just written.  (recalculateAll)
Finishes(m) == recount[m].at = "assess" /\ recount'[m] = Rest

\* A response that has been scored as it was answered stays so.
AnswersKeepTheirScore ==
    [][\A r \in Responses :
          (answered[r] # 0 /\ \E p \in Villages : copies[r][answered[r]][p] > 0)
            => \E p \in Villages : copies'[r][answered[r]][p] > 0]_rollupVars

=============================================================================
