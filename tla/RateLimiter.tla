---------------------------- MODULE RateLimiter ----------------------------
(***************************************************************************)
(* RateLimitGuard: one policy and one caller, whose requests are counted   *)
(* in Redis, shared by all instances of the server, for a window that      *)
(* starts with the first of them.  Without Redis each instance counts for  *)
(* itself, except in production, which refuses the request.                *)
(***************************************************************************)
EXTENDS Naturals, FiniteSets

CONSTANTS
    Instances,   \* of the server
    Limit,       \* RateLimitPolicy.limit
    MaxRequests  \* bound: requests in all

VARIABLES
    production,  \* config.nodeEnv
    store,       \* Redis: absent, reachable or not
    shared,      \* the counter in Redis, 0 when its key has expired
    local,       \* the counter of each instance
    passed,      \* requests let through since the shared window started
    asked        \* requests so far

limitVars == <<production, store, shared, local, passed, asked>>

LimitTypeOK ==
    /\ production \in BOOLEAN
    /\ store \in {"absent", "up", "down"}
    /\ shared \in 0..MaxRequests
    /\ local \in [Instances -> 0..MaxRequests]
    /\ passed \in 0..MaxRequests /\ asked \in 0..MaxRequests

\* Production is deployed with Redis; development may be.
LimitInit ==
    /\ production \in BOOLEAN
    /\ store \in IF production THEN {"up", "down"} ELSE {"absent", "up", "down"}
    /\ shared = 0 /\ passed = 0 /\ asked = 0
    /\ local = [i \in Instances |-> 0]

Admit(count) == passed' = IF count > Limit THEN passed ELSE passed + 1

\* INCR and EXPIRE NX in one transaction: the first request starts the window,
\* no later one renews it, a refused one counts.
CountShared(i) ==
    /\ store = "up"
    /\ shared' = shared + 1
    /\ Admit(shared + 1)
    /\ UNCHANGED local

CountLocal(i) ==
    /\ local' = [local EXCEPT ![i] = @ + 1]
    /\ Admit(local[i] + 1)
    /\ UNCHANGED shared

\* Faulty: production falls back to the counters of the instances as well.
FallBackAnywhere(i) == store # "up" /\ CountLocal(i)

FallBack(i) == store # "up" /\ ~(production /\ store = "down") /\ CountLocal(i)

\* 503 RATE_LIMIT_UNAVAILABLE
Unavailable(i) ==
    /\ store = "down" /\ production
    /\ UNCHANGED <<shared, local, passed>>

Request(i) ==
    /\ asked < MaxRequests
    /\ asked' = asked + 1
    /\ CountShared(i) \/ FallBack(i) \/ Unavailable(i)
    /\ UNCHANGED <<production, store>>

\* Redis is lost and found; a key outlives an outage.
Toggle ==
    /\ store # "absent"
    /\ store' = IF store = "up" THEN "down" ELSE "up"
    /\ UNCHANGED <<production, shared, local, passed, asked>>

WindowEnds ==
    /\ shared > 0
    /\ shared' = 0 /\ passed' = 0
    /\ UNCHANGED <<production, store, local, asked>>

LocalWindowEnds(i) ==
    /\ local[i] > 0
    /\ local' = [local EXCEPT ![i] = 0]
    /\ UNCHANGED <<production, store, shared, passed, asked>>

LimitNext ==
    \/ \E i \in Instances : Request(i) \/ LocalWindowEnds(i)
    \/ Toggle \/ WindowEnds

\* However many instances answer, and however often Redis is lost on the way,
\* production lets no more than the limit through in one window.
\* (RateLimitGuard.increment)
WindowKept == production => passed <= Limit

=============================================================================
