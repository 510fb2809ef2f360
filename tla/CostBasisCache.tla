--------------------------- MODULE CostBasisCache ---------------------------
(***************************************************************************)
(* The average buy prices of one profile: get_cost_basis of                *)
(* backend/app/services/cost_basis_service.py with its two caches.  Every  *)
(* server process keeps a memo of its own; Redis, when it is there, is     *)
(* shared by all.  The computation asks each exchange for its trade        *)
(* history; one that supports it but fails now makes the result degraded,  *)
(* and such a result is to be kept for a minute instead of fifteen.        *)
(* A memo that an answer from Redis fills gets the full fifteen minutes,   *)
(* whatever the age or the quality of that answer.                         *)
(***************************************************************************)
EXTENDS Integers, FiniteSets

CONSTANTS
    Process, Request,
    Faults,        \* what may go wrong outside the handlers
    FullTTL,       \* COST_BASIS_CACHE_TTL, in ticks
    DegradedTTL,   \* COST_BASIS_DEGRADED_TTL, in ticks
    MaxHandler,    \* bound: ticks a handler may take (HTTP timeouts)
    MaxInFlight,   \* bound: requests handled at once
    MaxTime,       \* bound: the last tick
    Nothing           \* no entry, no answer

FaultKind == {"redisDown", "venueFails", "garbled", "restart"}

ASSUME CostBasisAssumption ==
    /\ Faults \subseteq FaultKind
    /\ DegradedTTL \in Nat \ {0} /\ FullTTL \in Nat /\ DegradedTTL <= FullTTL
    /\ MaxHandler \in Nat /\ MaxInFlight \in Nat /\ MaxTime \in Nat

VARIABLES
    clock,
    memo,     \* memo[p]: the entry of process p
    shared,   \* the Redis entry, expired or not
    at, job,  \* per request: where it stands, its local variables
    answer    \* answer[r]: the response returned

cacheVars == <<clock, memo, shared, at, job, answer>>

Handling == {"memo", "redis", "compute", "store"}
Ended == {"done", "broken"}

Response == [computedAt : Nat, degraded : BOOLEAN]
Entry == [data : Response, until : Nat]
Job == [process : Process, began : Nat, redis : BOOLEAN, made : Response \cup {Nothing}]

ASSUME NothingIsNoValue == Nothing \notin Nat \cup Response \cup Entry \cup Job

InFlight == {r \in Request : at[r] \in Handling}

CacheInit == /\ clock = 0
             /\ memo = [p \in Process |-> Nothing]
             /\ shared = Nothing
             /\ at = [r \in Request |-> "idle"]
             /\ job = [r \in Request |-> Nothing]
             /\ answer = [r \in Request |-> Nothing]

-----------------------------------------------------------------------------
Goto(r, place) == at' = [at EXCEPT ![r] = place]

\* The handler returns, and its local variables are gone.
Give(r, response) ==
    /\ Goto(r, "done")
    /\ answer' = [answer EXCEPT ![r] = response]
    /\ job' = [job EXCEPT ![r] = Nothing]

\* A request lands on some process, whose handler first reads the database.
BeginRead(r, p) ==
    /\ at[r] = "idle"
    /\ Cardinality(InFlight) < MaxInFlight
    /\ Goto(r, "memo")
    /\ job' = [job EXCEPT ![r] = [process |-> p, began |-> clock, redis |-> TRUE, made |-> Nothing]]
    /\ UNCHANGED <<clock, memo, shared, answer>>

\* Bug to detect: the expiry of a memo entry is not looked at.
MemoNeverExpires(p) == memo[p] # Nothing

\* _memo_get keeps an entry up to and including its last moment; Redis drops
\* it at that moment.
MemoLive(p) == memo[p] # Nothing /\ clock <= memo[p].until

SharedLive == shared # Nothing /\ clock < shared.until

Remember(p, data, ttl) == memo' = [memo EXCEPT ![p] = [data |-> data, until |-> clock + ttl]]

MemoHit(r) ==
    /\ at[r] = "memo"
    /\ MemoLive(job[r].process)
    /\ Give(r, memo[job[r].process].data)
    /\ UNCHANGED <<clock, memo, shared>>

MemoMiss(r) ==
    /\ at[r] = "memo"
    /\ ~MemoLive(job[r].process)
    /\ memo' = [memo EXCEPT ![job[r].process] = Nothing]
    /\ Goto(r, "redis")
    /\ UNCHANGED <<clock, shared, job, answer>>

SharedHit(r) ==
    /\ at[r] = "redis"
    /\ SharedLive
    /\ Remember(job[r].process, shared.data, FullTTL)
    /\ Give(r, shared.data)
    /\ UNCHANGED <<clock, shared>>

SharedMiss(r) ==
    /\ at[r] = "redis"
    /\ ~SharedLive
    /\ Goto(r, "compute")
    /\ UNCHANGED <<clock, memo, shared, job, answer>>

\* A failed read gives up on Redis for the rest of the request.
SharedUnreadable(r) ==
    /\ "redisDown" \in Faults
    /\ at[r] = "redis"
    /\ Goto(r, "compute")
    /\ job' = [job EXCEPT ![r].redis = FALSE]
    /\ UNCHANGED <<clock, memo, shared, answer>>

\* Bug to detect: a degraded result is kept as long as a full one.
FullTTLAlways(data) == FullTTL

TTLOf(data) == IF data.degraded THEN DegradedTTL ELSE FullTTL

\* All venues at once; the result is memoized in the same step.
Compute(r, degraded) ==
    LET data == [computedAt |-> clock, degraded |-> degraded]
    IN /\ at[r] = "compute"
       /\ degraded => "venueFails" \in Faults
       /\ Remember(job[r].process, data, TTLOf(data))
       /\ IF job[r].redis
          THEN /\ Goto(r, "store")
               /\ job' = [job EXCEPT ![r].made = data]
               /\ UNCHANGED answer
          ELSE Give(r, data)
       /\ UNCHANGED <<clock, shared>>

\* get_portfolio raises on prices that are not of their form (PriceLookup): the
\* request fails, and nothing is memoized.
PortfolioRaises(r) ==
    /\ "garbled" \in Faults
    /\ at[r] = "compute"
    /\ Goto(r, "broken")
    /\ job' = [job EXCEPT ![r] = Nothing]
    /\ UNCHANGED <<clock, memo, shared, answer>>

StoreShared(r) ==
    /\ at[r] = "store"
    /\ shared' = [data |-> job[r].made, until |-> clock + TTLOf(job[r].made)]
    /\ Give(r, job[r].made)
    /\ UNCHANGED <<clock, memo>>

StoreFails(r) ==
    /\ "redisDown" \in Faults
    /\ at[r] = "store"
    /\ Give(r, job[r].made)
    /\ UNCHANGED <<clock, memo, shared>>

\* A process is replaced: its memo and its handlers end with it.
Restart(p) ==
    /\ "restart" \in Faults
    /\ memo' = [memo EXCEPT ![p] = Nothing]
    /\ LET lost == {r \in InFlight : job[r].process = p}
       IN /\ at' = [r \in Request |-> IF r \in lost THEN "broken" ELSE at[r]]
          /\ job' = [r \in Request |-> IF r \in lost THEN Nothing ELSE job[r]]
    /\ UNCHANGED <<clock, shared, answer>>

\* Time passes, but no handler outlives its HTTP timeouts.
Tick == /\ clock < MaxTime
        /\ \A r \in InFlight : clock < job[r].began + MaxHandler
        /\ clock' = clock + 1
        /\ UNCHANGED <<memo, shared, at, job, answer>>

-----------------------------------------------------------------------------
Advance(r) ==
    \/ MemoHit(r) \/ MemoMiss(r)
    \/ SharedHit(r) \/ SharedMiss(r) \/ SharedUnreadable(r)
    \/ PortfolioRaises(r)
    \/ \E degraded \in BOOLEAN : Compute(r, degraded)
    \/ StoreShared(r) \/ StoreFails(r)

CacheNext == \/ \E r \in Request : (\E p \in Process : BeginRead(r, p)) \/ Advance(r)
             \/ \E p \in Process : Restart(p)
             \/ Tick

CacheSpec == CacheInit /\ [][CacheNext]_cacheVars

-----------------------------------------------------------------------------
(* Properties. *)

\* Type invariant.
CacheTypeOK ==
    /\ clock \in Nat
    /\ memo \in [Process -> Entry \cup {Nothing}]
    /\ shared \in Entry \cup {Nothing}
    /\ at \in [Request -> {"idle"} \cup Handling \cup Ended]
    /\ job \in [Request -> Job \cup {Nothing}]
    /\ answer \in [Request -> Response \cup {Nothing}]

\* The time to live a response was computed with.
Life(data) == IF data.degraded THEN DegradedTTL ELSE FullTTL

Answers(r) == answer[r] = Nothing /\ answer'[r] # Nothing

\* How old a response can be when it is given: it may spend its own time to
\* live in Redis and then fifteen minutes more in a memo filled from there,
\* but no longer, whichever processes pass it on.
AgeBounded ==
    [][\A r \in Request : Answers(r) =>
          clock < answer'[r].computedAt + Life(answer'[r]) + FullTTL + MaxHandler]_cacheVars

-----------------------------------------------------------------------------
(* The inductive invariant behind AgeBounded. *)

HandlerInv == \A r \in Request :
    /\ at[r] \in {"idle", "broken"} => answer[r] = Nothing
    /\ at[r] \in Handling =>
          /\ job[r] # Nothing /\ answer[r] = Nothing
          /\ job[r].began <= clock /\ clock <= job[r].began + MaxHandler
    /\ at[r] = "store" =>
          /\ job[r].made # Nothing
          /\ job[r].began <= job[r].made.computedAt /\ job[r].made.computedAt <= clock

\* What Redis holds was stored by the handler that computed it.
SharedInv == shared # Nothing =>
    /\ shared.data.computedAt <= clock
    /\ shared.until <= shared.data.computedAt + MaxHandler + Life(shared.data)

\* What a memo holds was computed by its process or found in Redis alive.
MemoInv == \A p \in Process : memo[p] # Nothing =>
    /\ memo[p].data.computedAt <= clock
    /\ memo[p].until < memo[p].data.computedAt + Life(memo[p].data) + FullTTL + MaxHandler

AgeInv == CacheTypeOK /\ HandlerInv /\ SharedInv /\ MemoInv
=============================================================================
