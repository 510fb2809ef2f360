--------------------------- MODULE PortfolioCache ---------------------------
(***************************************************************************)
(* The portfolio of one profile: get_portfolio of                          *)
(* backend/app/services/portfolio_service.py under the handlers that call  *)
(* it (portfolio.py, share.py, cost_basis_service.py), with its 60 second  *)
(* Redis entry and the hourly snapshot behind the history chart.  Profiles *)
(* share neither entries nor keys nor snapshots, so one stands for all.    *)
(*                                                                         *)
(* Nothing invalidates the entry: connecting and disconnecting a venue, or *)
(* deleting the profile, is seen when it expires.  Requests run at once    *)
(* and do not know of each other.  Redis and the snapshot are best effort. *)
(***************************************************************************)
EXTENDS Integers, FiniteSets

CONSTANTS
    Venue, Req,
    Faults,       \* what may go wrong outside the handlers
    CacheTTL,     \* PORTFOLIO_CACHE_TTL, in ticks
    Throttle,     \* the hour between snapshots, in ticks
    MaxHandler,   \* bound: ticks a handler may take (HTTP timeouts)
    MaxInFlight,  \* bound: requests handled at once
    MaxTime,      \* bound: the last tick
    None          \* no entry, no answer, never

FaultKind == {"redisDown", "venueFails", "garbled", "dbFails", "crash"}

ASSUME PortfolioAssumption ==
    /\ Faults \subseteq FaultKind
    /\ CacheTTL \in Nat \ {0} /\ Throttle \in Nat
    /\ MaxHandler \in Nat /\ MaxInFlight \in Nat /\ MaxTime \in Nat

VARIABLES
    clock,
    exists,     \* the row of profiles is there
    keys,       \* the venues the profile has a key for
    gone,       \* ghost: gone[v]: when venue v was last disconnected
    cache,      \* the Redis entry, expired or not
    snapshot,   \* snapshot[r]: the row of portfolio_snapshots request r wrote
    pc, job,    \* per request: where it stands, its local variables
    answer      \* answer[r]: the portfolio returned

vars == <<clock, exists, keys, gone, cache, snapshot, pc, job, answer>>

Running == {"lookup", "fetch", "priced", "recent", "write", "store"}
Over == {"done", "died", "broken"}

\* Which venues a portfolio shows, and when the keys it was made from were read.
Portfolio == [venues : SUBSET Venue, readAt : Nat]
Entry == [data : Portfolio, stored : Nat]
Snapshot == [createdAt : Nat]
Job == [began : Nat, history : BOOLEAN, redis : BOOLEAN,
        keys : SUBSET Venue, venues : SUBSET Venue]

ASSUME NoneIsNothing == None \notin Nat \cup Portfolio \cup Entry \cup Snapshot \cup Job

InFlight == {r \in Req : pc[r] \in Running}
dbVars == <<clock, exists, keys, gone>>

Init == /\ clock = 0
        /\ exists = TRUE
        /\ keys = {}
        /\ gone = [v \in Venue |-> None]
        /\ cache = None
        /\ snapshot = [r \in Req |-> None]
        /\ pc = [r \in Req |-> "idle"]
        /\ job = [r \in Req |-> None]
        /\ answer = [r \in Req |-> None]

-----------------------------------------------------------------------------
(* The owner's operations. *)

ConnectVenue(v) ==
    /\ exists
    /\ v \notin keys
    /\ keys' = keys \cup {v}
    /\ UNCHANGED <<clock, exists, gone, cache, snapshot, pc, job, answer>>

DisconnectVenue(v) ==
    /\ v \in keys
    /\ keys' = keys \ {v}
    /\ gone' = [gone EXCEPT ![v] = clock]
    /\ UNCHANGED <<clock, exists, cache, snapshot, pc, job, answer>>

\* The cascade takes the keys and the snapshots; the Redis entry stays.
DeleteProfile ==
    /\ exists
    /\ exists' = FALSE
    /\ keys' = {}
    /\ gone' = [v \in Venue |-> IF v \in keys THEN clock ELSE gone[v]]
    /\ snapshot' = [r \in Req |-> None]
    /\ UNCHANGED <<clock, cache, pc, job, answer>>

-----------------------------------------------------------------------------
(* get_portfolio. *)

Goto(r, place) == pc' = [pc EXCEPT ![r] = place]

\* Only the profile's own endpoint passes a session to get_portfolio, and
\* with it a snapshot in the history; the aggregate and the cost basis pass
\* Redis alone, and a shared view neither: it goes straight to the venues.
Caller == {"profile", "internal", "share"}

Begin(r, caller) ==
    /\ pc[r] = "idle"
    /\ exists
    /\ Cardinality(InFlight) < MaxInFlight
    /\ Goto(r, IF caller = "share" THEN "fetch" ELSE "lookup")
    /\ job' = [job EXCEPT ![r] = [began |-> clock, history |-> caller = "profile",
                                  redis |-> caller # "share", keys |-> keys, venues |-> {}]]
    /\ UNCHANGED <<dbVars, cache, snapshot, answer>>

LiveEntry == cache # None /\ clock < cache.stored + CacheTTL

\* The handler returns, and its local variables are gone.
Give(r, portfolio) ==
    /\ Goto(r, "done")
    /\ answer' = [answer EXCEPT ![r] = portfolio]
    /\ job' = [job EXCEPT ![r] = None]

\* Bug to detect: a hit renews the entry's time to live.
CacheHitSliding(r) ==
    /\ pc[r] = "lookup"
    /\ LiveEntry
    /\ cache' = [cache EXCEPT !.stored = clock]
    /\ Give(r, cache.data)
    /\ UNCHANGED <<dbVars, snapshot>>

CacheHit(r) ==
    /\ pc[r] = "lookup"
    /\ LiveEntry
    /\ Give(r, cache.data)
    /\ UNCHANGED <<dbVars, cache, snapshot>>

CacheMiss(r) ==
    /\ pc[r] = "lookup"
    /\ ~LiveEntry
    /\ Goto(r, "fetch")
    /\ UNCHANGED <<dbVars, cache, snapshot, job, answer>>

\* A failed read gives up on Redis for the rest of the request.
CacheUnreadable(r) ==
    /\ "redisDown" \in Faults
    /\ pc[r] = "lookup"
    /\ Goto(r, "fetch")
    /\ job' = [job EXCEPT ![r].redis = FALSE]
    /\ UNCHANGED <<dbVars, cache, snapshot, answer>>

\* The portfolio of the venues that answered; with Redis it is stored first.
Fetched(r) == [venues |-> job[r].venues, readAt |-> job[r].began]

Finish(r) == \/ job[r].redis /\ Goto(r, "store") /\ UNCHANGED <<job, answer>>
             \/ ~job[r].redis /\ Give(r, Fetched(r))

\* All venues at once; one that fails is left out of the portfolio.
FetchBalances(r, S) ==
    /\ pc[r] = "fetch"
    /\ S \subseteq job[r].keys
    /\ "venueFails" \notin Faults => S = job[r].keys
    /\ job' = [job EXCEPT ![r].venues = S]
    /\ Goto(r, "priced")
    /\ UNCHANGED <<dbVars, cache, snapshot, answer>>

\* Balances are priced; only a request with a session looks at the history.
PriceBalances(r) ==
    /\ pc[r] = "priced"
    /\ IF job[r].history THEN Goto(r, "recent") /\ UNCHANGED <<job, answer>>
                         ELSE Finish(r)
    /\ UNCHANGED <<dbVars, cache, snapshot>>

\* get_usd_prices raises on an answer that is not of its form (PriceLookup), and
\* nothing here catches it: no portfolio, no snapshot, and nothing is stored.
PricesRaise(r) ==
    /\ "garbled" \in Faults
    /\ pc[r] = "priced"
    /\ Goto(r, "broken")
    /\ job' = [job EXCEPT ![r] = None]
    /\ UNCHANGED <<dbVars, cache, snapshot, answer>>

\* Bug to detect: the throttle leaves out the row exactly an hour old.
RecentlyStrict == \E r \in Req : snapshot[r] # None /\ snapshot[r].createdAt > clock - Throttle

Recently == \E r \in Req : snapshot[r] # None /\ snapshot[r].createdAt >= clock - Throttle

SnapshotIsRecent(r) ==
    /\ pc[r] = "recent"
    /\ Recently
    /\ Finish(r)
    /\ UNCHANGED <<dbVars, cache, snapshot>>

SnapshotIsDue(r) ==
    /\ pc[r] = "recent"
    /\ ~Recently
    /\ Goto(r, "write")
    /\ UNCHANGED <<dbVars, cache, snapshot, job, answer>>

\* created_at is PostgreSQL's now(), the start of the transaction.  The row of
\* a profile that is gone is refused, and the refusal logged.
WriteSnapshot(r) ==
    /\ pc[r] = "write"
    /\ snapshot' = IF exists
                   THEN [snapshot EXCEPT ![r] = [createdAt |-> job[r].began]]
                   ELSE snapshot
    /\ Finish(r)
    /\ UNCHANGED <<dbVars, cache>>

\* Bug to detect: the error is not caught and the request fails.
SnapshotFailureEscapes(r) ==
    /\ "dbFails" \in Faults
    /\ pc[r] \in {"recent", "write"}
    /\ Goto(r, "done")
    /\ job' = [job EXCEPT ![r] = None]
    /\ UNCHANGED <<dbVars, cache, snapshot, answer>>

\* A database error in either statement is logged and the request goes on.
SnapshotFails(r) ==
    /\ "dbFails" \in Faults
    /\ pc[r] \in {"recent", "write"}
    /\ Finish(r)
    /\ UNCHANGED <<dbVars, cache, snapshot>>

StoreCache(r) ==
    /\ pc[r] = "store"
    /\ cache' = [data |-> Fetched(r), stored |-> clock]
    /\ Give(r, Fetched(r))
    /\ UNCHANGED <<dbVars, snapshot>>

StoreFails(r) ==
    /\ "redisDown" \in Faults
    /\ pc[r] = "store"
    /\ Give(r, Fetched(r))
    /\ UNCHANGED <<dbVars, cache, snapshot>>

Crash(r) ==
    /\ "crash" \in Faults
    /\ pc[r] \in Running
    /\ Goto(r, "died")
    /\ job' = [job EXCEPT ![r] = None]
    /\ UNCHANGED <<dbVars, cache, snapshot, answer>>

\* Time passes, but no handler outlives its HTTP timeouts.
Tick == /\ clock < MaxTime
        /\ \A r \in InFlight : clock < job[r].began + MaxHandler
        /\ clock' = clock + 1
        /\ UNCHANGED <<exists, keys, gone, cache, snapshot, pc, job, answer>>

-----------------------------------------------------------------------------
OwnerStep == \/ \E v \in Venue : ConnectVenue(v) \/ DisconnectVenue(v)
             \/ DeleteProfile

Advance(r) ==
    \/ CacheHit(r) \/ CacheMiss(r) \/ CacheUnreadable(r)
    \/ \E S \in SUBSET Venue : FetchBalances(r, S)
    \/ PriceBalances(r) \/ PricesRaise(r)
    \/ SnapshotIsRecent(r) \/ SnapshotIsDue(r) \/ WriteSnapshot(r) \/ SnapshotFails(r)
    \/ StoreCache(r) \/ StoreFails(r)

Next == \/ OwnerStep
        \/ \E r \in Req : (\E c \in Caller : Begin(r, c)) \/ Advance(r) \/ Crash(r)
        \/ Tick

Spec == Init /\ [][Next]_vars

-----------------------------------------------------------------------------
(* Properties. *)

\* Type invariant.
TypeOK ==
    /\ clock \in Nat
    /\ exists \in BOOLEAN
    /\ keys \subseteq Venue
    /\ gone \in [Venue -> Nat \cup {None}]
    /\ cache \in Entry \cup {None}
    /\ snapshot \in [Req -> Snapshot \cup {None}]
    /\ pc \in [Req -> {"idle"} \cup Running \cup Over]
    /\ job \in [Req -> Job \cup {None}]
    /\ answer \in [Req -> Portfolio \cup {None}]

Answers(r) == answer[r] = None /\ answer'[r] # None

\* Venue v is connected, or was at some moment from t on.
ConnectedSince(v, t) == v \in keys \/ (gone[v] # None /\ gone[v] >= t)

\* A portfolio shows no venue that was disconnected longer ago than the life
\* of an entry and the handler that stored it, although neither the removal
\* of a key nor the deletion of the profile touches the entry and a handler
\* may store it after them.
AnswersAreFresh ==
    [][\A r \in Req : Answers(r) =>
          /\ clock < answer'[r].readAt + CacheTTL + MaxHandler
          /\ \A v \in answer'[r].venues :
                ConnectedSince(v, clock - CacheTTL - MaxHandler + 1)]_vars

\* The throttle under concurrent fetches: within an hour, less a handler's
\* duration (rows are dated at the start of their handler), at most as many
\* snapshots are written as requests are handled at once.
SnapshotsBounded ==
    \A a \in 0..clock :
        Cardinality({r \in Req : /\ snapshot[r] # None
                                 /\ snapshot[r].createdAt \in a..(a + Throttle - MaxHandler)})
            <= MaxInFlight

\* An unreachable Redis, a failing venue or a failing snapshot keeps nobody from
\* a portfolio: a handler that ends has answered, unless its process died or the
\* prices came in an answer that is not of its form.
FaultsAreAbsorbed == \A r \in Req : pc[r] = "done" => answer[r] # None

-----------------------------------------------------------------------------
(* The inductive invariant behind AnswersAreFresh. *)

\* A running handler is within its time, and every venue whose key it read was
\* connected when it began.
HeldInv == \A r \in Req :
    /\ pc[r] \in {"idle", "died", "broken"} => answer[r] = None
    /\ pc[r] \in Running =>
          /\ job[r] # None /\ answer[r] = None
          /\ job[r].began <= clock /\ clock <= job[r].began + MaxHandler
          /\ job[r].venues \subseteq job[r].keys
          /\ \A v \in job[r].keys : ConnectedSince(v, job[r].began)

\* The same of the entry, which was stored within its handler's time.
EntryInv == cache # None =>
    /\ cache.data.readAt <= cache.stored /\ cache.stored <= clock
    /\ cache.stored <= cache.data.readAt + MaxHandler
    /\ \A v \in cache.data.venues : ConnectedSince(v, cache.data.readAt)

Freshness == TypeOK /\ HeldInv /\ EntryInv
=============================================================================
