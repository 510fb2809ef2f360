-------------------------- MODULE DelegatedTrading --------------------------
(***************************************************************************)
(* Spot trading through CoinHQ: an owner trades on a profile with its      *)
(* trade key; the holder of a share link trades on it within the terms the *)
(* owner put on that link (backend/app/services/trade_service.py, and the  *)
(* handlers of backend/app/api/v1/share.py, trade.py, keys.py and          *)
(* profiles.py that change what a trade reads).                            *)
(*                                                                         *)
(* The backend is asyncio over PostgreSQL at READ COMMITTED: a handler is  *)
(* one transaction whose every SELECT sees what is committed at that       *)
(* moment, and other handlers run at each of its awaits.  A trade request  *)
(* is therefore a process with a program counter and its own copies of the *)
(* rows it has read; the owner's operations, each one short transaction,   *)
(* are single actions that may fall between any two steps of a request.    *)
(*                                                                         *)
(* The exchange is outside: what it executed is the ghost `executed`, what *)
(* CoinHQ believes is `row`, the trade_orders table.                       *)
(***************************************************************************)
EXTENDS Integers, FiniteSets, FiniteSetsExt

CONSTANTS
    Profile, Exchange, Asset, Link, Req,
    Terms,        \* the link settings the owner may choose, a set of LinkTerms
    Orders,       \* the orders that may be asked for, a set of OrderRequest
    Faults,       \* what may go wrong outside the handlers
    Window,       \* the 24 hours of the spend limit, in ticks
    MaxHandler,   \* bound: ticks a trade handler may take (HTTP timeouts)
    MaxInFlight,  \* bound: trade requests being handled at once
    MaxTime,      \* bound: the last tick
    None          \* NULL of a nullable column, and "nothing read yet"

Side == {"buy", "sell"}
Limit == Nat \cup {None}
FaultKind == {"crash", "replyLost", "replyGarbled"}

\* The columns of share_links that decide what its holder may trade;
\* coins = {} is the empty whitelist, which admits every asset.
LinkTerms == [canTrade : BOOLEAN, direction : {"both", "buy", "sell"},
              coins : SUBSET Asset, perOrder : Limit, daily : Limit,
              expires : Limit]

OrderRequest == [exchange : Exchange, side : Side, asset : Asset, usd : Nat \ {0}]

ASSUME TradingAssumption ==
    /\ Terms \subseteq LinkTerms
    /\ Orders \subseteq OrderRequest
    /\ Faults \subseteq FaultKind
    /\ Window \in Nat /\ MaxHandler \in Nat
    /\ MaxInFlight \in Nat /\ MaxTime \in Nat

VARIABLES
    clock,      \* the database's clock
    profiles,   \* rows of profiles
    tradeKeys,  \* rows of exchange_keys with key_type = 'trade'
    link,       \* rows of share_links
    row,        \* row[r]: the row of trade_orders request r wrote, or None
    pc,         \* pc[r]: the await at which request r stands, or its answer
    job,        \* job[r]: the local variables of request r
    executed,   \* ghost: the requests whose order the exchange executed
    retired,    \* ghost: retired[l][t]: when terms t last stopped applying to l
    keyGone     \* ghost: keyGone[k]: when trade key k was last removed

vars == <<clock, profiles, tradeKeys, link, row, pc, job, executed, retired, keyGone>>

Running == {"profile", "key", "limits", "send", "reply", "fill", "fail"}
Over == {"refused", "filled", "failed", "broken"}

LinkRow == [state : {"unused", "active", "revoked", "gone"},
            profile : Profile \cup {None}, terms : Terms \cup {None}]
OrderRow == [profile : Profile, link : Link \cup {None}, usd : Nat,
             status : {"filled", "failed"}, createdAt : Nat]
Job == [profile : Profile, link : Link \cup {None}, terms : Terms \cup {None},
        order : Orders, began : Nat]

\* None is no value of the columns and variables that can be NULL.
ASSUME NoneAssumption ==
    /\ None \notin Nat /\ None \notin Profile /\ None \notin Link
    /\ None \notin Terms /\ None \notin Job /\ None \notin OrderRow

Key(p, e) == <<p, e>>
NoLink == [state |-> "unused", profile |-> None, terms |-> None]
InFlight == {r \in Req : pc[r] \in Running}
IsDelegate(r) == job[r].link # None
Orphaned(r) == job[r] # None /\ job[r].profile \notin profiles
KeyOf(r) == Key(job[r].profile, job[r].order.exchange)

Init == /\ clock = 0
        /\ profiles = Profile
        /\ tradeKeys = {}
        /\ link = [l \in Link |-> NoLink]
        /\ row = [r \in Req |-> None]
        /\ pc = [r \in Req |-> "idle"]
        /\ job = [r \in Req |-> None]
        /\ executed = {}
        /\ retired = [l \in Link |-> [t \in Terms |-> None]]
        /\ keyGone = [k \in Profile \X Exchange |-> None]

-----------------------------------------------------------------------------
(* The owner's operations. *)

HasTradeKey(p) == \E e \in Exchange : Key(p, e) \in tradeKeys

requestVars == <<row, pc, job, executed>>

\* Terms t stop applying to link l, now.
Retire(l, t) == retired' = [retired EXCEPT ![l][t] = clock]

AddTradeKey(p, e) ==
    /\ p \in profiles
    /\ Key(p, e) \notin tradeKeys
    /\ tradeKeys' = tradeKeys \cup {Key(p, e)}
    /\ UNCHANGED <<clock, profiles, link, requestVars, retired, keyGone>>

DeleteTradeKey(p, e) ==
    /\ Key(p, e) \in tradeKeys
    /\ tradeKeys' = tradeKeys \ {Key(p, e)}
    /\ keyGone' = [keyGone EXCEPT ![Key(p, e)] = clock]
    /\ UNCHANGED <<clock, profiles, link, requestVars, retired>>

CreateShareLink(l, p, t) ==
    /\ link[l].state = "unused"
    /\ p \in profiles
    /\ t.canTrade => HasTradeKey(p)
    /\ link' = [link EXCEPT ![l] = [state |-> "active", profile |-> p, terms |-> t]]
    /\ UNCHANGED <<clock, profiles, tradeKeys, requestVars, retired, keyGone>>

\* A PATCH: the trade key is looked for when the payload carries can_trade =
\* true; a revoked link can be edited too.
UpdateShareLink(l, t) ==
    /\ link[l].state \in {"active", "revoked"}
    /\ t # link[l].terms
    /\ (t.canTrade /\ ~link[l].terms.canTrade) => HasTradeKey(link[l].profile)
    /\ link' = [link EXCEPT ![l].terms = t]
    /\ IF link[l].state = "active" THEN Retire(l, link[l].terms)
                                   ELSE UNCHANGED retired
    /\ UNCHANGED <<clock, profiles, tradeKeys, requestVars, keyGone>>

RevokeShareLink(l) ==
    /\ link[l].state = "active"
    /\ link' = [link EXCEPT ![l].state = "revoked"]
    /\ Retire(l, link[l].terms)
    /\ UNCHANGED <<clock, profiles, tradeKeys, requestVars, keyGone>>

\* Deleting a profile cascades to its keys, its links and its trade_orders.
DeleteProfile(p) ==
    /\ p \in profiles
    /\ profiles' = profiles \ {p}
    /\ tradeKeys' = {k \in tradeKeys : k[1] # p}
    /\ link' = [l \in Link |-> IF link[l].profile = p
                               THEN [link[l] EXCEPT !.state = "gone"]
                               ELSE link[l]]
    /\ row' = [r \in Req |-> IF row[r] # None /\ row[r].profile = p
                             THEN None ELSE row[r]]
    /\ retired' = [l \in Link |-> [t \in Terms |->
                      IF /\ link[l].profile = p
                         /\ link[l].state = "active"
                         /\ link[l].terms = t
                      THEN clock ELSE retired[l][t]]]
    /\ keyGone' = [k \in Profile \X Exchange |->
                      IF k \in tradeKeys /\ k[1] = p THEN clock ELSE keyGone[k]]
    /\ UNCHANGED <<clock, pc, job, executed>>

-----------------------------------------------------------------------------
(* The handlers of a trade: owner_trade, delegate_trade, execute_trade. *)

dbVars == <<clock, profiles, tradeKeys, link, retired, keyGone>>

Goto(r, place) == pc' = [pc EXCEPT ![r] = place]

\* A handler's transaction begins with its first SELECT; PostgreSQL's now(),
\* the default of created_at, is that moment for the rest of the handler.
Begin(r, place, j) ==
    /\ pc[r] = "idle"
    /\ Cardinality(InFlight) < MaxInFlight
    /\ Goto(r, place)
    /\ job' = [job EXCEPT ![r] = j]
    /\ UNCHANGED <<dbVars, row, executed>>

BeginOwnerTrade(r, p, o) ==
    /\ p \in profiles
    /\ Begin(r, "key", [profile |-> p, link |-> None, terms |-> None,
                        order |-> o, began |-> clock])

\* A bug to detect: the link is looked up by its token alone.
UsableThoughRevoked(l) == /\ link[l].state \in {"active", "revoked"}
                          /\ link[l].terms.canTrade

\* Reads the link row once: active, not expired, allowed to trade.  Every
\* later use of the link in the handler is of this copy.
Usable(l) == /\ link[l].state = "active"
             /\ link[l].terms.expires # None => clock <= link[l].terms.expires
             /\ link[l].terms.canTrade

BeginDelegateTrade(r, l, o) ==
    /\ Usable(l)
    /\ Begin(r, "profile", [profile |-> link[l].profile, link |-> l,
                            terms |-> link[l].terms, order |-> o, began |-> clock])

LoadProfile(r) ==
    /\ pc[r] = "profile"
    /\ Goto(r, IF job[r].profile \in profiles THEN "key" ELSE "refused")
    /\ UNCHANGED <<dbVars, row, job, executed>>

LoadTradeKey(r) ==
    /\ pc[r] = "key"
    /\ Goto(r, IF KeyOf(r) \notin tradeKeys THEN "refused"
               ELSE IF IsDelegate(r) THEN "limits" ELSE "send")
    /\ UNCHANGED <<dbVars, row, job, executed>>

\* A bug to detect: the row exactly 24 hours old is left out.
CountsTodayStrictly(x, l) == /\ x # None
                             /\ x.link = l
                             /\ x.status = "filled"
                             /\ x.createdAt > clock - Window

\* spent_today_usd: the filled rows of the link in the last Window ticks.
CountsToday(x, l) == /\ x # None
                     /\ x.link = l
                     /\ x.status = "filled"
                     /\ x.createdAt >= clock - Window

SpentToday(l) ==
    MapThenSumSet(LAMBDA r : row[r].usd, {r \in Req : CountsToday(row[r], l)})

\* check_delegate_trade, in two parts: what the order is, and what is spent.
Permits(t, o) ==
    /\ t.canTrade
    /\ t.direction \in {"both", o.side}
    /\ t.coins = {} \/ o.asset \in t.coins
    /\ t.perOrder # None => o.usd <= t.perOrder

WithinDaily(t, spent, usd) == t.daily # None => spent + usd <= t.daily

CheckLimits(r) ==
    LET t == job[r].terms
        o == job[r].order
    IN /\ pc[r] = "limits"
       /\ Goto(r, IF Permits(t, o) /\ WithinDaily(t, SpentToday(job[r].link), o.usd)
                  THEN "send" ELSE "refused")
       /\ UNCHANGED <<dbVars, row, job, executed>>

\* place_order gives up before the exchange executes anything: no price to
\* size the order, or an error answer with status 200 (ValueError).
AdapterRefuses(r) ==
    /\ pc[r] = "send"
    /\ Goto(r, "refused")
    /\ UNCHANGED <<dbVars, row, job, executed>>

\* The exchange is unreachable or answers with an error status (HTTPError).
ExchangeRejects(r) ==
    /\ pc[r] = "send"
    /\ Goto(r, "fail")
    /\ UNCHANGED <<dbVars, row, job, executed>>

ExchangeExecutes(r) ==
    /\ pc[r] = "send"
    /\ Goto(r, "reply")
    /\ executed' = executed \cup {r}
    /\ UNCHANGED <<dbVars, row, job>>

ReplyArrives(r) ==
    /\ pc[r] = "reply"
    /\ Goto(r, "fill")
    /\ UNCHANGED <<dbVars, row, job, executed>>

\* The read times out or the connection drops: an httpx.HTTPError, as if the
\* order had not been placed.
ReplyLost(r) ==
    /\ "replyLost" \in Faults
    /\ pc[r] = "reply"
    /\ Goto(r, "fail")
    /\ UNCHANGED <<dbVars, row, job, executed>>

\* The body does not parse: JSONDecodeError is a ValueError.
ReplyGarbled(r) ==
    /\ "replyGarbled" \in Faults
    /\ pc[r] = "reply"
    /\ Goto(r, "refused")
    /\ UNCHANGED <<dbVars, row, job, executed>>

\* INSERT and COMMIT.  The profile's foreign key refuses the row when the
\* profile has been deleted meanwhile, and the handler ends in an error.
NewRow(r, status) == [profile |-> job[r].profile, link |-> job[r].link,
                      usd |-> job[r].order.usd, status |-> status,
                      createdAt |-> job[r].began]

Record(r, status) ==
    /\ IF job[r].profile \in profiles
       THEN /\ row' = [row EXCEPT ![r] = NewRow(r, status)]
            /\ Goto(r, status)
       ELSE /\ Goto(r, "broken")
            /\ UNCHANGED row
    /\ UNCHANGED <<dbVars, job, executed>>

\* Bugs to detect: the commit is forgotten; the insert waits for a profile
\* that is gone; a failed order is logged as filled.
RecordFilledUncommitted(r) ==
    pc[r] = "fill" /\ Goto(r, "filled") /\ UNCHANGED <<dbVars, row, job, executed>>
RecordFilledOfLiveProfile(r) == pc[r] = "fill" /\ ~Orphaned(r) /\ Record(r, "filled")
RecordFailedAsFilled(r) == pc[r] = "fail" /\ Record(r, "filled")

RecordFilled(r) == pc[r] = "fill" /\ Record(r, "filled")

RecordFailed(r) == pc[r] = "fail" /\ Record(r, "failed")

\* The process dies (deploy, eviction, a serverless function's time limit):
\* the transaction is rolled back.
Crash(r) ==
    /\ "crash" \in Faults
    /\ pc[r] \in Running
    /\ Goto(r, "broken")
    /\ UNCHANGED <<dbVars, row, job, executed>>

\* Time passes, but no handler outlives its HTTP timeouts.
Tick ==
    /\ clock < MaxTime
    /\ \A r \in InFlight : clock < job[r].began + MaxHandler
    /\ clock' = clock + 1
    /\ UNCHANGED <<profiles, tradeKeys, link, requestVars, retired, keyGone>>

-----------------------------------------------------------------------------
OwnerStep ==
    \/ \E p \in Profile, e \in Exchange : AddTradeKey(p, e) \/ DeleteTradeKey(p, e)
    \/ \E l \in Link, p \in Profile, t \in Terms : CreateShareLink(l, p, t)
    \/ \E l \in Link, t \in Terms : UpdateShareLink(l, t)
    \/ \E l \in Link : RevokeShareLink(l)
    \/ \E p \in Profile : DeleteProfile(p)

Begins(r) == \E o \in Orders : \/ \E p \in Profile : BeginOwnerTrade(r, p, o)
                               \/ \E l \in Link : BeginDelegateTrade(r, l, o)

\* The steps a handler takes of its own accord, and the exchange's answers.
Advance(r) ==
    \/ LoadProfile(r) \/ LoadTradeKey(r) \/ CheckLimits(r)
    \/ AdapterRefuses(r) \/ ExchangeRejects(r) \/ ExchangeExecutes(r)
    \/ ReplyArrives(r) \/ ReplyLost(r) \/ ReplyGarbled(r)
    \/ RecordFilled(r) \/ RecordFailed(r)

Next == \/ OwnerStep
        \/ \E r \in Req : Begins(r) \/ Advance(r) \/ Crash(r)
        \/ Tick

Spec == Init /\ [][Next]_vars

\* A handler that has begun goes on: the event loop resumes it, and every
\* HTTP call it awaits ends by an answer or by its timeout.  Nobody is
\* obliged to trade, to edit a link, or to crash.
FairSpec == Spec /\ \A r \in Req : WF_vars(Advance(r))

-----------------------------------------------------------------------------
(* Properties. *)

\* Type invariant: every variable stays in the set its rows come from.
TypeOK ==
    /\ clock \in Nat
    /\ profiles \subseteq Profile
    /\ tradeKeys \subseteq Profile \X Exchange
    /\ link \in [Link -> LinkRow]
    /\ row \in [Req -> OrderRow \cup {None}]
    /\ pc \in [Req -> {"idle"} \cup Running \cup Over]
    /\ job \in [Req -> Job \cup {None}]
    /\ executed \subseteq Req
    /\ retired \in [Link -> [Terms -> Nat \cup {None}]]
    /\ keyGone \in [Profile \X Exchange -> Nat \cup {None}]

InForce(l, t) == link[l].state = "active" /\ link[l].terms = t

\* Terms t apply to link l, or did at most MaxHandler ticks ago.
TermsFresh(l, t) ==
    \/ InForce(l, t)
    \/ retired[l][t] # None /\ clock <= retired[l][t] + MaxHandler

KeyFresh(k) == k \in tradeKeys \/ (keyGone[k] # None /\ clock <= keyGone[k] + MaxHandler)

\* The exchange executes request r's order in this step.
Executes(r) == r \notin executed /\ r \in executed'

\* Every order that reaches the exchange uses a trade key the profile has, or
\* had at most one handler's duration ago; and a delegate's order is allowed
\* by terms that apply to its link, or did that recently, and that had not
\* expired longer ago.  Rows are read at different awaits and used after
\* them: this bounds how stale the authority of an order can be when the
\* owner revokes or edits a link, removes a key or deletes the profile.
AuthorityIsFresh ==
    [][\A r \in Req : Executes(r) =>
          /\ KeyFresh(KeyOf(r))
          /\ IsDelegate(r) =>
                /\ Permits(job[r].terms, job[r].order)
                /\ TermsFresh(job[r].link, job[r].terms)
                /\ job[r].terms.expires # None =>
                      clock <= job[r].terms.expires + MaxHandler]_vars

\* The terms that ever applied to link l.
Offered(l) == {t \in Terms : InForce(l, t) \/ retired[l][t] # None}

\* What the exchange executed for link l, by the start of the requests.
SpentBetween(l, a, b) ==
    MapThenSumSet(LAMBDA r : job[r].order.usd,
                  {r \in executed : job[r].link = l /\ job[r].began \in a..b})

SpendAtMost(n) ==
    \A l \in Link :
        LET caps == {t.daily : t \in Offered(l)}
        IN (link[l].state # "gone" /\ caps # {} /\ None \notin caps) =>
              \A a \in 0..clock :
                  SpentBetween(l, a, a + Window - MaxHandler) <= n * Max(caps)

\* How far the 24 hour limit can be exceeded.  The limit is checked against
\* committed rows only, and rows are dated at the start of their handler, so
\* requests handled at once do not see each other and the window that is
\* really protected is shorter than 24 hours by a handler's duration.  Within
\* it, a link spends at most MaxInFlight times its largest limit; exactly the
\* limit when requests come one at a time.
OverspendBound == Faults = {} => SpendAtMost(MaxInFlight)

\* Within the (shortened) window a link never spends more than its limit:
\* README.md 215, "the 24h cap is computed from this log", and C-111 of
\* docs/SYSTEM_TEST_PLAN.md, an order beyond the limit is refused.
DailyCap == SpendAtMost(1)

\* "Could not reach exchange API. Order not placed." (trade_service.py 136):
\* an order logged as failed was not executed.
FailedMeansNotPlaced ==
    \A r \in Req : (row[r] # None /\ row[r].status = "failed") => r \notin executed

\* Every trade request that has begun is answered.
EveryRequestAnswered ==
    \A r \in Req : pc[r] \in Running ~> pc[r] \in Over

\* An executed order is eventually in the log as filled, unless its profile is
\* deleted, its answer is lost or garbled, or the process dies before the row
\* is committed.
ExecutedGetsRecorded ==
    \A r \in Req : r \in executed ~>
        \/ row[r] # None /\ row[r].status = "filled"
        \/ Orphaned(r)
        \/ "replyLost" \in Faults /\ pc[r] = "failed"
        \/ "replyGarbled" \in Faults /\ pc[r] = "refused"
        \/ "crash" \in Faults /\ pc[r] = "broken"

-----------------------------------------------------------------------------
(* Why the properties hold: an inductive invariant, in named parts. *)

\* A link that can still be edited or used belongs to a profile that exists.
LinkInv == \A l \in Link : link[l].state \in {"active", "revoked"} =>
    link[l].profile \in profiles /\ link[l].terms \in Terms

\* A request has its local variables exactly from its first read on, and its
\* handler has run for at most MaxHandler ticks.
JobInv == \A r \in Req :
    /\ pc[r] = "idle" <=> job[r] = None
    /\ pc[r] \in Running => /\ job[r].began <= clock
                             /\ clock <= job[r].began + MaxHandler

\* What a running handler read of its link was in force when it began, or has
\* stopped applying since; past the limit check it permits the order.
TermsInv == \A r \in Req : (pc[r] \in Running /\ IsDelegate(r)) =>
    LET l == job[r].link
        t == job[r].terms
    IN /\ t \in Terms
       /\ InForce(l, t) \/ (retired[l][t] # None /\ job[r].began <= retired[l][t])
       /\ t.expires # None => job[r].began <= t.expires
       /\ pc[r] = "send" => Permits(t, job[r].order)

\* Past its lookup the trade key exists or was removed since the start.
KeyInv == \A r \in Req : pc[r] \in {"limits", "send"} =>
    \/ KeyOf(r) \in tradeKeys
    \/ keyGone[KeyOf(r)] # None /\ job[r].began <= keyGone[KeyOf(r)]

\* What the place of a request tells of its execution and of its row.
VenueInv == \A r \in Req :
    /\ pc[r] \in {"idle", "profile", "key", "limits", "send"} => r \notin executed
    /\ pc[r] \in {"reply", "fill", "filled"} => r \in executed
    /\ (Faults = {} /\ pc[r] \in {"fail", "failed", "refused"}) => r \notin executed
    /\ (Faults = {} /\ pc[r] = "broken") => Orphaned(r)

RowInv == \A r \in Req :
    /\ row[r] # None => /\ pc[r] = row[r].status
                        /\ row[r].profile = job[r].profile
                        /\ ~Orphaned(r)
    /\ (pc[r] \in {"filled", "failed"} /\ ~Orphaned(r)) => row[r] # None

\* The inductive invariant: the provenance of everything a handler holds, and
\* the agreement of exchange, handler and log.
Provenance ==
    /\ TypeOK /\ LinkInv /\ JobInv /\ TermsInv /\ KeyInv /\ VenueInv /\ RowInv

-----------------------------------------------------------------------------
(* The trading service implements the ledger it promises. *)

EntryOf(r) == IF row[r] = None THEN "none" ELSE row[r].status

PhaseOf(r) == IF pc[r] = "idle" THEN "new"
              ELSE IF pc[r] \in Running THEN "open" ELSE "over"

Ledger == INSTANCE OrderLedger WITH
    Reliable <- Faults = {},
    phase <- [r \in Req |-> PhaseOf(r)],
    venue <- executed,
    entry <- [r \in Req |-> EntryOf(r)],
    erased <- {r \in Req : Orphaned(r)}

\* Every behaviour of the trade handlers is one of the abstract ledger: an
\* order is executed at most once per request, its entry is written once and
\* never changes, "filled" is never claimed for an order that was not
\* executed, and without faults the log is complete.
ImplementsLedger == Ledger!Spec
=============================================================================
