# Verification of CoinHQ

CoinHQ shows the crypto balances a user has at several exchanges, grouped in
profiles, and lets the owner share a profile by link. A link may also let its
holder trade on the profile within limits. This directory holds TLA+ models of
the parts where state is shared between concurrent handlers, caches, processes
and exchanges, the TLC configurations that check them on small instances, and
TLAPS proofs of the main results for every value of the constants.

Paths below are relative to the repository. `backend/app` is written `app`.

## 1. The system

The backend is one FastAPI application (`app/main.py`), run by several server
processes or serverless instances over one PostgreSQL database and, optionally,
one Redis. Handlers are coroutines: they interleave at every `await`. Each
handler has one SQLAlchemy session (`app/core/database.py:46`), hence one
transaction at READ COMMITTED, which commits where the handler says so and rolls
back when the handler ends otherwise. There are no row locks (`FOR UPDATE`) and
no serializable transactions anywhere in the handlers.

| Component | State | Operations | Talks to | What is hard | What makes it correct |
|---|---|---|---|---|---|
| Trade execution (`services/trade_service.py`, `core/trade_limits.py`, `api/v1/trade.py`) | `trade_orders`, the audit log | owner trade, delegate trade, 24 h spend | share links, trade keys, exchanges | limit checked long before the row that counts is committed; executed but unrecorded orders | limits hold; authority is current; log and exchange agree |
| Share links (`api/v1/share.py`) | `share_links`, view counter | create, edit, revoke, public view, trade | profiles, portfolio, trade | rows read once and used after awaits; edits and views of one row at once | what is shown or traded on was allowed when the handler began; no view and no edit is lost |
| Exchange keys (`api/v1/keys.py`) | `exchange_keys` | add (validated at the exchange), delete, list | exchanges, tier limits | check, remote call, insert | distinct exchanges within the tier; no key that can withdraw |
| Profiles (`api/v1/profiles.py`) | `profiles` | create, delete, list | everything by cascade | count, then insert; deletion under running handlers | profiles within the tier; nothing survives deletion |
| Portfolio (`services/portfolio_service.py`, `api/v1/portfolio.py`) | Redis entry of 60 s, `portfolio_snapshots` | read-through, aggregate, history, snapshot | exchanges, prices, Redis | no invalidation, best-effort Redis, throttle read before insert | bounded staleness; bounded snapshots; always an answer |
| Cost basis (`services/cost_basis_service.py`) | process memo, Redis entry | read-through, computation by average cost | exchanges, Redis | two caches, two lifetimes, entries handed from one to the other | bounded age; degraded results short-lived |
| Realized P&L (`services/pnl_service.py`) | none (fold over `trade_orders`) | compute | audit log | order of rows by the start of their handler; partial fills; sells beyond the book | figures that add up; agreement with the cost basis |
| Price resolution (`services/price_service.py`) | process memo, Redis hash | batch lookup in three sources | Binance, CoinGecko, FX | every call may fail; caches of three lifetimes; symbols that name several coins | bounded age; a failure loses no price; a namesake's price goes away |
| Exchange adapters (`exchanges/*.py`) | none | balances, fills, key validation, orders | exchanges | offset paging of a growing history, call budgets | every fill once; an order either refused or sent once |
| Login (`api/v1/auth.py`, `core/security.py`) | OAuth state in Redis or signed, JWTs | start, callback, refresh | Google, the browser | state used once; stateless fallback; upsert race; addresses that change hands | a token names the account that logged in, and ends |
| Browser session (`frontend/src/lib/api.ts`, `auth/callback/page.tsx`) | tokens in local storage | 401, refresh once, retry | login | several 401 at once, or from before the last login; refresh token never stored | a good token is not thrown away |
| Startup migrations (`core/migrations.py`) | `alembic_version`, schema | lock, stamp, upgrade | several instances at once | stamp of a schema of unknown origin | one upgrade, at the revision of the schema |
| Tier limits (`core/limits.py`) | constants | two comparisons | profiles, keys | used outside any lock | see profiles and keys |
| Waitlist and follows (`api/v1/waitlist.py`, `api/v1/share.py:176`) | `waitlist`, `followed_portfolios` | join, follow, unfollow | database constraints | look-up, then insert | one row; an error only in a race |
| History, admin | none | single SELECTs | database | nothing | nothing of its own |
| Web client | React and SWR state | display | the API | presentation | not modelled |

## 2. The modules

| Module | What it is |
|---|---|
| `OrderLedger` | abstract specification of the audit log: accept, execute, conclude, erase |
| `DelegatedTrading` | trade handlers, owner operations, exchange; implements `OrderLedger` |
| `MCDelegatedTrading` | terms, orders and symmetry for TLC |
| `DelegatedTradingProofs` | type correctness, inductive invariants, authority, spend limit, refinement |
| `PortfolioCache` | `get_portfolio`, the Redis entry, the snapshot throttle |
| `MCPortfolioCache` | symmetry for TLC |
| `PortfolioCacheProofs` | freshness of answers, snapshots bounded, faults absorbed |
| `CostBasisCache` | `get_cost_basis`, process memos and Redis |
| `MCCostBasisCache` | symmetry for TLC |
| `AccountLimits` | creation and deletion of profiles and keys under the tier limits |
| `MCAccountLimits` | symmetry for TLC |
| `AccountLimitsProofs` | bounds on profiles, exchanges and names |
| `FillWalk` | the paging of `get_fills` in the seven adapters, under their budgets and semaphores |
| `MCFillWalk` | the set of adapters for TLC |
| `FillWalkProofs` | calls bounded, finished lanes complete, repeated fills explained, dust last; a walk never stalls, steps back or goes on for ever |
| `PriceLookup` | venue quotes and `get_usd_prices`: Binance, the symbol map, searches, CoinGecko, and their caches |
| `MCPriceLookup` | two symbols, one with a namesake |
| `PriceLookupProofs` | age of prices, and of what they know of namesakes; no price lost, no call repeated |
| `PublicPages` | the public page of a link, its counter, edits and revocations; follows and the waitlist |
| `MCPublicPages` | flags, patches and symmetry for TLC |
| `PublicPagesProofs` | the counter, pages as current as their handler, counted views shown, edits that stick, errors only in a race |
| `Session` | logging in with Google, tokens, and the browser's session |
| `MCSession` | symmetry for TLC |
| `SessionProofs` | states, tokens, ends of sessions, good tokens, conflicts |
| `TradeBooks` | one coin's trade history as seven adapters parse it, its cost basis and its realized P&L |
| `MCTradeBooks` | the trades placed outside CoinHQ |
| `CostBasisProofs` | age of responses; the position, the coverage and both books |

No module composes two state machines: the components meet in the database, and each
module models the rows it shares as the other handlers leave them. `OrderLedger` is the
one abstract specification; `DelegatedTrading` implements it under a refinement mapping.
What `PublicPages` calls the portfolio is `PortfolioCache`, what `PortfolioCache` calls
the venue's answer is priced by `PriceLookup`, what `CostBasisCache` calls a computation
is a `FillWalk` per venue folded as in `TradeBooks`.

### 2.1 DelegatedTrading

A request `r` is a process: `pc[r]` is the await at which it stands (or how it
was answered), `job[r]` the rows it has read. Its steps are those of
`delegate_trade` and `execute_trade`:

| Code | Actions |
|---|---|
| `owner_trade` (`trade.py:16`) | `BeginOwnerTrade` |
| link row read, active, not expired, may trade (`share.py:367`) | `BeginDelegateTrade` |
| `db.get(Profile)` (`share.py:384`) | `LoadProfile` |
| trade key read (`trade_service.py:68`) | `LoadTradeKey` |
| `spent_today_usd`, `check_delegate_trade` (`trade_service.py:83`) | `CheckLimits` |
| `place_order` | `AdapterRefuses`, `ExchangeRejects`, `ExchangeExecutes` |
| its answer, or none | `ReplyArrives`, `ReplyLost`, `ReplyGarbled` |
| insert and commit (`trade_service.py:132-143`) | `RecordFilled`, `RecordFailed` |
| the process ends | `Crash` |

The owner's handlers are each one short transaction with nothing but the database
to wait for, and are one action each: `AddTradeKey`, `DeleteTradeKey`,
`CreateShareLink`, `UpdateShareLink`, `RevokeShareLink`, `DeleteProfile`. They may
fall between any two steps of a request. `clock` is the database's clock. A row
carries the time at which its handler's transaction began, because PostgreSQL's
`now()`, the default of `created_at`, is that moment.

Ghosts, read by properties only: `executed` (what the exchange did), `retired`
(when terms stopped applying to a link), `keyGone` (when a trade key went).

Amounts are whole numbers. The price lookup that sizes an order is part of
`AdapterRefuses` (no price) or of the steps that follow.

### 2.2 PortfolioCache

One profile: profiles share neither Redis entries, keys nor snapshots.
`Begin` reads the keys (`portfolio.py` and the other callers load them before they
call); the callers differ in what they pass: the profile's endpoint Redis and a
session, the aggregate and the cost basis Redis only, a shared view neither. `CacheHit`, `CacheMiss` and `CacheUnreadable` are the look-up;
`FetchBalances(r, S)` the concurrent calls to all venues, of which those in `S`
answered; `SnapshotIsRecent`, `SnapshotIsDue`, `WriteSnapshot` and
`SnapshotFails` are `_maybe_save_snapshot`; `StoreCache` and `StoreFails` the
final `setex`. `PricesRaise` is the one failure that is not caught: `get_usd_prices`
raising on an answer it cannot parse (2.6). A portfolio is what the properties tell apart: the venues in it and
when their keys were read.

### 2.3 CostBasisCache

One profile and several processes, each with its memo; `shared` is the Redis
entry. `MemoHit` and `MemoMiss` are `_memo_get`, with its inclusive comparison;
`SharedHit`, which fills the memo with a full lifetime, `SharedMiss` and
`SharedUnreadable` the look-up in Redis; `Compute` the calls to all venues,
degraded or not; `PortfolioRaises` the portfolio below it raising; `StoreShared` and
`StoreFails` the final `setex`; `Restart` replaces a process. A response is when it was computed and whether it is degraded.
The names of this module (`CacheSpec`, `Request`, `at`, `Nothing`) differ from those of
`TradeBooks`, for `CostBasisProofs` speaks of both.

### 2.4 AccountLimits

One user. A row is named by the request that inserts it. `create_profile` is
`BeginCreate` (with its count), `LookUpName`, `InsertProfile`, `RefreshProfile`;
`add_key` is `BeginAddKey`, `CheckExchanges`, then the exchange's verdict
`KeyAccepted` or `KeyRefused`, then `InsertKey` and `RefreshKey`. Constraints are
those of the migrations: a key is unique by profile, exchange and type, and needs
its profile; names have none since revision 003. A row may be deleted between its
commit and the `refresh` that reads it again; the handler then ends in an error.
What a key may do at the exchange is the exchange's verdict and is not looked into.

### 2.5 FillWalk

One `get_fills` call. What the adapters share is a set of lanes, each a series of
pages; what tells them apart is a record of seven fields:

| Adapter | Lane | Slot held for | Next page named by | Calls limited by | A failed call loses |
|---|---|---|---|---|---|
| Binance | market | one call | last id, going forward | budget | the answer |
| Binance TR | asset | the lane | last id, going forward | budget, pages | the lane |
| Gate.io | window | the lane | page number in a window | budget | the answer |
| Bybit | window | all (a loop) | cursor in a window | budget | the walk |
| Kraken | account | all | offset from the newest trade | pages | the walk |
| OKX, Coinbase | account | all | id or cursor, going back | pages | the walk |

`Started` is `asyncio.gather` running every lane to its first await in the order
the adapter built the list; `Continue`, `Leave` and `Admit` are what a lane does
with the budget and the semaphore (FIFO, as `asyncio.Semaphore` is) before its next
await. `PageArrives` is the rest of the loop after a page, in the code's order of
exits: a short page, no cursor, the limit on pages, the budget. `NoRows` is an
answer that is no list; `CallFails` a call that raises, with a `gather` whose other
lanes walk on behind the answer. `Return` ends the call. `NewTrade` is the account
trading during the walk; `served` is the size of the venue's pages, which Gate.io's
adapter allows to differ from the size it asks for.

The windows of Gate.io and Bybit include both their ends, and each begins where the one
before it ends (`gateio.py:126`, `bybit.py:125`): `edge[l]` is how many of the oldest
trades of window `l` were made at that very second or millisecond, and are rows of the
next, older window too. The newest window ends with the moment the walk began, in which
trades may still be made; the others are past. Gate.io's page numbers count from the
newest trade of the window, as Kraken's offsets do for the account.

The filter on held assets, which drops rows and moves no cursor, the content of
fills, and an empty list of assets, which returns at once, are left out. The history
of one lane grows at a time (a bound).

### 2.6 PriceLookup

A lookup `r` prices the holdings of one venue. `pc[r]` is its await, in the order of
`Places`; `job[r]` its local variables: prices so far, the page it reads, the map, the
ids it knows and the symbols left to search for.

| Code | Actions |
|---|---|
| the venue's own quotes (`portfolio_service.py`) | `Begin`, `VenueAnswers`, `VenueFails` |
| Binance's prices, cached for 30 s | `BinanceCached`, `BinanceNotCached`, `FetchBinance`, `FetchBinanceFails`, `KeepBinance` |
| `_get_coingecko_symbol_map` | `MapCached`, `MapRemembered`, `MapUnknown`, `PageArrives`, `PageFails`, `ListArrives`, `ListFails`, `KeepMap` |
| `_search_symbol_ids` | `Recall`, `SearchAnswers`, `SearchFails`, `SearchLimited` |
| `_fetch_coingecko_prices` | `Quote`, `QuotesArrive`, `QuotesFail`, `KeepQuotes` |

A price is whose it is and how old; values are not told apart. A symbol may name two
coins, the one its holder means and a smaller namesake, which only the alphabetical
list can yield. Lifetimes count down (`left`), ages count up, and no clock is kept, so
that a state does not grow with time. Redis ends an entry at its time, the memo of the
process keeps it to its last moment inclusive. What each action reads of Redis may fail
at any call.

A call that fails, and a body that is no JSON, is caught where it is made. An answer of
status 200 whose body has another form than expected is not: its rows are parsed behind
the `try` (lines 115, 167, 216, 293 and 382), and `get_usd_prices` raises. That is
`AnswerGarbled`, and `QuotesGarbled` when some of the prices have been stored by then;
`given` is `Raised`. Only the trade handler catches it (`trade_service.py:119`).

### 2.7 PublicPages

One link, its profile, and requests made once each: views, edits, revocations, follows,
joins of the waitlist. The steps of a view are those of `get_public_portfolio`:
`BeginView` (link looked up, active, not expired), `CountView` (one `UPDATE`, committed),
`LoadProfile`, `ReadPortfolio` (or `ReadPortfolioRaises`), `AvgBuyPrices` or its failure, `TradeContext`. An edit is
`BeginEdit`, `LoadOwner`, `LoadTradeKey` when it asks for trading, and `WriteEdit`, which
writes the columns that differ from what was read, as SQLAlchemy does. A follow and a
join are the same three steps on different tables: `LookUp`, `Insert`, `RefreshRow`.
`SetTradeKey`, `DeleteProfile` and `Unfollow` are one short transaction each. A view's
`job[r].on` is the copy of the flags the page will be made of.

Ghosts: `counted`, `changed`, `ended`, `inserted`, and `before`, the requests that were
over when one began.

### 2.8 Session

`GoogleLogin` is `google_login` up to Google's redirect; the state it leaves is in Redis,
or signed when Redis cannot be reached. `BeginCallback` is the check of the state,
`ExchangeCode` and `FetchUserinfo` the calls to Google, `LookUp` the query by
`google_id`, `Insert` and `Update` the commit with its two unique constraints and the
tokens made after it. `KeepToken` is the page `/auth/callback`. `Refresh` is
`POST /auth/refresh`, by any holder of a refresh token; the browser is none. `Send`,
`Answer`, `ServerFails`, `Unauthorized` are a request of `api.ts` with its handling of
401, `LogOut` the button. Tabs share `stored`, the browser's local storage. Google
exchanges a code once and lets addresses change hands (`ChangeAddress`); both are assumed
of Google, not read in the code.

### 2.9 TradeBooks

One coin on one venue. `trades` are the venue's rows in the shape each venue gives them
(`Reported`): OKX's negative fees, the unnamed fees of Kraken, Coinbase and classic Bybit
accounts. `ParseFill` has one operator per adapter's `_parse_fill`. `Position` and
`Coverage` are `compute_avco`; `Pnl` is `compute_profile_pnl`, over the rows of
CoinHQ's orders in the order of `created_at`, which is that of the handlers' beginnings
(`PnlRows`: an order without a row to read leaves a gap, which the fold passes over).
`Begin`, `Place`, `Record`, `NotFilled` are an order's life (its guards are in
`DelegatedTrading`); `OutsideTrade`, `Deposit`, `Withdraw` what happens on the venue
without CoinHQ.

`ReadHoldings` is the first read of `get_cost_basis`, of the balances; `basis` is what
was held then, with the ghosts of that moment. The trade history is read after it, in
many answers, with anything in between. `TakeRow` takes the next row as often as it is
delivered (`Deliveries`): not at all when the adapter was out of calls or pages, or when
it is a trade for another coin on Binance or Binance TR, which are asked for markets in
dollars only (`binance.py:23`, `binancetr.py:18`); twice where pages or windows overlap
(Kraken, Gate.io, Bybit; see 2.5); else once. `ReadTrades` ends the walk, after any row:
OKX has three months and ten pages, Kraken five, the others their budgets. `walk` is how
far it came, the position so far, and, as ghosts, what it counted. Rows are taken by
their time, whatever the order of the answers, since `compute_avco` sorts them; trades
of one millisecond keep the order in which they were delivered, which is not modelled.
`bought`, `sold` and `otherSold` are ghosts too: the coins that buys for dollars
credited, and those sold for dollars and for another coin.
Both folds are over fractions, so that no rounding hides a difference; floats are not
modelled.

## 3. What TLC checks

Every run sets `CHECK_DEADLOCK FALSE`: the instances have finitely many requests
and a last tick, and the system may stop where they end.

| Run | Question | Instance |
|---|---|---|
| `trading_limits` | `OverspendBound` | 3 requests, 2 at once, each up to one tick long, one link with a limit of 3, orders of 3, a window of 2, clock to 4 |
| `trading_authority` | `Provenance`, `AuthorityIsFresh`, `ImplementsLedger`; `EveryRequestAnswered`, `ExecutedGetsRecorded` | three link settings, three orders, an expiry, one request among all owner operations, process deaths, lost and garbled answers, clock to 2, fairness |
| `portfolio_fresh` | `Freshness`, `AnswersAreFresh`, `SnapshotsBounded`, `FaultsAreAbsorbed` | 3 requests, 2 at once, Redis, venue and database failing, prices that raise, crashes, clock past the hour |
| `costbasis_age` | `AgeInv`, `AgeBounded` | 2 processes, 3 requests, all faults |
| `account_limits` | `Claims`, `LimitsBounded`, `NamesBounded` | 4 requests, 2 at once, 2 names, 3 exchanges |
| `fill_walk` | `CallsBounded`, `CompleteWhenDone`, `DoublesExplained`, `DustGoesWithout`, `WalkEnds` | every adapter, up to 4 markets or 3 windows, 2 slots, pages of 2, 3 calls, histories that grow to 3, a trade at the end two windows share, all faults, fairness |
| `prices` | `PricesAreRecent`, `NamesakesFadeOut`, `NoPriceIsLost`, `NoCallIsRepeated` | 2 lookups with and without Redis, 2 symbols, 1 search a lookup, 2 pages, every source failing or answering in another form |
| `shared_pages` | `NoViewIsLost`, `PageIsCurrent`, `CountedIsShown`, `EditsStick`, `ErrorsNeedARace` | 2 requests at once that may take two ticks, 3 flags, 3 patches, a follower, an address, an expiry, crashes, a portfolio that raises, clock past the expiry |
| `session` | `StatesAreSpent`, `TokensAreOnesOwn`, `SessionsEnd`, `GoodTokensStay`, `ConflictsAreReal` | 2 logins, 2 callbacks, 2 accounts, 3 addresses, one request, all faults, clock past the lifetimes |
| `average_cost` | `TypeOK`, `AverageIsOfBuys`, `FullIsExplained`, `PartialHasAReason`, `MoneyAddsUp`, `BooksAgree` | all eight ways to report trades, 2 orders (one begun by the end of a computation of the cost basis: `MaxBegun`), 3 trades or transfers, two prices and a trade for another coin, every charge, rows left out, rows delivered twice and walks cut short |
| `cap_race`, `failed_executed` | one documented claim each, violated | two requests |

The type invariants of `DelegatedTrading`, `PortfolioCache`, `CostBasisCache`,
`PriceLookup`, `PublicPages`, `Session` and `TradeBooks` are proved; that of `AccountLimits` is a part
of `Claims`, that of `FillWalk` of the proved `Walked`.

**Bounds.** `MaxTime`, `MaxInFlight` and `MaxHandler` bound clock, concurrency and
the duration of a handler; the rest of the bounds are the sizes of the sets. Two
requests at once are what a race needs, and a third, later one sees what they left.
Clocks run past every lifetime or window, so that entries
expire and memos filled from Redis outlive them. In `trading_limits` the clock goes two
ticks past the window, and a handler may take one: rows are dated a tick before they are
committed, leave the inclusive window after it, and make room for a third request;
owners' operations, faults and liveness are in `trading_authority`, where one request is
enough. Lifetimes
are a few ticks because only their order and their boundaries matter to the code
(`>=` against `>`, inclusive against exclusive ends). In `fill_walk` there are more
lanes than calls and more calls than slots, so that lanes queue and the budget runs
out before, between and after first pages; a history is empty, a short page, a full
page or more than one, and can grow across each of these boundaries; any window may
have a trade at the end it shares with the next. In `prices` a map lives a tick
longer than a price and is made of two pages, so that an interrupted one differs from a
whole one and from the list; one symbol is on Binance and the other has the namesake. Prices live for one tick,
so one that is read from a cache was stored in the same tick: how age and time to live add
up is only proved (`PricesTheorem`, `NamesakesTheorem`). That
Redis fails in the middle of a lookup is left to the proofs, which cover all four
properties of the run: with that fault two lookups at once are beyond a few minutes. In
`shared_pages` two requests are an edit between another edit's read and write, or a page
made while its link is edited, revoked or followed; one patch sets a flag another
clears. In `session` the address one account leaves can be taken by another between any
two steps of a callback. In `average_cost` three trades are a buy, a sell and a trade
between the two reads, on every kind of venue, as each reports amounts and fees its own
way. `MaxBegun` lets a computation see one order of CoinHQ's beside what is traded
outside; two orders meet in the log and in the day's P&L, where `MoneyAddsUp` and
`BooksAgree` need them. The proofs cover all six properties for any numbers. The tolerance is a third of the
holding, so that one coin of three is within it and one of two is not. Symmetry is used on requests, processes and venues, in
safety runs only; nothing in the modules orders them.

**Fairness.** `FairSpec` adds weak fairness of `Advance(r)`, the steps of request
`r`. The event loop resumes a coroutine whose await is over, and each await is over
some day: the HTTP client has a timeout (`app/main.py:30`), Redis and PostgreSQL
answer or fail. `Advance(r)` is one disjunction because the code does not promise
which outcome comes. `FillWalk` assumes the same of each call of a lane and of
`Return`. The trading run that assumes it is
`trading_authority`. No fairness is assumed of owners, of viewers, of the clock or
of faults. `PriceLookup` needs none for its end: `NoCallIsRepeated` gives every lookup a
measure that each step without the clock increases.

**Mutants.** Every property of a passing run is broken by a plausible bug in a
definition that models code. The mutated definitions stand beside the originals and
are called bugs to detect in their comments.

### What the runs say about the code

Two claims made in messages and documents do not hold of what the code does; each has
its run.

1. `cap_race`: two requests of one link both pass the 24 h check, which the audit
   log is said to enforce. The bound that does hold, `OverspendBound`, is the limit
   times the number of requests handled at once, in 24 h less a handler's duration.
2. `failed_executed`: "Order not placed." is answered, and `failed` logged, for an
   order whose answer alone was lost.

The invariants that hold are stated so that they show the same limits elsewhere:

- `AuthorityIsFresh` allows a revoked link one handler more; so does `PageIsCurrent`, for
  a page.
- `LimitsBounded` and `NamesBounded` allow one profile, exchange or equal name for every
  other request handled at once; `SnapshotsBounded` one snapshot an hour, for each.
- `AgeBounded` counts a degraded cost basis found in Redis as memoized for the full window.
- `OrderLedger` demands a complete log only when nothing fails.
- `DoublesExplained` allows Kraken's walk, and Gate.io's through its newest window, one
  repeated fill for every trade made while it runs, for offsets and page numbers count
  from a newest trade that moves; and Gate.io and Bybit one for every trade made at the
  end two windows share. Cursors and ids repeat none.
- `CompleteWhenDone` promises nothing of a lane cut short, by its budget, its limit on
  pages, a missing cursor or a failure, and the callers are not told which lanes these
  were. `DustGoesWithout` is about first pages: Binance's budget may still be spent on
  the first page of dust while a valuable market waits for its second.
- `NoPriceIsLost` excepts the lookup that raises. `price_service.py:412` says that "any
  CoinGecko error/timeout is logged and swallowed — never raised", which is not so of an
  answer of status 200 that has another form than expected: the exception leaves
  `get_usd_prices` with the prices Binance had given, and goes on to whoever asked for the
  portfolio, the cost basis or the public page, whence the exception in
  `FaultsAreAbsorbed` and `CountedIsShown`.
- `NamesakesFadeOut` allows a small coin the price of its namesake for as long as a map
  made of the list, the price after it and three lookups last. A map of fewer pages than
  asked for is kept like a whole one, which costs coins their price (they are searched
  for, a few at a time) but gives none a wrong one.
- `StatesAreSpent` is about states in Redis: a signed state lets any number of callbacks
  on until it expires, and then Google's one exchange of a code is what stops them.
- `ConflictsAreReal` and `ErrorsNeedARace` allow a sign-in, a follow or a join an error
  where two at once, or an address that changed hands, meet a unique constraint.
  `share.py:192` and `waitlist.py:19` call follow and join idempotent, which they are one
  after the other.
- `GoodTokensStay` allows a 401 of a request sent with an older token to remove the token
  of a newer login. As the refresh token is not stored (`page.tsx:12`), no 401 is ever mended
  by a refresh, though `docs/SYSTEM_TEST_PLAN.md:20` has the client store both tokens and
  try one refresh. No property would notice if the page stored it: the model has the page
  as it is.
- `FullIsExplained` and `PartialHasAReason` allow what is bought or sold between the two
  reads of the cost basis to hide a deposit, or to look like one. They also allow "full"
  where the venue was not asked for the market a coin was sold on: on Binance, who buys
  two for dollars, sells one for bitcoin and deposits one is told "full". A fill that is
  delivered twice hides a deposit too. A history cut short is one of the reasons for less
  than full that `cost_basis_service.py:17` names.
- `BooksAgree` allows the P&L a higher cost than the cost basis where an order was filled
  in part, for it books the dollars that were ordered; only Binance's answers carry the
  amount that was filled, and orders of other venues are not in the P&L. It says nothing of
  orders that overlap: the P&L folds them in the order their handlers began
  (`pnl_service.py:64`), which need not be that of their execution, and no property covers
  what that does to the realized gain.
- `PricesAreRecent` ends where `get_usd_prices` returns. A portfolio that is made of the
  prices is kept for another `CacheTTL`; that sum is not checked.

Seen while modelling, and stated by no property: an expired link can still be followed
(`follow_portfolio` does not look at `expires_at`); a view is counted before the profile
is looked for; a follow's row outlives its link; the search for ids begins with the same
symbols at every lookup, as a search without a result is not remembered; the token in use
lives 24 hours (`app/core/config.py:61`), while `README.md:92` says 7 days.

## 4. What is proved

All theorems hold for every value of the constants under the assumptions named in
the modules (`TradingAssumption`, `NoneAssumption`, `PortfolioAssumption`,
`CostBasisAssumption`, `NothingIsNoValue`, `NoneIsNothing`, `RaisedIsNothing`, `BooksAssumption`,
`LimitsAssumption`, `BoundsAssumption`, `AdaptersAssumption`, `PriceAssumption`, `PagesAssumption`, `SessionAssumption`,
`ProcessesDiffer`): parameters have their types, `None` is no value of what can be null, a
degraded lifetime is not longer than a full one, callbacks are no API requests.

**DelegatedTradingProofs.** `Provenance` is inductive. `AuthorityIsFresh` alone is
not: at the step that executes an order nothing in it says where the handler's
copies came from. `TermsInv` supplies that (what a handler holds was in force when
it began, or was retired since), `KeyInv` the same for the trade key, and `JobInv`
that the handler began at most `MaxHandler` ago. `VenueInv` and `RowInv` tie the
place of a request to what the exchange did and what the log says, which makes
every step of the handlers a step of `OrderLedger` or a stutter.
`TypeCorrectness`, `AuthorityTheorem` and `LedgerRefinement` follow.
`OverspendBound` sums the filled orders of a link that began within a window. Its
invariant `Spending` counts what the audit log cannot yet show: all requests past the
check of the limit (`Approved`) that began in the window are together within
`MaxInFlight` times any amount that the link's limits never exceeded (`WithinCaps`). When
one more request passes the check, those of its window that are in the log are what it
counted, and left room for it; the others are in flight beside it, fewer than
`MaxInFlight`, and each of them alone is within the limit. `LogIsOfJobs` ties the rows of
the log to the requests, `OnItsLink` the requests to the profile their limit is counted
for, and `Finitely` keeps the sums, which are the library's folds over sets, finite.
`SpendingHolds` and `OverspendTheorem` follow.

**PortfolioCacheProofs.** `Freshness` is inductive: what a running handler read was
connected when it began (`HeldInv`), and the Redis entry carries the same promise
together with its handler's duration (`EntryInv`). `FreshAnswers` is its sum: life
of an entry plus one handler. `AbsorbedTheorem` needs the place of a handler only, and
excepts prices that raise. For
`SnapshotsTheorem` the rows of an hour and the handlers about to write one are counted
together (`Claims`): a handler that found the hour empty makes its claim when all other
claims are of handlers at work, and there are no more of these than may be at work; a
claim that was made only becomes a row or goes away.

**CostBasisProofs.** For the caches, `AgeInv` is inductive: the Redis entry ends within a
handler and a lifetime of its computation (`SharedInv`), and a memo, computed here
or filled from a live Redis entry, ends before another full lifetime is over
(`MemoInv`). `AgeTheorem` follows.

For the books, `PositionOfMore` and `PnlOfMore` come first: what each fold is after one
row more. A fold of the library is the value of a function that is chosen by what it
satisfies, so they rest on its existence (`PositionFoldExists`, `PnlFoldExists`), by
induction over the rows. That induction is a lemma about sets of numbers (`Counting`),
which needs no operator as a parameter. Each property is then an invariant that every row
keeps:

- `Books`, the inductive invariant of `BooksHold`, has the types, with a position that is
  never negative and costs nothing once it is closed (`Sound`), and `Covered`, which is
  about the account, the whole history and the walk in turn. The account has at least what
  came in and did not go out, whatever it was charged (`HeldHasAll`). The position of the
  whole history has all that is held or was withdrawn, as long as nothing was deposited,
  traded for another coin or paid as a rebate (`PositionHasAll`, `Undisturbed`). A walk
  has at most what it counted (`WalkCounts`), and is the position of the rows it has taken
  if it took each once (`WalkIsExact`). The same of the holdings that were read, by the
  row that was the last at that moment (`BasisHasAll`, `RowsHaveAll`): from there on only
  a sale can leave a walk with less (`NoSaleSince`, `WalkHasAll`). The two coverage
  properties alone are not inductive, since they say nothing of a position before its
  holdings are read. `BooksTypes`, `FullTheorem` and `PartialTheorem` follow, for whatever
  rows are delivered and however often.
- `AverageTheorem`: a buy draws the average towards its own price and never past it
  (`Mediant`); a sale leaves it where it is (`Remaining`); so it does not matter which rows
  are missing or come twice.
- `MoneyTheorem`: after each number of rows the figures add up (`PrefixesAddUp`). Sums of
  fractions are compared as `Parts` of one denominator, which makes them statements about
  whole numbers.
- `AgreementTheorem`: between the execution of an order and its row the books differ, so
  `BooksAgree` is not inductive. `Agreement` says it of the rows with that one taken for
  granted (`AheadRows`), and needs that orders that run one at a time are the last in the
  order of `created_at` (`Begun`).

**AccountLimitsProofs.** The limits alone are not inductive: a handler that has
passed its check adds a row whatever the rows are by then. `Claims` counts rows and
such handlers together. A check that passes leaves room for every handler there can
be (`RoomForHandlers`); an insert turns a claim into a row; everything else only
takes claims away (`NothingNew`). An exchange that is there already passes its check
for free and adds no claim, which is why its deletion during the validation of the
key does no harm to the bound.

**FillWalkProofs.** Neither bound nor completeness is inductive. `PoolOK` says
that a lane is called or queued once at most, and neither once it has ended,
within the budget and the semaphore; `Admit` keeps it, whoever leaves. `LaneOK`
says how far a lane has read in terms of where its next page begins, and `Kept`
that every trade between the lane's first and its position was read, so that a
page taken for the last one, at the venue's page size, leaves no gap. Their
conjunction `Walked` is inductive (`WalkedHolds`); `CallsTheorem` and
`CompleteTheorem` follow. For `DoublesTheorem` what was read twice is counted together
with what was read and the offset is still to pass again (`Ahead`): a page moves trades
from the second to the first, and only the account's trading, which slides the history
under the offset, adds to them. A trade at the end of a window is counted with the next
window's, so what is read twice there is at most what was made there. For `DustTheorem` the lanes queued for their first call
are the last ones, in order (`Suffix`), and while any is queued none has gone without.
Three more theorems are what `WalkEnds` rests on besides fairness. No lane that has not
ended is forgotten and no slot is free while a lane waits (`UsedInv`: `Admit` fills the
slots, whoever left), so some call is outstanding until every lane has ended
(`GoesOnTheorem`); each call that ends takes its lane a page further or is its last, and
nothing undoes that (`AdvancesTheorem`); and each page a lane has read, with the next one
where a slot or a place in the queue is held for it, is a call of the budget (`Claims`),
so that there are only so many (`PagesTheorem`).

**PriceLookupProofs.** The age of a price that is given depends on what the caches held
when it was read. `LookupsInv` says how old the prices of a running lookup can be by the
time it has left, place by place, since what it stores must be what it fetched itself;
`KeptInv` says the same of entries by the time they have left. With them `RecentInv` is
inductive (`RecentHolds`), and `PricesTheorem` follows. `NamesakeInv` adds how long ago
the alphabetical list came, along the whole way a namesake's id is handed on: into the map
of the process, from a lookup to Redis, into ids, into prices and into their cache
(`HandedOnInv`, `StoredInv`). It is inductive together with `RecentInv`;
`NamesakesTheorem` follows. `KeptTheorem` goes through every step with `Moves` and `Kept`:
only a step that begins a lookup or reads its first answers replaces its prices, and then
there are none yet (`EmptyInv`); and only the two steps of an answer that cannot be
parsed return without them. `OnwardTheorem` follows from the types and the places
alone. Here Redis may fail at any call, which the run leaves out.

**PublicPagesProofs.** `PagesInv` (module `PublicPagesProofs`) holds with the type
invariant what a handler's copy has to do with the row: equal but for settings that
changed, or a link that ended, since the handler began, and which requests have been
counted by their place. `CountTheorem`, `PageTheorem` and `ShownTheorem` follow.
`StoryInv` says which requests were over when one began, and that these stay over; from
it `RaceInv` has that a row which stopped a request came from one beside it, and
`EditInv` that what an edit read of a setting and the link no longer has was changed by
an edit beside it. `RaceTheorem` and `EditTheorem` follow. A patch is assumed to carry a
field once, as a JSON object does.

**SessionProofs.** `SessionInv` says what each place of a callback has behind it: a state
that is spent, a row found that is the account's own, tokens whose ends count from their
login. `StatesTheorem`, `TokensTheorem` and `EndTheorem` follow; `GoodTokensTheorem` needs
`RefusalInv`, what a 401 says of its token. For `ConflictsTheorem` a callback has to
remember who ran beside it: `StoryInv` says that those it found over are over, so that a
row which is there when it inserts one was made by another.

**Only model-checked.** Every invariant and every action property of a run is proved.
What is left to TLC is liveness under fairness (`EveryRequestAnswered`,
`ExecutedGetsRecorded`, `WalkEnds`), which is out of the prover's reach; the safety that
`WalkEnds` rests on is proved (`GoesOnTheorem`, `AdvancesTheorem`, `PagesTheorem`), the
argument from it and from fairness to the end of the walk is not. Induction over data is
within reach as long as it can be made one over sets of numbers or positions
(`Counting`, `ByLastPosition`) and each recursive function is shown to exist; nothing is
known to the prover of `SelectSeq`, which is why `PnlRows` has gaps where the code's query
filters.

## 5. What is not modelled, and what may follow

- **Startup migrations.** Stamp and upgrade run under a Postgres advisory lock inside
  Alembic; a failure is logged and the application starts all the same. What can go wrong
  is in the schemas the scripts make, which no model tells apart.
- **History and admin.** Single SELECTs without state of their own.
- **Web client.** Apart from the session, React and SWR state that shows what the API
  answered and that the backend does not rely on.
- **Exchange adapters.** Balances, key validation, signing and parsing are I/O without
  state; their outcomes are actions of `AccountLimits`, `PortfolioCache`, `PriceLookup`
  and `DelegatedTrading`.
- **Partial totals.** A snapshot without a venue that failed is kept for its hour; whether
  it should be is the product's choice and no property takes a side.
- **Numbers.** Limits, totals and averages are floats in the code. The models use whole
  numbers and fractions, so rounding at an exactly filled limit or at the tolerance of the
  coverage is not covered.
- **What a link's flags hide.** The masking of the public page is formatting of one
  response. The page's statements of `TradeContext` are one step, as their order shows in
  nothing.
- **Answers** are modelled by their kind. The 404 of an unfollow, the rate limits of
  `slowapi`, and the read of a link again after its edit's commit, which is taken with it,
  are left out.

Worth doing next: a specification of the portfolio's path from `PriceLookup` through
`PortfolioCache` to `PublicPages`, whose ages add up today by hand only.
