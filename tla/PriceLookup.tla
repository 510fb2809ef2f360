---------------------------- MODULE PriceLookup ----------------------------
(***************************************************************************)
(* What an asset is worth in dollars: the venue's own quotes where it has  *)
(* any (_fetch_exchange_balance and get_portfolio of portfolio_service.py) *)
(* and else get_usd_prices of backend/app/services/price_service.py.       *)
(*                                                                         *)
(* get_usd_prices asks Binance first and CoinGecko for the rest.  Ticker   *)
(* symbols are not unique on CoinGecko, so a symbol is first turned into   *)
(* the id of a coin: by a map made of pages ranked by market capitalisation, *)
(* by the alphabetical list of all coins when not even the first page      *)
(* could be had, or by a search for one symbol.  Every source may fail at  *)
(* any call, and maps, ids and prices are kept in Redis and in the memory  *)
(* of the process for different times.  The answers are parsed outside the *)
(* handlers of their errors: one of status 200 that is JSON but not of the *)
(* form expected raises out of get_usd_prices.                             *)
(***************************************************************************)
EXTENDS Integers, FiniteSets, Sequences

CONSTANTS
    Process,
    Req,           \* bound: the lookups at once
    Assets,        \* the symbols looked up, in the order they are asked for
    Stable,        \* the stablecoins among them
    Quoted,        \* those the venue has a market for
    Pairs,         \* those Binance has a USDT pair for
    Page,          \* Page[s]: the page that ranks the largest coin called s, or 0
    Curated,       \* those with a curated CoinGecko id
    ListMatch,     \* ListMatch[s]: the coin called s the alphabetical list yields
    Known,         \* those whose search finds a coin
    Pages,         \* _CG_MARKET_PAGES
    SearchMax,     \* _CG_SEARCH_MAX_PER_CALL
    BinanceTTL, PriceTTL, MapTTL,   \* times to live, in ticks
    Faults,        \* which calls may fail
    MaxHandler,    \* bound: ticks a lookup may take
    None,          \* nothing there
    Raised         \* what a lookup gives that ends in an exception

Symbol == {Assets[i] : i \in DOMAIN Assets}
FaultKind == {"venue", "binance", "page", "list", "search", "price", "redis", "garbled"}

\* The coin a holder of the symbol means, and a smaller one of the same name.
Coin == {"largest", "namesake"}

ASSUME PriceAssumption ==
    /\ Assets \in Seq(Symbol)
    /\ Stable \subseteq Symbol /\ Quoted \subseteq Symbol /\ Pairs \subseteq Symbol
    /\ Curated \subseteq Symbol /\ Known \subseteq Symbol
    /\ Page \in [Symbol -> 0..Pages] /\ ListMatch \in [Symbol -> Coin \cup {None}]
    /\ Pages \in Nat \ {0} /\ SearchMax \in Nat
    /\ BinanceTTL \in Nat \ {0} /\ PriceTTL \in Nat \ {0} /\ MapTTL \in Nat \ {0}
    /\ Faults \subseteq FaultKind
    /\ MaxHandler \in Nat \ {0}

VARIABLES
    binance,     \* the Binance prices in Redis
    map,         \* map["redis"], map[p]: the symbol map there
    found,       \* found["redis"], found[p]: the symbols whose id a search found
    quote,       \* quote[s]: the price of s in Redis
    pc, job,     \* per lookup: where it stands, its local variables
    given        \* the prices a lookup returned in the last step, or Raised

vars == <<binance, map, found, quote, pc, job, given>>

Store == {"redis"} \cup Process

\* The awaits of a lookup, in the order it comes to them.
Places == <<"venue", "binance", "fetch", "keepBinance", "map", "page", "list", "keepMap",
            "recall", "search", "quotes", "ask", "keepQuotes">>
Running == {Places[i] : i \in DOMAIN Places}

\* A coin's id: whose it is and, ghost, how long ago the alphabetical list
\* came that gave a namesake's.
Id == [coin : Coin, since : Nat]

\* The price of a coin, and how long ago its source gave it.
Price == [id : Id, age : Nat]

\* A symbol map: how many ranked pages it was made of, 0 for the list; and,
\* ghost, how long ago the list came.
SymbolMap == [pages : 0..Pages, since : Nat]

\* What is kept, and for how many ticks more.
Prices == [Symbol -> Price \cup {None}]
KeptPrices == [prices : Prices, left : Nat]
KeptPrice == [price : Price, left : Nat]
KeptMap == [map : SymbolMap, left : Nat]

Job == [process : Process, redis : BOOLEAN, left : Nat,
        prices : Prices, page : 1..Pages,
        map : SymbolMap \cup {None}, ids : [Symbol -> Id \cup {None}], todo : SUBSET DOMAIN Assets]

ASSUME NoneIsNothing == None \notin Nat \cup Coin \cup Id \cup Price \cup KeptPrice \cup KeptPrices
                               \cup SymbolMap \cup KeptMap \cup Job \cup {Raised}
ASSUME RaisedIsNothing == Raised \notin Prices

InFlight == {r \in Req : pc[r] \in Running}
Nothing == [s \in Symbol |-> None]

Init == /\ binance = None
        /\ map = [k \in Store |-> None]
        /\ found = [k \in Store |-> {}]
        /\ quote = Nothing
        /\ pc = [r \in Req |-> "idle"]
        /\ job = [r \in Req |-> None]
        /\ given = None
-----------------------------------------------------------------------------
Goto(r, place) == pc' = [pc EXCEPT ![r] = place]

\* The lookup returns, and its local variables are gone.
Give(r, prices) ==
    /\ Goto(r, "idle")
    /\ given' = prices
    /\ job' = [job EXCEPT ![r] = None]

\* The lookup goes on at place, with local variables j.
Continue(r, place, j) ==
    /\ Goto(r, place)
    /\ job' = [job EXCEPT ![r] = j]
    /\ given' = None

caches == <<binance, map, found, quote>>

\* The lookup raises: what it has is lost, and its caller gets an exception.
Raise(r) == Give(r, Raised)

\* A call that may fail now, as far as Faults goes.
MayFail(call) == call \in Faults

\* Where a lookup begins that the venue leaves to the global service.
Global(redis) == IF redis THEN "binance" ELSE "fetch"

\* The holdings of a venue are to be priced.
Begin(r, p, redis) ==
    /\ pc[r] = "idle"
    /\ Continue(r, "venue",
                [process |-> p, redis |-> redis, left |-> MaxHandler,
                 prices |-> Nothing, page |-> 1, map |-> None, ids |-> Nothing, todo |-> {}])
    /\ UNCHANGED caches

Largest == [coin |-> "largest", since |-> 0]
Now(id) == [id |-> id, age |-> 0]

\* What a source quotes now that has a market for the symbols of S.
Quotes(S) == [s \in Symbol |-> IF s \in S THEN Now(Largest) ELSE None]

\* Stablecoins are a dollar whatever the source.
WithStable(prices) == [s \in Symbol |-> IF s \in Stable THEN Now(Largest) ELSE prices[s]]

\* A venue that quotes anything is authoritative for all it holds: what it
\* does not quote stays without a price.
VenueAnswers(r) ==
    /\ pc[r] = "venue"
    /\ IF Quoted # {} THEN Give(r, WithStable(Quotes(Quoted)))
                      ELSE Continue(r, Global(job[r].redis), job[r])
    /\ UNCHANGED caches

VenueFails(r) ==
    /\ pc[r] = "venue" /\ MayFail("venue")
    /\ Continue(r, Global(job[r].redis), job[r])
    /\ UNCHANGED caches

Missing(prices) == {s \in Symbol : prices[s] = None}

\* What Binance knows is taken; for the rest there is CoinGecko.
Take(r, j, prices) ==
    IF Missing(prices) = {} THEN Give(r, prices)
                            ELSE Continue(r, "map", [j EXCEPT !.prices = prices])

\* Bug to detect: prices are stored again whenever they are read.
BinanceCachedAndKept(r) ==
    /\ pc[r] = "binance"
    /\ binance # None
    /\ Continue(r, "keepBinance", [job[r] EXCEPT !.prices = WithStable(binance.prices)])
    /\ UNCHANGED caches

BinanceCached(r) ==
    /\ pc[r] = "binance"
    /\ binance # None
    /\ Take(r, job[r], WithStable(binance.prices))
    /\ UNCHANGED caches

BinanceNotCached(r) ==
    /\ pc[r] = "binance"
    /\ binance = None \/ MayFail("redis")
    /\ Continue(r, "fetch", job[r])
    /\ UNCHANGED caches

FetchBinance(r) ==
    /\ pc[r] = "fetch"
    /\ LET prices == WithStable(Quotes(Pairs))
       IN IF job[r].redis THEN Continue(r, "keepBinance", [job[r] EXCEPT !.prices = prices])
                          ELSE Take(r, job[r], prices)
    /\ UNCHANGED caches

\* No prices, and nothing is stored.
FetchBinanceFails(r) ==
    /\ pc[r] = "fetch" /\ MayFail("binance")
    /\ Take(r, job[r], WithStable(Nothing))
    /\ UNCHANGED caches

KeepBinance(r, stored) ==
    /\ pc[r] = "keepBinance"
    /\ ~stored => MayFail("redis")
    /\ binance' = IF stored THEN [prices |-> job[r].prices, left |-> BinanceTTL]
                  ELSE binance
    /\ Take(r, job[r], job[r].prices)
    /\ UNCHANGED <<map, found, quote>>

-----------------------------------------------------------------------------
(* _get_coingecko_symbol_map. *)

\* The map at hand; next its ids are looked up.
UseMap(r, j, m) == Continue(r, "recall", [j EXCEPT !.map = m, !.page = 1])

\* Bug to detect: a map found in Redis is remembered as if it were new.
MapCachedAndRemembered(r) ==
    /\ pc[r] = "map"
    /\ job[r].redis /\ map["redis"] # None
    /\ UseMap(r, job[r], map["redis"].map)
    /\ map' = [map EXCEPT ![job[r].process] = [map |-> map["redis"].map, left |-> MapTTL]]
    /\ UNCHANGED <<binance, found, quote>>

MapCached(r) ==
    /\ pc[r] = "map"
    /\ job[r].redis /\ map["redis"] # None
    /\ UseMap(r, job[r], map["redis"].map)
    /\ UNCHANGED caches

MapNotInRedis(r) == ~job[r].redis \/ map["redis"] = None \/ MayFail("redis")

MapRemembered(r) ==
    /\ pc[r] = "map"
    /\ MapNotInRedis(r)
    /\ map[job[r].process] # None
    /\ UseMap(r, job[r], map[job[r].process].map)
    /\ UNCHANGED caches

MapUnknown(r) ==
    /\ pc[r] = "map"
    /\ MapNotInRedis(r)
    /\ map[job[r].process] = None
    /\ Continue(r, "page", job[r])
    /\ UNCHANGED caches

\* A new map is remembered at once, and then stored.
MakeMap(r, j, m) ==
    /\ map' = [map EXCEPT ![j.process] = [map |-> m, left |-> MapTTL]]
    /\ IF j.redis THEN Continue(r, "keepMap", [j EXCEPT !.map = m, !.page = 1])
                  ELSE UseMap(r, j, m)

PageArrives(r) ==
    /\ pc[r] = "page"
    /\ IF job[r].page < Pages
       THEN Continue(r, "page", [job[r] EXCEPT !.page = @ + 1]) /\ UNCHANGED map
       ELSE MakeMap(r, job[r], [pages |-> Pages, since |-> 0])
    /\ UNCHANGED <<binance, found, quote>>

\* Bug to detect: a page that is refused is asked for again.
PageFailsRetried(r) ==
    /\ pc[r] = "page" /\ MayFail("page")
    /\ Continue(r, "page", [job[r] EXCEPT !.page = 1])
    /\ UNCHANGED caches

\* The pages so far make the map; without any, the list of all coins does.
PageFails(r) ==
    /\ pc[r] = "page" /\ MayFail("page")
    /\ IF job[r].page > 1 THEN MakeMap(r, job[r], [pages |-> job[r].page - 1, since |-> 0])
                          ELSE Continue(r, "list", job[r]) /\ UNCHANGED map
    /\ UNCHANGED <<binance, found, quote>>

ListArrives(r) ==
    /\ pc[r] = "list"
    /\ MakeMap(r, job[r], [pages |-> 0, since |-> 0])
    /\ UNCHANGED <<binance, found, quote>>

ListFails(r) ==
    /\ pc[r] = "list" /\ MayFail("list")
    /\ Give(r, job[r].prices)
    /\ UNCHANGED caches

KeepMap(r, stored) ==
    /\ pc[r] = "keepMap"
    /\ ~stored => MayFail("redis")
    /\ map' = IF stored
              THEN [map EXCEPT !["redis"] = [map |-> job[r].map, left |-> MapTTL]]
              ELSE map
    /\ UseMap(r, job[r], job[r].map)
    /\ UNCHANGED <<binance, found, quote>>

\* The coin a map has for a symbol.  The largest coin is met first, whatever
\* the number of pages read; a curated id wins over everything.
IdOf(m, s) == IF s \in Curated \/ Page[s] \in 1..m.pages THEN Largest
              ELSE IF m.pages = 0 /\ ListMatch[s] # None
              THEN [coin |-> ListMatch[s], since |-> m.since]
              ELSE None

-----------------------------------------------------------------------------
(* _search_symbol_ids. *)

\* Where the ids of an earlier search are kept.
Shelves(r, readable) == {job[r].process} \cup (IF readable THEN {"redis"} ELSE {})

\* With no id there is nothing to ask a price for.
ToQuotes(r, j) ==
    IF \A s \in Symbol : j.ids[s] = None THEN Give(r, j.prices)
    ELSE Continue(r, IF j.redis THEN "quotes" ELSE "ask", j)

\* The ids of the map and of earlier searches; of the symbols that are left
\* the first few are searched for.
Recall(r, readable) ==
    /\ pc[r] = "recall"
    /\ readable => job[r].redis
    /\ ~readable => ~job[r].redis \/ MayFail("redis")
    /\ LET Unpriced(s) == job[r].prices[s] = None
           Searched(s) == \E k \in Shelves(r, readable) : s \in found[k]
           ids == [s \in Symbol |-> IF ~Unpriced(s) THEN None
                                    ELSE IF IdOf(job[r].map, s) # None THEN IdOf(job[r].map, s)
                                    ELSE IF Searched(s) THEN Largest ELSE None]
           pending == {i \in DOMAIN Assets : Unpriced(Assets[i]) /\ ids[Assets[i]] = None}
           j == [job[r] EXCEPT !.map = None, !.ids = ids,
                               !.todo = {i \in pending :
                                           Cardinality({h \in pending : h < i}) < SearchMax}]
       IN IF j.todo = {} THEN ToQuotes(r, j) ELSE Continue(r, "search", j)
    /\ UNCHANGED caches

First(todo) == {i \in todo : \A h \in todo : i <= h}

\* The search for the i-th symbol is over; on to the next.
NextSearch(r, j, i) ==
    LET rest == [j EXCEPT !.todo = @ \ {i}]
    IN IF rest.todo = {} THEN ToQuotes(r, rest) ELSE Continue(r, "search", rest)

\* A coin that is found is kept for a week, longer than any run; that there
\* is none is not kept.
SearchAnswers(r, stored) ==
    /\ pc[r] = "search"
    /\ \E i \in First(job[r].todo) :
         LET s == Assets[i]
         IN /\ stored => job[r].redis /\ s \in Known
            /\ ~stored => ~job[r].redis \/ s \notin Known \/ MayFail("redis")
            /\ IF s \in Known
               THEN /\ found' = [k \in Store |-> IF k \in Shelves(r, stored)
                                                 THEN found[k] \cup {s} ELSE found[k]]
                    /\ NextSearch(r, [job[r] EXCEPT !.ids = [@ EXCEPT ![s] = Largest]], i)
               ELSE NextSearch(r, job[r], i) /\ UNCHANGED found
    /\ UNCHANGED <<binance, map, quote>>

SearchFails(r) ==
    /\ pc[r] = "search" /\ MayFail("search")
    /\ \E i \in First(job[r].todo) : NextSearch(r, job[r], i)
    /\ UNCHANGED caches

\* Rate limited: the other symbols are not searched for either.
SearchLimited(r) ==
    /\ pc[r] = "search" /\ MayFail("search")
    /\ ToQuotes(r, [job[r] EXCEPT !.todo = {}])
    /\ UNCHANGED caches

-----------------------------------------------------------------------------
(* _fetch_coingecko_prices, once the ids are known. *)

\* Prices in Redis are kept by symbol, not by coin.
Quote(r, readable) ==
    /\ pc[r] = "quotes"
    /\ ~readable => MayFail("redis")
    /\ LET Cached(s) == readable /\ job[r].ids[s] # None /\ quote[s] # None
           prices == [s \in Symbol |-> IF Cached(s) THEN quote[s].price ELSE job[r].prices[s]]
           ids == [s \in Symbol |-> IF Cached(s) THEN None ELSE job[r].ids[s]]
       IN IF ids = Nothing THEN Give(r, prices)
          ELSE Continue(r, "ask", [job[r] EXCEPT !.prices = prices, !.ids = ids])
    /\ UNCHANGED caches

QuotesArrive(r) ==
    /\ pc[r] = "ask"
    /\ LET prices == [s \in Symbol |-> IF job[r].ids[s] # None THEN Now(job[r].ids[s])
                                       ELSE job[r].prices[s]]
       IN IF job[r].redis THEN Continue(r, "keepQuotes", [job[r] EXCEPT !.prices = prices])
                          ELSE Give(r, prices)
    /\ UNCHANGED caches

\* Bug to detect: a failure of CoinGecko leaves nothing.
QuotesFailEmpty(r) ==
    /\ pc[r] = "ask" /\ MayFail("price")
    /\ Give(r, Nothing)
    /\ UNCHANGED caches

QuotesFail(r) ==
    /\ pc[r] = "ask" /\ MayFail("price")
    /\ Give(r, job[r].prices)
    /\ UNCHANGED caches

\* The rows of an answer are parsed and stored one after the other.
StoreQuotes(r, S) ==
    quote' = [s \in Symbol |->
                 IF s \in S THEN [price |-> job[r].prices[s], left |-> PriceTTL] ELSE quote[s]]

Asked(r) == {s \in Symbol : job[r].ids[s] # None}

KeepQuotes(r, stored) ==
    /\ pc[r] = "keepQuotes"
    /\ ~stored => MayFail("redis")
    /\ StoreQuotes(r, IF stored THEN Asked(r) ELSE {})
    /\ Give(r, job[r].prices)
    /\ UNCHANGED <<binance, map, found>>

-----------------------------------------------------------------------------
(* Answers of status 200 that are not what was asked for: rows that are not  *)
(* objects, a price that is no number.  The venue's are caught by its caller *)
(* (VenueFails), and a body that is no JSON is an error like the others.     *)

AnswerGarbled(r) ==
    /\ pc[r] \in {"fetch", "page", "list", "search", "ask"} /\ MayFail("garbled")
    /\ Raise(r)
    /\ UNCHANGED caches

\* The rows before the one that cannot be parsed have been stored.
QuotesGarbled(r) ==
    /\ pc[r] = "keepQuotes" /\ MayFail("garbled")
    /\ \E S \in (SUBSET Asked(r)) \ {Asked(r)} : StoreQuotes(r, S)
    /\ Raise(r)
    /\ UNCHANGED <<binance, map, found>>

OlderId(id) == IF id # None /\ id.coin = "namesake" THEN [id EXCEPT !.since = @ + 1] ELSE id
OlderMap(m) == IF m # None /\ m.pages = 0 THEN [m EXCEPT !.since = @ + 1] ELSE m
Older(price) == IF price = None THEN None ELSE [id |-> OlderId(price.id), age |-> price.age + 1]
OlderAll(prices) == [s \in Symbol |-> Older(prices[s])]

\* Redis drops an entry at the end of its time; _memo_get keeps it up to and
\* including its last moment.
SpentInRedis(kept) == kept = None \/ kept.left <= 1
SpentInMemo(kept) == kept = None \/ kept.left = 0

\* Time passes, but no lookup outlives its HTTP timeouts.
Tick ==
    /\ \A r \in InFlight : job[r].left > 0
    /\ job' = [r \in Req |-> IF job[r] = None THEN None
                            ELSE [job[r] EXCEPT !.left = @ - 1, !.prices = OlderAll(@),
                                                !.map = OlderMap(@),
                                                !.ids = [s \in Symbol |-> OlderId(@[s])]]]
    /\ binance' = IF SpentInRedis(binance) THEN None
                  ELSE [prices |-> OlderAll(binance.prices), left |-> binance.left - 1]
    /\ map' = [k \in Store |->
                 IF IF k = "redis" THEN SpentInRedis(map[k]) ELSE SpentInMemo(map[k]) THEN None
                 ELSE [map |-> OlderMap(map[k].map), left |-> map[k].left - 1]]
    /\ quote' = [s \in Symbol |->
                   IF SpentInRedis(quote[s]) THEN None
                   ELSE [price |-> Older(quote[s].price), left |-> quote[s].left - 1]]
    /\ given' = None
    /\ UNCHANGED <<found, pc>>

-----------------------------------------------------------------------------
Advance(r) ==
    \/ VenueAnswers(r) \/ VenueFails(r)
    \/ BinanceCached(r) \/ BinanceNotCached(r) \/ FetchBinance(r) \/ FetchBinanceFails(r)
    \/ MapCached(r) \/ MapRemembered(r) \/ MapUnknown(r)
    \/ PageArrives(r) \/ PageFails(r) \/ ListArrives(r) \/ ListFails(r)
    \/ SearchFails(r) \/ SearchLimited(r)
    \/ QuotesArrive(r) \/ QuotesFail(r) \/ AnswerGarbled(r) \/ QuotesGarbled(r)
    \/ \E done \in BOOLEAN : \/ KeepBinance(r, done) \/ KeepMap(r, done) \/ KeepQuotes(r, done)
                             \/ Recall(r, done) \/ Quote(r, done) \/ SearchAnswers(r, done)

Next == \/ \E r \in Req : \/ \E p \in Process, redis \in BOOLEAN : Begin(r, p, redis)
                         \/ Advance(r)
        \/ Tick

Spec == Init /\ [][Next]_vars

-----------------------------------------------------------------------------
(* Properties. *)

\* Type invariant.
TypeOK ==
    /\ binance \in KeptPrices \cup {None}
    /\ map \in [Store -> KeptMap \cup {None}]
    /\ found \in [Store -> SUBSET Symbol]
    /\ quote \in [Symbol -> KeptPrice \cup {None}]
    /\ pc \in [Req -> {"idle"} \cup Running]
    /\ job \in [Req -> Job \cup {None}]
    /\ given \in Prices \cup {None, Raised}

\* A lookup has returned prices in the last step.
Returned == given \notin {None, Raised}

LongestTTL == IF BinanceTTL > PriceTTL THEN BinanceTTL ELSE PriceTTL

\* However the caches overlap, a price that is given is no older than the
\* longer of the two times a price is kept, the lookup that fetched it and the
\* one that gives it: keeping ids for a day or a week makes no price older.
\* (What is kept for n ticks can be read for n - 1 more.)
PricesAreRecent == Returned => \A s \in Symbol : given[s] # None =>
    given[s].age <= LongestTTL - 1 + 2 * MaxHandler

\* A symbol is priced as another coin of its name only by the alphabetical
\* list, and no longer than the map made of the list is kept, the price after
\* it, and three lookups that hand them on.
NamesakesFadeOut == Returned => \A s \in Symbol :
    (given[s] # None /\ given[s].id.coin = "namesake") =>
        given[s].id.since <= (MapTTL - 1) + (PriceTTL - 1) + 3 * MaxHandler

\* What PricesAreRecent rests on.  A lookup has a place when it has variables,
\* and in them what its place needs; it stores what it fetched itself.
AtMost(n, prices) == \A s \in Symbol : prices[s] # None => prices[s].age <= n
Spent(j) == MaxHandler - j.left
Held(place, j) ==
    /\ j.left <= MaxHandler
    /\ AtMost(LongestTTL - 1 + MaxHandler + Spent(j), j.prices)
    /\ place = "keepBinance" => AtMost(Spent(j), j.prices)
    /\ place \in {"keepMap", "recall"} => j.map # None
    /\ place = "keepQuotes" => \A s \in Symbol : j.ids[s] # None =>
           j.prices[s] # None /\ j.prices[s].age <= Spent(j)
LookupsInv == \A r \in Req : /\ job[r] = None <=> pc[r] = "idle"
                             /\ job[r] # None => Held(pc[r], job[r])

\* A price in Redis was up to a lookup old when it came there.
KeptInv ==
    /\ binance # None => /\ binance.left \in 1..BinanceTTL
                         /\ AtMost(BinanceTTL - binance.left + MaxHandler, binance.prices)
    /\ \A s \in Symbol : quote[s] # None =>
         /\ quote[s].left \in 1..PriceTTL
         /\ quote[s].price.age <= PriceTTL - quote[s].left + MaxHandler

RecentInv == TypeOK /\ LookupsInv /\ KeptInv /\ PricesAreRecent

\* What NamesakesFadeOut rests on, likewise: since when maps, ids and prices
\* know a namesake from the list.
IdsSince(n, ids) == \A s \in Symbol :
    (ids[s] # None /\ ids[s].coin = "namesake") => ids[s].since <= n
PricesSince(n, prices) == \A s \in Symbol :
    (prices[s] # None /\ prices[s].id.coin = "namesake") => prices[s].id.since <= n
AllLargest(prices) == \A s \in Symbol : prices[s] # None => prices[s].id.coin # "namesake"
MapLife == MapTTL - 1 + MaxHandler
QuoteLife == MapLife + MaxHandler + PriceTTL - 1
HandedOn(place, j) ==
    /\ j.map # None => j.map.since <= (IF place = "keepMap" THEN 0 ELSE MapLife) + Spent(j)
    /\ IdsSince(MapLife + Spent(j), j.ids)
    /\ PricesSince(QuoteLife + Spent(j), j.prices)
    /\ place = "keepBinance" => AllLargest(j.prices)
    /\ place = "keepQuotes" => \A s \in Symbol :
           (j.ids[s] # None /\ j.prices[s].id.coin = "namesake") =>
               j.prices[s].id.since <= MapLife + Spent(j)
HandedOnInv == \A r \in Req : job[r] # None => HandedOn(pc[r], job[r])
StoredInv ==
    /\ binance # None => AllLargest(binance.prices)
    /\ \A k \in Store : map[k] # None =>
         /\ map[k].left <= MapTTL /\ (k = "redis" => map[k].left > 0)
         /\ map[k].map.since <= MapTTL - map[k].left + (IF k = "redis" THEN MaxHandler ELSE 0)
    /\ \A s \in Symbol : (quote[s] # None /\ quote[s].price.id.coin = "namesake") =>
         quote[s].price.id.since <= MapLife + MaxHandler + PriceTTL - quote[s].left
NamesakeInv == HandedOnInv /\ StoredInv /\ NamesakesFadeOut

\* Whatever fails after a symbol got its price, the lookup goes on with a price
\* for it and returns one: a failure of CoinGecko costs no price of Binance,
\* and one coin's no other's.  Only an answer that is not of its form takes
\* them all, for all that "any CoinGecko error/timeout is logged and swallowed
\* -- never raised" (price_service.py 412).
NoPriceIsLost == [][\A r \in InFlight, s \in Symbol :
    job[r].prices[s] # None =>
        IF job'[r] # None THEN job'[r].prices[s] # None
        ELSE IF given' = Raised THEN AnswerGarbled(r) \/ QuotesGarbled(r)
        ELSE given'[s] # None]_vars

\* How far a lookup is: its place, and there the pages read or the searches left.
IndexOf(place) == CHOOSE i \in DOMAIN Places : Places[i] = place
Further(r) == \/ IndexOf(pc'[r]) > IndexOf(pc[r])
              \/ pc'[r] = pc[r] /\ \/ job'[r].page > job[r].page
                                   \/ Cardinality(job'[r].todo) < Cardinality(job[r].todo)

\* While no time passes a lookup stays as it is, goes further or returns: no
\* answer or failure sends it back, a rate limit is never met with a retry, and
\* so it returns after a bounded number of calls.
NoCallIsRepeated == [][\A r \in InFlight :
    \/ pc'[r] = "idle"
    \/ pc'[r] = pc[r] /\ (job'[r] = job[r] \/ job'[r].left < job[r].left)
    \/ Further(r)]_vars
=============================================================================
