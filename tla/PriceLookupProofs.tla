-------------------------- MODULE PriceLookupProofs --------------------------
(***************************************************************************)
(* Theorems about PriceLookup, for every list of symbols, whatever the     *)
(* sources know of them, every number of processes and of lookups at once, *)
(* every time to live and every combination of faults.                     *)
(***************************************************************************)
EXTENDS PriceLookup, FiniteSetTheorems, TLAPS

-----------------------------------------------------------------------------
(* Types of what steps are made of. *)

\* The places of a lookup.
LEMMA PlacesAre ==
    Running = {"venue", "binance", "fetch", "keepBinance", "map", "page", "list", "keepMap",
               "recall", "search", "quotes", "ask", "keepQuotes"}
<1>1. DOMAIN Places = 1..13
  BY DEF Places
<1>2. Running = {Places[i] : i \in 1..13}
  BY <1>1 DEF Running
<1>3. 1..13 = {1, 2, 3, 4, 5, 6, 7, 8, 9, 10, 11, 12, 13}
  OBVIOUS
<1>4. /\ Places[1] = "venue" /\ Places[2] = "binance" /\ Places[3] = "fetch"
      /\ Places[4] = "keepBinance" /\ Places[5] = "map" /\ Places[6] = "page"
      /\ Places[7] = "list" /\ Places[8] = "keepMap" /\ Places[9] = "recall"
      /\ Places[10] = "search" /\ Places[11] = "quotes" /\ Places[12] = "ask"
      /\ Places[13] = "keepQuotes"
  BY DEF Places
<1>5. QED
  BY <1>2, <1>3, <1>4

\* The initial state satisfies the inductive invariants.
LEMMA InitRecent == Init => RecentInv
BY PriceAssumption, NoneIsNothing
DEF Init, RecentInv, TypeOK, LookupsInv, KeptInv, PricesAreRecent, Returned, Nothing, Running

\* Quotes, and prices with those of stablecoins added, are prices; those of
\* a source are new.
LEMMA QuotesArePrices ==
    ASSUME NEW S
    PROVE  Quotes(S) \in Prices /\ AtMost(0, Quotes(S))
BY NoneIsNothing DEF Quotes, Prices, AtMost, Now, Largest, Price, Id, Coin

\* What is recent enough for a bound is so for a wider one.
LEMMA AtMostMore ==
    ASSUME NEW prices \in Prices, NEW m \in Nat, NEW n \in Nat, m <= n, AtMost(m, prices)
    PROVE  AtMost(n, prices)
BY DEF AtMost, Prices, Price

LEMMA NothingIsPrices == Nothing \in Prices /\ \A n : AtMost(n, Nothing)
BY DEF Nothing, Prices, AtMost

LEMMA WithStablePrices ==
    ASSUME NEW prices \in Prices, NEW n \in Nat, AtMost(n, prices)
    PROVE  WithStable(prices) \in Prices /\ AtMost(n, WithStable(prices))
BY NoneIsNothing DEF WithStable, Prices, AtMost, Now, Largest, Price, Id, Coin

\* The id a map has for a symbol.
LEMMA IdOfType ==
    ASSUME NEW m \in SymbolMap, NEW s \in Symbol
    PROVE  IdOf(m, s) \in Id \cup {None}
BY PriceAssumption DEF IdOf, Largest, Id, Coin, SymbolMap

-----------------------------------------------------------------------------
(* How a lookup goes on and how it returns. *)

\* The caches, and the lookups, of RecentInv.
CachesRecent == /\ binance \in KeptPrices \cup {None}
                /\ map \in [Store -> KeptMap \cup {None}]
                /\ found \in [Store -> SUBSET Symbol]
                /\ quote \in [Symbol -> KeptPrice \cup {None}]
                /\ KeptInv
LookupsRecent == /\ pc \in [Req -> {"idle"} \cup Running]
                 /\ job \in [Req -> Job \cup {None}]
                 /\ given \in Prices \cup {None, Raised}
                 /\ LookupsInv
                 /\ PricesAreRecent

LEMMA RecentIs == /\ RecentInv <=> CachesRecent /\ LookupsRecent
                  /\ RecentInv' <=> CachesRecent' /\ LookupsRecent'
BY DEF RecentInv, TypeOK, CachesRecent, LookupsRecent

\* A lookup that goes on with the variables its new place needs.
LEMMA ContinueRecent ==
    ASSUME LookupsRecent, NEW r \in Req, NEW place \in Running, NEW j \in Job, Held(place, j),
           Continue(r, place, j)
    PROVE  LookupsRecent'
<1>1. j # None /\ place # "idle"
  BY NoneIsNothing, PlacesAre
<1>2. /\ pc' = [pc EXCEPT ![r] = place] /\ job' = [job EXCEPT ![r] = j] /\ given' = None
  BY DEF Continue, Goto
<1>3. LookupsInv'
  BY <1>1, <1>2 DEF LookupsRecent, LookupsInv, Held, AtMost, Spent
<1>4. QED
  BY <1>2, <1>3 DEF LookupsRecent, PricesAreRecent, Returned

\* A lookup that returns prices no older than PricesAreRecent allows.
LEMMA GiveRecent ==
    ASSUME LookupsRecent, NEW r \in Req, NEW prices \in Prices,
           AtMost(LongestTTL - 1 + 2 * MaxHandler, prices), Give(r, prices)
    PROVE  LookupsRecent'
<1>1. /\ pc' = [pc EXCEPT ![r] = "idle"] /\ job' = [job EXCEPT ![r] = None] /\ given' = prices
  BY DEF Give, Goto
<1>2. LookupsInv'
  BY <1>1 DEF LookupsRecent, LookupsInv, Held, AtMost, Spent
<1>3. PricesAreRecent'
  BY <1>1 DEF PricesAreRecent, Returned, AtMost, LongestTTL
<1>4. QED
  BY <1>1, <1>2, <1>3 DEF LookupsRecent

\* A lookup that raises.
LEMMA RaiseRecent ==
    ASSUME LookupsRecent, NEW r \in Req, Raise(r)
    PROVE  LookupsRecent'
<1>1. /\ pc' = [pc EXCEPT ![r] = "idle"] /\ job' = [job EXCEPT ![r] = None] /\ given' = Raised
  BY DEF Raise, Give, Goto
<1>2. LookupsInv'
  BY <1>1 DEF LookupsRecent, LookupsInv, Held, AtMost, Spent
<1>3. QED
  BY <1>1, <1>2 DEF LookupsRecent, PricesAreRecent, Returned

\* Nothing a lookup has got so far is too old to be given.
LEMMA HeldIsRecent ==
    ASSUME NEW j \in Job, NEW place, Held(place, j)
    PROVE  /\ Spent(j) \in Nat /\ Spent(j) <= MaxHandler
           /\ LongestTTL \in Nat /\ LongestTTL >= BinanceTTL /\ LongestTTL >= PriceTTL
           /\ LongestTTL - 1 + MaxHandler + Spent(j) \in Nat
           /\ j.prices \in Prices /\ AtMost(LongestTTL - 1 + 2 * MaxHandler, j.prices)
<1>1. j.left \in Nat /\ j.prices \in Prices /\ j.left <= MaxHandler
  BY DEF Job, Held
<1>2. /\ Spent(j) \in Nat /\ Spent(j) <= MaxHandler
      /\ LongestTTL \in Nat \ {0} /\ LongestTTL >= BinanceTTL /\ LongestTTL >= PriceTTL
  BY <1>1, PriceAssumption DEF Spent, LongestTTL
<1>3. \A s \in Symbol : j.prices[s] # None => j.prices[s].age \in Nat
  BY <1>1 DEF Prices, Price
<1>4. QED
  BY <1>1, <1>2, <1>3, PriceAssumption DEF Held, AtMost

\* What _get_usd_prices does with the prices of Binance.
LEMMA TakeRecent ==
    ASSUME LookupsRecent, NEW r \in Req, NEW j \in Job, Held("map", j), NEW prices \in Prices,
           AtMost(LongestTTL - 1 + MaxHandler + Spent(j), prices), Take(r, j, prices)
    PROVE  LookupsRecent'
<1>1. CASE Missing(prices) = {}
  <2>1. AtMost(LongestTTL - 1 + 2 * MaxHandler, prices)
    <3>1. Spent(j) \in Nat /\ Spent(j) <= MaxHandler /\ LongestTTL \in Nat
      BY HeldIsRecent
    <3>2. \A s \in Symbol : prices[s] # None => prices[s].age \in Nat
      BY DEF Prices, Price
    <3>3. QED
      BY <3>1, <3>2, PriceAssumption DEF AtMost
  <2>2. QED
    BY <1>1, <2>1, GiveRecent DEF Take
<1>2. CASE Missing(prices) # {}
  <2> DEFINE k == [j EXCEPT !.prices = prices]
  <2>1. k \in Job /\ k.prices = prices /\ k.left = j.left /\ k.map = j.map /\ k.ids = j.ids
    BY DEF Job
  <2>2. Held("map", k)
    BY <2>1 DEF Held, Spent
  <2>3. QED
    BY <1>2, <2>1, <2>2, ContinueRecent, PlacesAre DEF Take
<1>3. QED
  BY <1>1, <1>2

\* The local variables once a map is chosen.
LEMMA MapChosen ==
    ASSUME NEW j \in Job, NEW m \in SymbolMap
    PROVE  LET k == [j EXCEPT !.map = m, !.page = 1]
           IN k \in Job /\ k.prices = j.prices /\ k.left = j.left /\ k.map = m /\ k.ids = j.ids
<1>1. 1 \in 1..Pages
  BY PriceAssumption
<1>2. QED
  BY <1>1 DEF Job

\* A map at hand is used.
LEMMA UseMapRecent ==
    ASSUME LookupsRecent, NEW r \in Req, NEW j \in Job, Held("map", j), NEW m \in SymbolMap,
           UseMap(r, j, m)
    PROVE  LookupsRecent'
<1> DEFINE k == [j EXCEPT !.map = m, !.page = 1]
<1>1. k \in Job /\ k.prices = j.prices /\ k.left = j.left /\ k.map = m /\ k.ids = j.ids
  BY MapChosen
<1>2. m # None
  BY NoneIsNothing
<1>3. Held("recall", k)
  BY <1>1, <1>2 DEF Held, Spent
<1>4. QED
  BY <1>1, <1>3, ContinueRecent, PlacesAre DEF UseMap

\* A new map is remembered, and stored next or used.
LEMMA MakeMapRecent ==
    ASSUME RecentInv, NEW r \in Req, NEW j \in Job, Held("map", j), NEW m \in SymbolMap,
           MakeMap(r, j, m), UNCHANGED <<binance, found, quote>>
    PROVE  RecentInv'
<1>1. CachesRecent'
  <2>1. [map |-> m, left |-> MapTTL] \in KeptMap
    BY PriceAssumption DEF KeptMap
  <2>2. QED
    BY <2>1, RecentIs DEF MakeMap, CachesRecent, KeptInv
<1>2. LookupsRecent'
  <2>1. CASE j.redis
    <3> DEFINE k == [j EXCEPT !.map = m, !.page = 1]
    <3>1. k \in Job /\ k.prices = j.prices /\ k.left = j.left /\ k.map = m /\ k.ids = j.ids
      BY MapChosen
    <3>2. m # None
      BY NoneIsNothing
    <3>3. Held("keepMap", k)
      BY <3>1, <3>2 DEF Held, Spent
    <3>4. QED
      BY <2>1, <3>1, <3>3, RecentIs, ContinueRecent, PlacesAre DEF MakeMap
  <2>2. CASE ~j.redis
    BY <2>2, RecentIs, UseMapRecent DEF MakeMap
  <2>3. QED
    BY <2>1, <2>2
<1>3. QED
  BY <1>1, <1>2, RecentIs

\* The ids are known, as far as they can be.
LEMMA ToQuotesRecent ==
    ASSUME LookupsRecent, NEW r \in Req, NEW j \in Job, Held("quotes", j), ToQuotes(r, j)
    PROVE  LookupsRecent'
<1>1. CASE \A s \in Symbol : j.ids[s] = None
  BY <1>1, HeldIsRecent, GiveRecent DEF ToQuotes
<1>2. CASE ~(\A s \in Symbol : j.ids[s] = None)
  <2>1. Held("ask", j)
    BY DEF Held
  <2>2. QED
    BY <1>2, <2>1, ContinueRecent, PlacesAre DEF ToQuotes
<1>3. QED
  BY <1>1, <1>2

\* A search is over.
LEMMA NextSearchRecent ==
    ASSUME LookupsRecent, NEW r \in Req, NEW j \in Job, Held("quotes", j), NEW i,
           NextSearch(r, j, i)
    PROVE  LookupsRecent'
<1> DEFINE k == [j EXCEPT !.todo = @ \ {i}]
<1>1. k \in Job /\ k.prices = j.prices /\ k.left = j.left /\ k.map = j.map /\ k.ids = j.ids
  BY DEF Job
<1>2. Held("quotes", k) /\ Held("search", k)
  BY <1>1 DEF Held, Spent
<1>3. QED
  BY <1>1, <1>2, ToQuotesRecent, ContinueRecent, PlacesAre DEF NextSearch

-----------------------------------------------------------------------------
(* The steps of a lookup. *)

\* A step of a lookup leaves it with its process and its time.
LEMMA Runs ==
    ASSUME RecentInv, NEW r \in Req, pc[r] # "idle"
    PROVE  job[r] \in Job /\ Held(pc[r], job[r])
BY RecentIs DEF LookupsRecent, LookupsInv

LEMMA CachesKept ==
    ASSUME CachesRecent, UNCHANGED caches
    PROVE  CachesRecent'
BY DEF CachesRecent, KeptInv, caches

\* A lookup goes on with the same variables, to a place that needs no more.
LEMMA ContinueAsIs ==
    ASSUME RecentInv, NEW r \in Req, pc[r] # "idle",
           NEW place \in Running \ {"keepBinance", "keepMap", "recall", "keepQuotes"},
           Continue(r, place, job[r]), UNCHANGED caches
    PROVE  RecentInv'
<1>1. job[r] \in Job /\ Held(pc[r], job[r])
  BY Runs
<1>2. Held(place, job[r])
  BY <1>1 DEF Held
<1>3. QED
  BY <1>1, <1>2, ContinueRecent, CachesKept, RecentIs

\* A lookup gives what it has.
LEMMA GiveAsIs ==
    ASSUME RecentInv, NEW r \in Req, pc[r] # "idle", Give(r, job[r].prices), UNCHANGED caches
    PROVE  RecentInv'
BY Runs, HeldIsRecent, GiveRecent, CachesKept, RecentIs

LEMMA BeginRecent ==
    ASSUME RecentInv, NEW r \in Req, NEW p \in Process, NEW redis \in BOOLEAN, Begin(r, p, redis)
    PROVE  RecentInv'
<1> DEFINE j == [process |-> p, redis |-> redis, left |-> MaxHandler,
                 prices |-> Nothing, page |-> 1, map |-> None, ids |-> Nothing, todo |-> {}]
<1>1. j \in Job
  <2>1. 1 \in 1..Pages /\ MaxHandler \in Nat /\ Nothing \in Prices
    BY PriceAssumption, NothingIsPrices
  <2>2. Nothing \in [Symbol -> Id \cup {None}]
    BY DEF Nothing
  <2>3. QED
    BY <2>1, <2>2 DEF Job
<1>2. Held("venue", j)
  BY PriceAssumption, NothingIsPrices DEF Held
<1>3. QED
  BY <1>1, <1>2, ContinueRecent, CachesKept, RecentIs, PlacesAre DEF Begin

LEMMA VenueRecent ==
    ASSUME RecentInv, NEW r \in Req, VenueAnswers(r) \/ VenueFails(r)
    PROVE  RecentInv'
<1>1. /\ pc[r] # "idle"
      /\ Global(job[r].redis) \in Running \ {"keepBinance", "keepMap", "recall", "keepQuotes"}
  BY PlacesAre DEF VenueAnswers, VenueFails, Global
<1>2. CASE Continue(r, Global(job[r].redis), job[r]) /\ UNCHANGED caches
  BY <1>1, <1>2, ContinueAsIs
<1>3. CASE Give(r, WithStable(Quotes(Quoted))) /\ UNCHANGED caches
  <2>1. WithStable(Quotes(Quoted)) \in Prices /\ AtMost(0, WithStable(Quotes(Quoted)))
    BY QuotesArePrices, WithStablePrices
  <2>2. AtMost(LongestTTL - 1 + 2 * MaxHandler, WithStable(Quotes(Quoted)))
    <3>1. LongestTTL - 1 + 2 * MaxHandler \in Nat
      BY PriceAssumption DEF LongestTTL
    <3>2. QED
      BY <2>1, <3>1, AtMostMore
  <2>3. QED
    BY <1>3, <2>1, <2>2, GiveRecent, CachesKept, RecentIs
<1>4. QED
  BY <1>2, <1>3 DEF VenueAnswers, VenueFails

LEMMA BinanceRecent ==
    ASSUME RecentInv, NEW r \in Req,
           BinanceCached(r) \/ BinanceNotCached(r) \/ FetchBinance(r) \/ FetchBinanceFails(r)
    PROVE  RecentInv'
<1> DEFINE j == job[r]
<1>1. /\ pc[r] \in {"binance", "fetch"} /\ j \in Job /\ Held(pc[r], j) /\ UNCHANGED caches
  BY Runs DEF BinanceCached, BinanceNotCached, FetchBinance, FetchBinanceFails
<1>2. Held("map", j)
  BY <1>1 DEF Held
<1>3. LongestTTL - 1 + MaxHandler + Spent(j) \in Nat /\ Spent(j) \in Nat
  BY <1>1, HeldIsRecent
<1>4. CASE BinanceCached(r)
  <2>1. /\ binance.prices \in Prices /\ binance.left \in 1..BinanceTTL
        /\ AtMost(BinanceTTL - binance.left + MaxHandler, binance.prices)
    BY <1>4, RecentIs DEF BinanceCached, CachesRecent, KeptInv, KeptPrices
  <2>2. /\ BinanceTTL - binance.left + MaxHandler \in Nat
        /\ BinanceTTL - binance.left + MaxHandler <= LongestTTL - 1 + MaxHandler + Spent(j)
    <3>1. Spent(j) \in Nat /\ LongestTTL \in Nat /\ LongestTTL >= BinanceTTL
      BY <1>1, HeldIsRecent
    <3>2. BinanceTTL \in Nat /\ MaxHandler \in Nat
      BY PriceAssumption
    <3> HIDE DEF j
    <3>3. QED
      BY <2>1, <3>1, <3>2
  <2>3. AtMost(LongestTTL - 1 + MaxHandler + Spent(j), binance.prices)
    BY <1>3, <2>1, <2>2, AtMostMore
  <2>4. /\ WithStable(binance.prices) \in Prices
        /\ AtMost(LongestTTL - 1 + MaxHandler + Spent(j), WithStable(binance.prices))
    BY <1>3, <2>1, <2>3, WithStablePrices
  <2>5. Take(r, j, WithStable(binance.prices))
    BY <1>4 DEF BinanceCached
  <2>6. CachesRecent /\ LookupsRecent
    BY RecentIs
  <2>7. LookupsRecent'
    BY <1>1, <1>2, <2>4, <2>5, <2>6, TakeRecent
  <2>8. CachesRecent'
    BY <1>1, <2>6, CachesKept
  <2>9. QED
    BY <2>7, <2>8, RecentIs
<1>5. CASE BinanceNotCached(r)
  BY <1>5, ContinueAsIs, PlacesAre DEF BinanceNotCached
<1>6. CASE FetchBinance(r)
  <2> DEFINE prices == WithStable(Quotes(Pairs))
             k == [j EXCEPT !.prices = prices]
  <2>1. prices \in Prices /\ AtMost(0, prices)
    BY QuotesArePrices, WithStablePrices
  <2>2. AtMost(LongestTTL - 1 + MaxHandler + Spent(j), prices) /\ AtMost(Spent(j), prices)
    BY <1>3, <2>1, AtMostMore
  <2>3. CASE Continue(r, "keepBinance", k)
    <3>1. k \in Job /\ k.prices = prices /\ k.left = j.left
      BY <1>1, <2>1 DEF Job
    <3>2. Held("keepBinance", k)
      BY <1>2, <2>2, <3>1 DEF Held, Spent
    <3>3. QED
      BY <1>1, <2>3, <3>1, <3>2, ContinueRecent, CachesKept, RecentIs, PlacesAre
  <2>4. CASE Take(r, j, prices)
    BY <1>1, <1>2, <2>1, <2>2, <2>4, TakeRecent, CachesKept, RecentIs
  <2>5. QED
    BY <1>6, <2>3, <2>4 DEF FetchBinance
<1>7. CASE FetchBinanceFails(r)
  <2>1. /\ WithStable(Nothing) \in Prices
        /\ AtMost(LongestTTL - 1 + MaxHandler + Spent(j), WithStable(Nothing))
    BY <1>3, NothingIsPrices, WithStablePrices
  <2>2. QED
    BY <1>1, <1>2, <1>7, <2>1, TakeRecent, CachesKept, RecentIs DEF FetchBinanceFails
<1>8. QED
  BY <1>4, <1>5, <1>6, <1>7

LEMMA KeepBinanceRecent ==
    ASSUME RecentInv, NEW r \in Req, NEW stored \in BOOLEAN, KeepBinance(r, stored)
    PROVE  RecentInv'
<1> DEFINE j == job[r]
           kept == [prices |-> j.prices, left |-> BinanceTTL]
<1>1. /\ pc[r] = "keepBinance" /\ j \in Job /\ Held("keepBinance", j) /\ Held("map", j)
  BY Runs DEF KeepBinance, Held
<1>2. /\ j.prices \in Prices /\ AtMost(LongestTTL - 1 + MaxHandler + Spent(j), j.prices)
      /\ AtMost(Spent(j), j.prices) /\ Spent(j) \in Nat /\ Spent(j) <= MaxHandler
  BY <1>1, HeldIsRecent DEF Held
<1>3. LookupsRecent'
  BY <1>1, <1>2, TakeRecent, RecentIs DEF KeepBinance
<1>4. CachesRecent'
  <2>1. AtMost(MaxHandler, j.prices)
    BY <1>2, AtMostMore, PriceAssumption
  <2>2. /\ kept \in KeptPrices /\ kept.left \in 1..BinanceTTL
        /\ AtMost(BinanceTTL - kept.left + MaxHandler, kept.prices)
    BY <1>2, <2>1, PriceAssumption DEF KeptPrices
  <2>3. binance' = kept \/ binance' = binance
    BY DEF KeepBinance
  <2>4. UNCHANGED <<map, found, quote>>
    BY DEF KeepBinance
  <2>5. QED
    BY <2>2, <2>3, <2>4, RecentIs DEF CachesRecent, KeptInv
<1>5. QED
  BY <1>3, <1>4, RecentIs

LEMMA MapRecent ==
    ASSUME RecentInv, NEW r \in Req, MapCached(r) \/ MapRemembered(r) \/ MapUnknown(r)
    PROVE  RecentInv'
<1>1. /\ pc[r] = "map" /\ job[r] \in Job /\ Held("map", job[r]) /\ job[r].process \in Process
      /\ UNCHANGED caches
  BY Runs DEF MapCached, MapRemembered, MapUnknown, Job
<1>2. CASE MapCached(r)
  <2>1. map["redis"].map \in SymbolMap
    BY <1>2, RecentIs DEF MapCached, CachesRecent, KeptMap, Store
  <2>2. QED
    BY <1>1, <1>2, <2>1, UseMapRecent, CachesKept, RecentIs DEF MapCached
<1>3. CASE MapRemembered(r)
  <2>1. map[job[r].process].map \in SymbolMap
    BY <1>1, <1>3, RecentIs DEF MapRemembered, CachesRecent, KeptMap, Store
  <2>2. QED
    BY <1>1, <1>3, <2>1, UseMapRecent, CachesKept, RecentIs DEF MapRemembered
<1>4. CASE MapUnknown(r)
  BY <1>1, <1>4, ContinueAsIs, PlacesAre DEF MapUnknown
<1>5. QED
  BY <1>2, <1>3, <1>4

LEMMA PageRecent ==
    ASSUME RecentInv, NEW r \in Req, PageArrives(r) \/ PageFails(r) \/ ListArrives(r)
    PROVE  RecentInv'
<1> DEFINE j == job[r]
<1>1. /\ pc[r] \in {"page", "list"} /\ j \in Job /\ Held("map", j) /\ j.page \in 1..Pages
  BY Runs DEF PageArrives, PageFails, ListArrives, Held, Job
<1>2. Pages \in Nat \ {0}
  BY PriceAssumption
<1>3. ASSUME NEW n \in 0..Pages, MakeMap(r, j, [pages |-> n, since |-> 0]),
             UNCHANGED <<binance, found, quote>>
      PROVE  RecentInv'
  BY <1>1, <1>3, MakeMapRecent DEF SymbolMap
<1>4. CASE PageArrives(r)
  <2>1. CASE j.page < Pages
    <3> DEFINE k == [j EXCEPT !.page = @ + 1]
    <3>1. Continue(r, "page", k) /\ UNCHANGED caches
      BY <1>4, <2>1 DEF PageArrives, caches
    <3>2. k \in Job /\ k.prices = j.prices /\ k.left = j.left
      BY <1>1, <1>2, <2>1 DEF Job
    <3>3. Held("page", k)
      BY <1>1, <3>2 DEF Held, Spent
    <3>4. QED
      BY <3>1, <3>2, <3>3, ContinueRecent, CachesKept, RecentIs, PlacesAre
  <2>2. CASE ~(j.page < Pages)
    BY <1>2, <1>3, <1>4, <2>2 DEF PageArrives
  <2>3. QED
    BY <2>1, <2>2
<1>5. CASE PageFails(r)
  <2>1. CASE j.page > 1
    BY <1>1, <1>2, <1>3, <1>5, <2>1 DEF PageFails
  <2>2. CASE ~(j.page > 1)
    <3>1. pc[r] # "idle" /\ Continue(r, "list", j) /\ UNCHANGED caches
      BY <1>5, <2>2 DEF PageFails, caches
    <3>2. QED
      BY <3>1, ContinueAsIs, PlacesAre
  <2>3. QED
    BY <2>1, <2>2
<1>6. CASE ListArrives(r)
  BY <1>2, <1>3, <1>6 DEF ListArrives
<1>7. QED
  BY <1>4, <1>5, <1>6

LEMMA KeepMapRecent ==
    ASSUME RecentInv, NEW r \in Req, NEW stored \in BOOLEAN, KeepMap(r, stored)
    PROVE  RecentInv'
<1>1. job[r] \in Job /\ Held("map", job[r]) /\ job[r].map \in SymbolMap
  BY Runs DEF KeepMap, Held, Job
<1>2. [map |-> job[r].map, left |-> MapTTL] \in KeptMap
  BY <1>1, PriceAssumption DEF KeptMap
<1>3. CachesRecent'
  BY <1>2, RecentIs DEF KeepMap, CachesRecent, KeptInv
<1>4. QED
  BY <1>1, <1>3, UseMapRecent, RecentIs DEF KeepMap

LEMMA RecallRecent ==
    ASSUME RecentInv, NEW r \in Req, NEW readable \in BOOLEAN, Recall(r, readable)
    PROVE  RecentInv'
<1>1. /\ pc[r] = "recall" /\ job[r] \in Job /\ Held("quotes", job[r]) /\ job[r].map \in SymbolMap
      /\ UNCHANGED caches
  BY Runs DEF Recall, Held, Job
<1>2. PICK ids \in [Symbol -> Id \cup {None}], todo \in SUBSET DOMAIN Assets :
         LET j == [job[r] EXCEPT !.map = None, !.ids = ids, !.todo = todo]
         IN ToQuotes(r, j) \/ Continue(r, "search", j)
  <2> DEFINE Unpriced(s) == job[r].prices[s] = None
             Searched(s) == \E k \in Shelves(r, readable) : s \in found[k]
             ids == [s \in Symbol |-> IF ~Unpriced(s) THEN None
                                      ELSE IF IdOf(job[r].map, s) # None THEN IdOf(job[r].map, s)
                                      ELSE IF Searched(s) THEN Largest ELSE None]
             pending == {i \in DOMAIN Assets : Unpriced(Assets[i]) /\ ids[Assets[i]] = None}
             todo == {i \in pending : Cardinality({h \in pending : h < i}) < SearchMax}
  <2>1. ids \in [Symbol -> Id \cup {None}]
    BY <1>1, IdOfType DEF Largest, Id, Coin
  <2>2. todo \in SUBSET DOMAIN Assets
    OBVIOUS
  <2>3. LET j == [job[r] EXCEPT !.map = None, !.ids = ids, !.todo = todo]
        IN ToQuotes(r, j) \/ Continue(r, "search", j)
    BY DEF Recall
  <2> HIDE DEF ids, todo
  <2>4. QED
    BY <2>1, <2>2, <2>3
<1> DEFINE j == [job[r] EXCEPT !.map = None, !.ids = ids, !.todo = todo]
<1>3. j \in Job /\ j.prices = job[r].prices /\ j.left = job[r].left
  BY <1>1 DEF Job
<1>4. Held("quotes", j) /\ Held("search", j)
  BY <1>1, <1>3 DEF Held, Spent
<1>5. ToQuotes(r, j) \/ Continue(r, "search", j)
  BY <1>2
<1> HIDE DEF j
<1>6. QED
  BY <1>1, <1>3, <1>4, <1>5, ToQuotesRecent, ContinueRecent, CachesKept, RecentIs, PlacesAre

LEMMA SearchRecent ==
    ASSUME RecentInv, NEW r \in Req,
           (\E stored \in BOOLEAN : SearchAnswers(r, stored)) \/ SearchFails(r) \/ SearchLimited(r)
    PROVE  RecentInv'
<1> DEFINE j == job[r]
<1>1. j \in Job /\ Held("quotes", j)
  BY Runs DEF SearchAnswers, SearchFails, SearchLimited, Held
<1>2. ASSUME NEW stored \in BOOLEAN, SearchAnswers(r, stored)
      PROVE  RecentInv'
  <2>1. PICK i \in First(j.todo) :
          IF Assets[i] \in Known
          THEN /\ found' = [k \in Store |-> IF k \in Shelves(r, stored)
                                            THEN found[k] \cup {Assets[i]} ELSE found[k]]
               /\ NextSearch(r, [j EXCEPT !.ids = [@ EXCEPT ![Assets[i]] = Largest]], i)
          ELSE NextSearch(r, j, i) /\ UNCHANGED found
    BY <1>2 DEF SearchAnswers
  <2>2. Assets[i] \in Symbol
    BY <1>1 DEF First, Job, Symbol
  <2>3. CachesRecent'
    BY <1>2, <2>1, <2>2, RecentIs DEF SearchAnswers, CachesRecent, KeptInv
  <2>4. CASE Assets[i] \in Known
    <3> DEFINE ids == [j.ids EXCEPT ![Assets[i]] = Largest]
               k == [j EXCEPT !.ids = ids]
    <3>1. Largest \in Id
      BY DEF Largest, Id, Coin
    <3>2. ids \in [Symbol -> Id \cup {None}]
      BY <1>1, <2>2, <3>1 DEF Job
    <3>3. NextSearch(r, k, i)
      BY <2>1, <2>4
    <3> HIDE DEF ids
    <3>4. k \in Job /\ k.prices = j.prices /\ k.left = j.left
      BY <1>1, <3>2 DEF Job
    <3>5. Held("quotes", k)
      BY <1>1, <3>4 DEF Held, Spent
    <3> HIDE DEF k
    <3>6. QED
      BY <2>3, <3>3, <3>4, <3>5, NextSearchRecent, RecentIs
  <2>5. CASE Assets[i] \notin Known
    BY <1>1, <2>1, <2>3, <2>5, NextSearchRecent, RecentIs
  <2>6. QED
    BY <2>4, <2>5
<1>3. CASE SearchFails(r)
  BY <1>1, <1>3, NextSearchRecent, CachesKept, RecentIs DEF SearchFails
<1>4. CASE SearchLimited(r)
  <2> DEFINE k == [j EXCEPT !.todo = {}]
  <2>1. k \in Job /\ k.prices = j.prices /\ k.left = j.left
    BY <1>1 DEF Job
  <2>2. Held("quotes", k)
    BY <1>1, <2>1 DEF Held, Spent
  <2>3. QED
    BY <1>4, <2>1, <2>2, ToQuotesRecent, CachesKept, RecentIs DEF SearchLimited
<1>5. QED
  BY <1>2, <1>3, <1>4

LEMMA QuoteRecent ==
    ASSUME RecentInv, NEW r \in Req, NEW readable \in BOOLEAN, Quote(r, readable)
    PROVE  RecentInv'
<1>1. pc[r] = "quotes" /\ job[r] \in Job /\ Held("quotes", job[r]) /\ UNCHANGED caches
  BY Runs DEF Quote
<1> DEFINE Cached(s) == readable /\ job[r].ids[s] # None /\ quote[s] # None
           prices == [s \in Symbol |-> IF Cached(s) THEN quote[s].price ELSE job[r].prices[s]]
           ids == [s \in Symbol |-> IF Cached(s) THEN None ELSE job[r].ids[s]]
           k == [job[r] EXCEPT !.prices = prices, !.ids = ids]
           n == LongestTTL - 1 + MaxHandler + Spent(job[r])
<1>2. Give(r, prices) \/ Continue(r, "ask", k)
  BY DEF Quote
<1>3. \A s \in Symbol : quote[s] # None => quote[s].price \in Price /\ quote[s].price.age <= n
  <2>1. /\ PriceTTL <= LongestTTL /\ Spent(job[r]) \in Nat /\ PriceTTL \in Nat
        /\ MaxHandler \in Nat /\ LongestTTL \in Nat
    BY <1>1, HeldIsRecent, PriceAssumption
  <2>2. ASSUME NEW s \in Symbol, quote[s] # None
        PROVE  quote[s].price \in Price /\ quote[s].price.age <= n
    <3>1. /\ quote[s].price \in Price /\ quote[s].left \in 1..PriceTTL
          /\ quote[s].price.age <= PriceTTL - quote[s].left + MaxHandler
      BY <2>2, RecentIs DEF CachesRecent, KeptInv, KeptPrice
    <3>2. QED
      BY <2>1, <3>1 DEF Price
  <2>3. QED
    BY <2>2
<1>4. prices \in Prices
  BY <1>1, <1>3 DEF Prices, Job
<1>5. AtMost(n, prices)
  BY <1>1, <1>3 DEF AtMost, Held
<1>6. ids \in [Symbol -> Id \cup {None}]
  BY <1>1 DEF Job
<1> HIDE DEF prices, ids
<1>7. CASE Give(r, prices)
  <2>1. n \in Nat /\ LongestTTL - 1 + 2 * MaxHandler \in Nat /\ n <= LongestTTL - 1 + 2 * MaxHandler
    BY <1>1, HeldIsRecent, PriceAssumption
  <2>2. AtMost(LongestTTL - 1 + 2 * MaxHandler, prices)
    BY <1>4, <1>5, <2>1, AtMostMore
  <2>3. QED
    BY <1>1, <1>4, <1>7, <2>2, GiveRecent, CachesKept, RecentIs
<1>8. CASE Continue(r, "ask", k)
  <2>1. k \in Job /\ k.prices = prices /\ k.left = job[r].left
    BY <1>1, <1>4, <1>6 DEF Job
  <2>2. Held("ask", k)
    BY <1>1, <1>5, <2>1 DEF Held, Spent
  <2>3. QED
    BY <1>1, <1>8, <2>1, <2>2, ContinueRecent, CachesKept, RecentIs, PlacesAre
<1>9. QED
  BY <1>2, <1>7, <1>8

LEMMA QuotesArriveRecent ==
    ASSUME RecentInv, NEW r \in Req, QuotesArrive(r)
    PROVE  RecentInv'
<1>1. pc[r] = "ask" /\ job[r] \in Job /\ Held("ask", job[r]) /\ UNCHANGED caches
  BY Runs DEF QuotesArrive
<1> DEFINE prices == [s \in Symbol |-> IF job[r].ids[s] # None THEN Now(job[r].ids[s])
                                       ELSE job[r].prices[s]]
           k == [job[r] EXCEPT !.prices = prices]
           n == LongestTTL - 1 + MaxHandler + Spent(job[r])
<1>2. Give(r, prices) \/ Continue(r, "keepQuotes", k)
  BY DEF QuotesArrive
<1>3. \A s \in Symbol : job[r].ids[s] # None => Now(job[r].ids[s]) \in Price
  BY <1>1 DEF Job, Now, Price
<1>4. prices \in Prices
  BY <1>1, <1>3 DEF Prices, Job
<1>5. n \in Nat /\ Spent(job[r]) \in Nat
  BY <1>1, HeldIsRecent
<1>6. AtMost(n, prices)
  BY <1>1, <1>5 DEF AtMost, Held, Now
<1>7. \A s \in Symbol : job[r].ids[s] # None => prices[s] # None /\ prices[s].age = 0
  BY <1>3, NoneIsNothing DEF Now
<1> HIDE DEF prices
<1>8. CASE Give(r, prices)
  <2>1. LongestTTL - 1 + 2 * MaxHandler \in Nat /\ n <= LongestTTL - 1 + 2 * MaxHandler
    BY <1>1, HeldIsRecent, PriceAssumption
  <2>2. AtMost(LongestTTL - 1 + 2 * MaxHandler, prices)
    BY <1>4, <1>5, <1>6, <2>1, AtMostMore
  <2>3. QED
    BY <1>1, <1>4, <1>8, <2>2, GiveRecent, CachesKept, RecentIs
<1>9. CASE Continue(r, "keepQuotes", k)
  <2>1. k \in Job /\ k.prices = prices /\ k.left = job[r].left /\ k.ids = job[r].ids
    BY <1>1, <1>4 DEF Job
  <2>2. Held("keepQuotes", k)
    BY <1>1, <1>5, <1>6, <1>7, <2>1 DEF Held, Spent
  <2>3. QED
    BY <1>1, <1>9, <2>1, <2>2, ContinueRecent, CachesKept, RecentIs, PlacesAre
<1>10. QED
  BY <1>2, <1>8, <1>9

\* Some of the prices asked for are stored.
LEMMA StoreQuotesRecent ==
    ASSUME RecentInv, NEW r \in Req, pc[r] = "keepQuotes", NEW S \in SUBSET Asked(r),
           StoreQuotes(r, S), UNCHANGED <<binance, map, found>>
    PROVE  CachesRecent'
<1>1. /\ job[r] \in Job /\ Held("keepQuotes", job[r])
      /\ Spent(job[r]) \in Nat /\ Spent(job[r]) <= MaxHandler
  BY Runs, HeldIsRecent
<1>2. S \subseteq Symbol /\ \A s \in S : job[r].ids[s] # None
  BY DEF Asked
<1>3. ASSUME NEW s \in Symbol, job[r].ids[s] # None
      PROVE  /\ [price |-> job[r].prices[s], left |-> PriceTTL] \in KeptPrice
             /\ job[r].prices[s].age <= MaxHandler
  <2>1. job[r].prices[s] \in Price /\ job[r].prices[s].age <= Spent(job[r])
    BY <1>1, <1>3 DEF Held, Job, Prices
  <2>2. QED
    BY <1>1, <2>1, PriceAssumption DEF KeptPrice, Price
<1>4. PriceTTL \in 1..PriceTTL /\ PriceTTL - PriceTTL + MaxHandler = MaxHandler
  BY PriceAssumption
<1>5. ASSUME NEW s \in Symbol
      PROVE  \/ quote'[s] = quote[s]
             \/ /\ job[r].ids[s] # None
                /\ quote'[s] = [price |-> job[r].prices[s], left |-> PriceTTL]
  BY <1>2, RecentIs DEF StoreQuotes, CachesRecent
<1>6. quote' \in [Symbol -> KeptPrice \cup {None}]
  BY <1>3, <1>5, RecentIs DEF StoreQuotes, CachesRecent
<1>7. KeptInv'
  <2>1. ASSUME NEW s \in Symbol, quote'[s] # None
        PROVE  /\ quote'[s].left \in 1..PriceTTL
               /\ quote'[s].price.age <= PriceTTL - quote'[s].left + MaxHandler
    <3>1. CASE quote'[s] = quote[s]
      BY <2>1, <3>1, RecentIs DEF CachesRecent, KeptInv
    <3>2. CASE /\ job[r].ids[s] # None
               /\ quote'[s] = [price |-> job[r].prices[s], left |-> PriceTTL]
      BY <1>3, <1>4, <3>2
    <3>3. QED
      BY <1>5, <3>1, <3>2
  <2>2. QED
    BY <2>1, RecentIs DEF CachesRecent, KeptInv, AtMost
<1>8. QED
  BY <1>6, <1>7, RecentIs DEF CachesRecent

LEMMA KeepQuotesRecent ==
    ASSUME RecentInv, NEW r \in Req, NEW stored \in BOOLEAN, KeepQuotes(r, stored)
    PROVE  RecentInv'
<1>1. pc[r] = "keepQuotes" /\ job[r] \in Job /\ Held("keepQuotes", job[r])
  BY Runs DEF KeepQuotes
<1>2. LookupsRecent'
  BY <1>1, HeldIsRecent, GiveRecent, RecentIs DEF KeepQuotes
<1>3. (IF stored THEN Asked(r) ELSE {}) \in SUBSET Asked(r)
  OBVIOUS
<1>4. CachesRecent'
  BY <1>1, <1>3, StoreQuotesRecent DEF KeepQuotes
<1>5. QED
  BY <1>2, <1>4, RecentIs

LEMMA GarbledRecent ==
    ASSUME RecentInv, NEW r \in Req, AnswerGarbled(r) \/ QuotesGarbled(r)
    PROVE  RecentInv'
<1>1. LookupsRecent'
  BY RaiseRecent, RecentIs DEF AnswerGarbled, QuotesGarbled
<1>2. CachesRecent'
  <2>1. CASE AnswerGarbled(r)
    BY <2>1, CachesKept, RecentIs DEF AnswerGarbled
  <2>2. CASE QuotesGarbled(r)
    <3>1. PICK S \in SUBSET Asked(r) : StoreQuotes(r, S)
      BY <2>2 DEF QuotesGarbled
    <3>2. QED
      BY <2>2, <3>1, StoreQuotesRecent DEF QuotesGarbled
  <2>3. QED
    BY <2>1, <2>2
<1>3. QED
  BY <1>1, <1>2, RecentIs

-----------------------------------------------------------------------------
(* Time. *)

LEMMA OlderTypes ==
    /\ \A id \in Id \cup {None} : OlderId(id) \in Id \cup {None} /\ (OlderId(id) = None <=> id = None)
    /\ \A m \in SymbolMap \cup {None} : /\ OlderMap(m) \in SymbolMap \cup {None}
                                        /\ OlderMap(m) = None <=> m = None
    /\ \A p \in Price : Older(p) \in Price /\ Older(p).age = p.age + 1
    /\ Older(None) = None
<1>1. ASSUME NEW id \in Id
      PROVE  OlderId(id) \in Id
  BY DEF OlderId, Id
<1>2. ASSUME NEW m \in SymbolMap
      PROVE  OlderMap(m) \in SymbolMap
  BY DEF OlderMap, SymbolMap
<1>3. OlderId(None) = None /\ OlderMap(None) = None /\ Older(None) = None
  BY DEF OlderId, OlderMap, Older
<1>4. None \notin Id /\ None \notin SymbolMap /\ None \notin Price
  BY NoneIsNothing
<1>5. ASSUME NEW p \in Price
      PROVE  Older(p) \in Price /\ Older(p).age = p.age + 1
  BY <1>1, <1>4, <1>5 DEF Older, Price
<1>6. QED
  BY <1>1, <1>2, <1>3, <1>4, <1>5

LEMMA OlderPrices ==
    ASSUME NEW prices \in Prices
    PROVE  /\ OlderAll(prices) \in Prices
           /\ \A s \in Symbol : /\ OlderAll(prices)[s] = None <=> prices[s] = None
                                /\ prices[s] # None => OlderAll(prices)[s].age = prices[s].age + 1
           /\ \A n \in Nat : AtMost(n, prices) => AtMost(n + 1, OlderAll(prices))
<1>1. \A s \in Symbol : OlderAll(prices)[s] = Older(prices[s])
  BY DEF OlderAll
<1>2. None \notin Price
  BY NoneIsNothing
<1>3. \A s \in Symbol : /\ Older(prices[s]) \in Price \cup {None}
                        /\ Older(prices[s]) = None <=> prices[s] = None
                        /\ prices[s] # None => Older(prices[s]).age = prices[s].age + 1
  BY <1>2, OlderTypes DEF Prices
<1>4. OlderAll(prices) \in Prices
  BY <1>3 DEF OlderAll, Prices
<1>5. \A s \in Symbol : prices[s] # None => prices[s].age \in Nat
  BY DEF Prices, Price
<1>6. QED
  BY <1>1, <1>3, <1>4, <1>5 DEF AtMost

\* Time passes for a lookup at hand.
LEMMA TickLookups ==
    ASSUME RecentInv, Tick
    PROVE  LookupsRecent'
<1> DEFINE aged(j) == [j EXCEPT !.left = @ - 1, !.prices = OlderAll(@), !.map = OlderMap(@),
                                !.ids = [s \in Symbol |-> OlderId(@[s])]]
<1>1. /\ job' = [r \in Req |-> IF job[r] = None THEN None ELSE aged(job[r])]
      /\ pc' = pc /\ given' = None /\ \A r \in InFlight : job[r].left > 0
  BY DEF Tick
<1>2. ASSUME NEW r \in Req, job[r] # None
      PROVE  /\ aged(job[r]) \in Job /\ aged(job[r]).left = job[r].left - 1
             /\ aged(job[r]).prices = OlderAll(job[r].prices)
             /\ aged(job[r]).map = OlderMap(job[r].map)
             /\ aged(job[r]).ids = [s \in Symbol |-> OlderId(job[r].ids[s])]
  <2>1. job[r] \in Job /\ r \in InFlight
    BY <1>2, RecentIs DEF LookupsRecent, LookupsInv, InFlight
  <2>2. /\ job[r].left - 1 \in Nat /\ OlderAll(job[r].prices) \in Prices
        /\ OlderMap(job[r].map) \in SymbolMap \cup {None}
        /\ [s \in Symbol |-> OlderId(job[r].ids[s])] \in [Symbol -> Id \cup {None}]
    <3>1. /\ job[r].left \in Nat /\ job[r].left > 0 /\ job[r].prices \in Prices
          /\ job[r].map \in SymbolMap \cup {None} /\ job[r].ids \in [Symbol -> Id \cup {None}]
      BY <1>1, <2>1 DEF Job
    <3>2. QED
      BY <3>1, OlderPrices, OlderTypes
  <2>3. QED
    BY <2>1, <2>2 DEF Job
<1> HIDE DEF aged
<1>3. ASSUME NEW r \in Req, job[r] # None
      PROVE  Held(pc[r], aged(job[r]))
  <2> DEFINE j == job[r]
             k == aged(job[r])
  <2>1. j \in Job /\ Held(pc[r], j)
    BY <1>3, RecentIs DEF LookupsRecent, LookupsInv
  <2>2. /\ j.left \in Nat /\ j.left <= MaxHandler /\ MaxHandler \in Nat /\ LongestTTL \in Nat
        /\ j.prices \in Prices /\ j.ids \in [Symbol -> Id \cup {None}]
        /\ j.map \in SymbolMap \cup {None}
    BY <2>1, HeldIsRecent, PriceAssumption DEF Held, Job
  <2>3. /\ k.left = j.left - 1 /\ k.prices = OlderAll(j.prices) /\ k.map = OlderMap(j.map)
        /\ \A s \in Symbol : k.ids[s] = OlderId(j.ids[s])
    BY <1>2, <1>3
  <2> HIDE DEF k
  <2>4. /\ Spent(j) \in Nat /\ LongestTTL - 1 + MaxHandler + Spent(j) \in Nat
        /\ k.left <= MaxHandler /\ Spent(k) = Spent(j) + 1
    BY <2>1, <2>2, <2>3, HeldIsRecent DEF Spent
  <2>5. /\ AtMost(LongestTTL - 1 + MaxHandler + Spent(j) + 1, k.prices)
        /\ pc[r] = "keepBinance" => AtMost(Spent(j) + 1, k.prices)
    BY <2>1, <2>4, <2>2, <2>3, OlderPrices DEF Held
  <2>6. pc[r] \in {"keepMap", "recall"} => k.map # None
    BY <2>1, <2>2, <2>3, OlderTypes DEF Held
  <2>7. pc[r] = "keepQuotes" => \A s \in Symbol : k.ids[s] # None =>
           k.prices[s] # None /\ k.prices[s].age <= Spent(j) + 1
    <3>1. SUFFICES ASSUME pc[r] = "keepQuotes", NEW s \in Symbol, k.ids[s] # None
                   PROVE  k.prices[s] # None /\ k.prices[s].age <= Spent(j) + 1
      OBVIOUS
    <3>2. j.ids[s] # None
      BY <2>2, <2>3, <3>1, OlderTypes
    <3>3. j.prices[s] # None /\ j.prices[s].age <= Spent(j) /\ j.prices[s].age \in Nat
      BY <2>1, <2>2, <3>1, <3>2 DEF Held, Prices, Price
    <3>4. QED
      BY <2>4, <2>2, <2>3, <3>3, OlderPrices
  <2>8. LongestTTL - 1 + MaxHandler + Spent(k) = LongestTTL - 1 + MaxHandler + Spent(j) + 1
    BY <2>4, <2>2
  <2>9. QED
    BY <2>4, <2>5, <2>6, <2>7, <2>8 DEF Held, k
<1>4. job' \in [Req -> Job \cup {None}]
  BY <1>1, <1>2
<1>5. LookupsInv'
  <2>1. \A r \in Req : job'[r] = None <=> job[r] = None
    BY <1>1, <1>2, NoneIsNothing
  <2>2. QED
    BY <1>1, <1>3, <2>1, RecentIs DEF LookupsRecent, LookupsInv, Held, AtMost, Spent
<1>6. QED
  BY <1>1, <1>4, <1>5, RecentIs DEF LookupsRecent, PricesAreRecent, Returned

\* Time passes for what is kept.
LEMMA TickCaches ==
    ASSUME RecentInv, Tick
    PROVE  CachesRecent'
<1>1. /\ binance' = IF SpentInRedis(binance) THEN None
                    ELSE [prices |-> OlderAll(binance.prices), left |-> binance.left - 1]
      /\ quote' = [s \in Symbol |->
                     IF SpentInRedis(quote[s]) THEN None
                     ELSE [price |-> Older(quote[s].price), left |-> quote[s].left - 1]]
      /\ found' = found
  BY DEF Tick
<1>2. ASSUME ~SpentInRedis(binance)
      PROVE  /\ binance' \in KeptPrices /\ binance'.left \in 1..BinanceTTL
             /\ AtMost(BinanceTTL - binance'.left + MaxHandler, binance'.prices)
  <2> DEFINE n == BinanceTTL - binance.left + MaxHandler
  <2>1. /\ binance.prices \in Prices /\ binance.left \in 1..BinanceTTL /\ ~(binance.left <= 1)
        /\ AtMost(n, binance.prices)
    BY <1>2, RecentIs DEF SpentInRedis, CachesRecent, KeptInv, KeptPrices
  <2>2. /\ n \in Nat /\ binance.left - 1 \in 1..BinanceTTL
        /\ BinanceTTL - (binance.left - 1) + MaxHandler = n + 1
    BY <2>1, PriceAssumption
  <2>3. OlderAll(binance.prices) \in Prices /\ AtMost(n + 1, OlderAll(binance.prices))
    BY <2>1, <2>2, OlderPrices
  <2>4. binance' = [prices |-> OlderAll(binance.prices), left |-> binance.left - 1]
    BY <1>1, <1>2
  <2> HIDE DEF n
  <2>5. QED
    BY <2>2, <2>3, <2>4 DEF KeptPrices
<1>3. ASSUME NEW s \in Symbol, ~SpentInRedis(quote[s])
      PROVE  /\ quote'[s] \in KeptPrice /\ quote'[s].left \in 1..PriceTTL
             /\ quote'[s].price.age <= PriceTTL - quote'[s].left + MaxHandler
  <2>1. /\ quote[s].price \in Price /\ quote[s].left \in 1..PriceTTL /\ ~(quote[s].left <= 1)
        /\ quote[s].price.age <= PriceTTL - quote[s].left + MaxHandler
        /\ quote[s].price.age \in Nat
    BY <1>3, RecentIs DEF SpentInRedis, CachesRecent, KeptInv, KeptPrice, Price
  <2>2. quote'[s] = [price |-> Older(quote[s].price), left |-> quote[s].left - 1]
    BY <1>1, <1>3
  <2>3. Older(quote[s].price) \in Price /\ Older(quote[s].price).age = quote[s].price.age + 1
    BY <2>1, OlderTypes
  <2>4. /\ quote[s].left - 1 \in 1..PriceTTL /\ quote[s].left - 1 \in Nat
        /\ quote[s].price.age + 1 <= PriceTTL - (quote[s].left - 1) + MaxHandler
    <3>1. PriceTTL \in Nat /\ MaxHandler \in Nat
      BY PriceAssumption
    <3>2. QED
      BY <2>1, <3>1
  <2>5. QED
    BY <2>2, <2>3, <2>4 DEF KeptPrice
<1>4. map' \in [Store -> KeptMap \cup {None}]
  <2>1. ASSUME NEW k \in Store
        PROVE  map'[k] \in KeptMap \cup {None}
    <3>1. CASE map'[k] = None
      BY <3>1
    <3>2. CASE /\ map[k] # None /\ map[k].left # 0
               /\ map'[k] = [map |-> OlderMap(map[k].map), left |-> map[k].left - 1]
      <4>1. map[k].map \in SymbolMap /\ map[k].left \in Nat
        BY <3>2, RecentIs DEF CachesRecent, KeptMap
      <4>2. OlderMap(map[k].map) \in SymbolMap
        BY <4>1, OlderTypes, NoneIsNothing
      <4>3. QED
        BY <3>2, <4>1, <4>2 DEF KeptMap
    <3>3. map'[k] = IF IF k = "redis" THEN SpentInRedis(map[k]) ELSE SpentInMemo(map[k])
                    THEN None
                    ELSE [map |-> OlderMap(map[k].map), left |-> map[k].left - 1]
      BY DEF Tick
    <3>4. QED
      BY <3>1, <3>2, <3>3 DEF SpentInRedis, SpentInMemo
  <2>2. QED
    BY <2>1 DEF Tick
<1>5. quote' \in [Symbol -> KeptPrice \cup {None}]
  BY <1>1, <1>3
<1>6. binance' \in KeptPrices \cup {None}
  BY <1>1, <1>2
<1>7. KeptInv'
  <2>1. binance' # None => ~SpentInRedis(binance)
    BY <1>1
  <2>2. \A s \in Symbol : quote'[s] # None => ~SpentInRedis(quote[s])
    BY <1>1
  <2>3. QED
    BY <1>2, <1>3, <2>1, <2>2 DEF KeptInv, AtMost
<1>8. QED
  BY <1>1, <1>4, <1>5, <1>6, <1>7, RecentIs DEF CachesRecent

-----------------------------------------------------------------------------
(* Namesakes.  What a lookup holds, and what it gives, is handed on from   *)
(* what was stored; the invariants say how long ago the list came then.    *)

\* The bounds, and what a running lookup has of RecentInv and of NamesakeInv.
LEMMA Lives ==
    /\ MapTTL \in Nat \ {0} /\ PriceTTL \in Nat \ {0} /\ MaxHandler \in Nat \ {0}
    /\ MapLife \in Nat /\ MapLife >= MapTTL /\ QuoteLife \in Nat /\ QuoteLife >= MapLife
    /\ MapLife = MapTTL - 1 + MaxHandler /\ QuoteLife = MapLife + MaxHandler + PriceTTL - 1
BY PriceAssumption DEF MapLife, QuoteLife

LEMMA RunsHandedOn ==
    ASSUME RecentInv, NamesakeInv, NEW r \in Req, pc[r] # "idle"
    PROVE  /\ job[r] \in Job /\ Held(pc[r], job[r]) /\ HandedOn(pc[r], job[r])
           /\ Spent(job[r]) \in Nat /\ Spent(job[r]) <= MaxHandler
           /\ job[r].process \in Process /\ job[r].left \in Nat
           /\ job[r].map \in SymbolMap \cup {None} /\ job[r].prices \in Prices
           /\ job[r].ids \in [Symbol -> Id \cup {None}]
<1>1. job[r] \in Job /\ Held(pc[r], job[r]) /\ job[r] # None
  BY Runs, NoneIsNothing
<1>2. QED
  BY <1>1, HeldIsRecent DEF NamesakeInv, HandedOnInv, Job

LEMMA ContinueHandsOn ==
    ASSUME RecentInv, NamesakeInv, NEW r \in Req, NEW place, NEW j, HandedOn(place, j),
           Continue(r, place, j)
    PROVE  HandedOnInv' /\ NamesakesFadeOut'
<1>1. /\ pc' = [pc EXCEPT ![r] = place] /\ job' = [job EXCEPT ![r] = j] /\ given' = None
      /\ pc \in [Req -> {"idle"} \cup Running] /\ job \in [Req -> Job \cup {None}]
  BY DEF Continue, Goto, RecentInv, TypeOK
<1>2. ASSUME NEW q \in Req, job'[q] # None
      PROVE  HandedOn(pc'[q], job'[q])
  <2>1. CASE q = r
    BY <1>1, <2>1
  <2>2. CASE q # r
    BY <1>1, <1>2, <2>2 DEF NamesakeInv, HandedOnInv
  <2>3. QED
    BY <2>1, <2>2
<1>3. HandedOnInv'
  BY <1>2 DEF HandedOnInv, HandedOn, Spent, IdsSince, PricesSince, AllLargest
<1>4. QED
  BY <1>1, <1>3 DEF NamesakesFadeOut, Returned

LEMMA GiveHandsOn ==
    ASSUME RecentInv, NamesakeInv, NEW r \in Req, NEW prices,
           PricesSince(QuoteLife + MaxHandler, prices), Give(r, prices)
    PROVE  HandedOnInv' /\ NamesakesFadeOut'
<1>1. /\ pc' = [pc EXCEPT ![r] = "idle"] /\ job' = [job EXCEPT ![r] = None] /\ given' = prices
      /\ pc \in [Req -> {"idle"} \cup Running] /\ job \in [Req -> Job \cup {None}]
  BY DEF Give, Goto, RecentInv, TypeOK
<1>2. ASSUME NEW q \in Req, job'[q] # None
      PROVE  HandedOn(pc'[q], job'[q])
  BY <1>1, <1>2 DEF NamesakeInv, HandedOnInv
<1>3. HandedOnInv'
  BY <1>2 DEF HandedOnInv, HandedOn, Spent, IdsSince, PricesSince, AllLargest
<1>4. QuoteLife + MaxHandler = (MapTTL - 1) + (PriceTTL - 1) + 3 * MaxHandler
  BY Lives
<1>5. QED
  BY <1>1, <1>3, <1>4 DEF NamesakesFadeOut, Returned, PricesSince

LEMMA StoredKept ==
    ASSUME StoredInv, UNCHANGED caches
    PROVE  StoredInv'
BY DEF StoredInv, AllLargest, caches

\* Prices without a namesake are within every bound.
LEMMA LargestSince ==
    ASSUME NEW prices, AllLargest(prices), NEW n
    PROVE  PricesSince(n, prices)
BY DEF AllLargest, PricesSince

LEMMA QuotedAreLargest ==
    /\ \A S : AllLargest(WithStable(Quotes(S)))
    /\ AllLargest(Nothing) /\ AllLargest(WithStable(Nothing))
    /\ \A prices : AllLargest(prices) => AllLargest(WithStable(prices))
BY DEF AllLargest, WithStable, Quotes, Nothing, Now, Largest

\* What a lookup holds may be given.
LEMMA HandedOnGiven ==
    ASSUME NEW j \in Job, NEW place, Held(place, j), NEW prices \in Prices,
           PricesSince(QuoteLife + Spent(j), prices)
    PROVE  PricesSince(QuoteLife + MaxHandler, prices)
<1>1. Spent(j) \in Nat /\ Spent(j) <= MaxHandler /\ QuoteLife \in Nat /\ MaxHandler \in Nat
  BY HeldIsRecent, Lives
<1>2. \A s \in Symbol : prices[s] # None => prices[s].id.since \in Nat
  BY DEF Prices, Price, Id
<1>3. QED
  BY <1>1, <1>2 DEF PricesSince

LEMMA TakeHandsOn ==
    ASSUME RecentInv, NamesakeInv, NEW r \in Req, pc[r] # "idle", pc[r] # "keepMap",
           NEW prices \in Prices, AllLargest(prices), Take(r, job[r], prices)
    PROVE  HandedOnInv' /\ NamesakesFadeOut'
<1>1. job[r] \in Job /\ Held(pc[r], job[r]) /\ HandedOn(pc[r], job[r])
  BY RunsHandedOn
<1>2. CASE Give(r, prices)
  BY <1>2, GiveHandsOn, LargestSince
<1>3. CASE Continue(r, "map", [job[r] EXCEPT !.prices = prices])
  <2> DEFINE k == [job[r] EXCEPT !.prices = prices]
  <2>1. /\ k.prices = prices /\ k.left = job[r].left /\ k.map = job[r].map
        /\ k.ids = job[r].ids
    BY <1>1 DEF Job
  <2>2. HandedOn("map", k)
    BY <1>1, <2>1, LargestSince DEF HandedOn, Spent
  <2>3. QED
    BY <1>3, <2>2, ContinueHandsOn
<1>4. QED
  BY <1>2, <1>3 DEF Take

LEMMA UseMapHandsOn ==
    ASSUME RecentInv, NamesakeInv, NEW r \in Req, pc[r] # "idle", NEW m \in SymbolMap,
           m.since <= MapLife + Spent(job[r]), UseMap(r, job[r], m)
    PROVE  HandedOnInv' /\ NamesakesFadeOut'
<1> DEFINE k == [job[r] EXCEPT !.map = m, !.page = 1]
<1>1. job[r] \in Job /\ HandedOn(pc[r], job[r])
  BY RunsHandedOn
<1>2. /\ k.prices = job[r].prices /\ k.left = job[r].left /\ k.map = m
      /\ k.ids = job[r].ids
  BY <1>1, MapChosen
<1>3. HandedOn("recall", k)
  BY <1>1, <1>2 DEF HandedOn, Spent
<1>4. QED
  BY <1>3, ContinueHandsOn DEF UseMap

LEMMA MakeMapHandsOn ==
    ASSUME RecentInv, NamesakeInv, NEW r \in Req, pc[r] # "idle", NEW m \in SymbolMap, m.since = 0,
           MakeMap(r, job[r], m), UNCHANGED <<binance, found, quote>>
    PROVE  NamesakeInv'
<1>1. /\ job[r] \in Job /\ HandedOn(pc[r], job[r]) /\ Spent(job[r]) \in Nat
      /\ job[r].process \in Process
  BY RunsHandedOn
<1>2. HandedOnInv' /\ NamesakesFadeOut'
  <2> DEFINE k == [job[r] EXCEPT !.map = m, !.page = 1]
  <2>1. CASE Continue(r, "keepMap", k)
    <3>1. /\ k.prices = job[r].prices /\ k.left = job[r].left /\ k.map = m
          /\ k.ids = job[r].ids
      BY <1>1, MapChosen
    <3>2. HandedOn("keepMap", k)
      BY <1>1, <3>1 DEF HandedOn, Spent
    <3>3. QED
      BY <2>1, <3>2, ContinueHandsOn
  <2>2. CASE UseMap(r, job[r], m)
    BY <1>1, <2>2, UseMapHandsOn, Lives
  <2>3. QED
    BY <2>1, <2>2 DEF MakeMap
<1>3. StoredInv'
  <2>1. map' = [map EXCEPT ![job[r].process] = [map |-> m, left |-> MapTTL]]
    BY DEF MakeMap
  <2>2. map \in [Store -> KeptMap \cup {None}] /\ job[r].process \in Store
    BY <1>1 DEF RecentInv, TypeOK, Store
  <2>3. ASSUME NEW k \in Store, map'[k] # None
        PROVE  /\ map'[k].left <= MapTTL /\ (k = "redis" => map'[k].left > 0)
               /\ map'[k].map.since <= MapTTL - map'[k].left
                                       + (IF k = "redis" THEN MaxHandler ELSE 0)
    <3>1. CASE k = job[r].process
      <4>1. map'[k] = [map |-> m, left |-> MapTTL]
        BY <2>1, <2>2, <3>1
      <4>2. QED
        BY <4>1, Lives
    <3>2. CASE k # job[r].process
      <4>1. map'[k] = map[k]
        BY <2>1, <2>2, <3>2
      <4>2. QED
        BY <2>3, <4>1 DEF NamesakeInv, StoredInv
    <3>3. QED
      BY <3>1, <3>2
  <2>4. QED
    BY <2>3 DEF NamesakeInv, StoredInv, AllLargest
<1>4. QED
  BY <1>2, <1>3 DEF NamesakeInv

LEMMA ToQuotesHandsOn ==
    ASSUME RecentInv, NamesakeInv, NEW r \in Req, NEW j \in Job, Held("quotes", j),
           HandedOn("quotes", j), ToQuotes(r, j)
    PROVE  HandedOnInv' /\ NamesakesFadeOut'
<1>1. CASE Give(r, j.prices)
  <2>1. PricesSince(QuoteLife + MaxHandler, j.prices)
    BY HandedOnGiven DEF HandedOn, Job
  <2>2. QED
    BY <1>1, <2>1, GiveHandsOn
<1>2. CASE Continue(r, IF j.redis THEN "quotes" ELSE "ask", j)
  <2>1. HandedOn("ask", j)
    BY DEF HandedOn
  <2>2. QED
    BY <1>2, <2>1, ContinueHandsOn
<1>3. QED
  BY <1>1, <1>2 DEF ToQuotes

LEMMA NextSearchHandsOn ==
    ASSUME RecentInv, NamesakeInv, NEW r \in Req, NEW j \in Job, Held("quotes", j),
           HandedOn("quotes", j), NEW i, NextSearch(r, j, i)
    PROVE  HandedOnInv' /\ NamesakesFadeOut'
<1> DEFINE k == [j EXCEPT !.todo = @ \ {i}]
<1>1. k \in Job /\ k.prices = j.prices /\ k.left = j.left /\ k.map = j.map /\ k.ids = j.ids
  BY DEF Job
<1>2. Held("quotes", k)
  BY <1>1 DEF Held, Spent
<1>3. HandedOn("quotes", k) /\ HandedOn("search", k)
  BY <1>1 DEF HandedOn, Spent
<1>4. QED
  BY <1>1, <1>2, <1>3, ToQuotesHandsOn, ContinueHandsOn DEF NextSearch

\* A lookup goes on with the same variables, or gives what it has.
LEMMA HandsOnAsIs ==
    ASSUME RecentInv, NamesakeInv, NEW r \in Req, pc[r] # "idle", pc[r] # "keepMap", UNCHANGED caches,
           \/ Give(r, job[r].prices)
           \/ \E place \in Running \ {"keepBinance", "keepMap", "recall", "keepQuotes"} :
                 Continue(r, place, job[r])
    PROVE  NamesakeInv'
<1>1. job[r] \in Job /\ Held(pc[r], job[r]) /\ HandedOn(pc[r], job[r]) /\ job[r].prices \in Prices
  BY RunsHandedOn
<1>2. CASE Give(r, job[r].prices)
  <2>1. PricesSince(QuoteLife + MaxHandler, job[r].prices)
    BY <1>1, HandedOnGiven DEF HandedOn
  <2>2. QED
    BY <1>2, <2>1, GiveHandsOn, StoredKept DEF NamesakeInv
<1>3. ASSUME NEW place \in Running \ {"keepBinance", "keepMap", "recall", "keepQuotes"},
             Continue(r, place, job[r])
      PROVE  NamesakeInv'
  <2>1. HandedOn(place, job[r])
    BY <1>1 DEF HandedOn
  <2>2. QED
    BY <1>3, <2>1, ContinueHandsOn, StoredKept DEF NamesakeInv
<1>4. QED
  BY <1>2, <1>3

LEMMA BeginHandsOn ==
    ASSUME RecentInv, NamesakeInv, NEW r \in Req, NEW p \in Process, NEW redis \in BOOLEAN,
           Begin(r, p, redis)
    PROVE  NamesakeInv'
<1> DEFINE j == [process |-> p, redis |-> redis, left |-> MaxHandler,
                 prices |-> Nothing, page |-> 1, map |-> None, ids |-> Nothing, todo |-> {}]
<1>1. HandedOn("venue", j)
  BY DEF HandedOn, IdsSince, PricesSince, Nothing
<1>2. QED
  BY <1>1, ContinueHandsOn, StoredKept DEF Begin, NamesakeInv

LEMMA VenueHandsOn ==
    ASSUME RecentInv, NamesakeInv, NEW r \in Req, VenueAnswers(r) \/ VenueFails(r)
    PROVE  NamesakeInv'
<1>1. CASE Continue(r, Global(job[r].redis), job[r]) /\ UNCHANGED caches
  BY <1>1, HandsOnAsIs, PlacesAre DEF VenueAnswers, VenueFails, Global
<1>2. CASE Give(r, WithStable(Quotes(Quoted))) /\ UNCHANGED caches
  BY <1>2, QuotedAreLargest, LargestSince, GiveHandsOn, StoredKept DEF NamesakeInv
<1>3. QED
  BY <1>1, <1>2 DEF VenueAnswers, VenueFails

LEMMA BinanceHandsOn ==
    ASSUME RecentInv, NamesakeInv, NEW r \in Req,
           BinanceCached(r) \/ BinanceNotCached(r) \/ FetchBinance(r) \/ FetchBinanceFails(r)
    PROVE  NamesakeInv'
<1>1. /\ pc[r] \in {"binance", "fetch"} /\ UNCHANGED caches
      /\ job[r] \in Job /\ HandedOn(pc[r], job[r])
  BY RunsHandedOn DEF BinanceCached, BinanceNotCached, FetchBinance, FetchBinanceFails
<1>2. ASSUME NEW prices \in Prices, AllLargest(prices), Take(r, job[r], prices)
      PROVE  NamesakeInv'
  BY <1>1, <1>2, TakeHandsOn, StoredKept DEF NamesakeInv
<1>3. CASE BinanceCached(r)
  <2>1. binance.prices \in Prices
    BY <1>3 DEF BinanceCached, RecentInv, TypeOK, KeptPrices
  <2>2. AllLargest(binance.prices)
    BY <1>3 DEF BinanceCached, NamesakeInv, StoredInv
  <2>3. WithStable(binance.prices) \in Prices
    BY <2>1 DEF WithStable, Prices, Now, Largest, Price, Id, Coin
  <2>4. QED
    BY <1>2, <1>3, <2>2, <2>3, QuotedAreLargest DEF BinanceCached
<1>4. CASE BinanceNotCached(r)
  BY <1>1, <1>4, HandsOnAsIs, PlacesAre DEF BinanceNotCached
<1>5. CASE FetchBinance(r)
  <2> DEFINE prices == WithStable(Quotes(Pairs))
             k == [job[r] EXCEPT !.prices = prices]
  <2>1. prices \in Prices /\ AllLargest(prices)
    BY QuotesArePrices, WithStablePrices, QuotedAreLargest
  <2>2. CASE Continue(r, "keepBinance", k)
    <3>1. k.prices = prices /\ k.left = job[r].left /\ k.map = job[r].map /\ k.ids = job[r].ids
      BY <1>1 DEF Job
    <3>2. HandedOn("keepBinance", k)
      BY <1>1, <2>1, <3>1, LargestSince DEF HandedOn, Spent
    <3>3. QED
      BY <1>1, <2>2, <3>2, ContinueHandsOn, StoredKept DEF NamesakeInv
  <2>3. CASE Take(r, job[r], prices)
    BY <1>2, <2>1, <2>3
  <2>4. QED
    BY <1>5, <2>2, <2>3 DEF FetchBinance
<1>6. CASE FetchBinanceFails(r)
  BY <1>2, <1>6, NothingIsPrices, WithStablePrices, QuotedAreLargest DEF FetchBinanceFails
<1>7. QED
  BY <1>3, <1>4, <1>5, <1>6

LEMMA KeepBinanceHandsOn ==
    ASSUME RecentInv, NamesakeInv, NEW r \in Req, NEW stored \in BOOLEAN, KeepBinance(r, stored)
    PROVE  NamesakeInv'
<1>1. /\ pc[r] = "keepBinance" /\ job[r] \in Job /\ AllLargest(job[r].prices)
      /\ job[r].prices \in Prices
  BY RunsHandedOn DEF KeepBinance, HandedOn
<1>2. HandedOnInv' /\ NamesakesFadeOut'
  BY <1>1, TakeHandsOn DEF KeepBinance
<1>3. StoredInv'
  BY <1>1 DEF KeepBinance, NamesakeInv, StoredInv, AllLargest
<1>4. QED
  BY <1>2, <1>3 DEF NamesakeInv

LEMMA MapHandsOn ==
    ASSUME RecentInv, NamesakeInv, NEW r \in Req, MapCached(r) \/ MapRemembered(r) \/ MapUnknown(r)
    PROVE  NamesakeInv'
<1>1. /\ pc[r] = "map" /\ Spent(job[r]) \in Nat /\ job[r].process \in Process
      /\ UNCHANGED caches
  BY RunsHandedOn DEF MapCached, MapRemembered, MapUnknown
<1>2. ASSUME NEW k \in Store, map[k] # None
      PROVE  map[k].map \in SymbolMap /\ map[k].map.since <= MapLife + Spent(job[r])
  <2>1. map[k].map \in SymbolMap /\ map[k].left \in Nat /\ map[k].map.since \in Nat
    BY <1>2 DEF RecentInv, TypeOK, KeptMap, SymbolMap
  <2>2. /\ map[k].left <= MapTTL /\ (k = "redis" => map[k].left > 0)
        /\ map[k].map.since <= MapTTL - map[k].left + (IF k = "redis" THEN MaxHandler ELSE 0)
    BY <1>2 DEF NamesakeInv, StoredInv
  <2>3. QED
    BY <1>1, <2>1, <2>2, Lives
<1>3. CASE MapCached(r)
  BY <1>1, <1>2, <1>3, UseMapHandsOn, StoredKept DEF MapCached, NamesakeInv, Store
<1>4. CASE MapRemembered(r)
  BY <1>1, <1>2, <1>4, UseMapHandsOn, StoredKept DEF MapRemembered, NamesakeInv, Store
<1>5. CASE MapUnknown(r)
  BY <1>1, <1>5, HandsOnAsIs, PlacesAre DEF MapUnknown
<1>6. QED
  BY <1>3, <1>4, <1>5

LEMMA PageHandsOn ==
    ASSUME RecentInv, NamesakeInv, NEW r \in Req, PageArrives(r) \/ PageFails(r) \/ ListArrives(r)
    PROVE  NamesakeInv'
<1> DEFINE j == job[r]
<1>1. /\ pc[r] \in {"page", "list"} /\ j \in Job /\ HandedOn(pc[r], j) /\ j.page \in 1..Pages
  BY RunsHandedOn DEF PageArrives, PageFails, ListArrives, Job
<1>2. Pages \in Nat \ {0}
  BY PriceAssumption
<1>3. ASSUME NEW n \in 0..Pages, MakeMap(r, j, [pages |-> n, since |-> 0]),
             UNCHANGED <<binance, found, quote>>
      PROVE  NamesakeInv'
  <2>1. [pages |-> n, since |-> 0] \in SymbolMap
    BY DEF SymbolMap
  <2>2. QED
    BY <1>1, <1>3, <2>1, MakeMapHandsOn
<1>4. CASE PageArrives(r)
  <2>1. CASE j.page < Pages
    <3> DEFINE k == [j EXCEPT !.page = @ + 1]
    <3>1. Continue(r, "page", k) /\ UNCHANGED caches
      BY <1>4, <2>1 DEF PageArrives, caches
    <3>2. k.prices = j.prices /\ k.left = j.left /\ k.map = j.map /\ k.ids = j.ids
      BY <1>1 DEF Job
    <3>3. HandedOn("page", k)
      BY <1>1, <3>2 DEF HandedOn, Spent
    <3>4. QED
      BY <3>1, <3>3, ContinueHandsOn, StoredKept DEF NamesakeInv
  <2>2. CASE ~(j.page < Pages)
    BY <1>2, <1>3, <1>4, <2>2 DEF PageArrives
  <2>3. QED
    BY <2>1, <2>2
<1>5. CASE PageFails(r)
  <2>1. CASE j.page > 1
    BY <1>1, <1>2, <1>3, <1>5, <2>1 DEF PageFails
  <2>2. CASE ~(j.page > 1)
    <3>1. Continue(r, "list", j) /\ UNCHANGED caches
      BY <1>5, <2>2 DEF PageFails, caches
    <3>2. QED
      BY <1>1, <3>1, HandsOnAsIs, PlacesAre
  <2>3. QED
    BY <2>1, <2>2
<1>6. CASE ListArrives(r)
  BY <1>2, <1>3, <1>6 DEF ListArrives
<1>7. QED
  BY <1>4, <1>5, <1>6

LEMMA KeepMapHandsOn ==
    ASSUME RecentInv, NamesakeInv, NEW r \in Req, NEW stored \in BOOLEAN, KeepMap(r, stored)
    PROVE  NamesakeInv'
<1>1. /\ pc[r] = "keepMap" /\ job[r].map \in SymbolMap /\ job[r].map.since \in Nat
      /\ job[r].map.since <= Spent(job[r])
      /\ Spent(job[r]) \in Nat /\ Spent(job[r]) <= MaxHandler
  <2>1. /\ pc[r] = "keepMap" /\ job[r].map # None /\ job[r].map \in SymbolMap \cup {None}
        /\ HandedOn("keepMap", job[r])
        /\ Spent(job[r]) \in Nat /\ Spent(job[r]) <= MaxHandler
    BY RunsHandedOn DEF KeepMap, Held
  <2>2. QED
    BY <2>1 DEF HandedOn, SymbolMap
<1>2. job[r].map.since <= MapLife + Spent(job[r])
  BY <1>1, Lives
<1>3. HandedOnInv' /\ NamesakesFadeOut'
  BY <1>1, <1>2, UseMapHandsOn DEF KeepMap
<1>4. StoredInv'
  <2>1. ASSUME NEW k \in Store, map'[k] # None
        PROVE  /\ map'[k].left <= MapTTL /\ (k = "redis" => map'[k].left > 0)
               /\ map'[k].map.since <= MapTTL - map'[k].left
                                       + (IF k = "redis" THEN MaxHandler ELSE 0)
    <3>1. CASE map'[k] = map[k]
      BY <2>1, <3>1 DEF NamesakeInv, StoredInv
    <3>2. CASE k = "redis" /\ map'[k] = [map |-> job[r].map, left |-> MapTTL]
      BY <1>1, <3>2, Lives
    <3>3. QED
      BY <3>1, <3>2 DEF KeepMap, RecentInv, TypeOK
  <2>2. UNCHANGED <<binance, quote>>
    BY DEF KeepMap
  <2>3. QED
    BY <2>1, <2>2 DEF NamesakeInv, StoredInv, AllLargest
<1>5. QED
  BY <1>3, <1>4 DEF NamesakeInv

\* The id a map has for a symbol is a namesake's since the list of the map.
LEMMA IdOfSince ==
    ASSUME NEW m \in SymbolMap, NEW s \in Symbol, IdOf(m, s) # None, IdOf(m, s).coin = "namesake"
    PROVE  IdOf(m, s).since = m.since
BY DEF IdOf, Largest

LEMMA RecallHandsOn ==
    ASSUME RecentInv, NamesakeInv, NEW r \in Req, NEW readable \in BOOLEAN, Recall(r, readable)
    PROVE  NamesakeInv'
<1>1. /\ pc[r] = "recall" /\ job[r] \in Job /\ Held("recall", job[r]) /\ HandedOn("recall", job[r])
      /\ job[r].map \in SymbolMap /\ UNCHANGED caches
      /\ job[r].map.since <= MapLife + Spent(job[r])
  <2>1. /\ pc[r] = "recall" /\ job[r] \in Job /\ Held("recall", job[r])
        /\ HandedOn("recall", job[r]) /\ job[r].map \in SymbolMap \cup {None} /\ UNCHANGED caches
    BY RunsHandedOn DEF Recall
  <2>2. QED
    BY <2>1 DEF Held, HandedOn
<1>2. PICK ids \in [Symbol -> Id \cup {None}], todo \in SUBSET DOMAIN Assets :
         LET j == [job[r] EXCEPT !.map = None, !.ids = ids, !.todo = todo]
         IN /\ ToQuotes(r, j) \/ Continue(r, "search", j)
            /\ IdsSince(MapLife + Spent(job[r]), ids)
  <2> DEFINE Unpriced(s) == job[r].prices[s] = None
             Searched(s) == \E k \in Shelves(r, readable) : s \in found[k]
             ids == [s \in Symbol |-> IF ~Unpriced(s) THEN None
                                      ELSE IF IdOf(job[r].map, s) # None THEN IdOf(job[r].map, s)
                                      ELSE IF Searched(s) THEN Largest ELSE None]
             pending == {i \in DOMAIN Assets : Unpriced(Assets[i]) /\ ids[Assets[i]] = None}
             todo == {i \in pending : Cardinality({h \in pending : h < i}) < SearchMax}
  <2>1. ids \in [Symbol -> Id \cup {None}]
    BY <1>1, IdOfType DEF Largest, Id, Coin
  <2>2. todo \in SUBSET DOMAIN Assets
    OBVIOUS
  <2>3. LET j == [job[r] EXCEPT !.map = None, !.ids = ids, !.todo = todo]
        IN ToQuotes(r, j) \/ Continue(r, "search", j)
    BY DEF Recall
  <2>4. IdsSince(MapLife + Spent(job[r]), ids)
    <3>1. SUFFICES ASSUME NEW s \in Symbol, ids[s] # None, ids[s].coin = "namesake"
                   PROVE  ids[s].since <= MapLife + Spent(job[r])
      BY DEF IdsSince
    <3>2. IdOf(job[r].map, s) # None /\ ids[s] = IdOf(job[r].map, s)
      BY <3>1 DEF Largest
    <3>3. QED
      BY <1>1, <3>1, <3>2, IdOfSince
  <2> HIDE DEF ids, todo
  <2>5. QED
    BY <2>1, <2>2, <2>3, <2>4
<1> DEFINE j == [job[r] EXCEPT !.map = None, !.ids = ids, !.todo = todo]
<1>3. /\ j \in Job /\ j.prices = job[r].prices /\ j.left = job[r].left /\ j.ids = ids
      /\ j.map = None
  BY <1>1 DEF Job
<1>4. Held("quotes", j)
  BY <1>1, <1>3 DEF Held, Spent
<1>5. HandedOn("quotes", j) /\ HandedOn("search", j)
  BY <1>1, <1>2, <1>3 DEF HandedOn, Spent
<1>6. ToQuotes(r, j) \/ Continue(r, "search", j)
  BY <1>2
<1> HIDE DEF j
<1>7. QED
  BY <1>1, <1>3, <1>4, <1>5, <1>6, ToQuotesHandsOn, ContinueHandsOn, StoredKept DEF NamesakeInv

LEMMA SearchHandsOn ==
    ASSUME RecentInv, NamesakeInv, NEW r \in Req,
           (\E stored \in BOOLEAN : SearchAnswers(r, stored)) \/ SearchFails(r) \/ SearchLimited(r)
    PROVE  NamesakeInv'
<1> DEFINE j == job[r]
<1>1. /\ pc[r] = "search" /\ j \in Job /\ Held("quotes", j) /\ HandedOn("quotes", j)
  BY RunsHandedOn DEF SearchAnswers, SearchFails, SearchLimited, Held, HandedOn
<1>2. UNCHANGED <<binance, map, quote>> => StoredInv'
  BY DEF NamesakeInv, StoredInv, AllLargest
<1>3. ASSUME NEW stored \in BOOLEAN, SearchAnswers(r, stored)
      PROVE  NamesakeInv'
  <2>1. PICK i \in First(j.todo) :
          IF Assets[i] \in Known
          THEN NextSearch(r, [j EXCEPT !.ids = [@ EXCEPT ![Assets[i]] = Largest]], i)
          ELSE NextSearch(r, j, i)
    BY <1>3 DEF SearchAnswers
  <2>2. UNCHANGED <<binance, map, quote>>
    BY <1>3 DEF SearchAnswers
  <2>3. CASE Assets[i] \in Known
    <3> DEFINE ids == [j.ids EXCEPT ![Assets[i]] = Largest]
               k == [j EXCEPT !.ids = ids]
    <3>1. Largest \in Id /\ Largest.coin # "namesake"
      BY DEF Largest, Id, Coin
    <3>2. ids \in [Symbol -> Id \cup {None}] /\ IdsSince(MapLife + Spent(j), ids)
      BY <1>1, <3>1 DEF Job, HandedOn, IdsSince
    <3>3. NextSearch(r, k, i)
      BY <2>1, <2>3
    <3> HIDE DEF ids
    <3>4. k \in Job /\ k.prices = j.prices /\ k.left = j.left /\ k.map = j.map /\ k.ids = ids
      BY <1>1, <3>2 DEF Job
    <3>5. Held("quotes", k) /\ HandedOn("quotes", k)
      BY <1>1, <3>2, <3>4 DEF Held, HandedOn, Spent
    <3> HIDE DEF k
    <3>6. QED
      BY <1>2, <2>2, <3>3, <3>4, <3>5, NextSearchHandsOn DEF NamesakeInv
  <2>4. CASE Assets[i] \notin Known
    BY <1>1, <1>2, <2>1, <2>2, <2>4, NextSearchHandsOn DEF NamesakeInv
  <2>5. QED
    BY <2>3, <2>4
<1>4. CASE SearchFails(r)
  BY <1>1, <1>4, NextSearchHandsOn, StoredKept DEF SearchFails, NamesakeInv
<1>5. CASE SearchLimited(r)
  <2> DEFINE k == [j EXCEPT !.todo = {}]
  <2>1. k \in Job /\ k.prices = j.prices /\ k.left = j.left /\ k.map = j.map /\ k.ids = j.ids
    BY <1>1 DEF Job
  <2>2. Held("quotes", k) /\ HandedOn("quotes", k)
    BY <1>1, <2>1 DEF Held, HandedOn, Spent
  <2>3. QED
    BY <1>5, <2>1, <2>2, ToQuotesHandsOn, StoredKept DEF SearchLimited, NamesakeInv
<1>6. QED
  BY <1>3, <1>4, <1>5

LEMMA QuoteHandsOn ==
    ASSUME RecentInv, NamesakeInv, NEW r \in Req, NEW readable \in BOOLEAN, Quote(r, readable)
    PROVE  NamesakeInv'
<1>1. /\ pc[r] = "quotes" /\ job[r] \in Job /\ Held("quotes", job[r]) /\ HandedOn("quotes", job[r])
      /\ Spent(job[r]) \in Nat /\ job[r].prices \in Prices
      /\ job[r].ids \in [Symbol -> Id \cup {None}] /\ UNCHANGED caches
  BY RunsHandedOn DEF Quote
<1> DEFINE Cached(s) == readable /\ job[r].ids[s] # None /\ quote[s] # None
           prices == [s \in Symbol |-> IF Cached(s) THEN quote[s].price ELSE job[r].prices[s]]
           ids == [s \in Symbol |-> IF Cached(s) THEN None ELSE job[r].ids[s]]
           k == [job[r] EXCEPT !.prices = prices, !.ids = ids]
<1>2. Give(r, prices) \/ Continue(r, "ask", k)
  BY DEF Quote
<1>3. ASSUME NEW s \in Symbol, quote[s] # None
      PROVE  /\ quote[s].price \in Price
             /\ quote[s].price.id.coin = "namesake" =>
                    quote[s].price.id.since <= QuoteLife + Spent(job[r])
  <2>1. /\ quote[s].price \in Price /\ quote[s].left \in 1..PriceTTL
        /\ quote[s].price.id.since \in Nat
    BY <1>3 DEF RecentInv, TypeOK, KeptInv, KeptPrice, Price, Id
  <2>2. quote[s].price.id.coin = "namesake" =>
            quote[s].price.id.since <= MapLife + MaxHandler + PriceTTL - quote[s].left
    BY <1>3 DEF NamesakeInv, StoredInv
  <2>3. MapLife + MaxHandler + PriceTTL - quote[s].left <= QuoteLife + Spent(job[r])
    BY <1>1, <2>1, Lives
  <2>4. QED
    BY <1>1, <2>1, <2>2, <2>3, Lives
<1>4. prices \in Prices
  BY <1>1, <1>3 DEF Prices
<1>5. PricesSince(QuoteLife + Spent(job[r]), prices)
  BY <1>1, <1>3 DEF PricesSince, HandedOn
<1>6. IdsSince(MapLife + Spent(job[r]), ids)
  BY <1>1 DEF IdsSince, HandedOn
<1> HIDE DEF prices, ids
<1>7. CASE Give(r, prices)
  BY <1>1, <1>4, <1>5, <1>7, HandedOnGiven, GiveHandsOn, StoredKept DEF NamesakeInv
<1>8. CASE Continue(r, "ask", k)
  <2>1. k.prices = prices /\ k.left = job[r].left /\ k.ids = ids /\ k.map = job[r].map
    BY <1>1 DEF Job
  <2>2. HandedOn("ask", k)
    BY <1>1, <1>5, <1>6, <2>1 DEF HandedOn, Spent
  <2>3. QED
    BY <1>1, <1>8, <2>2, ContinueHandsOn, StoredKept DEF NamesakeInv
<1>9. QED
  BY <1>2, <1>7, <1>8

LEMMA QuotesArriveHandsOn ==
    ASSUME RecentInv, NamesakeInv, NEW r \in Req, QuotesArrive(r)
    PROVE  NamesakeInv'
<1>1. /\ pc[r] = "ask" /\ job[r] \in Job /\ Held("ask", job[r]) /\ HandedOn("ask", job[r])
      /\ Spent(job[r]) \in Nat /\ job[r].prices \in Prices
      /\ job[r].ids \in [Symbol -> Id \cup {None}] /\ UNCHANGED caches
  BY RunsHandedOn DEF QuotesArrive
<1> DEFINE prices == [s \in Symbol |-> IF job[r].ids[s] # None THEN Now(job[r].ids[s])
                                       ELSE job[r].prices[s]]
           k == [job[r] EXCEPT !.prices = prices]
<1>2. Give(r, prices) \/ Continue(r, "keepQuotes", k)
  BY DEF QuotesArrive
<1>3. ASSUME NEW s \in Symbol, job[r].ids[s] # None
      PROVE  /\ Now(job[r].ids[s]) \in Price /\ Now(job[r].ids[s]).id = job[r].ids[s]
             /\ job[r].ids[s].coin = "namesake" =>
                    /\ job[r].ids[s].since <= MapLife + Spent(job[r])
                    /\ job[r].ids[s].since <= QuoteLife + Spent(job[r])
  <2>1. job[r].ids[s] \in Id /\ job[r].ids[s].since \in Nat
    BY <1>1, <1>3 DEF Id
  <2>2. job[r].ids[s].coin = "namesake" => job[r].ids[s].since <= MapLife + Spent(job[r])
    BY <1>1, <1>3 DEF HandedOn, IdsSince
  <2>3. QED
    BY <1>1, <2>1, <2>2, Lives DEF Now, Price
<1>4. prices \in Prices
  BY <1>1, <1>3 DEF Prices
<1>5. PricesSince(QuoteLife + Spent(job[r]), prices)
  BY <1>1, <1>3 DEF PricesSince, HandedOn
<1>6. \A s \in Symbol : (job[r].ids[s] # None /\ prices[s].id.coin = "namesake") =>
         prices[s].id.since <= MapLife + Spent(job[r])
  BY <1>3
<1> HIDE DEF prices
<1>7. CASE Give(r, prices)
  BY <1>1, <1>4, <1>5, <1>7, HandedOnGiven, GiveHandsOn, StoredKept DEF NamesakeInv
<1>8. CASE Continue(r, "keepQuotes", k)
  <2>1. k.prices = prices /\ k.left = job[r].left /\ k.ids = job[r].ids /\ k.map = job[r].map
    BY <1>1 DEF Job
  <2>2. HandedOn("keepQuotes", k)
    BY <1>1, <1>5, <1>6, <2>1 DEF HandedOn, Spent
  <2>3. QED
    BY <1>1, <1>8, <2>2, ContinueHandsOn, StoredKept DEF NamesakeInv
<1>9. QED
  BY <1>2, <1>7, <1>8

\* Some of the prices asked for are stored.
LEMMA StoreQuotesHandsOn ==
    ASSUME RecentInv, NamesakeInv, NEW r \in Req, pc[r] = "keepQuotes",
           NEW S \in SUBSET Asked(r), StoreQuotes(r, S), UNCHANGED <<binance, map>>
    PROVE  StoredInv'
<1>1. /\ job[r] \in Job /\ Held("keepQuotes", job[r]) /\ HandedOn("keepQuotes", job[r])
      /\ Spent(job[r]) \in Nat /\ Spent(job[r]) <= MaxHandler /\ job[r].prices \in Prices
  BY RunsHandedOn
<1>2. ASSUME NEW s \in Symbol, quote'[s] # None, quote'[s].price.id.coin = "namesake"
      PROVE  quote'[s].price.id.since <= MapLife + MaxHandler + PriceTTL - quote'[s].left
  <2>1. CASE quote'[s] = quote[s]
    BY <1>2, <2>1 DEF NamesakeInv, StoredInv
  <2>2. CASE /\ job[r].ids[s] # None
             /\ quote'[s] = [price |-> job[r].prices[s], left |-> PriceTTL]
    <3>1. job[r].prices[s] \in Price /\ job[r].prices[s].id.since \in Nat
      BY <1>1, <2>2 DEF Held, Prices, Price, Id
    <3>2. job[r].prices[s].id.since <= MapLife + Spent(job[r])
      BY <1>1, <1>2, <2>2 DEF HandedOn
    <3>3. job[r].prices[s].id.since <= MapLife + MaxHandler + PriceTTL - PriceTTL
      BY <1>1, <3>1, <3>2, Lives
    <3>4. QED
      BY <2>2, <3>3
  <2>3. QED
    BY <2>1, <2>2 DEF StoreQuotes, Asked, RecentInv, TypeOK
<1>3. QED
  BY <1>2 DEF NamesakeInv, StoredInv, AllLargest

LEMMA KeepQuotesHandsOn ==
    ASSUME RecentInv, NamesakeInv, NEW r \in Req, NEW stored \in BOOLEAN, KeepQuotes(r, stored)
    PROVE  NamesakeInv'
<1>1. /\ pc[r] = "keepQuotes" /\ job[r] \in Job /\ Held("keepQuotes", job[r])
      /\ HandedOn("keepQuotes", job[r]) /\ job[r].prices \in Prices
  BY RunsHandedOn DEF KeepQuotes
<1>2. HandedOnInv' /\ NamesakesFadeOut'
  BY <1>1, HandedOnGiven, GiveHandsOn DEF KeepQuotes, HandedOn
<1>3. (IF stored THEN Asked(r) ELSE {}) \in SUBSET Asked(r)
  OBVIOUS
<1>4. StoredInv'
  BY <1>1, <1>3, StoreQuotesHandsOn DEF KeepQuotes
<1>5. QED
  BY <1>2, <1>4 DEF NamesakeInv

LEMMA RaiseHandsOn ==
    ASSUME RecentInv, NamesakeInv, NEW r \in Req, Raise(r)
    PROVE  HandedOnInv' /\ NamesakesFadeOut'
<1>1. /\ pc' = [pc EXCEPT ![r] = "idle"] /\ job' = [job EXCEPT ![r] = None] /\ given' = Raised
      /\ pc \in [Req -> {"idle"} \cup Running] /\ job \in [Req -> Job \cup {None}]
  BY DEF Raise, Give, Goto, RecentInv, TypeOK
<1>2. ASSUME NEW q \in Req, job'[q] # None
      PROVE  HandedOn(pc'[q], job'[q])
  BY <1>1, <1>2 DEF NamesakeInv, HandedOnInv
<1>3. HandedOnInv'
  BY <1>2 DEF HandedOnInv, HandedOn, Spent, IdsSince, PricesSince, AllLargest
<1>4. QED
  BY <1>1, <1>3 DEF NamesakesFadeOut, Returned

LEMMA GarbledHandsOn ==
    ASSUME RecentInv, NamesakeInv, NEW r \in Req, AnswerGarbled(r) \/ QuotesGarbled(r)
    PROVE  NamesakeInv'
<1>1. HandedOnInv' /\ NamesakesFadeOut'
  BY RaiseHandsOn DEF AnswerGarbled, QuotesGarbled
<1>2. StoredInv'
  <2>1. CASE AnswerGarbled(r)
    BY <2>1, StoredKept DEF AnswerGarbled, NamesakeInv
  <2>2. CASE QuotesGarbled(r)
    <3>1. PICK S \in SUBSET Asked(r) : StoreQuotes(r, S)
      BY <2>2 DEF QuotesGarbled
    <3>2. QED
      BY <2>2, <3>1, StoreQuotesHandsOn DEF QuotesGarbled
  <2>3. QED
    BY <2>1, <2>2
<1>3. QED
  BY <1>1, <1>2 DEF NamesakeInv

\* Time passes for an id, a price and a map.
LEMMA OlderSince ==
    /\ \A id \in Id : OlderId(id).coin = id.coin /\ OlderId(id).since <= id.since + 1
    /\ \A m \in SymbolMap : OlderMap(m).since <= m.since + 1
    /\ \A p \in Price : Older(p).id = OlderId(p.id)
<1>1. None \notin Price
  BY NoneIsNothing
<1>2. ASSUME NEW id \in Id
      PROVE  OlderId(id).coin = id.coin /\ OlderId(id).since <= id.since + 1
  BY DEF OlderId, Id
<1>3. ASSUME NEW m \in SymbolMap
      PROVE  OlderMap(m).since <= m.since + 1
  BY DEF OlderMap, SymbolMap
<1>4. ASSUME NEW p \in Price
      PROVE  Older(p).id = OlderId(p.id)
  BY <1>1, <1>4 DEF Older
<1>5. QED
  BY <1>2, <1>3, <1>4

LEMMA OlderIdsSince ==
    ASSUME NEW ids \in [Symbol -> Id \cup {None}], NEW n \in Nat, IdsSince(n, ids)
    PROVE  IdsSince(n + 1, [s \in Symbol |-> OlderId(ids[s])])
<1> DEFINE later == [s \in Symbol |-> OlderId(ids[s])]
<1>1. ASSUME NEW s \in Symbol, later[s] # None, later[s].coin = "namesake"
      PROVE  later[s].since <= n + 1
  <2>1. ids[s] \in Id /\ later[s] = OlderId(ids[s]) /\ ids[s] # None
    BY <1>1, OlderTypes DEF OlderId
  <2>2. ids[s].coin = "namesake" /\ ids[s].since \in Nat /\ later[s].since \in Nat
    BY <1>1, <2>1, OlderSince, OlderTypes DEF Id
  <2>3. ids[s].since <= n
    BY <2>1, <2>2 DEF IdsSince
  <2>4. later[s].since <= ids[s].since + 1
    BY <2>1, OlderSince
  <2>5. QED
    BY <2>2, <2>3, <2>4
<1>2. QED
  BY <1>1 DEF IdsSince

LEMMA OlderPriceSince ==
    ASSUME NEW prices \in Prices, NEW s \in Symbol, prices[s] # None
    PROVE  /\ OlderAll(prices)[s].id.coin = prices[s].id.coin
           /\ \A n \in Nat : prices[s].id.since <= n => OlderAll(prices)[s].id.since <= n + 1
<1>1. prices[s] \in Price /\ prices[s].id \in Id /\ OlderAll(prices)[s].id = OlderId(prices[s].id)
  BY OlderSince DEF Prices, Price, OlderAll
<1>2. prices[s].id.since \in Nat /\ OlderId(prices[s].id).since \in Nat
  BY <1>1, OlderTypes DEF Id
<1>3. QED
  BY <1>1, <1>2, OlderSince

LEMMA OlderPricesSince ==
    ASSUME NEW prices \in Prices
    PROVE  /\ \A n \in Nat : PricesSince(n, prices) => PricesSince(n + 1, OlderAll(prices))
           /\ AllLargest(prices) => AllLargest(OlderAll(prices))
<1>1. \A s \in Symbol : OlderAll(prices)[s] # None => prices[s] # None
  BY OlderPrices
<1>2. QED
  BY <1>1, OlderPriceSince DEF PricesSince, AllLargest

\* Time passes for a lookup at hand: what it holds is as much older as it is.
LEMMA TickJobHandsOn ==
    ASSUME RecentInv, NamesakeInv, Tick, NEW r \in Req, job'[r] # None
    PROVE  HandedOn(pc[r], job'[r])
<1> DEFINE j == job[r]
           k == job'[r]
<1>1. /\ j # None /\ pc[r] # "idle" /\ r \in InFlight /\ j.left > 0
      /\ k = [j EXCEPT !.left = @ - 1, !.prices = OlderAll(@), !.map = OlderMap(@),
                       !.ids = [s \in Symbol |-> OlderId(@[s])]]
  BY DEF Tick, RecentInv, TypeOK, LookupsInv, InFlight
<1>2. /\ j \in Job /\ Held(pc[r], j) /\ HandedOn(pc[r], j) /\ Spent(j) \in Nat /\ j.left \in Nat
      /\ j.prices \in Prices /\ j.ids \in [Symbol -> Id \cup {None}]
      /\ j.map \in SymbolMap \cup {None}
  BY <1>1, RunsHandedOn
<1>3. /\ k.left = j.left - 1 /\ k.prices = OlderAll(j.prices) /\ k.map = OlderMap(j.map)
      /\ k.ids = [s \in Symbol |-> OlderId(j.ids[s])]
  BY <1>1, <1>2 DEF Job
<1> HIDE DEF k
<1>4. Spent(k) = Spent(j) + 1 /\ Spent(k) \in Nat
  BY <1>2, <1>3, Lives DEF Spent
<1>5. IdsSince(MapLife + Spent(k), k.ids)
  <2>1. IdsSince(MapLife + Spent(j), j.ids) /\ MapLife + Spent(j) \in Nat
    BY <1>2, Lives DEF HandedOn
  <2>2. IdsSince(MapLife + Spent(j) + 1, k.ids)
    BY <1>2, <1>3, <2>1, OlderIdsSince
  <2>3. MapLife + Spent(j) + 1 = MapLife + Spent(k)
    BY <1>2, <1>4, Lives
  <2>4. QED
    BY <2>2, <2>3
<1>6. PricesSince(QuoteLife + Spent(k), k.prices)
  <2>1. PricesSince(QuoteLife + Spent(j), j.prices) /\ QuoteLife + Spent(j) \in Nat
    BY <1>2, Lives DEF HandedOn
  <2>2. PricesSince(QuoteLife + Spent(j) + 1, k.prices)
    BY <1>2, <1>3, <2>1, OlderPricesSince
  <2>3. QuoteLife + Spent(j) + 1 = QuoteLife + Spent(k)
    BY <1>2, <1>4, Lives
  <2>4. QED
    BY <2>2, <2>3
<1>7. pc[r] = "keepBinance" => AllLargest(k.prices)
  BY <1>2, <1>3, OlderPricesSince DEF HandedOn
<1>8. k.map # None => k.map.since <= (IF pc[r] = "keepMap" THEN 0 ELSE MapLife) + Spent(k)
  <2>1. SUFFICES ASSUME k.map # None
                 PROVE  k.map.since <= (IF pc[r] = "keepMap" THEN 0 ELSE MapLife) + Spent(k)
    OBVIOUS
  <2>2. j.map \in SymbolMap /\ j.map # None
    BY <1>2, <1>3, <2>1 DEF OlderMap
  <2>3. /\ j.map.since \in Nat /\ k.map.since <= j.map.since + 1 /\ k.map.since \in Nat
    <3>1. k.map \in SymbolMap
      BY <1>3, <2>1, <2>2, OlderTypes
    <3>2. QED
      BY <1>3, <2>2, <3>1, OlderSince DEF SymbolMap
  <2>4. j.map.since <= (IF pc[r] = "keepMap" THEN 0 ELSE MapLife) + Spent(j)
    BY <1>2, <2>2 DEF HandedOn
  <2>5. QED
    BY <1>2, <1>4, <2>3, <2>4, Lives
<1>9. pc[r] = "keepQuotes" => \A s \in Symbol :
         (k.ids[s] # None /\ k.prices[s].id.coin = "namesake") =>
             k.prices[s].id.since <= MapLife + Spent(k)
  <2>1. SUFFICES ASSUME pc[r] = "keepQuotes", NEW s \in Symbol, k.ids[s] # None,
                        k.prices[s].id.coin = "namesake"
                 PROVE  k.prices[s].id.since <= MapLife + Spent(k)
    OBVIOUS
  <2>2. j.ids[s] # None
    BY <1>3, <2>1 DEF OlderId
  <2>3. j.prices[s] # None
    BY <1>2, <2>1, <2>2 DEF Held
  <2>4. j.prices[s].id.coin = "namesake"
    BY <1>2, <1>3, <2>1, <2>3, OlderPriceSince
  <2>5. j.prices[s].id.since <= MapLife + Spent(j) /\ MapLife + Spent(j) \in Nat
    BY <1>2, <2>1, <2>2, <2>4, Lives DEF HandedOn
  <2>6. k.prices[s].id.since <= MapLife + Spent(j) + 1
    BY <1>2, <1>3, <2>3, <2>5, OlderPriceSince
  <2>7. MapLife + Spent(j) + 1 = MapLife + Spent(k)
    BY <1>2, <1>4, Lives
  <2>8. QED
    BY <2>6, <2>7
<1>10. QED
  BY <1>5, <1>6, <1>7, <1>8, <1>9 DEF HandedOn, k

\* Time passes for what is kept.
LEMMA TickStored ==
    ASSUME RecentInv, NamesakeInv, Tick
    PROVE  StoredInv'
<1>1. ASSUME binance' # None
      PROVE  AllLargest(binance'.prices)
  <2>1. binance # None /\ binance'.prices = OlderAll(binance.prices)
    BY <1>1 DEF Tick, SpentInRedis
  <2>2. binance.prices \in Prices /\ AllLargest(binance.prices)
    BY <2>1 DEF RecentInv, TypeOK, KeptPrices, NamesakeInv, StoredInv
  <2>3. QED
    BY <2>1, <2>2, OlderPricesSince
<1>2. ASSUME NEW k \in Store, map'[k] # None
      PROVE  /\ map'[k].left <= MapTTL /\ (k = "redis" => map'[k].left > 0)
             /\ map'[k].map.since <= MapTTL - map'[k].left
                                     + (IF k = "redis" THEN MaxHandler ELSE 0)
  <2>1. /\ map[k] # None /\ (k = "redis" => ~(map[k].left <= 1))
        /\ map'[k] = [map |-> OlderMap(map[k].map), left |-> map[k].left - 1]
    BY <1>2 DEF Tick, SpentInRedis, SpentInMemo
  <2>2. map[k].map \in SymbolMap /\ map[k].left \in Nat
    BY <2>1 DEF RecentInv, TypeOK, KeptMap
  <2>3. /\ map[k].left <= MapTTL
        /\ map[k].map.since <= MapTTL - map[k].left + (IF k = "redis" THEN MaxHandler ELSE 0)
    BY <2>1 DEF NamesakeInv, StoredInv
  <2>4. /\ OlderMap(map[k].map).since <= map[k].map.since + 1 /\ map[k].map.since \in Nat
        /\ OlderMap(map[k].map).since \in Nat
    <3>1. OlderMap(map[k].map) \in SymbolMap
      BY <2>2, OlderTypes, NoneIsNothing
    <3>2. QED
      BY <2>2, <3>1, OlderSince DEF SymbolMap
  <2>5. QED
    BY <2>1, <2>2, <2>3, <2>4, Lives
<1>3. ASSUME NEW s \in Symbol, quote'[s] # None, quote'[s].price.id.coin = "namesake"
      PROVE  quote'[s].price.id.since <= MapLife + MaxHandler + PriceTTL - quote'[s].left
  <2>1. /\ quote[s] # None
        /\ quote'[s] = [price |-> Older(quote[s].price), left |-> quote[s].left - 1]
    BY <1>3 DEF Tick, SpentInRedis
  <2>2. /\ quote[s].price \in Price /\ quote[s].price.id \in Id /\ quote[s].price.id.since \in Nat
        /\ quote[s].left \in 1..PriceTTL
    BY <2>1 DEF RecentInv, TypeOK, KeptInv, KeptPrice, Price, Id
  <2>3. quote'[s].price.id = OlderId(quote[s].price.id)
    BY <2>1, <2>2, OlderSince
  <2>4. /\ quote'[s].price.id.since <= quote[s].price.id.since + 1
        /\ quote'[s].price.id.since \in Nat /\ quote[s].price.id.coin = "namesake"
    BY <1>3, <2>2, <2>3, OlderSince, OlderTypes DEF Id
  <2>5. quote[s].price.id.since <= MapLife + MaxHandler + PriceTTL - quote[s].left
    BY <2>1, <2>4 DEF NamesakeInv, StoredInv
  <2>6. quote'[s].left = quote[s].left - 1
    BY <2>1
  <2>7. QED
    BY <2>2, <2>4, <2>5, <2>6, Lives
<1>4. QED
  BY <1>1, <1>2, <1>3 DEF StoredInv, AllLargest

LEMMA TickHandsOn ==
    ASSUME RecentInv, NamesakeInv, Tick
    PROVE  NamesakeInv'
<1>1. HandedOnInv'
  <2>1. pc' = pc
    BY DEF Tick
  <2>2. \A r \in Req : job'[r] # None => HandedOn(pc[r], job'[r])
    BY TickJobHandsOn
  <2>3. QED
    BY <2>1, <2>2 DEF HandedOnInv, HandedOn, Spent, IdsSince, PricesSince, AllLargest
<1>2. NamesakesFadeOut'
  BY DEF Tick, NamesakesFadeOut, Returned
<1>3. QED
  BY <1>1, <1>2, TickStored DEF NamesakeInv

LEMMA InitNamesake == Init => NamesakeInv
BY DEF Init, NamesakeInv, HandedOnInv, StoredInv, NamesakesFadeOut, Returned, Nothing

-----------------------------------------------------------------------------
(* The theorems. *)

LEMMA NextRecent ==
    ASSUME RecentInv, [Next]_vars
    PROVE  RecentInv'
<1>1. ASSUME NEW r \in Req, NEW p \in Process, NEW redis \in BOOLEAN, Begin(r, p, redis)
      PROVE  RecentInv'
  BY <1>1, BeginRecent
<1>2. ASSUME NEW r \in Req, Advance(r)
      PROVE  RecentInv'
  <2>1. CASE ListFails(r) \/ QuotesFail(r)
    BY <2>1, GiveAsIs DEF ListFails, QuotesFail
  <2>2. CASE \E done \in BOOLEAN : KeepBinance(r, done) \/ KeepMap(r, done) \/ KeepQuotes(r, done)
    BY <2>2, KeepBinanceRecent, KeepMapRecent, KeepQuotesRecent
  <2>3. CASE \E done \in BOOLEAN : Recall(r, done) \/ Quote(r, done)
    BY <2>3, RecallRecent, QuoteRecent
  <2>4. CASE PageArrives(r) \/ PageFails(r) \/ ListArrives(r)
    BY <2>4, PageRecent
  <2>5. CASE MapCached(r) \/ MapRemembered(r) \/ MapUnknown(r)
    BY <2>5, MapRecent
  <2>6. CASE BinanceCached(r) \/ BinanceNotCached(r) \/ FetchBinance(r) \/ FetchBinanceFails(r)
    BY <2>6, BinanceRecent
  <2>7. CASE VenueAnswers(r) \/ VenueFails(r)
    BY <2>7, VenueRecent
  <2>8. CASE (\E done \in BOOLEAN : SearchAnswers(r, done)) \/ SearchFails(r) \/ SearchLimited(r)
    BY <2>8, SearchRecent
  <2>9. CASE QuotesArrive(r)
    BY <2>9, QuotesArriveRecent
  <2>10. CASE AnswerGarbled(r) \/ QuotesGarbled(r)
    BY <2>10, GarbledRecent
  <2>11. QED
    BY <1>2, <2>1, <2>2, <2>3, <2>4, <2>5, <2>6, <2>7, <2>8, <2>9, <2>10 DEF Advance
<1>3. CASE Tick
  BY <1>3, TickLookups, TickCaches, RecentIs
<1>4. CASE UNCHANGED vars
  BY <1>4 DEF vars, RecentInv, TypeOK, LookupsInv, Held, AtMost, Spent, KeptInv, PricesAreRecent,
              Returned
<1>5. QED
  BY <1>1, <1>2, <1>3, <1>4 DEF Next

\* RecentInv is an inductive invariant: how old what a lookup holds, and what
\* the caches keep, can be.
THEOREM RecentHolds == Spec => []RecentInv
<1>1. Init => RecentInv
  BY InitRecent
<1>2. RecentInv /\ [Next]_vars => RecentInv'
  BY NextRecent
<1>3. QED
  BY <1>1, <1>2, PTL DEF Spec

\* However lookups and caches overlap and whatever fails, a price that
\* get_usd_prices returns is no older than the longer time to live and two
\* lookups.
THEOREM PricesTheorem == Spec => []PricesAreRecent
<1>1. RecentInv => PricesAreRecent
  BY DEF RecentInv
<1>2. QED
  BY <1>1, RecentHolds, PTL

LEMMA NextHandsOn ==
    ASSUME RecentInv, NamesakeInv, [Next]_vars
    PROVE  NamesakeInv'
<1>1. ASSUME NEW r \in Req, NEW p \in Process, NEW redis \in BOOLEAN, Begin(r, p, redis)
      PROVE  NamesakeInv'
  BY <1>1, BeginHandsOn
<1>2. ASSUME NEW r \in Req, Advance(r)
      PROVE  NamesakeInv'
  <2>1. CASE ListFails(r) \/ QuotesFail(r)
    BY <2>1, HandsOnAsIs DEF ListFails, QuotesFail
  <2>2. CASE \E done \in BOOLEAN : KeepBinance(r, done) \/ KeepMap(r, done) \/ KeepQuotes(r, done)
    BY <2>2, KeepBinanceHandsOn, KeepMapHandsOn, KeepQuotesHandsOn
  <2>3. CASE \E done \in BOOLEAN : Recall(r, done) \/ Quote(r, done)
    BY <2>3, RecallHandsOn, QuoteHandsOn
  <2>4. CASE PageArrives(r) \/ PageFails(r) \/ ListArrives(r)
    BY <2>4, PageHandsOn
  <2>5. CASE MapCached(r) \/ MapRemembered(r) \/ MapUnknown(r)
    BY <2>5, MapHandsOn
  <2>6. CASE BinanceCached(r) \/ BinanceNotCached(r) \/ FetchBinance(r) \/ FetchBinanceFails(r)
    BY <2>6, BinanceHandsOn
  <2>7. CASE VenueAnswers(r) \/ VenueFails(r)
    BY <2>7, VenueHandsOn
  <2>8. CASE (\E done \in BOOLEAN : SearchAnswers(r, done)) \/ SearchFails(r) \/ SearchLimited(r)
    BY <2>8, SearchHandsOn
  <2>9. CASE QuotesArrive(r)
    BY <2>9, QuotesArriveHandsOn
  <2>10. CASE AnswerGarbled(r) \/ QuotesGarbled(r)
    BY <2>10, GarbledHandsOn
  <2>11. QED
    BY <1>2, <2>1, <2>2, <2>3, <2>4, <2>5, <2>6, <2>7, <2>8, <2>9, <2>10 DEF Advance
<1>3. CASE Tick
  BY <1>3, TickHandsOn
<1>4. CASE UNCHANGED vars
  BY <1>4 DEF vars, NamesakeInv, HandedOnInv, HandedOn, Spent, IdsSince, PricesSince, AllLargest,
              StoredInv, NamesakesFadeOut, Returned
<1>5. QED
  BY <1>1, <1>2, <1>3, <1>4 DEF Next

\* NamesakeInv is inductive together with RecentInv: how long ago the list
\* came that what is held and kept goes back to.
THEOREM NamesakeHolds == Spec => []NamesakeInv
<1>1. Init => NamesakeInv
  BY InitNamesake
<1>2. RecentInv /\ NamesakeInv /\ [Next]_vars => NamesakeInv'
  BY NextHandsOn
<1>3. QED
  BY <1>1, <1>2, RecentHolds, PTL DEF Spec

\* Whatever the sources answer and whenever they fail, the price of a namesake,
\* which only the alphabetical list can bring, is given no longer after the
\* list came than the symbol map and then the price live, and three lookups.
THEOREM NamesakesTheorem == Spec => []NamesakesFadeOut
<1>1. NamesakeInv => NamesakesFadeOut
  BY DEF NamesakeInv
<1>2. QED
  BY <1>1, NamesakeHolds, PTL

-----------------------------------------------------------------------------
(* What every step does to the lookups: one of them moves, the others stay. *)

Moves(r) == \/ \E place, j : place # "idle" /\ Continue(r, place, j)
            \/ \E prices : Give(r, prices)

LEMMA ToQuotesMoves == \A r, j : ToQuotes(r, j) => Moves(r)
BY DEF ToQuotes, Moves

LEMMA TakeMoves == \A r, j, prices : Take(r, j, prices) => Moves(r)
BY DEF Take, Moves

LEMMA MapMoves == \A r, j, m : UseMap(r, j, m) \/ MakeMap(r, j, m) => Moves(r)
BY DEF UseMap, MakeMap, Moves

LEMMA NextSearchMoves == \A r, j, i : NextSearch(r, j, i) => Moves(r)
BY ToQuotesMoves DEF NextSearch, Moves

LEMMA AdvanceMoves ==
    ASSUME NEW r \in Req, Advance(r)
    PROVE  Moves(r)
<1>1. CASE VenueAnswers(r) \/ VenueFails(r)
  BY <1>1 DEF VenueAnswers, VenueFails, Global, Moves
<1>2. CASE BinanceCached(r) \/ BinanceNotCached(r) \/ FetchBinance(r) \/ FetchBinanceFails(r)
  BY <1>2, TakeMoves DEF BinanceCached, BinanceNotCached, FetchBinance, FetchBinanceFails, Moves
<1>3. CASE MapCached(r) \/ MapRemembered(r) \/ MapUnknown(r)
  BY <1>3, MapMoves DEF MapCached, MapRemembered, MapUnknown, Moves
<1>4. CASE PageArrives(r) \/ PageFails(r) \/ ListArrives(r) \/ ListFails(r)
  BY <1>4, MapMoves DEF PageArrives, PageFails, ListArrives, ListFails, Moves
<1>5. CASE SearchFails(r) \/ SearchLimited(r) \/ \E done \in BOOLEAN : SearchAnswers(r, done)
  BY <1>5, NextSearchMoves, ToQuotesMoves DEF SearchFails, SearchLimited, SearchAnswers
<1>6. CASE QuotesArrive(r) \/ QuotesFail(r)
  BY <1>6 DEF QuotesArrive, QuotesFail, Moves
<1>7. CASE \E done \in BOOLEAN : KeepBinance(r, done) \/ KeepMap(r, done) \/ KeepQuotes(r, done)
  BY <1>7, TakeMoves, MapMoves DEF KeepBinance, KeepMap, KeepQuotes, Moves
<1>8. CASE \E done \in BOOLEAN : Recall(r, done) \/ Quote(r, done)
  <2>1. CASE \E done \in BOOLEAN : Recall(r, done)
    BY <2>1, ToQuotesMoves DEF Recall, Moves
  <2>2. CASE \E done \in BOOLEAN : Quote(r, done)
    BY <2>2 DEF Quote, Moves
  <2>3. QED
    BY <1>8, <2>1, <2>2
<1>9. CASE AnswerGarbled(r) \/ QuotesGarbled(r)
  BY <1>9 DEF AnswerGarbled, QuotesGarbled, Raise, Moves
<1>10. QED
  BY <1>1, <1>2, <1>3, <1>4, <1>5, <1>6, <1>7, <1>8, <1>9 DEF Advance

LEMMA OthersStay ==
    ASSUME RecentInv, NEW q \in Req, Moves(q), NEW r \in Req, r # q
    PROVE  pc'[r] = pc[r] /\ job'[r] = job[r]
BY DEF Moves, Continue, Give, Goto, RecentInv, TypeOK

-----------------------------------------------------------------------------
(* No price is lost. *)

\* Until a source has answered a lookup has no prices.
EmptyInv == \A r \in Req : pc[r] \in {"venue", "binance", "fetch"} => job[r].prices = Nothing

\* What NoPriceIsLost says of one lookup.
Kept(r) == \A s \in Symbol : job[r].prices[s] # None =>
               IF job'[r] # None THEN job'[r].prices[s] # None
               ELSE IF given' = Raised THEN AnswerGarbled(r) \/ QuotesGarbled(r)
               ELSE given'[s] # None

LEMMA ContinueKeeps ==
    ASSUME RecentInv, RecentInv', NEW r \in Req, NEW place, place # "idle", NEW j,
           Continue(r, place, j), \A s \in Symbol : job[r].prices[s] # None => j.prices[s] # None
    PROVE  Kept(r)
BY DEF RecentInv, TypeOK, LookupsInv, Continue, Goto, Kept

LEMMA GiveKeeps ==
    ASSUME RecentInv, NEW r \in Req, NEW prices \in Prices, Give(r, prices),
           \A s \in Symbol : job[r].prices[s] # None => prices[s] # None
    PROVE  Kept(r)
BY RaisedIsNothing DEF RecentInv, TypeOK, Give, Kept

LEMMA NothingToKeep ==
    ASSUME NEW r \in Req, job[r].prices = Nothing
    PROVE  Kept(r)
BY DEF Nothing, Kept

LEMMA ToQuotesKeeps ==
    ASSUME RecentInv, RecentInv', NEW r \in Req, NEW j, ToQuotes(r, j), j.prices = job[r].prices,
           j.prices \in Prices
    PROVE  Kept(r)
BY ContinueKeeps, GiveKeeps DEF ToQuotes

LEMMA NextSearchKeeps ==
    ASSUME RecentInv, RecentInv', NEW r \in Req, NEW j \in Job, NEW i, NextSearch(r, j, i),
           j.prices = job[r].prices
    PROVE  Kept(r)
<1> DEFINE k == [j EXCEPT !.todo = @ \ {i}]
<1>1. k.prices = job[r].prices /\ k.prices \in Prices
  BY DEF Job
<1>2. ToQuotes(r, k) \/ Continue(r, "search", k)
  BY DEF NextSearch
<1> HIDE DEF k
<1>3. QED
  BY <1>1, <1>2, ToQuotesKeeps, ContinueKeeps

LEMMA MapKeeps ==
    ASSUME RecentInv, RecentInv', NEW r \in Req, job[r] \in Job,
           NEW m \in SymbolMap, UseMap(r, job[r], m) \/ MakeMap(r, job[r], m)
    PROVE  Kept(r)
<1> DEFINE k == [job[r] EXCEPT !.map = m, !.page = 1]
<1>1. k.prices = job[r].prices
  BY MapChosen
<1>2. Continue(r, "recall", k) \/ Continue(r, "keepMap", k)
  BY DEF UseMap, MakeMap
<1> HIDE DEF k
<1>3. QED
  BY <1>1, <1>2, ContinueKeeps

LEMMA AdvanceKeeps ==
    ASSUME RecentInv, RecentInv', EmptyInv, NEW r \in Req, Advance(r)
    PROVE  Kept(r)
<1> DEFINE j == job[r]
<1>0. pc[r] # "idle" => j \in Job /\ Held(pc[r], j) /\ j.prices \in Prices
                        /\ j.ids \in [Symbol -> Id \cup {None}]
  BY Runs DEF Job
<1>1. CASE \/ VenueAnswers(r) \/ VenueFails(r)
           \/ BinanceCached(r) \/ BinanceNotCached(r) \/ FetchBinance(r) \/ FetchBinanceFails(r)
  BY <1>1, NothingToKeep
  DEF EmptyInv, VenueAnswers, VenueFails, BinanceCached, BinanceNotCached, FetchBinance,
      FetchBinanceFails
<1>2. CASE \E done \in BOOLEAN : KeepBinance(r, done)
  <2>1. pc[r] # "idle" /\ Take(r, j, j.prices)
    BY <1>2 DEF KeepBinance
  <2>2. [j EXCEPT !.prices = j.prices].prices = j.prices
    BY <1>0, <2>1 DEF Job
  <2>3. QED
    BY <1>0, <2>1, <2>2, GiveKeeps, ContinueKeeps DEF Take
<1>3. CASE MapCached(r) \/ MapRemembered(r) \/ MapUnknown(r)
  <2>1. pc[r] # "idle"
    BY <1>3 DEF MapCached, MapRemembered, MapUnknown
  <2>2. CASE MapUnknown(r)
    BY <2>2, ContinueKeeps DEF MapUnknown
  <2>3. CASE MapCached(r)
    <3>1. map["redis"].map \in SymbolMap
      BY <2>3 DEF MapCached, RecentInv, TypeOK, KeptMap, Store
    <3>2. QED
      BY <1>0, <2>1, <2>3, <3>1, MapKeeps DEF MapCached
  <2>4. CASE MapRemembered(r)
    <3>1. map[j.process].map \in SymbolMap
      BY <1>0, <2>1, <2>4 DEF MapRemembered, RecentInv, TypeOK, KeptMap, Store, Job
    <3>2. QED
      BY <1>0, <2>1, <2>4, <3>1, MapKeeps DEF MapRemembered
  <2>5. QED
    BY <1>3, <2>2, <2>3, <2>4
<1>4. CASE PageArrives(r) \/ PageFails(r) \/ ListArrives(r)
  <2>1. pc[r] # "idle"
    BY <1>4 DEF PageArrives, PageFails, ListArrives
  <2>2. /\ [pages |-> Pages, since |-> 0] \in SymbolMap /\ [pages |-> 0, since |-> 0] \in SymbolMap
        /\ j.page > 1 => [pages |-> j.page - 1, since |-> 0] \in SymbolMap
    BY <1>0, <2>1, PriceAssumption DEF SymbolMap, Job
  <2>3. [j EXCEPT !.page = @ + 1].prices = j.prices
    BY <1>0, <2>1 DEF Job
  <2>4. \/ Continue(r, "page", [j EXCEPT !.page = @ + 1])
        \/ MakeMap(r, j, [pages |-> Pages, since |-> 0])
        \/ j.page > 1 /\ MakeMap(r, j, [pages |-> j.page - 1, since |-> 0])
        \/ Continue(r, "list", j)
        \/ MakeMap(r, j, [pages |-> 0, since |-> 0])
    BY <1>4 DEF PageArrives, PageFails, ListArrives
  <2>5. QED
    BY <1>0, <2>1, <2>2, <2>3, <2>4, MapKeeps, ContinueKeeps
<1>5. CASE ListFails(r) \/ QuotesFail(r) \/ \E done \in BOOLEAN : KeepQuotes(r, done)
  BY <1>0, <1>5, GiveKeeps DEF ListFails, QuotesFail, KeepQuotes
<1>6. CASE \E done \in BOOLEAN : KeepMap(r, done)
  <2>1. pc[r] = "keepMap" /\ UseMap(r, j, j.map)
    BY <1>6 DEF KeepMap
  <2>2. j.map \in SymbolMap
    BY <1>0, <2>1 DEF Held, Job
  <2>3. QED
    BY <1>0, <2>1, <2>2, MapKeeps
<1>7. CASE \E done \in BOOLEAN : Recall(r, done)
  <2>1. PICK ids, todo :
          LET k == [j EXCEPT !.map = None, !.ids = ids, !.todo = todo]
          IN ToQuotes(r, k) \/ Continue(r, "search", k)
    BY <1>7 DEF Recall
  <2> DEFINE k == [j EXCEPT !.map = None, !.ids = ids, !.todo = todo]
  <2>2. pc[r] # "idle"
    BY <1>7 DEF Recall
  <2>3. k.prices = j.prices
    BY <1>0, <2>2 DEF Job
  <2> HIDE DEF k
  <2>4. ToQuotes(r, k) \/ Continue(r, "search", k)
    BY <2>1 DEF k
  <2>5. QED
    BY <1>0, <2>2, <2>3, <2>4, ToQuotesKeeps, ContinueKeeps
<1>8. CASE SearchFails(r) \/ SearchLimited(r) \/ \E done \in BOOLEAN : SearchAnswers(r, done)
  <2>1. pc[r] # "idle"
    BY <1>8 DEF SearchFails, SearchLimited, SearchAnswers
  <2>2. CASE SearchLimited(r)
    <3>1. [j EXCEPT !.todo = {}].prices = j.prices
      BY <1>0, <2>1 DEF Job
    <3>2. QED
      BY <1>0, <2>1, <2>2, <3>1, ToQuotesKeeps DEF SearchLimited
  <2>3. CASE \E i : NextSearch(r, j, i)
    BY <1>0, <2>1, <2>3, NextSearchKeeps
  <2>4. ASSUME NEW i \in DOMAIN Assets,
               NextSearch(r, [j EXCEPT !.ids = [@ EXCEPT ![Assets[i]] = Largest]], i)
        PROVE  Kept(r)
    <3> DEFINE k == [j EXCEPT !.ids = [@ EXCEPT ![Assets[i]] = Largest]]
    <3>1. Largest \in Id
      BY DEF Largest, Id, Coin
    <3>2. [j.ids EXCEPT ![Assets[i]] = Largest] \in [Symbol -> Id \cup {None}]
      BY <1>0, <2>1, <3>1
    <3>3. k \in Job /\ k.prices = j.prices
      BY <1>0, <2>1, <3>2 DEF Job
    <3> HIDE DEF k
    <3>4. NextSearch(r, k, i)
      BY <2>4 DEF k
    <3>5. QED
      BY <3>3, <3>4, NextSearchKeeps
  <2>5. First(j.todo) \subseteq DOMAIN Assets
    BY <1>0, <2>1 DEF First, Job
  <2>6. QED
    BY <1>8, <2>2, <2>3, <2>4, <2>5 DEF SearchFails, SearchAnswers
<1>9. CASE \E done \in BOOLEAN : Quote(r, done)
  <2>1. PICK readable \in BOOLEAN : Quote(r, readable)
    BY <1>9
  <2>2. pc[r] # "idle"
    BY <2>1 DEF Quote
  <2> DEFINE Cached(s) == readable /\ j.ids[s] # None /\ quote[s] # None
             prices == [s \in Symbol |-> IF Cached(s) THEN quote[s].price ELSE j.prices[s]]
             ids == [s \in Symbol |-> IF Cached(s) THEN None ELSE j.ids[s]]
             k == [j EXCEPT !.prices = prices, !.ids = ids]
  <2>3. \A s \in Symbol : quote[s] # None => quote[s].price # None /\ quote[s].price \in Price
    BY NoneIsNothing DEF RecentInv, TypeOK, KeptPrice
  <2>4. prices \in Prices /\ \A s \in Symbol : j.prices[s] # None => prices[s] # None
    BY <1>0, <2>2, <2>3 DEF Prices
  <2>5. Give(r, prices) \/ Continue(r, "ask", k)
    BY <2>1 DEF Quote
  <2> HIDE DEF prices, ids
  <2>6. k.prices = prices
    BY <1>0, <2>2 DEF Job
  <2> HIDE DEF k
  <2>7. QED
    BY <2>4, <2>5, <2>6, GiveKeeps, ContinueKeeps
<1>10. CASE QuotesArrive(r)
  <2> DEFINE prices == [s \in Symbol |-> IF j.ids[s] # None THEN Now(j.ids[s]) ELSE j.prices[s]]
             k == [j EXCEPT !.prices = prices]
  <2>1. pc[r] # "idle" /\ (Give(r, prices) \/ Continue(r, "keepQuotes", k))
    BY <1>10 DEF QuotesArrive
  <2>2. \A s \in Symbol : j.ids[s] # None => Now(j.ids[s]) # None /\ Now(j.ids[s]) \in Price
    BY <1>0, <2>1, NoneIsNothing DEF Now, Price
  <2>3. prices \in Prices /\ \A s \in Symbol : j.prices[s] # None => prices[s] # None
    BY <1>0, <2>1, <2>2 DEF Prices
  <2> HIDE DEF prices
  <2>4. k.prices = prices
    BY <1>0, <2>1 DEF Job
  <2> HIDE DEF k
  <2>5. QED
    BY <2>1, <2>3, <2>4, GiveKeeps, ContinueKeeps
<1>11. CASE AnswerGarbled(r) \/ QuotesGarbled(r)
  <2>1. Raise(r)
    BY <1>11 DEF AnswerGarbled, QuotesGarbled
  <2>2. job'[r] = None /\ given' = Raised
    BY <2>1 DEF Raise, Give, RecentInv, TypeOK
  <2>3. QED
    BY <1>11, <2>2 DEF Kept
<1>12. QED
  BY <1>1, <1>2, <1>3, <1>4, <1>5, <1>6, <1>7, <1>8, <1>9, <1>10, <1>11 DEF Advance


LEMMA EmptyStays ==
    ASSUME RecentInv, EmptyInv, NEW r \in Req, NEW place, NEW j,
           Give(r, j) \/ Continue(r, place, j),
           place \in {"venue", "binance", "fetch"} => j.prices = Nothing
    PROVE  EmptyInv'
<1>1. /\ pc \in [Req -> {"idle"} \cup Running] /\ job \in [Req -> Job \cup {None}]
      /\ \/ pc' = [pc EXCEPT ![r] = "idle"] /\ job' = [job EXCEPT ![r] = None]
         \/ pc' = [pc EXCEPT ![r] = place] /\ job' = [job EXCEPT ![r] = j]
  BY DEF Continue, Give, Goto, RecentInv, TypeOK
<1>2. ASSUME NEW q \in Req, pc'[q] \in {"venue", "binance", "fetch"}
      PROVE  job'[q].prices = Nothing
  BY <1>1, <1>2 DEF EmptyInv
<1>3. QED
  BY <1>2 DEF EmptyInv

LEMMA AdvanceEmpty ==
    ASSUME RecentInv, EmptyInv, NEW r \in Req, Advance(r)
    PROVE  EmptyInv'
<1>1. CASE VenueAnswers(r) \/ VenueFails(r) \/ BinanceNotCached(r)
  <2>1. job[r].prices = Nothing
    BY <1>1 DEF EmptyInv, VenueAnswers, VenueFails, BinanceNotCached
  <2>2. QED
    BY <1>1, <2>1, EmptyStays DEF VenueAnswers, VenueFails, BinanceNotCached
<1>2. CASE \E place, j : place \notin {"venue", "binance", "fetch"} /\ Continue(r, place, j)
  BY <1>2, EmptyStays
<1>3. CASE \E prices : Give(r, prices)
  BY <1>3, EmptyStays
<1>4. QED
  <2> DEFINE On == \/ \E place, j : /\ place \notin {"venue", "binance", "fetch"}
                                     /\ Continue(r, place, j)
                   \/ \E prices : Give(r, prices)
  <2>1. /\ \A j : ToQuotes(r, j) => On
        /\ \A j, prices : Take(r, j, prices) => On
        /\ \A j, m : UseMap(r, j, m) => On
        /\ \A j, m : MakeMap(r, j, m) => On
    BY DEF ToQuotes, Take, UseMap, MakeMap
  <2>2. \A j, i : NextSearch(r, j, i) => On
    BY <2>1 DEF NextSearch
  <2>3. CASE \/ BinanceCached(r) \/ FetchBinance(r) \/ FetchBinanceFails(r)
             \/ \E done \in BOOLEAN : KeepBinance(r, done)
    <3>1. On
      BY <2>1, <2>3 DEF BinanceCached, FetchBinance, FetchBinanceFails, KeepBinance
    <3>2. QED
      BY <1>2, <1>3, <3>1
  <2>4. CASE \/ MapCached(r) \/ MapRemembered(r) \/ MapUnknown(r)
             \/ \E done \in BOOLEAN : KeepMap(r, done)
    <3>1. On
      BY <2>1, <2>4 DEF MapCached, MapRemembered, MapUnknown, KeepMap
    <3>2. QED
      BY <1>2, <1>3, <3>1
  <2>5. CASE PageArrives(r) \/ PageFails(r) \/ ListArrives(r) \/ ListFails(r)
    <3>1. On
      BY <2>1, <2>5 DEF PageArrives, PageFails, ListArrives, ListFails
    <3>2. QED
      BY <1>2, <1>3, <3>1
  <2>6. CASE SearchFails(r) \/ SearchLimited(r) \/ \E done \in BOOLEAN : SearchAnswers(r, done)
    <3>1. On
      BY <2>1, <2>2, <2>6 DEF SearchFails, SearchLimited, SearchAnswers
    <3>2. QED
      BY <1>2, <1>3, <3>1
  <2>7. CASE \E done \in BOOLEAN : Recall(r, done)
    <3>1. On
      BY <2>1, <2>7 DEF Recall
    <3>2. QED
      BY <1>2, <1>3, <3>1
  <2>8. CASE \/ QuotesArrive(r) \/ QuotesFail(r)
             \/ \E done \in BOOLEAN : Quote(r, done) \/ KeepQuotes(r, done)
    <3>1. On
      BY <2>8 DEF QuotesArrive, QuotesFail, Quote, KeepQuotes
    <3>2. QED
      BY <1>2, <1>3, <3>1
  <2>9. CASE AnswerGarbled(r) \/ QuotesGarbled(r)
    BY <1>3, <2>9 DEF AnswerGarbled, QuotesGarbled, Raise
  <2>10. QED
    BY <1>1, <2>3, <2>4, <2>5, <2>6, <2>7, <2>8, <2>9 DEF Advance

LEMMA NextEmpty ==
    ASSUME RecentInv, EmptyInv, [Next]_vars
    PROVE  EmptyInv'
<1>1. ASSUME NEW r \in Req, NEW p \in Process, NEW redis \in BOOLEAN, Begin(r, p, redis)
      PROVE  EmptyInv'
  BY <1>1, EmptyStays DEF Begin
<1>2. ASSUME NEW r \in Req, Advance(r)
      PROVE  EmptyInv'
  BY <1>2, AdvanceEmpty
<1>3. CASE Tick
  <2>1. ASSUME NEW r \in Req, pc[r] \in {"venue", "binance", "fetch"}
        PROVE  job'[r].prices = OlderAll(Nothing)
    <3>1. job[r] \in Job /\ job[r] # None /\ job[r].prices = Nothing
      BY <2>1, Runs, NoneIsNothing DEF EmptyInv
    <3>2. job'[r] = [job[r] EXCEPT !.left = @ - 1, !.prices = OlderAll(@), !.map = OlderMap(@),
                                   !.ids = [s \in Symbol |-> OlderId(@[s])]]
      BY <1>3, <3>1 DEF Tick
    <3>3. QED
      BY <3>1, <3>2 DEF Job
  <2>2. OlderAll(Nothing) = Nothing
    BY DEF OlderAll, Older, Nothing
  <2>3. QED
    BY <1>3, <2>1, <2>2 DEF Tick, EmptyInv
<1>4. CASE UNCHANGED vars
  BY <1>4 DEF vars, EmptyInv
<1>5. QED
  BY <1>1, <1>2, <1>3, <1>4 DEF Next

LEMMA NextKeeps ==
    ASSUME RecentInv, RecentInv', EmptyInv, Next, NEW r \in InFlight
    PROVE  Kept(r)
<1>1. r \in Req /\ pc[r] # "idle" /\ job[r] \in Job /\ job[r] # None /\ job[r].prices \in Prices
  BY Runs, PlacesAre, NoneIsNothing DEF InFlight, Job
<1>2. ASSUME job'[r] = job[r]
      PROVE  Kept(r)
  BY <1>1, <1>2 DEF Kept
<1>3. ASSUME NEW q \in Req, NEW p \in Process, NEW redis \in BOOLEAN, Begin(q, p, redis)
      PROVE  Kept(r)
  <2>1. q # r /\ Moves(q)
    BY <1>1, <1>3 DEF Begin, Moves
  <2>2. QED
    BY <1>1, <1>2, <2>1, OthersStay
<1>4. ASSUME NEW q \in Req, Advance(q)
      PROVE  Kept(r)
  <2>1. CASE q = r
    BY <1>4, <2>1, AdvanceKeeps
  <2>2. CASE q # r
    BY <1>1, <1>2, <1>4, <2>2, AdvanceMoves, OthersStay
  <2>3. QED
    BY <2>1, <2>2
<1>5. CASE Tick
  <2>1. job'[r] = [job[r] EXCEPT !.left = @ - 1, !.prices = OlderAll(@), !.map = OlderMap(@),
                                 !.ids = [s \in Symbol |-> OlderId(@[s])]]
    BY <1>1, <1>5 DEF Tick
  <2>2. job'[r].prices = OlderAll(job[r].prices)
    BY <1>1, <2>1 DEF Job
  <2>3. job'[r] # None
    BY <1>1, <1>5 DEF RecentInv, TypeOK, LookupsInv, Tick
  <2>4. QED
    BY <1>1, <2>2, <2>3, OlderPrices DEF Kept
<1>6. QED
  BY <1>3, <1>4, <1>5 DEF Next

\* EmptyInv is inductive together with RecentInv.
THEOREM EmptyHolds == Spec => []EmptyInv
<1>1. Init => EmptyInv
  BY DEF Init, EmptyInv
<1>2. RecentInv /\ EmptyInv /\ [Next]_vars => EmptyInv'
  BY NextEmpty
<1>3. QED
  BY <1>1, <1>2, RecentHolds, PTL DEF Spec

\* Whatever fails, a price a lookup has found is one it returns: no step of a
\* lookup drops it.  Only an answer that is not of its form, where such are
\* among the faults, ends the lookup in an exception.
THEOREM KeptTheorem == Spec => NoPriceIsLost
<1>1. RecentInv /\ RecentInv' /\ EmptyInv /\ [Next]_vars
      => [\A r \in InFlight, s \in Symbol :
             job[r].prices[s] # None =>
                 IF job'[r] # None THEN job'[r].prices[s] # None
                 ELSE IF given' = Raised THEN AnswerGarbled(r) \/ QuotesGarbled(r)
                 ELSE given'[s] # None]_vars
  BY NextKeeps DEF Kept
<1>2. QED
  BY <1>1, RecentHolds, EmptyHolds, PTL DEF Spec, NoPriceIsLost

-----------------------------------------------------------------------------
(* No call is repeated. *)

\* What NoCallIsRepeated says of one lookup.
Onward(r) == \/ pc'[r] = "idle"
             \/ pc'[r] = pc[r] /\ (job'[r] = job[r] \/ job'[r].left < job[r].left)
             \/ Further(r)

LEMMA Indices ==
    /\ IndexOf("venue") = 1 /\ IndexOf("binance") = 2 /\ IndexOf("fetch") = 3
    /\ IndexOf("keepBinance") = 4 /\ IndexOf("map") = 5 /\ IndexOf("page") = 6
    /\ IndexOf("list") = 7 /\ IndexOf("keepMap") = 8 /\ IndexOf("recall") = 9
    /\ IndexOf("search") = 10 /\ IndexOf("quotes") = 11 /\ IndexOf("ask") = 12
    /\ IndexOf("keepQuotes") = 13
<1>1. DOMAIN Places = 1..13
  BY DEF Places
<1>2. /\ Places[1] = "venue" /\ Places[2] = "binance" /\ Places[3] = "fetch"
      /\ Places[4] = "keepBinance" /\ Places[5] = "map" /\ Places[6] = "page"
      /\ Places[7] = "list" /\ Places[8] = "keepMap" /\ Places[9] = "recall"
      /\ Places[10] = "search" /\ Places[11] = "quotes" /\ Places[12] = "ask"
      /\ Places[13] = "keepQuotes"
  BY DEF Places
<1>3. 1..13 = {1, 2, 3, 4, 5, 6, 7, 8, 9, 10, 11, 12, 13}
  OBVIOUS
<1>4. ASSUME NEW i \in 1..13, NEW k \in 1..13, Places[i] = Places[k]
      PROVE  i = k
  BY <1>2, <1>3, <1>4
<1>5. ASSUME NEW i \in 1..13
      PROVE  IndexOf(Places[i]) = i
  <2>1. IndexOf(Places[i]) \in 1..13 /\ Places[IndexOf(Places[i])] = Places[i]
    BY <1>1 DEF IndexOf
  <2>2. QED
    BY <1>4, <2>1
<1>6. /\ IndexOf(Places[1]) = 1 /\ IndexOf(Places[2]) = 2 /\ IndexOf(Places[3]) = 3
      /\ IndexOf(Places[4]) = 4 /\ IndexOf(Places[5]) = 5 /\ IndexOf(Places[6]) = 6
      /\ IndexOf(Places[7]) = 7 /\ IndexOf(Places[8]) = 8 /\ IndexOf(Places[9]) = 9
      /\ IndexOf(Places[10]) = 10 /\ IndexOf(Places[11]) = 11 /\ IndexOf(Places[12]) = 12
      /\ IndexOf(Places[13]) = 13
  BY <1>5
<1>7. QED
  BY <1>2, <1>6

\* A lookup that returns or gets to a later place.
LEMMA LaterIsOnward ==
    ASSUME RecentInv, NEW r \in Req,
           \/ \E prices : Give(r, prices)
           \/ \E place, j : Continue(r, place, j) /\ IndexOf(place) > IndexOf(pc[r])
    PROVE  Onward(r)
BY DEF RecentInv, TypeOK, Onward, Further, Give, Continue, Goto

LEMMA ToQuotesOnward ==
    ASSUME RecentInv, NEW r \in Req, pc[r] \in {"recall", "search"}, NEW j, ToQuotes(r, j)
    PROVE  Onward(r)
BY LaterIsOnward, Indices DEF ToQuotes

LEMMA MapOnward ==
    ASSUME RecentInv, NEW r \in Req, NEW j, NEW m,
           \/ pc[r] \in {"map", "page", "list", "keepMap"} /\ UseMap(r, j, m)
           \/ pc[r] \in {"map", "page", "list"} /\ MakeMap(r, j, m)
    PROVE  Onward(r)
BY LaterIsOnward, Indices DEF UseMap, MakeMap

LEMMA NextSearchOnward ==
    ASSUME RecentInv, NEW r \in Req, pc[r] = "search", NEW j \in Job, j.todo = job[r].todo,
           NEW i \in j.todo, NextSearch(r, j, i)
    PROVE  Onward(r)
<1> DEFINE k == [j EXCEPT !.todo = @ \ {i}]
<1>1. k.todo = job[r].todo \ {i}
  BY DEF Job
<1>2. IsFiniteSet(job[r].todo)
  <2>1. job[r].todo \subseteq 1..Len(Assets) /\ Len(Assets) \in Nat
    BY PriceAssumption DEF Job
  <2>2. IsFiniteSet(1..Len(Assets))
    BY <2>1, FS_Interval
  <2>3. QED
    BY <2>1, <2>2, FS_Subset
<1>3. Cardinality(k.todo) < Cardinality(job[r].todo)
  <2>1. Cardinality(job[r].todo \ {i}) = Cardinality(job[r].todo) - 1
    BY <1>2, FS_RemoveElement
  <2>2. Cardinality(job[r].todo) \in Nat
    BY <1>2, FS_CardinalityType
  <2>3. QED
    BY <1>1, <2>1, <2>2
<1>4. ToQuotes(r, k) \/ Continue(r, "search", k)
  BY DEF NextSearch
<1> HIDE DEF k
<1>5. CASE ToQuotes(r, k)
  BY <1>5, ToQuotesOnward
<1>6. CASE Continue(r, "search", k)
  BY <1>3, <1>6 DEF RecentInv, TypeOK, Onward, Further, Continue, Goto
<1>7. QED
  BY <1>4, <1>5, <1>6

LEMMA AdvanceOnward ==
    ASSUME RecentInv, NEW r \in Req, Advance(r)
    PROVE  Onward(r)
<1> DEFINE j == job[r]
<1>0. pc[r] # "idle" => j \in Job
  BY Runs
<1>1. CASE VenueAnswers(r) \/ VenueFails(r)
  BY <1>1, LaterIsOnward, Indices DEF VenueAnswers, VenueFails, Global
<1>2. CASE BinanceCached(r) \/ BinanceNotCached(r) \/ FetchBinance(r) \/ FetchBinanceFails(r)
  BY <1>2, LaterIsOnward, Indices
  DEF BinanceCached, BinanceNotCached, FetchBinance, FetchBinanceFails, Take
<1>3. CASE \E done \in BOOLEAN : KeepBinance(r, done)
  BY <1>3, LaterIsOnward, Indices DEF KeepBinance, Take
<1>4. CASE \/ MapCached(r) \/ MapRemembered(r) \/ MapUnknown(r)
           \/ \E done \in BOOLEAN : KeepMap(r, done)
  BY <1>4, MapOnward, LaterIsOnward, Indices DEF MapCached, MapRemembered, MapUnknown, KeepMap
<1>5. CASE PageFails(r) \/ ListArrives(r) \/ ListFails(r)
  BY <1>5, MapOnward, LaterIsOnward, Indices DEF PageFails, ListArrives, ListFails
<1>6. CASE PageArrives(r)
  <2>1. CASE Continue(r, "page", [j EXCEPT !.page = @ + 1])
    <3>1. [j EXCEPT !.page = @ + 1].page = j.page + 1 /\ j.page \in Int /\ pc[r] = "page"
      BY <1>0, <1>6, PriceAssumption DEF PageArrives, Job
    <3>2. pc'[r] = pc[r] /\ job'[r].page > job[r].page
      BY <2>1, <3>1 DEF Continue, Goto, RecentInv, TypeOK
    <3>3. QED
      BY <3>2 DEF Onward, Further
  <2>2. QED
    BY <1>6, <2>1, MapOnward DEF PageArrives
<1>7. CASE \E done \in BOOLEAN : Recall(r, done)
  BY <1>7, ToQuotesOnward, LaterIsOnward, Indices DEF Recall
<1>8. CASE SearchFails(r) \/ SearchLimited(r) \/ \E done \in BOOLEAN : SearchAnswers(r, done)
  <2>1. pc[r] = "search" /\ j \in Job
    BY <1>0, <1>8 DEF SearchFails, SearchLimited, SearchAnswers
  <2>2. CASE SearchLimited(r)
    BY <2>1, <2>2, ToQuotesOnward DEF SearchLimited
  <2>3. CASE \E i \in j.todo : NextSearch(r, j, i)
    BY <2>1, <2>3, NextSearchOnward
  <2>4. ASSUME NEW i \in j.todo,
               NextSearch(r, [j EXCEPT !.ids = [@ EXCEPT ![Assets[i]] = Largest]], i)
        PROVE  Onward(r)
    <3> DEFINE k == [j EXCEPT !.ids = [@ EXCEPT ![Assets[i]] = Largest]]
    <3>1. Largest \in Id
      BY DEF Largest, Id, Coin
    <3>2. [j.ids EXCEPT ![Assets[i]] = Largest] \in [Symbol -> Id \cup {None}]
      BY <2>1, <3>1 DEF Job
    <3>3. k \in Job /\ k.todo = j.todo
      BY <2>1, <3>2 DEF Job
    <3> HIDE DEF k
    <3>4. NextSearch(r, k, i)
      BY <2>4 DEF k
    <3>5. QED
      BY <2>1, <3>3, <3>4, NextSearchOnward
  <2>5. First(j.todo) \subseteq j.todo
    BY DEF First
  <2>6. QED
    BY <1>8, <2>2, <2>3, <2>4, <2>5 DEF SearchFails, SearchAnswers
<1>9. CASE \/ QuotesArrive(r) \/ QuotesFail(r)
           \/ \E done \in BOOLEAN : Quote(r, done) \/ KeepQuotes(r, done)
  <2>1. CASE QuotesArrive(r) \/ QuotesFail(r)
    BY <2>1, LaterIsOnward, Indices DEF QuotesArrive, QuotesFail
  <2>2. CASE \E done \in BOOLEAN : Quote(r, done)
    <3>1. pc[r] = "quotes" /\ (\/ \E prices : Give(r, prices)
                              \/ \E k : Continue(r, "ask", k))
      BY <2>2 DEF Quote
    <3>2. QED
      BY <3>1, LaterIsOnward, Indices
  <2>3. CASE \E done \in BOOLEAN : KeepQuotes(r, done)
    BY <2>3, LaterIsOnward DEF KeepQuotes
  <2>4. QED
    BY <1>9, <2>1, <2>2, <2>3
<1>10. CASE AnswerGarbled(r) \/ QuotesGarbled(r)
  BY <1>10, LaterIsOnward DEF AnswerGarbled, QuotesGarbled, Raise
<1>11. QED
  BY <1>1, <1>2, <1>3, <1>4, <1>5, <1>6, <1>7, <1>8, <1>9, <1>10 DEF Advance

LEMMA NextOnward ==
    ASSUME RecentInv, Next, NEW r \in InFlight
    PROVE  Onward(r)
<1>1. r \in Req /\ pc[r] # "idle" /\ job[r] \in Job /\ job[r] # None
  BY Runs, PlacesAre, NoneIsNothing DEF InFlight
<1>2. ASSUME NEW q \in Req, NEW p \in Process, NEW redis \in BOOLEAN, Begin(q, p, redis)
      PROVE  Onward(r)
  <2>1. q # r /\ Moves(q)
    BY <1>1, <1>2 DEF Begin, Moves
  <2>2. QED
    BY <1>1, <2>1, OthersStay DEF Onward
<1>3. ASSUME NEW q \in Req, Advance(q)
      PROVE  Onward(r)
  <2>1. CASE q = r
    BY <1>3, <2>1, AdvanceOnward
  <2>2. CASE q # r
    BY <1>1, <1>3, <2>2, AdvanceMoves, OthersStay DEF Onward
  <2>3. QED
    BY <2>1, <2>2
<1>4. CASE Tick
  <2>1. job'[r] = [job[r] EXCEPT !.left = @ - 1, !.prices = OlderAll(@), !.map = OlderMap(@),
                                 !.ids = [s \in Symbol |-> OlderId(@[s])]]
        /\ pc'[r] = pc[r]
    BY <1>1, <1>4 DEF Tick
  <2>2. job'[r].left = job[r].left - 1 /\ job[r].left \in Nat
    BY <1>1, <2>1 DEF Job
  <2>3. QED
    BY <2>1, <2>2 DEF Onward
<1>5. QED
  BY <1>2, <1>3, <1>4 DEF Next

\* Whatever is answered or fails, a lookup only ever goes on to a later call,
\* page or symbol, or returns.
THEOREM OnwardTheorem == Spec => NoCallIsRepeated
<1>1. RecentInv /\ [Next]_vars
      => [\A r \in InFlight :
             \/ pc'[r] = "idle"
             \/ pc'[r] = pc[r] /\ (job'[r] = job[r] \/ job'[r].left < job[r].left)
             \/ Further(r)]_vars
  BY NextOnward DEF Onward
<1>2. QED
  BY <1>1, RecentHolds, PTL DEF Spec, NoCallIsRepeated
=============================================================================
