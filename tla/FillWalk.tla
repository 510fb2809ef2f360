------------------------------ MODULE FillWalk ------------------------------
(***************************************************************************)
(* One get_fills call of an exchange adapter (backend/app/exchanges): the  *)
(* venue's trade history is read page by page while the account goes on    *)
(* trading.  Every adapter is one or more LANES, each a series of pages: a *)
(* market (Binance), an asset (Binance TR), a window of time (Gate.io,     *)
(* Bybit) or the whole account (Kraken, OKX, Coinbase).  Lanes are listed  *)
(* in the order the code starts them: most valuable first, newest window   *)
(* first.  They share a budget of calls and a semaphore.                   *)
(*                                                                         *)
(* A trade is its number in the lane's history, oldest first; what a fill  *)
(* says, and the filter on held assets, are left out.  Windows include     *)
(* both their ends, so that trades made at the second or millisecond two   *)
(* of them share are in both.  One coroutine step between two awaits is    *)
(* one action.                                                             *)
(***************************************************************************)
EXTENDS Integers, Sequences, FiniteSets

CONSTANTS
    None,          \* no answer yet
    Adapters,      \* the adapters to consider, a subset of DOMAIN Walkers
    MaxMarkets,    \* bound: markets or assets to ask for
    MaxWindows,    \* windows to look back (_FILL_MAX_WINDOWS)
    PageLimit,     \* rows of a page that counts as full (_FILL_PAGE_LIMIT)
    MaxPages,      \* _FILL_MAX_PAGES
    MaxCalls,      \* _FILL_MAX_CALLS
    Concurrency,   \* _FILL_CONCURRENCY
    MaxOld,        \* bound: trades of a lane when the walk starts
    MaxTrades,     \* bound: trades of a lane at any time
    MaxEdge,       \* bound: trades at the end two windows share
    Faults         \* subset of {"venueFails", "noRows", "noCursor"}

ASSUME BoundsAssumption ==
    /\ {MaxMarkets, MaxWindows, PageLimit, MaxPages, MaxCalls, Concurrency} \subseteq Nat \ {0}
    /\ None \notin {"done", "cut", "cap", "budget", "failed"} \cup {"fills", "none"}
    /\ {MaxOld, MaxTrades, MaxEdge} \subseteq Nat /\ MaxOld <= MaxTrades

VARIABLES
    adapter,    \* the adapter walking
    served,     \* rows the venue puts in a page
    old,        \* old[l]: trades of lane l when the walk began
    edge,       \* edge[l]: the oldest trades of window l that are also the
                \* newest of window l + 1
    trades,     \* trades[l]: trades of lane l now
    top,        \* top[l]: the newest trade when lane l read its last page
    pos,        \* pos[l]: rows of lane l the pages read so far stand for
    pages,      \* pages[l]: pages of lane l read so far
    got,        \* got[l][i]: how often trade i of lane l was read
    pool,       \* the shared budget and semaphore
    answer      \* what get_fills returned: None, "fills" or "none"

vars == <<adapter, served, old, edge, trades, top, pos, pages, got, pool, answer>>

-----------------------------------------------------------------------------
(* How the adapters differ.  lanes: how many there may be; slot: whether   *)
(* the semaphore is held for one call or for a whole lane; paging: how the *)
(* next page is named; cap: whether a lane's pages are limited; fails:     *)
(* what a failing call loses, the answer, the walk or just its lane.       *)
Many(lanes, conc, slot, paging, cap, fails) ==
    [lanes |-> lanes, conc |-> conc, slot |-> slot, paging |-> paging,
     budget |-> TRUE, cap |-> cap, fails |-> fails]
Single(paging) ==
    [lanes |-> {1}, conc |-> 1, slot |-> "lane", paging |-> paging,
     budget |-> FALSE, cap |-> TRUE, fails |-> "walk"]

Binance   == Many(1..MaxMarkets, Concurrency, "call", "forward", FALSE, "answer")
BinanceTR == Many(1..MaxMarkets, Concurrency, "lane", "forward", TRUE, "lane")
Gateio    == Many({MaxWindows}, Concurrency, "lane", "numbered", FALSE, "answer")
Bybit     == Many({MaxWindows}, 1, "lane", "back", FALSE, "walk")
Kraken    == Single("offset")
OKX       == Single("back")
Coinbase  == Single("back")

Walkers == [binance |-> Binance, binancetr |-> BinanceTR, gateio |-> Gateio,
            bybit |-> Bybit, kraken |-> Kraken, okx |-> OKX, coinbase |-> Coinbase]

ASSUME AdaptersAssumption == Adapters \subseteq DOMAIN Walkers

Style == Walkers[adapter]
Windowed == adapter \in {"gateio", "bybit"}
Lane == DOMAIN old
Trade == 1..MaxTrades

-----------------------------------------------------------------------------
(* The shared budget and the semaphore.  A pool holds the calls made, the  *)
(* lanes with a call outstanding, those waiting for a slot and why each    *)
(* finished lane ended.                                                    *)
Least(m, n) == IF m <= n THEN m ELSE n

\* Calls the budget still allows.
Left(p) == MaxCalls - p.calls
\* Bug to detect: the budget is compared after the call is counted.
MayCallOnceMore(p) == Style.budget => Left(p) >= 0

MayCall(p) == Style.budget => Left(p) > 0

\* Free slots go to the lanes waiting, first come first served.  With a slot
\* per lane the call is claimed on entry, and once the budget is spent every
\* waiting lane enters only to leave again.
Admit(p) ==
    LET room == Style.conc - Cardinality(p.active)
        want == Least(room, Len(p.queue))
        n == IF Style.slot = "lane" /\ Style.budget THEN Least(want, Left(p)) ELSE want
        rest == SubSeq(p.queue, n + 1, Len(p.queue))
        spent == {rest[i] : i \in IF n < want THEN DOMAIN rest ELSE {}}
    IN [calls |-> IF Style.slot = "lane" THEN p.calls + n ELSE p.calls,
        active |-> p.active \cup {p.queue[i] : i \in 1..n},
        queue |-> IF n < want THEN <<>> ELSE rest,
        ended |-> [l \in Lane |-> IF l \in spent THEN "budget" ELSE p.ended[l]]]

\* Bug to detect: a slot given back wakes nobody.
LeaveQuietly(p, l, why) == [p EXCEPT !.active = @ \ {l}, !.ended[l] = why]

\* Lane l gives its slot back for good.
Leave(p, l, why) ==
    Admit([p EXCEPT !.active = @ \ {l}, !.ended[l] = why])

\* Lane l goes on to its next page.  With a slot per call it claims the call,
\* and then queues for the slot it has just given back.
Continue(p, l) ==
    IF ~MayCall(p) THEN Leave(p, l, "budget")
    ELSE IF Style.slot = "lane" THEN [p EXCEPT !.calls = @ + 1]
    ELSE Admit([p EXCEPT !.calls = @ + 1, !.active = @ \ {l}, !.queue = Append(@, l)])

\* Bug to detect: the least valuable asset first.
StartedWithDust ==
    LET first == IF Style.slot = "call" THEN Least(MaxCalls, Len(old)) ELSE Len(old)
    IN Admit([calls |-> IF Style.slot = "call" THEN first ELSE 0,
              active |-> {},
              queue |-> [i \in 1..first |-> Len(old) + 1 - i],
              ended |-> [l \in Lane |-> IF l + first > Len(old) THEN None ELSE "budget"]])

\* asyncio.gather runs every lane up to its first await, in order, before any
\* answer is seen.
Started ==
    LET first == IF Style.slot = "call" THEN Least(MaxCalls, Len(old)) ELSE Len(old)
    IN Admit([calls |-> IF Style.slot = "call" THEN first ELSE 0,
              active |-> {},
              queue |-> [i \in 1..first |-> i],
              ended |-> [l \in Lane |-> IF l <= first THEN None ELSE "budget"]])

-----------------------------------------------------------------------------
(* The pages.                                                              *)

\* The next page is named by its distance from the newest trade.
Counted == Style.paging \in {"offset", "numbered"}

\* The newest trade the next page counts from: a cursor stays where it was
\* put, an offset or a page number is counted from the newest trade at the
\* time of the call.
Newest(l) == IF Counted \/ pages[l] = 0 THEN trades[l] ELSE top[l]

\* The trades the venue answers with.
Page(l) ==
    LET skip == IF Style.paging = "forward" THEN pos[l]
                ELSE Newest(l) - pos[l] - served
    IN {i \in 1..trades[l] : skip < i /\ i <= skip + served}

\* Bug to detect: the next page begins with the last row of this one.
ReadButLast(l) == pos[l] + Cardinality(Page(l)) - (IF Page(l) = {} THEN 0 ELSE 1)

\* Rows of the lane after this page; a page number stands for whole pages.
Read(l) == pos[l] + (IF Style.paging = "numbered" THEN served ELSE Cardinality(Page(l)))

\* Whether the page can come without a way to the next one: Bybit and
\* Coinbase send no cursor once nothing is left, and a row of the others that
\* name their pages by the last row's id may lack it.
MayLackCursor(l) ==
    CASE adapter \in {"bybit", "coinbase"} -> Read(l) >= Newest(l)
      [] adapter \in {"binance", "binancetr", "okx"} -> "noCursor" \in Faults
      [] OTHER -> FALSE

\* Bug to detect: a page is full only with the rows that were asked for.
LastUnlessAsked(l, cursor) ==
    CASE adapter = "kraken"   -> Page(l) = {} \/ Read(l) >= trades[l]
      [] adapter = "coinbase" -> Page(l) = {} \/ ~cursor
      [] adapter = "bybit"    -> Cardinality(Page(l)) < PageLimit \/ ~cursor
      [] adapter = "gateio"   -> Cardinality(Page(l)) < 2 * PageLimit
      [] OTHER                -> Cardinality(Page(l)) < PageLimit

\* The adapter takes this page for the last one.
Last(l, cursor) ==
    CASE adapter = "kraken"   -> Page(l) = {} \/ Read(l) >= trades[l]
      [] adapter = "coinbase" -> Page(l) = {} \/ ~cursor
      [] adapter = "bybit"    -> Cardinality(Page(l)) < PageLimit \/ ~cursor
      [] OTHER                -> Cardinality(Page(l)) < PageLimit

\* The loop after a page, in the order the code leaves it.
AfterPage(l, cursor) ==
    IF Last(l, cursor) THEN Leave(pool, l, "done")
    ELSE IF ~cursor THEN Leave(pool, l, "cut")
    ELSE IF Style.cap /\ pages[l] + 1 = MaxPages THEN Leave(pool, l, "cap")
    ELSE Continue(pool, l)

-----------------------------------------------------------------------------
Init ==
    /\ adapter \in Adapters
    /\ served \in IF adapter = "gateio" THEN {PageLimit, 2 * PageLimit} ELSE {PageLimit}
    /\ \E n \in Style.lanes : /\ old \in [1..n -> 0..MaxOld]
                              /\ edge \in [1..n -> 0..MaxEdge]
    /\ \A l \in Lane :
          IF Windowed /\ l + 1 \in Lane
          THEN /\ edge[l] <= old[l]
               /\ edge[l] + edge[l + 1] <= old[l + 1]
          ELSE edge[l] = 0
    /\ trades = old
    /\ top = [l \in Lane |-> 0]
    /\ pos = [l \in Lane |-> 0]
    /\ pages = [l \in Lane |-> 0]
    /\ got = [l \in Lane |-> [i \in Trade |-> 0]]
    /\ pool = Started
    /\ answer = None

\* A page comes back: its rows are kept and the lane goes on, ends, or finds
\* the budget spent, all before the next await.
PageArrives(l) ==
    /\ l \in pool.active
    /\ \E cursor \in {TRUE} \cup (IF MayLackCursor(l) THEN {FALSE} ELSE {}) :
        pool' = AfterPage(l, cursor)
    /\ got' = [got EXCEPT ![l] = [i \in Trade |-> IF i \in Page(l) THEN @[i] + 1 ELSE @[i]]]
    /\ pos' = [pos EXCEPT ![l] = Read(l)]
    /\ top' = [top EXCEPT ![l] = Newest(l)]
    /\ pages' = [pages EXCEPT ![l] = @ + 1]
    /\ UNCHANGED <<adapter, served, old, edge, trades, answer>>

\* Binance answers 400 for a market it does not have, or it or Gate.io sends
\* something other than rows: the lane ends with what it read.
NoRows(l) ==
    /\ "noRows" \in Faults /\ adapter \in {"binance", "gateio"} /\ l \in pool.active
    /\ pool' = Leave(pool, l, "cut")
    /\ UNCHANGED <<adapter, served, old, edge, trades, top, pos, pages, got, answer>>

\* A call times out or errs.  Binance TR loses the lane and nothing else; a
\* single loop ends; and a gather raises at once, its other lanes walking on
\* behind the answer.
CallFails(l) ==
    /\ "venueFails" \in Faults /\ l \in pool.active
    /\ pool' = IF Style.fails = "walk"
               THEN [calls |-> pool.calls, active |-> {}, queue |-> <<>>,
                     ended |-> [m \in Lane |-> IF pool.ended[m] = None THEN "failed"
                                               ELSE pool.ended[m]]]
               ELSE Leave(pool, l, "failed")
    /\ got' = [got EXCEPT ![l] = [i \in Trade |-> 0]]
    /\ answer' = IF Style.fails = "lane" THEN answer ELSE "none"
    /\ UNCHANGED <<adapter, served, old, edge, trades, top, pos, pages>>

\* Every lane has ended: get_fills returns what they read.  Binance TR gives
\* up only when all of them failed.
Return ==
    /\ answer = None
    /\ \A l \in Lane : pool.ended[l] # None
    /\ answer' = IF \A l \in Lane : pool.ended[l] = "failed" THEN "none" ELSE "fills"
    /\ UNCHANGED <<adapter, served, old, edge, trades, top, pos, pages, got, pool>>

\* The account trades in lane l.  A window only grows when its end is the
\* second or millisecond the walk began in.
NewTrade(l) ==
    /\ Windowed => l = 1
    /\ answer = None /\ trades[l] < MaxTrades
    /\ \A m \in Lane \ {l} : trades[m] = old[m]   \* bound: one lane trades
    /\ trades' = [trades EXCEPT ![l] = @ + 1]
    /\ UNCHANGED <<adapter, served, old, edge, top, pos, pages, got, pool, answer>>

CallEnds(l) == PageArrives(l) \/ NoRows(l) \/ CallFails(l)

Next ==
    \/ \E l \in Lane : PageArrives(l)
    \/ \E l \in Lane : NoRows(l)
    \/ \E l \in Lane : CallFails(l)
    \/ \E l \in Lane : NewTrade(l)
    \/ Return

Spec == Init /\ [][Next]_vars

\* httpx bounds every call by a timeout, so each of them ends one way or the
\* other; nothing makes the account trade.
FairSpec ==
    Spec /\ WF_vars(Return) /\ \A l \in 1..(MaxMarkets + MaxWindows) : WF_vars(l \in Lane /\ CallEnds(l))

-----------------------------------------------------------------------------
Ends == {"done", "cut", "cap", "budget", "failed"}

TypeOK ==
    /\ adapter \in Adapters /\ served \in Nat
    /\ old \in Seq(0..MaxOld) /\ edge \in [Lane -> 0..MaxEdge] /\ trades \in [Lane -> 0..MaxTrades]
    /\ top \in [Lane -> 0..MaxTrades]
    /\ pos \in [Lane -> Nat] /\ pages \in [Lane -> Nat]
    /\ got \in [Lane -> [Trade -> Nat]]
    /\ pool \in [calls : Nat, active : SUBSET Lane, queue : Seq(Lane),
                 ended : [Lane -> Ends \cup {None}]]
    /\ answer \in {None, "fills", "none"}

\* Calls are claimed by lanes that run side by side, from one budget and, in
\* Binance's case, while they still wait for a slot.  No interleaving, not even
\* with a gather that has already failed, makes more calls than the budget, or
\* has more of them outstanding than the semaphore allows.
CallsBounded ==
    /\ Style.budget => pool.calls <= MaxCalls
    /\ Style.cap => \A l \in Lane : pages[l] <= MaxPages
    /\ Cardinality(pool.active) <= Style.conc

\* A lane that believes it reached the end of its history has every trade
\* there was when the walk began, however many were made meanwhile and
\* whatever the size of the venue's pages ("a clamped server can never make us
\* drop trades", backend/app/exchanges/gateio.py:18).
CompleteWhenDone ==
    \A l \in Lane : pool.ended[l] = "done" =>
        \A i \in 1..old[l] : got[l][i] > 0

\* How often get_fills delivers trade i of lane l: as a row of that lane and,
\* when it was made at the end of a window, of the next one as well.
Times(l, i) ==
    got[l][i] + (IF i <= edge[l] THEN got[l + 1][old[l + 1] - edge[l] + i] ELSE 0)

\* A fill counted twice moves an average price, and nothing downstream removes
\* it.  Only a history counted from its newest trade (Kraken's offsets, the page
\* numbers of Gate.io's newest window) or the end two windows share can deliver
\* one twice: no more of them than the account traded in that lane during the
\* walk and made at that end.
Doubles(l) == Cardinality({i \in Trade : Times(l, i) > 1})
DoublesExplained ==
    \A l \in Lane :
        /\ \A i \in Trade : Times(l, i) > 1 => Counted \/ i <= edge[l]
        /\ Doubles(l) <= trades[l] - old[l] + edge[l]

\* "if the budget runs out it is the dust that goes without history"
\* (backend/app/exchanges/binance.py:123-124): once a lane ends without a single
\* call, no lane after it gets one.
Unserved(l) == pool.ended[l] = "budget" /\ pages[l] = 0
DustGoesWithout ==
    \A l, m \in Lane : l < m /\ Unserved(l) => Unserved(m)

\* The walk answers, and the calls a failed gather left behind stop as well:
\* no lane waits for ever for a slot another one never gave back.
WalkEnds == <>[](answer # None /\ pool.active = {} /\ pool.queue = <<>>)
=============================================================================
