----------------------------- MODULE TradeBooks -----------------------------
(***************************************************************************)
(* What a profile is told it paid for a coin, twice over.  The cost basis  *)
(* (compute_avco of backend/app/services/cost_basis_service.py) folds the  *)
(* venue's own trade history, whoever placed the orders; the realized P&L  *)
(* (backend/app/services/pnl_service.py) folds CoinHQ's order rows.  Here  *)
(* is one coin on one venue: CoinHQ's orders, trades and transfers made on *)
(* the venue itself, the venue's rows as each adapter parses them, and the *)
(* two computations.                                                       *)
(***************************************************************************)
EXTENDS Integers, Sequences, FiniteSets, SequencesExt

CONSTANTS
    Req,                    \* CoinHQ's orders, each placed once
    Venues,                 \* the venues the key may be of
    Amounts,                \* the USD amounts that are ordered
    Prices,                 \* the prices of the coin
    Outside,                \* the trades that may be placed on the venue itself
    CoverNum, CoverDen,     \* _FULL_COVERAGE_RATIO, as CoverNum / CoverDen
    MaxEvents,              \* bound: trades and transfers
    MaxBegun,               \* bound: CoinHQ's orders begun by the end of a computation
    None

Side == {"buy", "sell"}
VenueName == {"binance", "binancetr", "bybit", "bybitClassic", "okx", "gateio",
              "kraken", "coinbase"}

OutsideTrades == [side : Side, qty : Nat \ {0}, price : Nat \ {0}, stable : BOOLEAN]

ASSUME BooksAssumption ==
    /\ Outside \subseteq OutsideTrades
    /\ Venues \subseteq VenueName
    /\ Amounts \subseteq Nat \ {0} /\ Prices \subseteq Nat \ {0}
    /\ CoverNum \in Nat \ {0} /\ CoverDen \in Nat /\ CoverNum <= CoverDen
    /\ {MaxEvents, MaxBegun} \subseteq Nat

VARIABLES
    venue,
    trades,      \* the venue's trade history: its rows, in the order of execution
    held,        \* the coins on the account
    deposited, withdrawn,
    bought, sold,\* ghost: the coins credited by the buys for dollars, sold for dollars
    otherSold,   \* ghost: the coins sold for another coin
    outside,     \* ghost: how many of the trades were placed on the venue itself
    pc,          \* per request: where it stands
    order,       \* the row of trade_orders; its local variables until then
    begun,       \* the requests, in the order they began: that of created_at
    overlap,     \* ghost: the requests that began while another one ran
    basis,       \* the computation of the cost basis: the holdings it has read
    walk         \* and how far it is with the trade history

vars == <<venue, trades, held, deposited, withdrawn, bought, sold, otherSold, outside,
          pc, order, begun, overlap, basis, walk>>

Running == {"place", "record"}
Over == {"filled", "failed"}

\* What the venue charges is in the coin, in the currency it was traded for, in
\* some other coin, or the row does not say.
Charged == {"base", "quote", "other", "unnamed"}
Row == [side : Side, qty : Nat, cost : Nat, stable : BOOLEAN, fee : Int, feeIn : Charged]

Order == [side : Side, usd : Nat, amount : Nat \cup {None}, whole : BOOLEAN]

ASSUME NoneIsNothing == None \notin Nat \cup Order
-----------------------------------------------------------------------------
(* Fractions, for what a float holds. *)

Frac(n, d) == [num |-> n, den |-> d]
Plus(a, b) == Frac(a.num * b.den + b.num * a.den, a.den * b.den)
Minus(a, b) == Plus(a, Frac(-b.num, b.den))
Leq(a, b) == a.num * b.den <= b.num * a.den
Same(a, b) == a.num * b.den = b.num * a.den
-----------------------------------------------------------------------------
(* The venue's rows, and the fills the adapters make of them. *)

\* What the venue may charge: nothing, or in the coin for a buy and in the other
\* currency for a sell, or always in the latter, or in a coin of its own;
\* negative when it pays a rebate.
Charge(side) ==
    LET ownSide == IF side = "buy" THEN "base" ELSE "quote" IN
    {[fee |-> 0, feeIn |-> ownSide]} \cup
    CASE venue \in {"kraken", "coinbase"} -> {[fee |-> 1, feeIn |-> "quote"]}
      [] venue \in {"okx", "bybit"} -> {[fee |-> n, feeIn |-> ownSide] : n \in {-1, 1}}
      [] venue = "bybitClassic" -> {[fee |-> 1, feeIn |-> ownSide]}
      [] OTHER -> {[fee |-> 1, feeIn |-> in] : in \in {ownSide, "other"}}

\* OKX reports a charge as a negative amount; Kraken and Coinbase do not name its
\* currency, nor does Bybit for a classic account.
Reported(side, qty, cost, stable, charge) ==
    [side |-> side, qty |-> qty, cost |-> cost, stable |-> stable,
     fee |-> IF venue = "okx" THEN -charge.fee ELSE charge.fee,
     feeIn |-> IF venue \in {"kraken", "coinbase", "bybitClassic"} THEN "unnamed" ELSE charge.feeIn]

\* A fill: gross amounts, and the fee apart; a rebate is no fee.
Fill(row, fee, feeIn) ==
    [side |-> row.side, qty |-> row.qty, cost |-> row.cost, stable |-> row.stable,
     fee |-> IF fee > 0 THEN fee ELSE 0, feeIn |-> feeIn]

BinanceFill(row) == Fill(row, row.fee, row.feeIn)
BinanceTrFill(row) == Fill(row, row.fee, row.feeIn)
GateioFill(row) == Fill(row, row.fee, row.feeIn)
OkxFill(row) == Fill(row, -row.fee, row.feeIn)
KrakenFill(row) == Fill(row, row.fee, "quote")
CoinbaseFill(row) == Fill(row, row.fee, "quote")
BybitFill(row) ==
    Fill(row, row.fee,
         IF row.feeIn # "unnamed" THEN row.feeIn
         ELSE IF row.side = "buy" THEN "base" ELSE "quote")

ParseFill(name, row) ==
    CASE name = "binance" -> BinanceFill(row)
      [] name = "binancetr" -> BinanceTrFill(row)
      [] name = "gateio" -> GateioFill(row)
      [] name = "okx" -> OkxFill(row)
      [] name = "kraken" -> KrakenFill(row)
      [] name = "coinbase" -> CoinbaseFill(row)
      [] name \in {"bybit", "bybitClassic"} -> BybitFill(row)
-----------------------------------------------------------------------------
(* The cost basis: the average cost over the venue's history. *)

NoPosition == [qty |-> 0, cost |-> Frac(0, 1), buys |-> FALSE, skipped |-> FALSE]

\* Bug to detect: every fee is taken off the coins.
ReceivedLessAnyFee(f) == f.qty - f.fee

\* What a buy credited.
Received(f) == f.qty - (IF f.feeIn = "base" THEN f.fee ELSE 0)

\* What a buy cost with its fee.
Paid(f) == f.cost + (IF f.feeIn = "quote" THEN f.fee ELSE 0)

\* The cost of `qty` coins that are left of `of` that cost `cost`.
CostOf(cost, qty, of) == Frac(cost.num * qty, cost.den * of)

TakeBuy(pos, f) ==
    IF Received(f) <= 0 THEN pos
    ELSE [pos EXCEPT !.qty = @ + Received(f), !.cost = Plus(@, Frac(Paid(f), 1)), !.buys = TRUE]

\* Bug to detect: more is taken off than the position has.
TakeSellUnclamped(pos, f) ==
    IF pos.qty = 0 THEN pos
    ELSE [pos EXCEPT !.qty = @ - f.qty, !.cost = CostOf(@, pos.qty - f.qty, pos.qty)]

\* Bug to detect: what is sold leaves the position with its price, not its cost.
TakeSellAtPrice(pos, f) ==
    LET left == pos.qty - f.qty IN
    IF left <= 0 THEN [pos EXCEPT !.qty = 0, !.cost = Frac(0, 1)]
    ELSE [pos EXCEPT !.qty = left, !.cost = Minus(@, Frac(f.cost, 1))]

\* No more is taken off than the position has: the rest was never seen bought.
TakeSell(pos, f) ==
    LET left == pos.qty - f.qty IN
    IF left <= 0 THEN [pos EXCEPT !.qty = 0, !.cost = Frac(0, 1)]
    ELSE [pos EXCEPT !.qty = left, !.cost = CostOf(@, left, pos.qty)]

\* Bug to detect: a trade for another coin is passed over in silence.
TakeStable(pos, f) ==
    IF ~f.stable \/ f.qty <= 0 THEN pos
    ELSE IF f.side = "buy" THEN TakeBuy(pos, f) ELSE TakeSell(pos, f)

Take(pos, f) ==
    IF ~f.stable THEN [pos EXCEPT !.skipped = TRUE]
    ELSE IF f.qty <= 0 THEN pos
    ELSE IF f.side = "buy" THEN TakeBuy(pos, f) ELSE TakeSell(pos, f)

Position(name, rows) ==
    FoldLeft(LAMBDA pos, row : Take(pos, ParseFill(name, row)), NoPosition, rows)

Coverage(pos, holding) ==
    IF ~pos.buys \/ pos.qty = 0 THEN "none"
    ELSE IF pos.skipped \/ pos.qty * CoverDen < holding * CoverNum THEN "partial"
    ELSE "full"
-----------------------------------------------------------------------------
(* The realized P&L: the average cost over CoinHQ's filled orders. *)

\* What the P&L reads of request r: only the row of a filled order with an amount.
PnlRow(r) == IF pc[r] = "filled" /\ order[r].amount # None THEN order[r] ELSE None

\* Bug to detect: the latest order comes first.
PnlRowsLatestFirst ==
    [i \in 1..Len(begun) |-> PnlRow(begun[Len(begun) + 1 - i])]

\* The rows by created_at.
PnlRows == [i \in 1..Len(begun) |-> PnlRow(begun[i])]

NoBook == [qty |-> 0, cost |-> Frac(0, 1), realized |-> Frac(0, 1), bought |-> 0, sold |-> 0]

BookBuy(s, o) ==
    [s EXCEPT !.qty = @ + o.amount, !.cost = Plus(@, Frac(o.usd, 1)), !.bought = @ + o.usd]

\* Bug to detect: the proceeds are taken off the cost.
BookSellAtPrice(s, o) ==
    LET qty == IF o.amount < s.qty THEN o.amount ELSE s.qty IN
    IF qty = 0 THEN [s EXCEPT !.sold = @ + o.usd]
    ELSE [s EXCEPT !.qty = @ - qty,
                   !.cost = Minus(@, Frac(qty * o.usd, o.amount)),
                   !.realized = Plus(@, Minus(Frac(qty * o.usd, o.amount), CostOf(s.cost, qty, s.qty))),
                   !.sold = @ + o.usd]

\* Only what is tracked is realized; all the proceeds are summed.
BookSell(s, o) ==
    LET qty == IF o.amount < s.qty THEN o.amount ELSE s.qty IN
    IF qty = 0 THEN [s EXCEPT !.sold = @ + o.usd]
    ELSE [s EXCEPT !.qty = @ - qty,
                   !.cost = Minus(@, CostOf(@, qty, s.qty)),
                   !.realized = Plus(@, Minus(Frac(qty * o.usd, o.amount), CostOf(s.cost, qty, s.qty))),
                   !.sold = @ + o.usd]

Book(s, o) == IF o.side = "buy" THEN BookBuy(s, o) ELSE BookSell(s, o)

Pnl(rows) == FoldLeft(LAMBDA s, o : IF o = None THEN s ELSE Book(s, o), NoBook, rows)
-----------------------------------------------------------------------------
(* The walk through the history. *)

NoWalk == [i |-> 0, pos |-> NoPosition, counted |-> 0, otherSeen |-> 0, exact |-> TRUE]

\* How often a row may be delivered: every adapter leaves rows out when it is out
\* of calls or pages, Kraken's pages and Gate.io's and Bybit's windows overlap
\* (FillWalk), and Binance and Binance TR only ask for markets in dollars.
Deliveries(row) ==
    IF ~row.stable /\ venue \in {"binance", "binancetr"} THEN {0}
    ELSE IF venue \in {"kraken", "gateio", "bybit", "bybitClassic"} THEN 0..2
    ELSE 0..1

\* The fill is taken n times.
TakeTimes(pos, f, n) ==
    CASE n = 0 -> pos [] n = 1 -> Take(pos, f) [] n = 2 -> Take(Take(pos, f), f)

\* What one delivery of the fill counts as bought, and as sold for another coin.
Credited(f) == IF f.side = "buy" /\ f.stable /\ Received(f) > 0 THEN Received(f) ELSE 0
SoldForOther(f) == IF f.side = "sell" /\ ~f.stable THEN f.qty ELSE 0
-----------------------------------------------------------------------------
Init == /\ venue \in Venues
        /\ trades = <<>>
        /\ held = 0 /\ deposited = 0 /\ withdrawn = 0
        /\ bought = 0 /\ sold = 0 /\ otherSold = 0
        /\ outside = 0
        /\ pc = [r \in Req |-> "idle"]
        /\ order = [r \in Req |-> None]
        /\ begun = <<>>
        /\ overlap = {}
        /\ basis = None /\ walk = NoWalk
-----------------------------------------------------------------------------
(* CoinHQ's orders: execute_trade, of which DelegatedTrading has the guards. *)

Begin(r) ==
    /\ pc[r] = "idle"
    /\ basis # None => Len(begun) < MaxBegun
    /\ \E side \in Side, usd \in Amounts :
          order' = [order EXCEPT ![r] = [side |-> side, usd |-> usd, amount |-> None, whole |-> FALSE]]
    /\ pc' = [pc EXCEPT ![r] = "place"]
    /\ begun' = Append(begun, r)
    /\ overlap' = IF \E q \in Req : pc[q] \in Running THEN overlap \cup {r} ELSE overlap
    /\ UNCHANGED <<venue, trades, held, deposited, withdrawn, bought, sold, otherSold,
                   outside, basis, walk>>

Room == Len(trades) + deposited + withdrawn < MaxEvents

\* The venue executes a trade: the account changes by it and by the charge.
Trade(side, qty, cost, stable, charge) ==
    /\ Room
    /\ side = "sell" => qty <= held
    /\ held' = held + (IF side = "buy" THEN qty ELSE -qty) - (IF charge.feeIn = "base" THEN charge.fee ELSE 0)
    /\ trades' = Append(trades, Reported(side, qty, cost, stable, charge))
    /\ bought' = bought + (IF side = "buy" /\ stable THEN held' - held ELSE 0)
    /\ sold' = sold + (IF side = "sell" /\ stable THEN qty ELSE 0)
    /\ otherSold' = otherSold + (IF side = "sell" /\ ~stable THEN qty ELSE 0)

\* Only Binance's answer has an executedQty.
Answered(qty) == IF venue = "binance" THEN qty ELSE None

\* The venue fills what it can of the amount at its price.
Place(r) ==
    LET o == order[r] IN
    /\ pc[r] = "place"
    /\ \E price \in Prices : \E qty \in 0..(o.usd \div price) :
          /\ \/ qty = 0 /\ UNCHANGED <<trades, held, bought, sold, otherSold>>
             \/ /\ qty > 0
                /\ \E charge \in Charge(o.side) :
                      Trade(o.side, qty, qty * price, TRUE, charge)
          /\ order' = [order EXCEPT ![r].amount = Answered(qty), ![r].whole = (qty * price = o.usd)]
    /\ pc' = [pc EXCEPT ![r] = "record"]
    /\ UNCHANGED <<venue, deposited, withdrawn, outside, begun, overlap, basis, walk>>

Record(r) ==
    /\ pc[r] = "record"
    /\ pc' = [pc EXCEPT ![r] = "filled"]
    /\ UNCHANGED <<venue, trades, held, deposited, withdrawn, bought, sold, otherSold,
                   outside, order, begun, overlap, basis, walk>>

\* A refusal, an HTTP error before or after the execution, a crash in between:
\* there is no row, or not a filled one, and nobody here reads that.
NotFilled(r) ==
    /\ pc[r] \in Running
    /\ pc' = [pc EXCEPT ![r] = "failed"]
    /\ order' = [order EXCEPT ![r] = None]
    /\ UNCHANGED <<venue, trades, held, deposited, withdrawn, bought, sold, otherSold,
                   outside, begun, overlap, basis, walk>>
-----------------------------------------------------------------------------
(* The venue itself. *)

OutsideTrade ==
    /\ outside' = outside + 1
    /\ \E t \in Outside : \E charge \in Charge(t.side) :
          Trade(t.side, t.qty, t.qty * t.price, t.stable, charge)
    /\ UNCHANGED <<venue, deposited, withdrawn, pc, order, begun, overlap, basis, walk>>

Deposit ==
    /\ Room
    /\ deposited' = deposited + 1 /\ held' = held + 1
    /\ UNCHANGED <<venue, trades, withdrawn, bought, sold, otherSold,
                   outside, pc, order, begun, overlap, basis, walk>>

Withdraw ==
    /\ Room
    /\ held > 0
    /\ withdrawn' = withdrawn + 1 /\ held' = held - 1
    /\ UNCHANGED <<venue, trades, deposited, bought, sold, otherSold,
                   outside, pc, order, begun, overlap, basis, walk>>
-----------------------------------------------------------------------------
(* The computation of the cost basis: the balances come from the portfolio, the
   trade history is asked for afterwards and comes in many answers. *)

ReadHoldings ==
    /\ basis = None /\ Len(begun) <= MaxBegun
    /\ held > 0     \* coins that are not held are not asked for
    /\ basis' = [held |-> held, deposited |-> deposited, withdrawn |-> withdrawn,
                 bought |-> bought, sold |-> sold, otherSold |-> otherSold, rows |-> Len(trades)]
    /\ UNCHANGED <<venue, trades, held, deposited, withdrawn, bought, sold, otherSold,
                   outside, pc, order, begun, overlap, walk>>

\* The fills are sorted by their time before they are taken, so the order in which
\* rows are delivered does not matter, only how often.
TakeRow ==
    /\ basis # None
    /\ walk.i < Len(trades)
    /\ LET row == trades[walk.i + 1]
           f == ParseFill(venue, row)
       IN \E n \in Deliveries(row) :
             walk' = [i |-> walk.i + 1,
                      pos |-> TakeTimes(walk.pos, f, n),
                      counted |-> walk.counted + n * Credited(f),
                      otherSeen |-> walk.otherSeen + (IF n > 0 THEN SoldForOther(f) ELSE 0),
                      exact |-> walk.exact /\ n = 1]
    /\ UNCHANGED <<venue, trades, held, deposited, withdrawn, bought, sold, otherSold,
                   outside, pc, order, begun, overlap, basis>>

\* What is answered when the history ends here.
Answer == Coverage(walk.pos, basis.held)

\* It may end anywhere: the rows behind are the ones left out.
ReadTrades ==
    /\ basis # None
    /\ basis' = None
    /\ walk' = NoWalk
    /\ UNCHANGED <<venue, trades, held, deposited, withdrawn, bought, sold, otherSold,
                   outside, pc, order, begun, overlap>>

Next == \/ \E r \in Req : Begin(r) \/ Place(r) \/ Record(r) \/ NotFilled(r)
        \/ OutsideTrade \/ Deposit \/ Withdraw
        \/ ReadHoldings \/ TakeRow \/ ReadTrades

Spec == Init /\ [][Next]_vars
-----------------------------------------------------------------------------
(* What the books are worth. *)

\* Types; a position is never negative, and has a cost only as long as it is open.
TypeOK ==
    /\ venue \in Venues
    /\ trades \in Seq(Row)
    /\ {held, deposited, withdrawn, bought, sold, otherSold, outside} \subseteq Nat
    /\ pc \in [Req -> {"idle"} \cup Running \cup Over]
    /\ order \in [Req -> Order \cup {None}]
    /\ begun \in Seq(Req) /\ overlap \subseteq Req
    /\ walk.i \in 0..Len(trades) /\ walk.counted \in Nat
    /\ walk.pos.qty \in Nat /\ walk.pos.cost.num \in Nat
    /\ walk.pos.qty = 0 => walk.pos.cost.num = 0

Fills == {ParseFill(venue, trades[i]) : i \in 1..Len(trades)}
Buys == {f \in Fills : f.side = "buy" /\ f.stable /\ Received(f) > 0}

\* The average price lies between the lowest and the highest price paid, fees
\* included, whatever was sold in between and at whatever price, and whatever rows
\* of the history are missing or delivered twice (compute_avco).
AverageIsOfBuys ==
    walk.pos.qty > 0 =>
        LET avg == Frac(walk.pos.cost.num, walk.pos.cost.den * walk.pos.qty) IN
        /\ \E f \in Buys : Leq(Frac(Paid(f), Received(f)), avg)
        /\ \E f \in Buys : Leq(avg, Frac(Paid(f), Received(f)))

\* Whoever is told "full" bought what was held when the balances were read: the
\* coins deposited and still there are within the tolerance, but for those sold
\* for a coin in trades the venue did not deliver, and for those the history
\* counts more often than they had been bought by then (a row delivered twice, a
\* buy after the balances were read: get_cost_basis reads them first).
FullIsExplained ==
    basis # None /\ Answer = "full" =>
        CoverDen * (basis.deposited - basis.withdrawn - basis.sold
                    - (basis.otherSold - walk.otherSeen) - (walk.counted - basis.bought))
        <= (CoverDen - CoverNum) * basis.held

\* Whoever is told less has a reason: a deposit, a history that is not the one of
\* the holdings' time (cut short, with a row left out or delivered twice), a trade
\* for another coin, a rebate in coins, or a sale since the balances were read
\* (compute_avco, its partial and its none).
PartialHasAReason ==
    basis # None /\ Answer # "full" =>
        \/ basis.deposited > 0
        \/ ~(walk.exact /\ walk.i >= basis.rows)
        \/ \E f \in Fills : ~f.stable
        \/ venue \in {"okx", "bybit"} /\ \E i \in 1..Len(trades) :
              (IF venue = "okx" THEN -trades[i].fee ELSE trades[i].fee) < 0
        \/ sold > basis.sold

\* A sale of more coins than the book had then, or of none.
Clamped(rows, i) ==
    /\ rows[i] # None /\ rows[i].side = "sell"
    /\ rows[i].amount \notin 1..Pnl(SubSeq(rows, 1, i - 1)).qty

\* The figures of the P&L add up: what came in by sales is what was realized and
\* what the sold coins cost, and all of it is counted unless a sale had more
\* coins than the book knew of (the clamped sell of compute_profile_pnl).
MoneyAddsUp ==
    LET s == Pnl(PnlRows)
        counted == Plus(s.realized, Minus(Frac(s.bought, 1), s.cost))
    IN /\ Leq(counted, Frac(s.sold, 1))
       /\ (\A i \in 1..Len(PnlRows) : ~Clamped(PnlRows, i)) => Same(counted, Frac(s.sold, 1))

\* The two books agree when all trades are CoinHQ's, one after the other, on a
\* venue that reports the amount, and none was lost or charged for: the same
\* coins, and the P&L, which books the amount that was ordered, has a cost that
\* is as high, or higher when an order was filled in part.
BooksAgree ==
    LET quiet == /\ venue = "binance" /\ outside = 0 /\ overlap = {}
                 /\ \A r \in Req : pc[r] \in {"idle", "filled"}
                 /\ \A f \in Fills : f.fee = 0 \/ f.feeIn = "other"
        pos == Position(venue, trades)
        s == Pnl(PnlRows)
    IN quiet => /\ s.qty = pos.qty
                /\ Leq(pos.cost, s.cost)
                /\ (\A r \in Req : pc[r] = "filled" => order[r].whole) => Same(pos.cost, s.cost)
=============================================================================
