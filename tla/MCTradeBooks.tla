---------------------------- MODULE MCTradeBooks ----------------------------
(* A small instance of TradeBooks for TLC. *)
EXTENDS TradeBooks

\* A buy and a sale for dollars, at another price than CoinHQ's, and a sale for
\* another coin.
OutsideOnes ==
    {[side |-> "buy", qty |-> 2, price |-> 2, stable |-> TRUE],
     [side |-> "sell", qty |-> 1, price |-> 2, stable |-> TRUE],
     [side |-> "sell", qty |-> 1, price |-> 1, stable |-> FALSE]}

BooksSymmetry == Permutations(Req)
=============================================================================
