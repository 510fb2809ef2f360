--------------------------- MODULE MCPriceLookup ---------------------------
(* A small instance of PriceLookup for TLC: a symbol only Binance has, and  *)
(* one the second page ranks, of which the alphabetical list has a namesake. *)
EXTENDS PriceLookup, TLC

Symbols == <<"pair", "small">>
PageOf == [s \in Symbol |-> IF s = "small" THEN 2 ELSE 0]
MatchOf == [s \in Symbol |-> IF s = "small" THEN "namesake" ELSE None]

LookupSymmetry == Permutations(Req)
=============================================================================
