------------------------- MODULE MCDelegatedTrading -------------------------
(* Small instances of DelegatedTrading for TLC. *)
EXTENDS DelegatedTrading, TLC

term(dir, coins, per, day, exp) ==
    [canTrade |-> TRUE, direction |-> dir, coins |-> coins,
     perOrder |-> per, daily |-> day, expires |-> exp]

\* One unrestricted setting with a limit of 3, the same limited to buys of at
\* most 2 of one coin and with an expiry, and a link that cannot trade.
OpenTerms == term("both", {}, None, 3, None)
TightTerms == term("buy", {"BTC"}, 2, 2, 1)
NoTrade == [OpenTerms EXCEPT !.canTrade = FALSE]

buy(a, usd) == [exchange |-> "binance", side |-> "buy", asset |-> a, usd |-> usd]
sell(a, usd) == [buy(a, usd) EXCEPT !.side = "sell"]

OneTerm == {OpenTerms}
AllTerms == {OpenTerms, TightTerms, NoTrade}
Buys == {buy("BTC", 2)}
WholeLimit == {buy("BTC", 3)}
AllOrders == {buy("BTC", 2), buy("ETH", 1), sell("BTC", 3)}

RequestSymmetry == Permutations(Req)
=============================================================================
