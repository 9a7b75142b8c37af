---------------------------- MODULE MCReplayClient ----------------------------
(* ReplayClient for TLC: every file of up to three rows out of quotes of   *)
(* two symbols and trades, in any order of time, one malformed and one     *)
(* empty, behind a header with a comment before it or behind none.         *)
EXTENDS ReplayClient

QuoteRow(ts, sym, bidPrice, bidQuantity, askPrice, askQuantity) ==
  [type |-> "Q", timestamp |-> ts, symbol |-> sym, bidPrice |-> bidPrice,
   bidQuantity |-> bidQuantity, askPrice |-> askPrice, askQuantity |-> askQuantity]

TradeRow(ts, sym, price, quantity) ==
  [type |-> "T", timestamp |-> ts, symbol |-> sym, price |-> price, quantity |-> quantity]

Line(type) == [type |-> type]

MCRows == {QuoteRow(5, "own", 25, 1, 27, 3), QuoteRow(8, "other", 39, 18, 40, 4),
           QuoteRow(5, "short", 25, 1, 27, 3), TradeRow(4, "own", 10, 3),
           TradeRow(6, "other", 21, 1), Line("empty")}
MCFiles ==
  {preamble \o rows : preamble \in {<<>>, <<Line("comment"), Line("header")>>},
                      rows \in UNION {[1 .. n -> MCRows] : n \in 0 .. 3}}
MCSymbols == {"own", "other"}
=============================================================================
