---------------------------- MODULE MCTradingCore ----------------------------
(* TradingCore for TLC: queues of one or two messages, so that both fill.  *)
EXTENDS TradingCore

MCTrades == {[quantity |-> 1, price |-> 100, aggressor |-> "BUY"],
             [quantity |-> 1, price |-> 100, aggressor |-> "SELL"]}
MCSkews == {0}
=============================================================================
