-------------------------- MODULE MCExecutionEngine --------------------------
(* ExecutionEngine for TLC: trades on both sides of a band around 100, one *)
(* without an aggressor that moves the VWAP.                               *)
EXTENDS ExecutionEngine

MCTrades == {[quantity |-> 1, price |-> 100, aggressor |-> "UNKNOWN"],
             [quantity |-> 2, price |-> 80,  aggressor |-> "BUY"],
             [quantity |-> 1, price |-> 120, aggressor |-> "SELL"]}
MCSkews == {-1, 0}
=============================================================================
