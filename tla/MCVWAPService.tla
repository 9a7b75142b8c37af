---------------------------- MODULE MCVWAPService ----------------------------
(* VWAPService for TLC.  The trades include one that carries nothing; the  *)
(* stamps are anywhere behind or ahead of the clock.                       *)
EXTENDS VWAPService

MCTrades == {[quantity |-> 0, price |-> 3],
             [quantity |-> 1, price |-> 1],
             [quantity |-> 1, price |-> 3],
             [quantity |-> 2, price |-> 3]}
MCSkews == -MaxTime .. MaxTime
=============================================================================
