----------------------- MODULE MCNetworkMessageReceiver -----------------------
(* NetworkMessageReceiver for TLC: the peer's clock is behind, exact or    *)
(* ahead.                                                                  *)
EXTENDS NetworkMessageReceiver

MCSkews == {-1, 0, 1}
=============================================================================
