---------------------------- MODULE TradeAnswers ----------------------------
(***************************************************************************)
(* What the trading core promises the peers on its two connections, with   *)
(* none of its threads and queues: trades arrive, and each is answered by  *)
(* at most one NewOrder, which carries the trade's position as its id and  *)
(* the trade's quantity, and is on the trade's side if it is accepted.     *)
(* Answers go out in the order of their trades; a trade may stay without   *)
(* an answer (the engine was halted).                                      *)
(***************************************************************************)
EXTENDS Integers, Sequences

CONSTANT Trades   \* as in VWAPService and ExecutionEngine

VARIABLES
  arrived,  \* the trades received so far
  wire      \* the orders written to the order connection so far

answersVars == <<arrived, wire>>

AnswersInit ==
  /\ arrived = <<>>
  /\ wire = <<>>

Arrive(t) ==
  /\ arrived' = Append(arrived, t)
  /\ UNCHANGED wire

\* The orders that may answer the k-th trade.
AnswersTo(k) ==
  {order \in [clientOrderId : {k - 1}, status : {"ACCEPTED", "REJECTED"},
              side : {"BUY", "SELL"}, quantity : {arrived[k].quantity}] :
     order.status = "ACCEPTED" => order.side = arrived[k].aggressor}

AnswerTrade(k) ==
  /\ \A i \in DOMAIN wire : wire[i].clientOrderId < k - 1
  /\ \E order \in AnswersTo(k) : wire' = Append(wire, order)
  /\ UNCHANGED arrived

AnswersNext ==
  \/ \E t \in Trades : Arrive(t)
  \/ \E k \in DOMAIN arrived : AnswerTrade(k)

AnswersSpec == AnswersInit /\ [][AnswersNext]_answersVars
=============================================================================
