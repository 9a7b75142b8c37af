----------------------------- MODULE BoundedFIFO -----------------------------
(***************************************************************************)
(* What the queues of src/libs/concurrency promise their users: a bounded  *)
(* first-in first-out channel.  Producer p pushes the items <<p, 1>>,      *)
(* <<p, 2>>, ... each until it is accepted, as NetworkMessageReceiver and  *)
(* OrderMessageSender::send do; one consumer pops.                         *)
(***************************************************************************)
EXTENDS Naturals, Sequences

CONSTANTS
  Producers,
  Capacity,
  MaxItems    \* bound: the items of each producer

VARIABLES
  fifo,       \* what is in the channel, oldest first
  sent,       \* how many items of each producer were accepted
  received    \* what the consumer got

fifoVars == <<fifo, sent, received>>

FifoInit ==
  /\ fifo = <<>>
  /\ sent = [p \in Producers |-> 0]
  /\ received = <<>>

Push(p) ==
  /\ sent[p] < MaxItems
  /\ Len(fifo) < Capacity
  /\ fifo' = Append(fifo, <<p, sent[p] + 1>>)
  /\ sent' = [sent EXCEPT ![p] = @ + 1]
  /\ UNCHANGED received

Pop ==
  /\ fifo # <<>>
  /\ fifo' = Tail(fifo)
  /\ received' = Append(received, Head(fifo))
  /\ UNCHANGED sent

FifoNext == Pop \/ \E p \in Producers : Push(p)

\* What the channel does: nothing is lost, duplicated or reordered.
FifoSafety == FifoInit /\ [][FifoNext]_fifoVars

\* What it does not put off for ever: what is in it is popped, and a producer
\* gets an item in when there is room.
FifoFairness ==
  /\ WF_fifoVars(Pop)
  /\ \A p \in Producers : WF_fifoVars(Push(p))

FifoSpec == FifoSafety /\ FifoFairness
=============================================================================
