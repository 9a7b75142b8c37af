----------------------------- MODULE TradingCore -----------------------------
(***************************************************************************)
(* The threads around the ExecutionEngine while the program runs:          *)
(*                                                                         *)
(*   receivers --inbound--> demultiplexer --outbound--> order sender       *)
(*                               ^                          |              *)
(*                 session ------+ isHalted                 v wire         *)
(*                                                                         *)
(* MessageDeMultiplexer::run and MasterMessageHandler::onMessage,          *)
(* TradeMessageHandler::onMessage with OrderMessageSender::send,           *)
(* OrderMessageSender::run, and SessionControlHandler's commands.  The     *)
(* queues are the bounded FIFOs that ConcurrentQueue implements.  Start-up *)
(* and shut-down of the threads are not here, but for one thing: the       *)
(* sender's thread starts before its shouldStop is initialised             *)
(* (OrderMessageSender.h:18-22, members in order), so it may see a stop at *)
(* once and never run.                                                     *)
(***************************************************************************)
EXTENDS ExecutionEngine, OECodec

CONSTANTS
  InboundCapacity,   \* of InboundMessageQueue
  OutboundCapacity,  \* QUEUE_SIZE of OrderMessageSender (1024)
  MaxOthers          \* bound: messages that are neither quote nor trade

ASSUME CoreAssumption ==
  /\ InboundCapacity \in Nat \ {0}
  /\ OutboundCapacity \in Nat \ {0}
  /\ MaxOthers \in Nat

VARIABLES
  inbound,        \* InboundMessageQueue
  demux,          \* the demultiplexer: "idle", or "sending" the engine's answer
  outbound,       \* OrderMessageSender's messageQueue
  sender,         \* the sender: "idle", "writing" an order it took, "exited"
  held,           \* the order it took
  wire,           \* the messages it wrote to the order connection
  currentState,   \* SessionControlHandler's
  arrived,        \* history: the trades pushed to inbound
  quotesArrived, othersArrived  \* history, for the bounds

coreVars == <<engineVars, inbound, demux, outbound, sender, held, wire, currentState,
              arrived, quotesArrived, othersArrived>>

arrivalVars == <<arrived, quotesArrived, othersArrived>>
senderVars == <<sender, held, wire>>

QuoteMessage == [kind |-> "quote"]
OtherMessage == [kind |-> "other"]   \* Heartbeat or SessionControl
TradeMessage(t, ts) == [kind |-> "trade", trade |-> t, ts |-> ts]

CoreInit ==
  /\ EngineInit
  /\ inbound = <<>>
  /\ demux = "idle"
  /\ outbound = <<>>
  /\ sender \in {"idle", "exited"}
  /\ held = NoOrder
  /\ wire = <<>>
  /\ currentState = "OPEN"
  /\ arrived = <<>>
  /\ quotesArrived = 0
  /\ othersArrived = 0

-----------------------------------------------------------------------------
(* The receivers, as far as the core can tell: messages appear in inbound, *)
(* in any interleaving of the two connections; a full queue makes them     *)
(* wait.                                                                   *)

Received(m) ==
  /\ Len(inbound) < InboundCapacity
  /\ inbound' = Append(inbound, m)
  /\ UNCHANGED <<engineVars, demux, outbound, senderVars, currentState>>

ReceiveQuote ==
  /\ quotesArrived < MaxQuotes
  /\ Received(QuoteMessage)
  /\ quotesArrived' = quotesArrived + 1
  /\ UNCHANGED <<arrived, othersArrived>>

ReceiveTrade(t, ts) ==
  /\ Len(arrived) < MaxTrades
  /\ Received(TradeMessage(t, ts))
  /\ arrived' = Append(arrived, t)
  /\ UNCHANGED <<quotesArrived, othersArrived>>

ReceiveOther ==
  /\ othersArrived < MaxOthers
  /\ Received(OtherMessage)
  /\ othersArrived' = othersArrived + 1
  /\ UNCHANGED <<arrived, quotesArrived>>

-----------------------------------------------------------------------------
(* The demultiplexer thread.                                               *)

Pops(kind) ==
  /\ demux = "idle"
  /\ inbound # <<>>
  /\ Head(inbound).kind = kind
  /\ inbound' = Tail(inbound)
  /\ UNCHANGED <<outbound, senderVars, currentState, arrivalVars>>

HandleQuote ==
  /\ Pops("quote")
  /\ OnQuote
  /\ UNCHANGED demux

\* (Faulty: an order is handed over only if there is room.)
HandleTradeMessageIfRoom ==
  /\ Pops("trade")
  /\ OnTrade(Head(inbound).trade, Head(inbound).ts)
  /\ demux' = IF answer' # NoOrder /\ Len(outbound) < OutboundCapacity THEN "sending" ELSE "idle"

\* The engine's answer, if there is one, is then to be sent.
HandleTradeMessage ==
  /\ Pops("trade")
  /\ OnTrade(Head(inbound).trade, Head(inbound).ts)
  /\ demux' = IF answer' = NoOrder THEN "idle" ELSE "sending"

\* No handler can handle it.
DropOther ==
  /\ Pops("other")
  /\ UNCHANGED <<engineVars, demux>>

\* (Faulty: the push does not look for room.)
SendAnswerAnyway ==
  /\ demux = "sending"
  /\ outbound' = Append(outbound, answer)
  /\ demux' = "idle"
  /\ UNCHANGED <<engineVars, inbound, senderVars, currentState, arrivalVars>>

\* (Faulty: the queue was given one slot too few.)
SendAnswerShort ==
  /\ demux = "sending"
  /\ Len(outbound) + 1 < OutboundCapacity
  /\ outbound' = Append(outbound, answer)
  /\ demux' = "idle"
  /\ UNCHANGED <<engineVars, inbound, senderVars, currentState, arrivalVars>>

\* OrderMessageSender::send: pushes until the queue has room.
SendAnswer ==
  /\ demux = "sending"
  /\ Len(outbound) < OutboundCapacity
  /\ outbound' = Append(outbound, answer)
  /\ demux' = "idle"
  /\ UNCHANGED <<engineVars, inbound, senderVars, currentState, arrivalVars>>

DemuxStep == HandleQuote \/ HandleTradeMessage \/ DropOther \/ SendAnswer

-----------------------------------------------------------------------------
(* The sender thread.                                                      *)

\* (Faulty: the order stays in the queue.)
PeekOrder ==
  /\ sender = "idle"
  /\ outbound # <<>>
  /\ held' = Head(outbound)
  /\ sender' = "writing"
  /\ UNCHANGED <<engineVars, inbound, demux, outbound, wire, currentState, arrivalVars>>

\* run: pops the next order.
TakeOrder ==
  /\ sender = "idle"
  /\ outbound # <<>>
  /\ held' = Head(outbound)
  /\ outbound' = Tail(outbound)
  /\ sender' = "writing"
  /\ UNCHANGED <<engineVars, inbound, demux, wire, currentState, arrivalVars>>

\* sendNewOrder.
WriteOrder ==
  /\ sender = "writing"
  /\ wire' = Append(wire, NewOrderMessage(held))
  /\ sender' = "idle"
  /\ UNCHANGED <<engineVars, inbound, demux, outbound, held, currentState, arrivalVars>>

SenderStep == TakeOrder \/ WriteOrder

-----------------------------------------------------------------------------
(* The session thread: commands that do not fit the state change nothing.  *)

Command(from, to) ==
  /\ currentState \in from
  /\ currentState' = to
  /\ UNCHANGED <<inbound, demux, outbound, senderVars, arrivalVars>>

HandleHalt == Command({"OPEN"}, "HALT") /\ HaltTrading

\* (Faulty: the engine is not told.)
HandleOpenForgets == Command({"HALT"}, "OPEN") /\ UNCHANGED engineVars

HandleOpen == Command({"HALT"}, "OPEN") /\ ResumeTrading

\* handleClose leaves the engine as it is; it stops the receivers.
HandleClose == Command({"OPEN", "HALT"}, "CLOSE") /\ UNCHANGED engineVars

\* What the engine does on its own.
Background ==
  /\ HaltWriteVisible \/ TimePasses
  /\ UNCHANGED <<inbound, demux, outbound, senderVars, currentState, arrivalVars>>

CoreNext ==
  \/ ReceiveQuote
  \/ \E t \in Trades, ts \in StampsNow : ReceiveTrade(t, ts)
  \/ ReceiveOther
  \/ DemuxStep
  \/ SenderStep
  \/ HandleHalt
  \/ HandleOpen
  \/ HandleClose
  \/ Background

\* Both threads loop and are scheduled.  Each handler of the demultiplexer pops
\* inbound and nothing else does, so fairness to the pop is fairness to them.
PopsInbound ==
  /\ demux = "idle"
  /\ inbound # <<>>
  /\ inbound' = Tail(inbound)

CoreFairness ==
  /\ WF_inbound(PopsInbound)
  /\ WF_coreVars(SendAnswer)
  /\ WF_coreVars(SenderStep)

CoreSpec == CoreInit /\ [][CoreNext]_coreVars /\ CoreFairness

-----------------------------------------------------------------------------
(* Properties.                                                             *)

\* The orders between the engine and the wire, oldest first.
InFlight ==
  (IF sender = "writing" THEN <<held>> ELSE <<>>)
    \o outbound
    \o (IF demux = "sending" THEN <<answer>> ELSE <<>>)

\* The orders on the wire, as the other end reads them.
WireOrders == [i \in DOMAIN wire |-> ReadNewOrder(wire[i])]

Outgoing == WireOrders \o InFlight

\* Types.
CoreTypeOK ==
  /\ Len(inbound) <= InboundCapacity
  /\ demux \in {"idle", "sending"}
  /\ Len(outbound) <= OutboundCapacity
  /\ sender \in {"idle", "writing", "exited"}
  /\ currentState \in {"OPEN", "HALT", "CLOSE"}
  /\ quotesArrived \in 0 .. MaxQuotes
  /\ othersArrived \in 0 .. MaxOthers
  /\ Len(arrived) \in 0 .. MaxTrades

\* The engine's executed quantity is what the accepted orders on the wire and
\* on their way to it add up to: whatever the queues and the threads are
\* doing, no accepted order is lost or sent twice.
ExecutedIsSent ==
  tradedQuantity =
    MapThenSumSet(LAMBDA i : Outgoing[i].quantity,
                  {i \in DOMAIN Outgoing : Outgoing[i].status = "ACCEPTED"})

\* The last word of the session thread reaches the engine: once its writes
\* are visible the engine is halted exactly in the state HALT.  (After CLOSE
\* it goes on as it was.)
EngineFollowsSession ==
  LET word == Last(<<isHalted>> \o haltWrites)
  IN  /\ currentState = "HALT" => word
      /\ currentState = "OPEN" => ~word

Answers == INSTANCE TradeAnswers WITH wire <- WireOrders

\* Seen from the connections, the core is TradeAnswers.
ImplementsAnswers == Answers!AnswersSpec

\* If the sender runs, the n-th trade that reached inbound is handled, and the
\* order made for it is written.
TradesGetThrough ==
  \A n \in 1 .. MaxTrades :
    sender # "exited" /\ Len(arrived) >= n
      ~> /\ Len(feed) >= n
         /\ \A i \in DOMAIN InFlight : InFlight[i].clientOrderId # n - 1
=============================================================================
