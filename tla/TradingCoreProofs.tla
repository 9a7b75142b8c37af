-------------------------- MODULE TradingCoreProofs --------------------------
(***************************************************************************)
(* Proofs about TradingCore, for every capacity of the two queues and      *)
(* every value of the other constants: types, the session's hold on the    *)
(* engine, that the core implements TradeAnswers, and that what the engine *)
(* counts as executed is written or on its way.  The engine keeps what     *)
(* ExecutionEngineProofs shows of it when the threads surround it.         *)
(***************************************************************************)
EXTENDS TradingCore, ExecutionEngineProofs, SequenceTheorems, TLAPS

-----------------------------------------------------------------------------
(* What the codec does to an order.                                        *)

\* A NewOrder is read as it was written, in the fields that the model has of it
\* (OESerialiser.cpp:6-11, OETypes.cpp:97-118).
THEOREM NewOrderRoundTrip ==
  ASSUME NEW Rest,
         NEW order \in [clientOrderId : Rest, status : {"ACCEPTED", "REJECTED"},
                        side : {"BUY", "SELL"}, quantity : Rest]
  PROVE  ReadNewOrder(NewOrderMessage(order)) = order
<1>1. OrderStatusFromChar[OrderStatusToChar[order.status]] = order.status
  BY DEF OrderStatusFromChar, OrderStatusToChar
<1>2. OrderSideFromChar[OrderSideToChar[order.side]] = order.side
  BY DEF OrderSideFromChar, OrderSideToChar
<1>3. ReadNewOrder(NewOrderMessage(order)) = ToNewOrder(ToBody(order))
  BY DEF ReadNewOrder, NewOrderMessage, NEW_ORDER
<1>4. ToNewOrder(ToBody(order)) =
        [clientOrderId |-> order.clientOrderId,
         status |-> OrderStatusFromChar[OrderStatusToChar[order.status]],
         side |-> OrderSideFromChar[OrderSideToChar[order.side]],
         quantity |-> order.quantity]
  BY DEF ToNewOrder, ToBody
<1>5. order = [clientOrderId |-> order.clientOrderId, status |-> order.status,
               side |-> order.side, quantity |-> order.quantity]
  OBVIOUS
<1> QED
  BY <1>1, <1>2, <1>3, <1>4, <1>5

\* So is an ExecReport, though the program sends none.
THEOREM ExecReportRoundTrip ==
  ASSUME NEW Rest,
         NEW report \in [clientOrderId : Rest, tsNs : Rest,
                         status : {"ACK", "FILL", "PARTIAL", "REJECT"}, filledQty : Rest,
                         avgPx : Rest,
                         reasonCode : {"NONE", "RISK", "PRICE", "SIZE", "THROTTLE"}]
  PROVE  ReadExecReport(ExecReportMessage(report)) = report
<1>1. ExecStatusFromNum[ExecStatusToNum[report.status]] = report.status
  BY DEF ExecStatusFromNum, ExecStatusToNum
<1>2. RejectReasonFromNum[RejectReasonToNum[report.reasonCode]] = report.reasonCode
  BY DEF RejectReasonFromNum, RejectReasonToNum
<1>3. ReadExecReport(ExecReportMessage(report)) = ToExecReport(ToReportBody(report))
  BY DEF ReadExecReport, ExecReportMessage, EXEC_REPORT
<1>4. ToExecReport(ToReportBody(report)) =
        [clientOrderId |-> report.clientOrderId, tsNs |-> report.tsNs,
         status |-> ExecStatusFromNum[ExecStatusToNum[report.status]],
         filledQty |-> report.filledQty, avgPx |-> report.avgPx,
         reasonCode |-> RejectReasonFromNum[RejectReasonToNum[report.reasonCode]]]
  BY DEF ToExecReport, ToReportBody
<1>5. report = [clientOrderId |-> report.clientOrderId, tsNs |-> report.tsNs,
                status |-> report.status, filledQty |-> report.filledQty,
                avgPx |-> report.avgPx, reasonCode |-> report.reasonCode]
  OBVIOUS
<1> QED
  BY <1>1, <1>2, <1>3, <1>4, <1>5

-----------------------------------------------------------------------------
(* The core.                                                               *)

Order == [clientOrderId : Nat, status : {"ACCEPTED", "REJECTED"},
          side : {"BUY", "SELL"}, quantity : Nat]

InboundMessage ==
  [kind : {"trade"}, trade : Trades, ts : Stamp] \cup {QuoteMessage, OtherMessage}

WrittenOrder == {NewOrderMessage(order) : order \in Order}

MessagesOK ==
  /\ inbound \in Seq(InboundMessage)
  /\ arrived \in Seq(Trades)
  /\ outbound \in Seq(Order)
  /\ wire \in Seq(WrittenOrder)
  /\ demux = "sending" => answer \in Order
  /\ sender = "writing" => held \in Order

\* The trades that wait in inbound are the last that arrived, in their order.
\* upTo[i] is the number of trades that have arrived up to inbound's i-th
\* message: it starts from those that the engine has handled.
CountsTrades(upTo) ==
  /\ upTo[0] = clientOrderIdCounter
  /\ upTo[Len(inbound)] = Len(arrived)
  /\ \A i \in 1 .. Len(inbound) :
       IF inbound[i].kind = "trade"
       THEN /\ upTo[i] = upTo[i - 1] + 1
            /\ upTo[i] <= Len(arrived)
            /\ arrived[upTo[i]] = inbound[i].trade
       ELSE upTo[i] = upTo[i - 1]

TradesAreQueued == \E upTo \in [0 .. Len(inbound) -> Nat] : CountsTrades(upTo)

\* An order answers the trade whose position is its id, and that was handled.
IsAnswer(order) ==
  /\ order.clientOrderId < clientOrderIdCounter
  /\ order.quantity = arrived[order.clientOrderId + 1].quantity
  /\ order.status = "ACCEPTED" => order.side = arrived[order.clientOrderId + 1].aggressor

\* The orders on the wire and on their way to it answer their trades, and their
\* ids rise.
AnswersInOrder ==
  /\ clientOrderIdCounter <= Len(arrived)
  /\ \A i \in DOMAIN Outgoing : IsAnswer(Outgoing[i])
  /\ \A i, j \in DOMAIN Outgoing :
       i < j => Outgoing[i].clientOrderId < Outgoing[j].clientOrderId

CoreInv ==
  /\ EngineInv
  /\ CoreTypeOK
  /\ MessagesOK
  /\ EngineFollowsSession
  /\ TradesAreQueued
  /\ AnswersInOrder

-----------------------------------------------------------------------------
(* Sequences that are passed on.                                           *)

\* The last element moves from the third part to the second.
LEMMA PassBack ==
  ASSUME NEW S, NEW a \in S, NEW h \in Seq(S), NEW o \in Seq(S)
  PROVE  (h \o o) \o <<a>> = (h \o Append(o, a)) \o <<>>
<1>1. <<a>> \in Seq(S) /\ Append(o, a) \in Seq(S) /\ Append(o, a) = o \o <<a>>
  BY AppendProperties, AppendIsConcat
<1>2. (h \o o) \o <<a>> = h \o (o \o <<a>>)
  BY <1>1, ConcatAssociative
<1>3. h \o Append(o, a) \in Seq(S)
  BY <1>1, ConcatProperties
<1>4. (h \o Append(o, a)) \o <<>> = h \o Append(o, a)
  BY <1>3, ConcatEmptySeq
<1> QED
  BY <1>1, <1>2, <1>4

\* The first element moves from the second part to the first, which is empty.
LEMMA PassFront ==
  ASSUME NEW S, NEW o \in Seq(S), o # <<>>
  PROVE  <<>> \o o = <<Head(o)>> \o Tail(o)
<1>1. <<>> \o o = o
  BY ConcatEmptySeq
<1>2. <<Head(o)>> \o Tail(o) = o
  OBVIOUS
<1> QED
  BY <1>1, <1>2

\* The only element of the second part moves to the end of the first.
LEMMA PassOut ==
  ASSUME NEW S, NEW a \in S, NEW w \in Seq(S), NEW o \in Seq(S), NEW s \in Seq(S)
  PROVE  w \o ((<<a>> \o o) \o s) = Append(w, a) \o ((<<>> \o o) \o s)
<1>1. <<a>> \in Seq(S) /\ Append(w, a) = w \o <<a>>
  BY AppendIsConcat
<1>2. o \o s \in Seq(S) /\ <<>> \o o = o
  BY ConcatProperties, ConcatEmptySeq
<1>3. (<<a>> \o o) \o s = <<a>> \o (o \o s)
  BY <1>1, ConcatAssociative
<1> DEFINE rest == o \o s
<1>4. rest \in Seq(S)
  BY <1>2
<1> HIDE DEF rest
<1>5. w \o (<<a>> \o rest) = (w \o <<a>>) \o rest
  BY <1>1, <1>4, ConcatAssociative
<1> QED
  BY <1>1, <1>2, <1>3, <1>5 DEF rest

\* An element after the last of the third part is one after the last of all.
LEMMA PassIn ==
  ASSUME NEW S, NEW a \in S, NEW w \in Seq(S), NEW h \in Seq(S), NEW o \in Seq(S)
  PROVE  w \o ((h \o o) \o <<a>>) = Append(w \o ((h \o o) \o <<>>), a)
<1> DEFINE front == h \o o
<1>1. front \in Seq(S) /\ <<a>> \in Seq(S)
  BY ConcatProperties
<1> HIDE DEF front
<1>2. front \o <<>> = front
  BY <1>1, ConcatEmptySeq
<1>3. w \o (front \o <<a>>) = (w \o front) \o <<a>>
  BY <1>1, ConcatAssociative
<1>4. w \o front \in Seq(S)
  BY <1>1, ConcatProperties
<1>5. Append(w \o front, a) = (w \o front) \o <<a>>
  BY <1>4, AppendIsConcat
<1> QED
  BY <1>2, <1>3, <1>5 DEF front

\* The last word after a write is the one written.
LEMMA LastWritten ==
  ASSUME NEW S, NEW h \in S, NEW s \in Seq(S), NEW b \in S
  PROVE  Last(<<h>> \o Append(s, b)) = b
<1> DEFINE t == Append(s, b)
<1>1. <<h>> \in Seq(S) /\ Len(<<h>>) = 1 /\ Len(s) \in Nat
  BY LenProperties
<1>2. t \in Seq(S) /\ Len(t) = Len(s) + 1 /\ t[Len(s) + 1] = b
  BY AppendProperties
<1> HIDE DEF t
<1>3. Len(<<h>> \o t) = Len(t) + 1 /\ (<<h>> \o t)[Len(t) + 1] = t[Len(t)]
  BY <1>1, <1>2, ConcatProperties
<1> QED
  BY <1>2, <1>3 DEF Last, t

\* It stays the last when the first write has become visible.
LEMMA LastStays ==
  ASSUME NEW S, NEW h \in S, NEW s \in Seq(S), s # <<>>
  PROVE  Last(<<Head(s)>> \o Tail(s)) = Last(<<h>> \o s)
<1>1. <<h>> \in Seq(S) /\ Len(<<h>>) = 1
  OBVIOUS
<1>2. <<Head(s)>> \o Tail(s) = s
  OBVIOUS
<1>3. Len(s) \in Nat /\ Len(s) >= 1
  BY LenProperties, EmptySeq
<1>4. Len(<<h>> \o s) = Len(s) + 1 /\ (<<h>> \o s)[Len(s) + 1] = s[Len(s)]
  BY <1>1, <1>3, ConcatProperties
<1> QED
  BY <1>2, <1>4 DEF Last

-----------------------------------------------------------------------------
(* The engine and the session.                                             *)

\* What handling a trade does to the ids and to the answer.
LEMMA AnswerOfTrade ==
  ASSUME EngineInv, NEW t \in Trades, NEW ts \in Stamp, OnTrade(t, ts)
  PROVE  /\ clientOrderIdCounter \in Nat
         /\ clientOrderIdCounter' = clientOrderIdCounter + 1
         /\ \/ answer' = NoOrder
            \/ /\ answer' \in Order
               /\ answer'.clientOrderId = clientOrderIdCounter
               /\ answer'.quantity = t.quantity
               /\ answer'.status = "ACCEPTED" => answer'.side = t.aggressor
         /\ UNCHANGED haltVars
<1>1. clientOrderIdCounter \in Nat /\ t.quantity \in Nat
  BY Constants DEF EngineInv, EngineTypeOK
<1>2. HandledByEngine(t, ts)
  BY DEF OnTrade, RejectWarmUp, DropHalted, Buy, Sell, RejectNoEdge, RejectUnknown
<1>3. clientOrderIdCounter' = clientOrderIdCounter + 1 /\ UNCHANGED haltVars
  BY <1>2 DEF HandledByEngine
<1>4. CASE DropHalted(t, ts)
  BY <1>1, <1>3, <1>4 DEF DropHalted
<1>5. ASSUME NEW status \in {"ACCEPTED", "REJECTED"}, NEW side \in {"BUY", "SELL"},
             answer' = Answer(status, side, t)
      PROVE  /\ answer' \in Order
             /\ answer'.clientOrderId = clientOrderIdCounter
             /\ answer'.quantity = t.quantity
             /\ answer'.status = status
             /\ answer'.side = side
  BY <1>1, <1>5 DEF Answer, NewOrder, Order
<1>6. CASE Buy(t, ts)
  BY <1>1, <1>3, <1>5, <1>6 DEF Buy
<1>7. CASE Sell(t, ts)
  BY <1>1, <1>3, <1>5, <1>7 DEF Sell
<1>8. CASE RejectWarmUp(t, ts) \/ RejectNoEdge(t, ts) \/ RejectUnknown(t, ts)
  <2>1. answer' = Answer("REJECTED", RejectedSide(t), t)
    BY <1>8 DEF RejectWarmUp, RejectNoEdge, RejectUnknown, Reject
  <2>2. RejectedSide(t) \in {"BUY", "SELL"}
    BY DEF RejectedSide
  <2> QED
    BY <1>1, <1>3, <1>5, <2>1, <2>2
<1> QED
  BY <1>4, <1>6, <1>7, <1>8 DEF OnTrade

\* The trade that the demultiplexer takes from inbound.
LEMMA FirstTrade ==
  ASSUME CoreInv, Pops("trade")
  PROVE  Head(inbound).trade \in Trades /\ Head(inbound).ts \in Stamp
<1>1. Head(inbound) \in InboundMessage /\ Head(inbound).kind = "trade"
  BY HeadTailProperties DEF Pops, CoreInv, MessagesOK
<1> QED
  BY <1>1 DEF InboundMessage, QuoteMessage, OtherMessage

\* Every step of the core that is not the handling of a trade leaves the ids
\* and the answer alone.
LEMMA OnlyTradesAnswer ==
  ASSUME [CoreNext]_coreVars, ~HandleTradeMessage
  PROVE  UNCHANGED <<clientOrderIdCounter, answer>>
<1>1. CASE UNCHANGED engineVars
  BY <1>1 DEF engineVars
<1>2. CASE HandleQuote
  BY <1>2 DEF HandleQuote, OnQuote, orderVars
<1>3. CASE HandleHalt \/ HandleOpen
  BY <1>3 DEF HandleHalt, HandleOpen, HaltTrading, ResumeTrading, WriteHalted, orderVars
<1>4. CASE Background
  BY <1>4 DEF Background, HaltWriteVisible, TimePasses, orderVars
<1>5. CASE CoreNext
  BY <1>1, <1>2, <1>3, <1>4, <1>5
     DEF CoreNext, ReceiveQuote, ReceiveTrade, ReceiveOther, Received, DemuxStep, DropOther,
         SendAnswer, SenderStep, TakeOrder, WriteOrder, HandleClose
<1> QED
  BY <1>1, <1>5 DEF coreVars

\* The engine keeps its invariant among the threads.
LEMMA EngineKeeps ==
  ASSUME CoreInv, [CoreNext]_coreVars
  PROVE  EngineInv'
<1>1. EngineInv
  BY DEF CoreInv
<1>2. CASE UNCHANGED engineVars
  BY <1>1, <1>2, OthersKeep
<1>3. CASE HandleQuote
  BY <1>1, <1>3, QuoteKeeps DEF HandleQuote
<1>4. CASE HandleTradeMessage
  BY <1>1, <1>4, FirstTrade, TradeKeeps DEF HandleTradeMessage
<1>5. CASE HandleHalt \/ HandleOpen
  BY <1>1, <1>5, OthersKeep DEF HandleHalt, HandleOpen
<1>6. CASE Background
  BY <1>1, <1>6, OthersKeep DEF Background
<1>7. CASE CoreNext
  BY <1>2, <1>3, <1>4, <1>5, <1>6, <1>7
     DEF CoreNext, ReceiveQuote, ReceiveTrade, ReceiveOther, Received, DemuxStep, DropOther,
         SendAnswer, SenderStep, TakeOrder, WriteOrder, HandleClose
<1> QED
  BY <1>2, <1>7 DEF coreVars

\* The session's last word is the one it wrote for its state.
LEMMA SessionKeeps ==
  ASSUME CoreInv, [CoreNext]_coreVars
  PROVE  EngineFollowsSession'
<1>1. isHalted \in BOOLEAN /\ haltWrites \in Seq(BOOLEAN)
  BY DEF CoreInv, EngineInv, EngineTypeOK
<1>2. CASE UNCHANGED <<haltVars, currentState>>
  BY <1>2 DEF CoreInv, EngineFollowsSession, haltVars
<1>3. CASE HandleHalt
  <2>1. currentState' = "HALT" /\ isHalted' = isHalted /\ haltWrites' = Append(haltWrites, TRUE)
    BY <1>3 DEF HandleHalt, Command, HaltTrading, WriteHalted
  <2>2. Last(<<isHalted>> \o Append(haltWrites, TRUE)) = TRUE
    BY <1>1, LastWritten
  <2> QED
    BY <2>1, <2>2 DEF EngineFollowsSession
<1>4. CASE HandleOpen
  <2>1. currentState' = "OPEN" /\ isHalted' = isHalted /\ haltWrites' = Append(haltWrites, FALSE)
    BY <1>4 DEF HandleOpen, Command, ResumeTrading, WriteHalted
  <2>2. Last(<<isHalted>> \o Append(haltWrites, FALSE)) = FALSE
    BY <1>1, LastWritten
  <2> QED
    BY <2>1, <2>2 DEF EngineFollowsSession
<1>5. CASE HandleClose
  BY <1>5 DEF HandleClose, Command, EngineFollowsSession
<1>6. CASE Background
  <2>1. CASE HaltWriteVisible
    <3>1. /\ haltWrites # <<>> /\ currentState' = currentState
          /\ isHalted' = Head(haltWrites) /\ haltWrites' = Tail(haltWrites)
      BY <1>6, <2>1 DEF Background, HaltWriteVisible
    <3>2. Last(<<Head(haltWrites)>> \o Tail(haltWrites)) = Last(<<isHalted>> \o haltWrites)
      BY <1>1, <3>1, LastStays
    <3> QED
      BY <3>1, <3>2 DEF CoreInv, EngineFollowsSession
  <2>2. CASE TimePasses
    BY <1>2, <1>6, <2>2 DEF Background, TimePasses
  <2> QED
    BY <1>6, <2>1, <2>2 DEF Background
<1>7. CASE HandleTradeMessage
  <2>1. UNCHANGED haltVars
    BY <1>7, FirstTrade, AnswerOfTrade DEF HandleTradeMessage, CoreInv
  <2> QED
    BY <1>2, <1>7, <2>1 DEF HandleTradeMessage, Pops
<1>8. CASE HandleQuote
  BY <1>2, <1>8 DEF HandleQuote, OnQuote, Pops
<1>9. CASE UNCHANGED <<engineVars, currentState>>
  BY <1>2, <1>9 DEF engineVars, haltVars
<1>10. CASE CoreNext
  BY <1>3, <1>4, <1>5, <1>6, <1>7, <1>8, <1>9, <1>10
     DEF CoreNext, ReceiveQuote, ReceiveTrade, ReceiveOther, Received, DemuxStep, DropOther, Pops,
         SendAnswer, SenderStep, TakeOrder, WriteOrder
<1> QED
  BY <1>9, <1>10 DEF coreVars

-----------------------------------------------------------------------------
(* The inbound queue.                                                      *)

\* A message is appended, and its trade to arrived if it is one.
LEMMA ReceivedQueues ==
  ASSUME CoreInv, NEW m \in InboundMessage,
         inbound' = Append(inbound, m),
         clientOrderIdCounter' = clientOrderIdCounter,
         IF m.kind = "trade"
         THEN m.trade \in Trades /\ arrived' = Append(arrived, m.trade)
         ELSE arrived' = arrived
  PROVE  TradesAreQueued'
<1> DEFINE n == Len(inbound)
           c == Len(arrived)
<1> PICK upTo \in [0 .. n -> Nat] : CountsTrades(upTo)
  BY DEF CoreInv, TradesAreQueued
<1> DEFINE last == IF m.kind = "trade" THEN c + 1 ELSE c
           next == [i \in 0 .. n + 1 |-> IF i = n + 1 THEN last ELSE upTo[i]]
<1>1. n \in Nat /\ c \in Nat
  BY LenProperties DEF CoreInv, MessagesOK
<1>2. Len(inbound') = n + 1 /\ inbound'[n + 1] = m /\ \A i \in 1 .. n : inbound'[i] = inbound[i]
  BY AppendProperties DEF CoreInv, MessagesOK
<1>3. /\ Len(arrived') = last
      /\ \A i \in 1 .. c : arrived'[i] = arrived[i]
      /\ m.kind = "trade" => arrived'[c + 1] = m.trade
  <2>1. CASE m.kind = "trade"
    <3>1. arrived \in Seq(Trades) /\ m.trade \in Trades /\ arrived' = Append(arrived, m.trade)
      BY <2>1 DEF CoreInv, MessagesOK
    <3> QED
      BY <2>1, <3>1, AppendProperties
  <2>2. CASE m.kind # "trade"
    BY <2>2
  <2> QED
    BY <2>1, <2>2
<1>4. last \in Nat /\ c <= last
  BY <1>1
<1>5. next \in [0 .. n + 1 -> Nat]
  BY <1>1, <1>4
<1>6. /\ next[0] = clientOrderIdCounter
      /\ next[n + 1] = last
      /\ \A i \in 0 .. n : next[i] = upTo[i]
  BY <1>1 DEF CountsTrades
<1>7. ASSUME NEW i \in 1 .. n + 1
      PROVE  IF inbound'[i].kind = "trade"
             THEN /\ next[i] = next[i - 1] + 1
                  /\ next[i] <= last
                  /\ arrived'[next[i]] = inbound'[i].trade
             ELSE next[i] = next[i - 1]
  <2>1. CASE i = n + 1
    <3>1. next[i] = last /\ next[i - 1] = c /\ inbound'[i] = m
      BY <1>1, <1>2, <1>6, <2>1 DEF CountsTrades
    <3> HIDE DEF next
    <3> QED
      BY <1>1, <1>3, <1>4, <3>1
  <2>2. CASE i # n + 1
    <3>1. i \in 1 .. n /\ i - 1 \in 0 .. n /\ i \in 0 .. n
      BY <1>1, <2>2
    <3>2. next[i] = upTo[i] /\ next[i - 1] = upTo[i - 1] /\ inbound'[i] = inbound[i]
      BY <1>2, <1>6, <3>1
    <3> HIDE DEF next, last
    <3>3. CASE inbound[i].kind = "trade"
      <4>1. /\ upTo[i] = upTo[i - 1] + 1 /\ upTo[i - 1] \in Nat
            /\ upTo[i] <= c /\ arrived[upTo[i]] = inbound[i].trade
        BY <3>1, <3>3 DEF CountsTrades
      <4>2. upTo[i] \in 1 .. c
        BY <1>1, <4>1
      <4>3. arrived'[upTo[i]] = inbound[i].trade /\ upTo[i] <= last
        BY <1>1, <1>3, <1>4, <4>1, <4>2
      <4> QED
        BY <3>2, <3>3, <4>1, <4>3
    <3>4. CASE inbound[i].kind # "trade"
      BY <3>1, <3>2, <3>4 DEF CountsTrades
    <3> QED
      BY <3>3, <3>4
  <2> QED
    BY <2>1, <2>2
<1> HIDE DEF next, last
<1>8. next \in [0 .. Len(inbound') -> Nat]
  BY <1>2, <1>5
<1>9. next[0] = clientOrderIdCounter' /\ next[Len(inbound')] = Len(arrived')
  BY <1>2, <1>3, <1>6
<1>10. \A i \in 1 .. Len(inbound') :
         IF inbound'[i].kind = "trade"
         THEN /\ next[i] = next[i - 1] + 1
              /\ next[i] <= Len(arrived')
              /\ arrived'[next[i]] = inbound'[i].trade
         ELSE next[i] = next[i - 1]
  BY <1>2, <1>3, <1>7
<1> QED
  BY <1>8, <1>9, <1>10 DEF TradesAreQueued, CountsTrades

\* The first message is taken; if it is a trade, the engine counts it.
LEMMA PoppedQueues ==
  ASSUME CoreInv, inbound # <<>>, inbound' = Tail(inbound), arrived' = arrived,
         clientOrderIdCounter' =
           IF Head(inbound).kind = "trade" THEN clientOrderIdCounter + 1 ELSE clientOrderIdCounter
  PROVE  /\ TradesAreQueued'
         /\ Head(inbound).kind = "trade"
              => /\ clientOrderIdCounter + 1 <= Len(arrived)
                 /\ arrived[clientOrderIdCounter + 1] = Head(inbound).trade
<1> DEFINE n == Len(inbound)
<1> PICK upTo \in [0 .. n -> Nat] : CountsTrades(upTo)
  BY DEF CoreInv, TradesAreQueued
<1> DEFINE next == [i \in 0 .. n - 1 |-> upTo[i + 1]]
<1>1. n \in Nat /\ n >= 1 /\ Head(inbound) = inbound[1]
  BY LenProperties, EmptySeq DEF CoreInv, MessagesOK
<1>2. Len(inbound') = n - 1 /\ \A i \in 1 .. n - 1 : inbound'[i] = inbound[i + 1]
  BY HeadTailProperties DEF CoreInv, MessagesOK
<1>3. next \in [0 .. n - 1 -> Nat] /\ \A i \in 0 .. n - 1 : next[i] = upTo[i + 1]
  BY <1>1
<1>4. IF Head(inbound).kind = "trade"
      THEN /\ upTo[1] = clientOrderIdCounter + 1
           /\ upTo[1] <= Len(arrived)
           /\ arrived[upTo[1]] = Head(inbound).trade
      ELSE upTo[1] = clientOrderIdCounter
  <2>1. 1 \in 1 .. n /\ 1 - 1 = 0
    BY <1>1
  <2> QED
    BY <1>1, <2>1 DEF CountsTrades
<1> HIDE DEF next
<1>5. next[0] = clientOrderIdCounter' /\ next[n - 1] = Len(arrived')
  BY <1>1, <1>3, <1>4 DEF CountsTrades
<1>6. ASSUME NEW i \in 1 .. n - 1
      PROVE  IF inbound'[i].kind = "trade"
             THEN /\ next[i] = next[i - 1] + 1
                  /\ next[i] <= Len(arrived')
                  /\ arrived'[next[i]] = inbound'[i].trade
             ELSE next[i] = next[i - 1]
  <2>1. i + 1 \in 1 .. n /\ i \in 0 .. n - 1 /\ i - 1 \in 0 .. n - 1 /\ (i + 1) - 1 = i
        /\ (i - 1) + 1 = i
    BY <1>1
  <2>2. next[i] = upTo[i + 1] /\ next[i - 1] = upTo[i] /\ inbound'[i] = inbound[i + 1]
    BY <1>2, <1>3, <2>1
  <2> QED
    BY <2>1, <2>2 DEF CountsTrades
<1>7. next \in [0 .. Len(inbound') -> Nat]
  BY <1>2, <1>3
<1>8. next[0] = clientOrderIdCounter' /\ next[Len(inbound')] = Len(arrived')
  BY <1>2, <1>5
<1>9. \A i \in 1 .. Len(inbound') :
        IF inbound'[i].kind = "trade"
        THEN /\ next[i] = next[i - 1] + 1
             /\ next[i] <= Len(arrived')
             /\ arrived'[next[i]] = inbound'[i].trade
        ELSE next[i] = next[i - 1]
  BY <1>2, <1>6
<1>10. TradesAreQueued'
  BY <1>7, <1>8, <1>9 DEF TradesAreQueued, CountsTrades
<1> QED
  BY <1>4, <1>10

\* Every step keeps the trades of inbound in step with arrived.
LEMMA QueueKeeps ==
  ASSUME CoreInv, [CoreNext]_coreVars
  PROVE  TradesAreQueued'
<1>1. CASE ReceiveQuote
  <2>1. QuoteMessage \in InboundMessage /\ QuoteMessage.kind # "trade"
    BY DEF InboundMessage, QuoteMessage
  <2> QED
    BY <1>1, <2>1, ReceivedQueues DEF ReceiveQuote, Received, engineVars
<1>2. CASE ReceiveOther
  <2>1. OtherMessage \in InboundMessage /\ OtherMessage.kind # "trade"
    BY DEF InboundMessage, OtherMessage
  <2> QED
    BY <1>2, <2>1, ReceivedQueues DEF ReceiveOther, Received, engineVars
<1>3. ASSUME NEW t \in Trades, NEW ts \in StampsNow, ReceiveTrade(t, ts)
      PROVE  TradesAreQueued'
  <2> DEFINE m == TradeMessage(t, ts)
  <2>1. m \in InboundMessage /\ m.kind = "trade" /\ m.trade = t
    BY DEF InboundMessage, TradeMessage, StampsNow
  <2>2. /\ inbound' = Append(inbound, m) /\ arrived' = Append(arrived, t)
        /\ clientOrderIdCounter' = clientOrderIdCounter
    BY <1>3 DEF ReceiveTrade, Received, engineVars
  <2> HIDE DEF m
  <2> QED
    BY <2>1, <2>2, ReceivedQueues
<1>4. CASE HandleTradeMessage
  <2>1. Pops("trade") /\ OnTrade(Head(inbound).trade, Head(inbound).ts)
    BY <1>4 DEF HandleTradeMessage
  <2>2. clientOrderIdCounter' = clientOrderIdCounter + 1
    BY <2>1, FirstTrade, AnswerOfTrade DEF CoreInv
  <2> QED
    BY <2>1, <2>2, PoppedQueues DEF Pops, arrivalVars
<1>5. CASE HandleQuote \/ DropOther
  <2>1. ~HandleTradeMessage
    BY <1>5 DEF HandleQuote, DropOther, HandleTradeMessage, Pops
  <2>2. UNCHANGED clientOrderIdCounter
    BY <2>1, OnlyTradesAnswer
  <2> QED
    BY <1>5, <2>2, PoppedQueues DEF HandleQuote, DropOther, Pops, arrivalVars
<1>6. ASSUME UNCHANGED <<inbound, arrived, clientOrderIdCounter>>
      PROVE  TradesAreQueued'
  BY <1>6 DEF CoreInv, TradesAreQueued, CountsTrades
<1>7. CASE SendAnswer \/ TakeOrder \/ WriteOrder \/ HandleClose \/ UNCHANGED coreVars
  BY <1>6, <1>7
     DEF SendAnswer, TakeOrder, WriteOrder, HandleClose, Command, coreVars, arrivalVars, engineVars
<1>8. CASE HandleHalt \/ HandleOpen \/ Background
  <2>1. UNCHANGED <<inbound, arrived, orderVars>>
    BY <1>8 DEF HandleHalt, HandleOpen, Background, Command, arrivalVars, HaltTrading,
                ResumeTrading, WriteHalted, HaltWriteVisible, TimePasses
  <2> QED
    BY <1>6, <2>1 DEF orderVars
<1> QED
  BY <1>1, <1>2, <1>3, <1>4, <1>5, <1>7, <1>8 DEF CoreNext, DemuxStep, SenderStep

-----------------------------------------------------------------------------
(* The outbound queue.                                                     *)

\* The sender's order and the demultiplexer's.
Held == IF sender = "writing" THEN <<held>> ELSE <<>>
Answering == IF demux = "sending" THEN <<answer>> ELSE <<>>

\* The three parts of what is in flight, and the wire, are sequences of orders.
OrdersOK ==
  /\ WireOrders \in Seq(Order)
  /\ Held \in Seq(Order)
  /\ outbound \in Seq(Order)
  /\ Answering \in Seq(Order)
  /\ Outgoing = WireOrders \o ((Held \o outbound) \o Answering)
  /\ Outgoing \in Seq(Order)

\* What was written is read as the order it was.
LEMMA ReadAsWritten ==
  ASSUME NEW order \in Order
  PROVE  ReadNewOrder(NewOrderMessage(order)) = order
BY NewOrderRoundTrip DEF Order

\* They are, in every state with messages of the right types.
LEMMA OrdersAreSeqs ==
  MessagesOK => OrdersOK
<1> SUFFICES ASSUME MessagesOK PROVE OrdersOK
  OBVIOUS
<1>1. Len(wire) \in Nat /\ DOMAIN wire = 1 .. Len(wire)
  BY LenProperties DEF MessagesOK
<1>2. ASSUME NEW i \in 1 .. Len(wire) PROVE ReadNewOrder(wire[i]) \in Order
  <2>1. wire[i] \in WrittenOrder
    BY ElementOfSeq DEF MessagesOK
  <2> QED
    BY <2>1, ReadAsWritten DEF WrittenOrder
<1>3. WireOrders \in [1 .. Len(wire) -> Order]
  BY <1>1, <1>2 DEF WireOrders
<1>4. WireOrders \in Seq(Order)
  BY <1>1, <1>3, SeqDef
<1>5. Held \in Seq(Order) /\ Answering \in Seq(Order) /\ outbound \in Seq(Order)
  BY DEF Held, Answering, MessagesOK
<1>6. Outgoing = WireOrders \o ((Held \o outbound) \o Answering)
  BY DEF Outgoing, InFlight, Held, Answering
<1>7. Held \o outbound \in Seq(Order)
  BY <1>5, ConcatProperties
<1>8. (Held \o outbound) \o Answering \in Seq(Order)
  BY <1>5, <1>7, ConcatProperties
<1>9. WireOrders \o ((Held \o outbound) \o Answering) \in Seq(Order)
  BY <1>4, <1>8, ConcatProperties
<1> QED
  BY <1>4, <1>5, <1>6, <1>9 DEF OrdersOK

\* Every step keeps the messages' types.
LEMMA MessagesKeep ==
  ASSUME CoreInv, [CoreNext]_coreVars
  PROVE  MessagesOK'
<1> USE DEF CoreInv, MessagesOK
<1>1. CASE ReceiveQuote \/ ReceiveOther
  <2>1. QuoteMessage \in InboundMessage /\ OtherMessage \in InboundMessage
    BY DEF InboundMessage
  <2>2. inbound' \in Seq(InboundMessage)
    <3>1. inbound' = Append(inbound, QuoteMessage) \/ inbound' = Append(inbound, OtherMessage)
      BY <1>1 DEF ReceiveQuote, ReceiveOther, Received
    <3>2. inbound \in Seq(InboundMessage)
      OBVIOUS
    <3> HIDE DEF CoreInv, MessagesOK
    <3> QED
      BY <2>1, <3>1, <3>2, AppendProperties
  <2> QED
    BY <1>1, <2>2
       DEF ReceiveQuote, ReceiveOther, Received, engineVars, senderVars
<1>2. ASSUME NEW t \in Trades, NEW ts \in StampsNow, ReceiveTrade(t, ts)
      PROVE  MessagesOK'
  <2>1. TradeMessage(t, ts) \in InboundMessage
    BY DEF InboundMessage, TradeMessage, StampsNow
  <2>2. inbound' \in Seq(InboundMessage) /\ arrived' \in Seq(Trades)
    BY <1>2, <2>1, AppendProperties DEF ReceiveTrade, Received
  <2> QED
    BY <1>2, <2>2 DEF ReceiveTrade, Received, engineVars, senderVars
<1>3. ASSUME NEW kind, Pops(kind)
      PROVE  /\ inbound' \in Seq(InboundMessage)
             /\ demux = "idle"
             /\ UNCHANGED <<arrived, outbound, wire, sender, held>>
  BY <1>3, HeadTailProperties DEF Pops, arrivalVars, senderVars
<1>4. CASE HandleQuote \/ DropOther
  <2>1. /\ inbound' \in Seq(InboundMessage) /\ demux = "idle"
        /\ UNCHANGED <<arrived, outbound, wire, sender, held>>
    BY <1>3, <1>4 DEF HandleQuote, DropOther
  <2>2. demux' = demux
    BY <1>4 DEF HandleQuote, DropOther
  <2> QED
    BY <2>1, <2>2
<1>5. CASE HandleTradeMessage
  <2>1. answer' = NoOrder \/ answer' \in Order
    BY <1>5, FirstTrade, AnswerOfTrade DEF HandleTradeMessage
  <2>2. demux' = IF answer' = NoOrder THEN "idle" ELSE "sending"
    BY <1>5 DEF HandleTradeMessage
  <2> QED
    BY <1>3, <1>5, <2>1, <2>2 DEF HandleTradeMessage
<1>6. CASE SendAnswer
  <2>1. outbound' \in Seq(Order)
    BY <1>6, AppendProperties DEF SendAnswer
  <2> QED
    BY <1>6, <2>1 DEF SendAnswer, arrivalVars, senderVars
<1>7. CASE TakeOrder
  <2>1. held' \in Order /\ outbound' \in Seq(Order)
    BY <1>7, HeadTailProperties DEF TakeOrder
  <2> QED
    BY <1>7, <2>1 DEF TakeOrder, arrivalVars, engineVars
<1>8. CASE WriteOrder
  <2>1. NewOrderMessage(held) \in WrittenOrder
    BY <1>8 DEF WriteOrder, WrittenOrder
  <2>2. wire' \in Seq(WrittenOrder)
    BY <1>8, <2>1, AppendProperties DEF WriteOrder
  <2> QED
    BY <1>8, <2>2 DEF WriteOrder, arrivalVars, engineVars
<1>9. ASSUME UNCHANGED <<inbound, demux, outbound, sender, held, wire, arrived, answer>>
      PROVE  MessagesOK'
  BY <1>9
<1>10. CASE HandleHalt \/ HandleOpen \/ HandleClose \/ Background \/ UNCHANGED coreVars
  <2>1. UNCHANGED <<inbound, demux, outbound, sender, held, wire, arrived>>
    BY <1>10 DEF HandleHalt, HandleOpen, HandleClose, Background, Command, coreVars,
                 arrivalVars, senderVars
  <2>2. ~HandleTradeMessage
    BY <2>1 DEF HandleTradeMessage, Pops
  <2> QED
    BY <1>9, <2>1, <2>2, OnlyTradesAnswer
<1> QED
  BY <1>1, <1>2, <1>4, <1>5, <1>6, <1>7, <1>8, <1>10 DEF CoreNext, DemuxStep, SenderStep

\* Orders that are only passed on stay in order, whatever arrives meanwhile.
LEMMA PassedInOrder ==
  ASSUME CoreInv, Outgoing' = Outgoing,
         clientOrderIdCounter' \in {clientOrderIdCounter, clientOrderIdCounter + 1},
         clientOrderIdCounter' <= Len(arrived'),
         \A i \in 1 .. Len(arrived) : arrived'[i] = arrived[i]
  PROVE  AnswersInOrder'
<1>1. clientOrderIdCounter \in Nat /\ clientOrderIdCounter <= Len(arrived)
  BY DEF CoreInv, EngineInv, EngineTypeOK, AnswersInOrder
<1>2. ASSUME NEW i \in DOMAIN Outgoing PROVE IsAnswer(Outgoing[i])'
  <2>1. Outgoing[i] \in Order /\ IsAnswer(Outgoing[i])
    BY OrdersAreSeqs, ElementOfSeq, LenProperties DEF CoreInv, AnswersInOrder, OrdersOK
  <2> DEFINE id == Outgoing[i].clientOrderId
  <2>2. id \in Nat /\ id < clientOrderIdCounter
    BY <2>1 DEF Order, IsAnswer
  <2>3. id + 1 \in 1 .. Len(arrived) /\ id < clientOrderIdCounter'
    BY <1>1, <2>2, LenProperties DEF CoreInv, MessagesOK
  <2> QED
    BY <2>1, <2>3 DEF IsAnswer
<1> QED
  BY <1>2 DEF CoreInv, AnswersInOrder

\* The answer to the trade that is handled is the last.
LEMMA AddedInOrder ==
  ASSUME CoreInv, NEW order \in Order, Outgoing' = Append(Outgoing, order),
         order.clientOrderId = clientOrderIdCounter,
         clientOrderIdCounter' = clientOrderIdCounter + 1,
         clientOrderIdCounter + 1 <= Len(arrived),
         arrived' = arrived,
         order.quantity = arrived[clientOrderIdCounter + 1].quantity,
         order.status = "ACCEPTED" => order.side = arrived[clientOrderIdCounter + 1].aggressor
  PROVE  AnswersInOrder'
<1>1. clientOrderIdCounter \in Nat
  BY DEF CoreInv, EngineInv, EngineTypeOK
<1> DEFINE n == Len(Outgoing)
<1>2. Outgoing \in Seq(Order) /\ n \in Nat /\ DOMAIN Outgoing = 1 .. n
  BY OrdersAreSeqs, LenProperties DEF CoreInv, OrdersOK
<1>3. /\ DOMAIN Outgoing' = 1 .. n + 1 /\ Outgoing'[n + 1] = order
      /\ \A i \in 1 .. n : Outgoing'[i] = Outgoing[i]
  BY <1>2, AppendProperties, LenProperties
<1>4. ASSUME NEW i \in 1 .. n
      PROVE  /\ Outgoing[i].clientOrderId \in Nat
             /\ Outgoing[i].clientOrderId < clientOrderIdCounter
             /\ IsAnswer(Outgoing[i])
  <2>1. Outgoing[i] \in Order
    BY <1>2, ElementOfSeq
  <2>2. IsAnswer(Outgoing[i])
    BY <1>2 DEF CoreInv, AnswersInOrder
  <2> QED
    BY <2>1, <2>2 DEF Order, IsAnswer
<1>5. ASSUME NEW i \in 1 .. n + 1 PROVE IsAnswer(Outgoing[i])'
  <2>1. CASE i = n + 1
    BY <1>1, <1>3, <2>1 DEF IsAnswer
  <2>2. CASE i # n + 1
    <3>1. i \in 1 .. n /\ Outgoing'[i] = Outgoing[i]
      BY <1>2, <1>3, <2>2
    <3> QED
      BY <1>1, <1>4, <3>1 DEF IsAnswer
  <2> QED
    BY <2>1, <2>2
<1>6. ASSUME NEW i \in 1 .. n + 1, NEW j \in 1 .. n + 1, i < j
      PROVE  Outgoing'[i].clientOrderId < Outgoing'[j].clientOrderId
  <2>1. i \in 1 .. n /\ Outgoing'[i] = Outgoing[i]
    BY <1>2, <1>3, <1>6
  <2>2. CASE j = n + 1
    BY <1>3, <1>4, <2>1, <2>2
  <2>3. CASE j # n + 1
    BY <1>2, <1>3, <1>6, <2>1, <2>3 DEF CoreInv, AnswersInOrder
  <2> QED
    BY <2>2, <2>3
<1> QED
  BY <1>3, <1>5, <1>6 DEF AnswersInOrder

\* Trades only arrive.
LEMMA ArrivedGrows ==
  ASSUME CoreInv, [CoreNext]_coreVars
  PROVE  /\ \/ arrived' = arrived
            \/ \E t \in Trades : arrived' = Append(arrived, t)
         /\ Len(arrived) <= Len(arrived') /\ Len(arrived') \in Nat
         /\ \A i \in 1 .. Len(arrived) : arrived'[i] = arrived[i]
<1>1. arrived \in Seq(Trades) /\ Len(arrived) \in Nat
  BY LenProperties DEF CoreInv, MessagesOK
<1>2. \/ arrived' = arrived
      \/ \E t \in Trades : arrived' = Append(arrived, t)
  BY DEF CoreNext, ReceiveQuote, ReceiveTrade, ReceiveOther, DemuxStep, HandleQuote, DropOther,
         HandleTradeMessage, SendAnswer, SenderStep, TakeOrder, WriteOrder, HandleHalt, HandleOpen,
         HandleClose, Background, Command, Pops, arrivalVars, coreVars
<1> QED
  BY <1>1, <1>2, AppendProperties

\* The other end reads what was written, after what it has read.
LEMMA WrittenIsRead ==
  ASSUME CoreInv, WriteOrder
  PROVE  WireOrders' = Append(WireOrders, held)
<1>1. held \in Order /\ wire' = Append(wire, NewOrderMessage(held))
  BY DEF WriteOrder, CoreInv, MessagesOK
<1>2. wire \in Seq(WrittenOrder) /\ NewOrderMessage(held) \in WrittenOrder
  BY <1>1 DEF WrittenOrder, CoreInv, MessagesOK
<1> DEFINE n == Len(wire)
<1>3. n \in Nat /\ DOMAIN wire = 1 .. n
  BY <1>2, LenProperties
<1>4. /\ wire' \in Seq(WrittenOrder) /\ Len(wire') = n + 1
      /\ \A i \in 1 .. n : wire'[i] = wire[i]
      /\ wire'[n + 1] = NewOrderMessage(held)
  BY <1>1, <1>2, AppendProperties
<1>5. DOMAIN wire' = 1 .. n + 1
  BY <1>4, LenProperties
<1>6. WireOrders \in Seq(Order) /\ Len(WireOrders) = n
  <2>1. WireOrders \in Seq(Order)
    BY OrdersAreSeqs DEF CoreInv, OrdersOK
  <2>2. DOMAIN WireOrders = 1 .. n
    BY <1>3 DEF WireOrders
  <2> QED
    BY <1>3, <2>1, <2>2, LenProperties
<1>7. /\ Append(WireOrders, held) \in Seq(Order) /\ Len(Append(WireOrders, held)) = n + 1
      /\ \A i \in 1 .. n : Append(WireOrders, held)[i] = WireOrders[i]
      /\ Append(WireOrders, held)[n + 1] = held
  BY <1>1, <1>6, AppendProperties
<1>8. ASSUME NEW i \in 1 .. n + 1 PROVE ReadNewOrder(wire'[i]) = Append(WireOrders, held)[i]
  <2>1. CASE i = n + 1
    BY <1>1, <1>4, <1>7, <2>1, ReadAsWritten
  <2>2. CASE i # n + 1
    <3>1. i \in 1 .. n
      BY <1>3, <2>2
    <3>2. WireOrders[i] = ReadNewOrder(wire[i])
      BY <1>3, <3>1 DEF WireOrders
    <3> QED
      BY <1>4, <1>7, <3>1, <3>2
  <2> QED
    BY <2>1, <2>2
<1>9. WireOrders' = [i \in 1 .. n + 1 |-> ReadNewOrder(wire'[i])]
  BY <1>5 DEF WireOrders
<1>10. Append(WireOrders, held) = [i \in 1 .. n + 1 |-> Append(WireOrders, held)[i]]
  BY <1>7, LenProperties
<1> QED
  BY <1>8, <1>9, <1>10

\* The orders that are written, in flight or answered are passed on from part
\* to part; only the handling of a trade adds one, at the end.
LEMMA Passed ==
  ASSUME CoreInv, [CoreNext]_coreVars, ~HandleTradeMessage
  PROVE  Outgoing' = Outgoing
<1>1. OrdersOK
  BY OrdersAreSeqs DEF CoreInv
<1>2. OrdersOK'
  BY MessagesKeep, OrdersAreSeqs, PTL
<1>3. UNCHANGED <<clientOrderIdCounter, answer>>
  BY OnlyTradesAnswer
<1>4. ASSUME UNCHANGED <<wire, sender, held, outbound, demux>>
      PROVE  Outgoing' = Outgoing
  BY <1>3, <1>4 DEF Outgoing, WireOrders, InFlight
<1>5. CASE SendAnswer
  <2>1. Held' = Held /\ WireOrders' = WireOrders
    BY <1>5 DEF SendAnswer, senderVars, Held, WireOrders
  <2>2. Answering = <<answer>> /\ Answering' = <<>> /\ outbound' = Append(outbound, answer)
    BY <1>5 DEF SendAnswer, Answering
  <2>3. answer \in Order
    BY <1>5 DEF SendAnswer, CoreInv, MessagesOK
  <2>4. (Held \o outbound) \o <<answer>> = (Held \o Append(outbound, answer)) \o <<>>
    BY <1>1, <2>3, PassBack DEF OrdersOK
  <2> QED
    BY <1>1, <1>2, <2>1, <2>2, <2>4 DEF OrdersOK
<1>6. CASE TakeOrder
  <2>1. /\ Held = <<>> /\ Held' = <<Head(outbound)>>
        /\ outbound # <<>> /\ outbound' = Tail(outbound)
    BY <1>6 DEF TakeOrder, Held
  <2>2. Answering' = Answering /\ WireOrders' = WireOrders
    BY <1>3, <1>6 DEF TakeOrder, Answering, WireOrders
  <2>3. <<>> \o outbound = <<Head(outbound)>> \o Tail(outbound)
    BY <1>1, <2>1, PassFront DEF OrdersOK
  <2> QED
    BY <1>1, <1>2, <2>1, <2>2, <2>3 DEF OrdersOK
<1>7. CASE WriteOrder
  <2>1. Held = <<held>> /\ Held' = <<>> /\ held \in Order /\ outbound' = outbound
    BY <1>7 DEF WriteOrder, Held, CoreInv, MessagesOK
  <2>2. Answering' = Answering
    BY <1>3, <1>7 DEF WriteOrder, Answering
  <2>3. WireOrders' = Append(WireOrders, held)
    BY <1>7, WrittenIsRead
  <2>4. WireOrders \o ((<<held>> \o outbound) \o Answering)
          = Append(WireOrders, held) \o ((<<>> \o outbound) \o Answering)
    <3>1. /\ held \in Order /\ WireOrders \in Seq(Order) /\ outbound \in Seq(Order)
          /\ Answering \in Seq(Order)
      BY <1>1, <2>1 DEF OrdersOK
    <3> QED
      BY <3>1, PassOut
  <2> QED
    BY <1>1, <1>2, <2>1, <2>2, <2>3, <2>4 DEF OrdersOK
<1>8. CASE ReceiveQuote \/ ReceiveOther \/ HandleHalt \/ HandleOpen \/ HandleClose \/ Background
             \/ UNCHANGED coreVars
  BY <1>4, <1>8 DEF ReceiveQuote, ReceiveOther, Received, HandleHalt, HandleOpen, HandleClose,
                    Background, Command, coreVars, senderVars
<1>9. ASSUME NEW t \in Trades, NEW ts \in StampsNow, ReceiveTrade(t, ts)
      PROVE  Outgoing' = Outgoing
  BY <1>4, <1>9 DEF ReceiveTrade, Received, senderVars
<1>10. CASE HandleQuote \/ DropOther
  BY <1>4, <1>10 DEF HandleQuote, DropOther, Pops, senderVars
<1> QED
  BY <1>5, <1>6, <1>7, <1>8, <1>9, <1>10 DEF CoreNext, DemuxStep, SenderStep

\* The engine's answer, if there is one, goes to the end of what is in flight.
LEMMA HandledIsQueued ==
  ASSUME CoreInv, [CoreNext]_coreVars, HandleTradeMessage
  PROVE  Outgoing' = IF answer' = NoOrder THEN Outgoing ELSE Append(Outgoing, answer')
<1>1. OnTrade(Head(inbound).trade, Head(inbound).ts) /\ Pops("trade")
      /\ Head(inbound).trade \in Trades /\ Head(inbound).ts \in Stamp
  BY FirstTrade DEF HandleTradeMessage
<1>2. answer' = NoOrder \/ answer' \in Order
  BY <1>1, AnswerOfTrade DEF CoreInv
<1>3. /\ WireOrders' = WireOrders /\ outbound' = outbound /\ Held' = Held
      /\ demux = "idle"
  BY <1>1 DEF Pops, senderVars, WireOrders, Held
<1>4. demux' = IF answer' = NoOrder THEN "idle" ELSE "sending"
  BY DEF HandleTradeMessage
<1>5. OrdersOK /\ OrdersOK'
  <2>1. MessagesOK'
    BY MessagesKeep
  <2> QED
    BY <2>1, OrdersAreSeqs, PTL DEF CoreInv
<1>6. CASE answer' = NoOrder
  BY <1>3, <1>4, <1>5, <1>6 DEF OrdersOK, Answering
<1>7. CASE answer' # NoOrder
  <2> DEFINE order == answer'
  <2>1. Answering = <<>> /\ Answering' = <<order>> /\ order \in Order
    BY <1>2, <1>3, <1>4, <1>7 DEF Answering
  <2> HIDE DEF order
  <2>2. /\ WireOrders \in Seq(Order) /\ Held \in Seq(Order) /\ outbound \in Seq(Order)
    BY <1>5 DEF OrdersOK
  <2>3. WireOrders \o ((Held \o outbound) \o <<order>>)
          = Append(WireOrders \o ((Held \o outbound) \o <<>>), order)
    BY <2>1, <2>2, PassIn
  <2>4. Outgoing' = Append(Outgoing, order)
    BY <1>3, <1>5, <2>1, <2>3 DEF OrdersOK
  <2> QED
    BY <1>7, <2>4 DEF order
<1> QED
  BY <1>6, <1>7

\* The orders stay in order, and the ids follow the trades.
LEMMA AnswersKeep ==
  ASSUME CoreInv, [CoreNext]_coreVars
  PROVE  AnswersInOrder'
<1>1. clientOrderIdCounter \in Nat /\ clientOrderIdCounter <= Len(arrived)
  BY DEF CoreInv, EngineInv, EngineTypeOK, AnswersInOrder
<1>2. CASE HandleTradeMessage
  <2> DEFINE t == Head(inbound).trade
  <2>1. Pops("trade") /\ OnTrade(t, Head(inbound).ts) /\ t \in Trades /\ Head(inbound).ts \in Stamp
    BY <1>2, FirstTrade DEF HandleTradeMessage
  <2>2. /\ clientOrderIdCounter' = clientOrderIdCounter + 1
        /\ \/ answer' = NoOrder
           \/ /\ answer' \in Order
              /\ answer'.clientOrderId = clientOrderIdCounter
              /\ answer'.quantity = t.quantity
              /\ answer'.status = "ACCEPTED" => answer'.side = t.aggressor
    BY <2>1, AnswerOfTrade DEF CoreInv
  <2>3. /\ arrived' = arrived /\ WireOrders' = WireOrders /\ outbound' = outbound /\ Held' = Held
        /\ demux = "idle" /\ inbound # <<>> /\ inbound' = Tail(inbound)
        /\ Head(inbound).kind = "trade"
    BY <2>1 DEF Pops, arrivalVars, senderVars, WireOrders, Held
  <2>4. clientOrderIdCounter + 1 <= Len(arrived) /\ arrived[clientOrderIdCounter + 1] = t
    BY <2>2, <2>3, PoppedQueues
  <2>5. Outgoing' = IF answer' = NoOrder THEN Outgoing ELSE Append(Outgoing, answer')
    BY <1>2, HandledIsQueued
  <2>6. CASE answer' = NoOrder
    BY <2>2, <2>3, <2>4, <2>5, <2>6, PassedInOrder
  <2>7. CASE answer' # NoOrder
    <3> DEFINE order == answer'
    <3>1. /\ order \in Order
          /\ order.clientOrderId = clientOrderIdCounter
          /\ order.quantity = t.quantity
          /\ order.status = "ACCEPTED" => order.side = t.aggressor
          /\ Outgoing' = Append(Outgoing, order)
      BY <2>2, <2>5, <2>7
    <3> HIDE DEF order, t
    <3> QED
      BY <2>2, <2>3, <2>4, <3>1, AddedInOrder
  <2> QED
    BY <2>6, <2>7
<1>3. CASE ~HandleTradeMessage
  <2>1. Outgoing' = Outgoing /\ clientOrderIdCounter' = clientOrderIdCounter
    BY <1>3, Passed, OnlyTradesAnswer
  <2>2. /\ Len(arrived) <= Len(arrived') /\ Len(arrived') \in Nat
        /\ \A i \in 1 .. Len(arrived) : arrived'[i] = arrived[i]
    BY <1>3, ArrivedGrows
  <2> QED
    BY <1>1, <2>1, <2>2, LenProperties, PassedInOrder DEF CoreInv, MessagesOK
<1> QED
  BY <1>2, <1>3

-----------------------------------------------------------------------------
(* The invariant.                                                          *)

\* The queues stay within their capacities, the bounds of the model hold.
LEMMA CoreTypesKeep ==
  ASSUME CoreInv, [CoreNext]_coreVars
  PROVE  CoreTypeOK'
<1>1. /\ CoreTypeOK
      /\ inbound \in Seq(InboundMessage) /\ arrived \in Seq(Trades) /\ outbound \in Seq(Order)
      /\ Len(inbound) \in Nat /\ Len(arrived) \in Nat /\ Len(outbound) \in Nat
  BY LenProperties DEF CoreInv, MessagesOK
<1>2. /\ InboundCapacity \in Nat /\ OutboundCapacity \in Nat
      /\ MaxQuotes \in Nat /\ MaxTrades \in Nat /\ MaxOthers \in Nat
  BY CoreAssumption, EngineAssumption, VWAPAssumption
     DEF CoreAssumption, EngineAssumption, VWAPAssumption
<1>3. ASSUME NEW m, Received(m)
      PROVE  /\ Len(inbound') <= InboundCapacity
             /\ UNCHANGED <<demux, outbound, sender, currentState>>
  <2>1. Len(inbound') = Len(inbound) + 1
    BY <1>1, <1>3 DEF Received
  <2> QED
    BY <1>1, <1>2, <1>3, <2>1 DEF Received, senderVars
<1>4. CASE ReceiveQuote
  BY <1>1, <1>2, <1>3, <1>4 DEF ReceiveQuote, CoreTypeOK
<1>5. CASE ReceiveOther
  BY <1>1, <1>2, <1>3, <1>5 DEF ReceiveOther, CoreTypeOK
<1>6. ASSUME NEW t \in Trades, NEW ts \in StampsNow, ReceiveTrade(t, ts)
      PROVE  CoreTypeOK'
  <2>1. Len(arrived') = Len(arrived) + 1
    BY <1>1, <1>6, AppendProperties DEF ReceiveTrade
  <2> QED
    BY <1>1, <1>2, <1>3, <1>6, <2>1 DEF ReceiveTrade, CoreTypeOK
<1>7. ASSUME NEW kind, Pops(kind)
      PROVE  /\ Len(inbound') <= InboundCapacity
             /\ UNCHANGED <<outbound, sender, currentState, arrivalVars>>
  <2>1. Len(inbound') = Len(inbound) - 1
    BY <1>1, <1>7, HeadTailProperties DEF Pops
  <2> QED
    BY <1>1, <1>2, <1>7, <2>1 DEF Pops, senderVars, CoreTypeOK
<1>8. CASE HandleQuote \/ DropOther
  BY <1>1, <1>7, <1>8 DEF HandleQuote, DropOther, CoreTypeOK, arrivalVars
<1>9. CASE HandleTradeMessage
  BY <1>1, <1>7, <1>9 DEF HandleTradeMessage, CoreTypeOK, arrivalVars
<1>10. CASE SendAnswer
  <2>1. answer \in Order
    BY <1>10 DEF SendAnswer, CoreInv, MessagesOK
  <2>2. Len(outbound') = Len(outbound) + 1
    BY <1>1, <1>10, <2>1, AppendProperties DEF SendAnswer
  <2> QED
    BY <1>1, <1>2, <1>10, <2>2 DEF SendAnswer, CoreTypeOK, senderVars, arrivalVars
<1>11. CASE TakeOrder
  <2>1. Len(outbound') = Len(outbound) - 1
    BY <1>1, <1>11, HeadTailProperties DEF TakeOrder
  <2> QED
    BY <1>1, <1>2, <1>11, <2>1 DEF TakeOrder, CoreTypeOK, arrivalVars
<1>12. CASE WriteOrder
  BY <1>1, <1>12 DEF WriteOrder, CoreTypeOK, arrivalVars
<1>13. CASE HandleHalt \/ HandleOpen \/ HandleClose
  BY <1>1, <1>13 DEF HandleHalt, HandleOpen, HandleClose, Command, CoreTypeOK, senderVars, arrivalVars
<1>14. CASE Background \/ UNCHANGED coreVars
  BY <1>1, <1>14 DEF Background, coreVars, CoreTypeOK, senderVars, arrivalVars
<1> QED
  BY <1>4, <1>5, <1>6, <1>8, <1>9, <1>10, <1>11, <1>12, <1>13, <1>14
     DEF CoreNext, DemuxStep, SenderStep

\* Nothing has arrived and nothing is under way.
LEMMA CoreInitEstablishes ==
  CoreInit => CoreInv
<1> SUFFICES ASSUME CoreInit PROVE CoreInv
  OBVIOUS
<1>1. EngineInv /\ EngineInit
  BY InitEstablishes DEF CoreInit
<1>2. clientOrderIdCounter = 0 /\ isHalted = FALSE /\ haltWrites = <<>>
  BY <1>1 DEF EngineInit
<1>3. CoreTypeOK
  BY CoreAssumption, EngineAssumption, VWAPAssumption
     DEF CoreAssumption, EngineAssumption, VWAPAssumption, CoreInit, CoreTypeOK
<1>4. MessagesOK
  BY EmptySeq DEF CoreInit, MessagesOK
<1>5. EngineFollowsSession
  BY <1>2 DEF CoreInit, EngineFollowsSession, Last
<1>6. TradesAreQueued
  <2> DEFINE upTo == [i \in 0 .. 0 |-> 0]
  <2>1. upTo \in [0 .. Len(inbound) -> Nat] /\ CountsTrades(upTo)
    BY <1>2 DEF CoreInit, CountsTrades
  <2> QED
    BY <2>1 DEF TradesAreQueued
<1>7. AnswersInOrder
  <2>1. WireOrders = <<>> /\ Held = <<>> /\ outbound = <<>> /\ Answering = <<>>
    BY DEF CoreInit, WireOrders, Held, Answering
  <2>2. Outgoing = <<>>
    BY <1>4, <2>1, OrdersAreSeqs, ConcatEmptySeq DEF OrdersOK
  <2> QED
    BY <1>2, <2>2 DEF CoreInit, AnswersInOrder
<1> QED
  BY <1>1, <1>3, <1>4, <1>5, <1>6, <1>7 DEF CoreInv

\* Every step of every thread keeps it.
LEMMA CoreStepKeeps ==
  CoreInv /\ [CoreNext]_coreVars => CoreInv'
<1> SUFFICES ASSUME CoreInv, [CoreNext]_coreVars PROVE CoreInv'
  OBVIOUS
<1> QED
  BY EngineKeeps, CoreTypesKeep, MessagesKeep, SessionKeeps, QueueKeeps, AnswersKeep DEF CoreInv

\* Every reachable state of the core satisfies the invariant.
THEOREM CoreInvariance == CoreSpec => []CoreInv
BY CoreInitEstablishes, CoreStepKeeps, PTL DEF CoreSpec

-----------------------------------------------------------------------------
(* What the invariant shows.                                               *)

\* Every reachable state of the core is well typed; in particular neither
\* queue exceeds its capacity.
THEOREM CoreTypes == CoreSpec => []CoreTypeOK
<1>1. CoreInv => CoreTypeOK
  BY DEF CoreInv
<1> QED
  BY <1>1, CoreInvariance, PTL

\* The last word of the session thread reaches the engine, however long its
\* writes stay unseen and however often it halts and resumes.
THEOREM EngineObeysSession == CoreSpec => []EngineFollowsSession
<1>1. CoreInv => EngineFollowsSession
  BY DEF CoreInv
<1> QED
  BY <1>1, CoreInvariance, PTL

\* What is bought stays within both limits when the engine is driven by the
\* threads: stamps are of any age by the time a trade is handled.
THEOREM CoreKeepsLimits == CoreSpec => []BoughtWithinLimits
<1>1. CoreInv => BoughtWithinLimits
  BY DEF CoreInv, EngineInv
<1> QED
  BY <1>1, CoreInvariance, PTL

\* The order that the sender writes answers a trade that arrived, after all
\* that are on the wire.
LEMMA WritesAnAnswer ==
  ASSUME CoreInv, WriteOrder
  PROVE  \E k \in DOMAIN arrived : Answers!AnswerTrade(k)
<1>1. Held = <<held>> /\ held \in Order
  BY DEF WriteOrder, Held, CoreInv, MessagesOK
<1>2. OrdersOK
  BY OrdersAreSeqs DEF CoreInv
<1> DEFINE rest == outbound \o Answering
<1> HIDE DEF rest
<1> DEFINE n == Len(WireOrders)
<1>3. WireOrders \in Seq(Order) /\ n \in Nat /\ DOMAIN WireOrders = 1 .. n
  BY <1>2, LenProperties DEF OrdersOK
<1>4. Outgoing = Append(WireOrders, held) \o rest /\ rest \in Seq(Order)
  <2>1. held \in Order /\ WireOrders \in Seq(Order) /\ outbound \in Seq(Order)
        /\ Answering \in Seq(Order)
    BY <1>1, <1>2 DEF OrdersOK
  <2>2. WireOrders \o ((<<held>> \o outbound) \o Answering)
          = Append(WireOrders, held) \o ((<<>> \o outbound) \o Answering)
    BY <2>1, PassOut
  <2>3. <<>> \o outbound = outbound
    BY <2>1, ConcatEmptySeq
  <2> QED
    BY <1>1, <1>2, <2>1, <2>2, <2>3, ConcatProperties DEF OrdersOK, rest
<1>5. /\ Append(WireOrders, held) \in Seq(Order) /\ Len(Append(WireOrders, held)) = n + 1
      /\ \A i \in 1 .. n : Append(WireOrders, held)[i] = WireOrders[i]
      /\ Append(WireOrders, held)[n + 1] = held
  BY <1>1, <1>3, AppendProperties
<1>6. /\ Outgoing[n + 1] = held /\ n + 1 \in DOMAIN Outgoing
      /\ \A i \in 1 .. n : Outgoing[i] = WireOrders[i] /\ i \in DOMAIN Outgoing
  <2> DEFINE front == Append(WireOrders, held)
  <2>1. front \in Seq(Order) /\ Len(front) = n + 1 /\ Len(rest) \in Nat
    BY <1>4, <1>5, LenProperties
  <2> HIDE DEF front
  <2>2. /\ Len(front \o rest) = Len(front) + Len(rest)
        /\ \A i \in 1 .. Len(front) : (front \o rest)[i] = front[i]
    BY <1>4, <2>1, ConcatProperties
  <2>3. Outgoing = front \o rest /\ DOMAIN Outgoing = 1 .. Len(Outgoing)
    BY <1>2, <1>4, LenProperties DEF front, OrdersOK
  <2>4. \A i \in 1 .. n + 1 : Outgoing[i] = front[i] /\ i \in DOMAIN Outgoing
    BY <1>3, <2>1, <2>2, <2>3
  <2> QED
    BY <1>3, <1>5, <2>4 DEF front
<1>7. IsAnswer(held) /\ \A i \in 1 .. n : WireOrders[i].clientOrderId < held.clientOrderId
  BY <1>3, <1>6 DEF CoreInv, AnswersInOrder
<1> DEFINE k == held.clientOrderId + 1
<1>8. k \in DOMAIN arrived /\ held.clientOrderId \in Nat
  <2>1. held.clientOrderId \in Nat /\ clientOrderIdCounter \in Nat
    BY <1>1 DEF Order, CoreInv, EngineInv, EngineTypeOK
  <2>2. Len(arrived) \in Nat /\ DOMAIN arrived = 1 .. Len(arrived)
    BY LenProperties DEF CoreInv, MessagesOK
  <2> QED
    BY <1>7, <2>1, <2>2 DEF IsAnswer, CoreInv, AnswersInOrder
<1>9. held \in Answers!AnswersTo(k)
  BY <1>1, <1>7, <1>8 DEF Answers!AnswersTo, IsAnswer, Order
<1>10. WireOrders' = Append(WireOrders, held) /\ arrived' = arrived
  BY WrittenIsRead DEF WriteOrder, arrivalVars
<1>11. \A i \in DOMAIN WireOrders : WireOrders[i].clientOrderId < k - 1
  BY <1>3, <1>7, <1>8
<1>12. Answers!AnswerTrade(k)
  BY <1>9, <1>10, <1>11 DEF Answers!AnswerTrade
<1> QED
  BY <1>8, <1>12

\* Every step of a thread is a step of the abstract core, or none.
LEMMA CoreStepSimulates ==
  CoreInv /\ [CoreNext]_coreVars => [Answers!AnswersNext]_(Answers!answersVars)
<1> SUFFICES ASSUME CoreInv, [CoreNext]_coreVars
             PROVE  [Answers!AnswersNext]_(Answers!answersVars)
  OBVIOUS
<1>1. CASE WriteOrder
  BY <1>1, WritesAnAnswer DEF Answers!AnswersNext
<1>2. ASSUME NEW t \in Trades, NEW ts \in StampsNow, ReceiveTrade(t, ts)
      PROVE  Answers!AnswersNext
  <2>1. arrived' = Append(arrived, t) /\ WireOrders' = WireOrders
    BY <1>2 DEF ReceiveTrade, Received, senderVars, WireOrders
  <2> QED
    BY <2>1 DEF Answers!AnswersNext, Answers!Arrive
<1>3. ASSUME UNCHANGED <<wire, arrived>>
      PROVE  UNCHANGED Answers!answersVars
  BY <1>3 DEF Answers!answersVars, WireOrders
<1>4. CASE \/ ReceiveQuote \/ ReceiveOther \/ DemuxStep \/ TakeOrder
           \/ HandleHalt \/ HandleOpen \/ HandleClose \/ Background \/ UNCHANGED coreVars
  BY <1>3, <1>4
     DEF ReceiveQuote, ReceiveOther, Received, DemuxStep, HandleQuote, HandleTradeMessage,
         DropOther, SendAnswer, TakeOrder, Pops, HandleHalt, HandleOpen, HandleClose, Command,
         Background, senderVars, arrivalVars, coreVars
<1> QED
  BY <1>1, <1>2, <1>4 DEF CoreNext, SenderStep

\* Whatever the threads and the two queues are doing, what the connections see
\* is TradeAnswers: each trade is answered at most once, in order, with its own
\* id and quantity.
THEOREM CoreAnswersTrades == CoreSpec => ImplementsAnswers
<1>1. CoreInit => Answers!AnswersInit
  BY DEF CoreInit, Answers!AnswersInit, WireOrders
<1> QED
  BY <1>1, CoreInvariance, CoreStepSimulates, PTL
     DEF CoreSpec, ImplementsAnswers, Answers!AnswersSpec
-----------------------------------------------------------------------------
(* What is executed is sent.                                               *)

\* What each order of s moves into the position.
Executed(order) == IF order.status = "ACCEPTED" THEN order.quantity ELSE 0
Executions(s) == [i \in DOMAIN s |-> Executed(s[i])]

\* The position is the sum over all that has been sent or is on its way.
SentAddsUp == tradedQuantity = SumOver(Executions(Outgoing), 1 .. Len(Outgoing))

\* A trade moves into the position what its answer says.
LEMMA AnswerExecutes ==
  ASSUME EngineInv, NEW t \in Trades, NEW ts \in Stamp, OnTrade(t, ts)
  PROVE  tradedQuantity' = tradedQuantity + Executed(answer')
<1>1. tradedQuantity \in Nat
  BY DEF EngineInv, EngineTypeOK
<1>2. CASE Buy(t, ts) \/ Sell(t, ts)
  BY <1>2 DEF Buy, Sell, Answer, NewOrder, Executed
<1>3. CASE RejectWarmUp(t, ts) \/ RejectNoEdge(t, ts) \/ RejectUnknown(t, ts) \/ DropHalted(t, ts)
  BY <1>1, <1>3 DEF RejectWarmUp, RejectNoEdge, RejectUnknown, DropHalted, Reject, Answer,
                    NoOrder, NewOrder, Executed
<1> QED
  BY <1>2, <1>3 DEF OnTrade

\* One more order.
LEMMA ExecutionsOfLonger ==
  ASSUME NEW s \in Seq(Order), NEW order \in Order
  PROVE  /\ SumOver(Executions(s), 1 .. Len(s)) \in Int
         /\ SumOver(Executions(Append(s, order)), 1 .. Len(Append(s, order)))
              = Executed(order) + SumOver(Executions(s), 1 .. Len(s))
<1> DEFINE e == Append(s, order)
           n == Len(s)
           x == Executions(s)
           x2 == Executions(e)
           z == 0
<1>1. /\ n \in Nat /\ Len(e) = n + 1 /\ DOMAIN e = 1 .. n + 1 /\ DOMAIN s = 1 .. n
      /\ e[n + 1] = order /\ \A i \in 1 .. n : e[i] = s[i] /\ s[i] \in Order
  BY AppendProperties, LenProperties, ElementOfSeq
<1> HIDE DEF e, n
<1>2. \A o \in Order : Executed(o) \in Nat
  BY DEF Order, Executed
<1>3. n + 1 \in 1 .. n + 1 /\ (\A i \in 1 .. n : i \in 1 .. n + 1)
      /\ \A i \in 1 .. n + 1 : i = n + 1 \/ i \in 1 .. n
  BY <1>1
<1>4. x2[n + 1] = Executed(order) /\ \A i \in 1 .. n : x2[i] = x[i] /\ x[i] = Executed(s[i])
  BY <1>1, <1>3 DEF Executions
<1> HIDE DEF x, x2
<1>5. (\A i \in 1 .. n + 1 : x2[i] \in Int) /\ \A i \in 1 .. n : x[i] \in Int /\ x2[i] = x[i]
  BY <1>1, <1>2, <1>3, <1>4
<1>6. z \in Nat /\ z <= n /\ z + 1 = 1
  BY <1>1
<1> HIDE DEF z
<1>7. SumOver(x2, z + 1 .. n + 1) = x2[n + 1] + SumOver(x, z + 1 .. n)
  BY <1>1, <1>5, <1>6, SumOfLonger
<1>8. SumOver(x, 1 .. n) \in Int
  <2>1. IsFiniteSet(1 .. n)
    BY <1>1, FS_Interval
  <2> QED
    BY <1>5, <2>1, SumWithOne
<1>9. SumOver(x2, 1 .. n + 1) = Executed(order) + SumOver(x, 1 .. n)
  BY <1>4, <1>6, <1>7
<1> QED
  BY <1>1, <1>8, <1>9 DEF e, n, x, x2

\* No step of any thread loses or doubles an order.
LEMMA SentKeeps ==
  CoreInv /\ SentAddsUp /\ [CoreNext]_coreVars => SentAddsUp'
<1> SUFFICES ASSUME CoreInv, SentAddsUp, [CoreNext]_coreVars PROVE SentAddsUp'
  OBVIOUS
<1>1. CASE HandleTradeMessage
  <2>1. /\ Outgoing' = IF answer' = NoOrder THEN Outgoing ELSE Append(Outgoing, answer')
        /\ Outgoing \in Seq(Order)
    BY <1>1, HandledIsQueued, OrdersAreSeqs DEF CoreInv, OrdersOK
  <2>2. /\ tradedQuantity' = tradedQuantity + Executed(answer')
        /\ answer' = NoOrder \/ answer' \in Order
        /\ tradedQuantity \in Nat
    BY <1>1, FirstTrade, AnswerExecutes, AnswerOfTrade
       DEF CoreInv, HandleTradeMessage, EngineInv, EngineTypeOK
  <2>3. CASE answer' = NoOrder
    <3>1. Executed(answer') = 0
      BY <2>3 DEF NoOrder, NewOrder, Executed
    <3> QED
      BY <2>1, <2>2, <2>3, <3>1 DEF SentAddsUp
  <2>4. CASE answer' # NoOrder
    <3> DEFINE order == answer'
    <3>1. order \in Order /\ Outgoing' = Append(Outgoing, order)
      BY <2>1, <2>2, <2>4
    <3>2. tradedQuantity' = tradedQuantity + Executed(order) /\ Executed(order) \in Int
      BY <2>2, <3>1 DEF Order, Executed
    <3> HIDE DEF order
    <3>3. /\ SumOver(Executions(Outgoing), 1 .. Len(Outgoing)) \in Int
          /\ SumOver(Executions(Outgoing'), 1 .. Len(Outgoing'))
               = Executed(order) + SumOver(Executions(Outgoing), 1 .. Len(Outgoing))
      BY <2>1, <3>1, ExecutionsOfLonger
    <3> QED
      BY <3>2, <3>3 DEF SentAddsUp
  <2> QED
    BY <2>3, <2>4
<1>2. CASE ~HandleTradeMessage
  <2>1. Outgoing' = Outgoing
    BY <1>2, Passed
  <2>2. tradedQuantity' = tradedQuantity
    BY <1>2 DEF CoreNext, ReceiveQuote, ReceiveTrade, ReceiveOther, Received, DemuxStep, HandleQuote,
       OnQuote, DropOther, SendAnswer, SenderStep, TakeOrder, WriteOrder, HandleHalt, HandleOpen,
       HandleClose, HaltTrading, ResumeTrading, WriteHalted, Background, HaltWriteVisible, TimePasses,
       orderVars, engineVars, coreVars
  <2> QED
    BY <2>1, <2>2 DEF SentAddsUp
<1> QED
  BY <1>1, <1>2

\* The executed quantity is what the accepted orders on the wire and on their
\* way to it add up to, whatever the queues and the threads are doing.
THEOREM CoreSendsWhatItExecutes == CoreSpec => []ExecutedIsSent
<1>1. CoreInit => SentAddsUp
  <2> SUFFICES ASSUME CoreInit PROVE SentAddsUp
    OBVIOUS
  <2>1. Outgoing = <<>>
    <3>1. WireOrders = <<>> /\ Held = <<>> /\ outbound = <<>> /\ Answering = <<>>
      BY DEF CoreInit, WireOrders, Held, Answering
    <3>2. MessagesOK
      BY CoreInitEstablishes DEF CoreInv
    <3> QED
      BY <3>1, <3>2, OrdersAreSeqs, ConcatEmptySeq DEF OrdersOK
  <2>2. 1 .. Len(Outgoing) = {}
    BY <2>1
  <2>3. tradedQuantity = 0
    BY DEF CoreInit, EngineInit
  <2> QED
    BY <2>2, <2>3, SumOfNone DEF SentAddsUp
<1>2. CoreInv /\ SentAddsUp => ExecutedIsSent
  <2> SUFFICES ASSUME CoreInv, SentAddsUp PROVE ExecutedIsSent
    OBVIOUS
  <2> DEFINE o == Outgoing
             n == Len(o)
             A == {i \in DOMAIN o : o[i].status = "ACCEPTED"}
             all == 1 .. n
             x == Executions(o)
  <2>1. n \in Nat /\ DOMAIN o = all /\ \A i \in all : o[i] \in Order
    <3>1. o \in Seq(Order)
      BY OrdersAreSeqs DEF CoreInv, OrdersOK
    <3> QED
      BY <3>1, LenProperties, ElementOfSeq
  <2>2. IsFiniteSet(all)
    BY <2>1, FS_Interval
  <2>3. A \subseteq all /\ IsFiniteSet(A)
    <3>1. A \subseteq all
      BY <2>1
    <3> QED
      BY <2>2, <3>1, FS_Subset
  <2>4. ASSUME NEW i \in all PROVE x[i] = Executed(o[i]) /\ x[i] \in Int
    BY <2>1 DEF Executions, Executed, Order
  <2>5. ASSUME NEW i \in A PROVE x[i] = o[i].quantity /\ x[i] \in Int
    BY <2>3, <2>4 DEF Executed
  <2>6. ASSUME NEW i \in all \ A PROVE x[i] = 0
    BY <2>1, <2>4 DEF Executed
  <2>7. ExecutedIsSent <=> tradedQuantity = QuantityOf(o, A)
    BY DEF ExecutedIsSent, QuantityOf
  <2>8. tradedQuantity = SumOver(x, all)
    BY DEF SentAddsUp
  <2> HIDE DEF o, n, A, all, x
  <2>9. QuantityOf(o, A) = SumOver(x, A)
    BY <2>3, <2>5, QuantityIsSum
  <2>10. SumOver(x, A) = SumOver(x, all)
    <3>1. (\A i \in A \cup all : x[i] \in Int) /\ \A i \in (A \ all) \cup (all \ A) : x[i] = 0
      BY <2>3, <2>4, <2>6
    <3> QED
      BY <2>2, <2>3, <3>1, SumsDifferByZeroes
  <2> QED
    BY <2>7, <2>8, <2>9, <2>10
<1> QED
  BY <1>1, <1>2, SentKeeps, CoreInvariance, PTL DEF CoreSpec

\* The engine's count and its ring, when the threads drive it: a trade is
\* counted once however long it waited in inbound.
THEOREM CoreAccountsForVolume == CoreSpec => []VolumeAccounted
<1>1. CoreInit => VolumeSeen
  BY VolumeInit DEF CoreInit
<1>2. CoreInv /\ VolumeSeen /\ [CoreNext]_coreVars => VolumeSeen'
  <2> SUFFICES ASSUME CoreInv, VolumeSeen, [CoreNext]_coreVars PROVE VolumeSeen'
    OBVIOUS
  <2>1. CASE HandleTradeMessage
    BY <2>1, FirstTrade, TradeIsCounted DEF HandleTradeMessage
  <2>2. CASE UNCHANGED engineVars
    BY <2>2, OthersCountNothing
  <2>3. CASE HandleQuote
    BY <2>3, OthersCountNothing DEF HandleQuote
  <2>4. CASE HandleHalt \/ HandleOpen
    BY <2>4, OthersCountNothing DEF HandleHalt, HandleOpen
  <2>5. CASE Background
    BY <2>5, OthersCountNothing DEF Background
  <2> QED
    BY <2>1, <2>2, <2>3, <2>4, <2>5
       DEF CoreNext, ReceiveQuote, ReceiveTrade, ReceiveOther, Received, DemuxStep, DropOther,
           SendAnswer, SenderStep, TakeOrder, WriteOrder, HandleClose, coreVars
<1>3. CoreInv /\ VolumeSeen => VolumeAccounted
  BY SeenIsAccounted DEF CoreInv
<1> QED
  BY <1>1, <1>2, <1>3, CoreInvariance, PTL DEF CoreSpec
=============================================================================
