------------------------------- MODULE OECodec -------------------------------
(***************************************************************************)
(* The order entry codec (src/libs/networking/oe): a NewOrder or an        *)
(* ExecReport becomes a body in which the enumerations are characters or   *)
(* numbers, behind a header with the number of the message type.           *)
(***************************************************************************)
LOCAL INSTANCE Integers

\* OEMessageType on the wire.
NEW_ORDER == 10
EXEC_REPORT == 11

OrderStatusToChar == [ACCEPTED |-> "A", REJECTED |-> "R"]
OrderStatusFromChar == [A |-> "ACCEPTED", R |-> "REJECTED"]

OrderSideToChar == [BUY |-> "B", SELL |-> "S"]
OrderSideFromChar == [B |-> "BUY", S |-> "SELL"]

ExecStatusToNum == [ACK |-> 0, FILL |-> 1, PARTIAL |-> 2, REJECT |-> 3]
ExecStatusFromNum ==
  [n \in 0 .. 3 |-> CASE n = 0 -> "ACK" [] n = 1 -> "FILL" [] n = 2 -> "PARTIAL" [] n = 3 -> "REJECT"]

RejectReasonToNum == [NONE |-> 0, RISK |-> 1, PRICE |-> 2, SIZE |-> 3, THROTTLE |-> 4]
RejectReasonFromNum ==
  [n \in 0 .. 4 |-> CASE n = 0 -> "NONE" [] n = 1 -> "RISK" [] n = 2 -> "PRICE"
                      [] n = 3 -> "SIZE" [] n = 4 -> "THROTTLE"]

\* NewOrder::toBody.  (Of the order's fields, those that ExecutionEngine's have.)
ToBody(order) ==
  [clientOrderId |-> order.clientOrderId, status |-> OrderStatusToChar[order.status],
   side |-> OrderSideToChar[order.side], quantity |-> order.quantity]

ToNewOrder(body) ==
  [clientOrderId |-> body.clientOrderId, status |-> OrderStatusFromChar[body.status],
   side |-> OrderSideFromChar[body.side], quantity |-> body.quantity]

\* ExecReport::toBody.
ToReportBody(report) ==
  [clientOrderId |-> report.clientOrderId, tsNs |-> report.tsNs,
   status |-> ExecStatusToNum[report.status], filledQty |-> report.filledQty,
   avgPx |-> report.avgPx, reasonCode |-> RejectReasonToNum[report.reasonCode]]

ToExecReport(body) ==
  [clientOrderId |-> body.clientOrderId, tsNs |-> body.tsNs,
   status |-> ExecStatusFromNum[body.status], filledQty |-> body.filledQty,
   avgPx |-> body.avgPx, reasonCode |-> RejectReasonFromNum[body.reasonCode]]

NewOrderMessage(order) == [msgType |-> NEW_ORDER, body |-> ToBody(order)]
ExecReportMessage(report) == [msgType |-> EXEC_REPORT, body |-> ToReportBody(report)]

\* What the other end reads: getMessageType, then the body of that type.
ReadNewOrder(message) ==
  CASE message.msgType = NEW_ORDER -> ToNewOrder(message.body)

ReadExecReport(message) ==
  CASE message.msgType = EXEC_REPORT -> ToExecReport(message.body)
=============================================================================
