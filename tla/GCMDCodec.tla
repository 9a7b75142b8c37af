------------------------------ MODULE GCMDCodec ------------------------------
(***************************************************************************)
(* The market data codec (src/libs/networking/gcmd): what GCMDSerialiser   *)
(* makes of a message and GCMDDeserialiser of a frame.  A frame is the     *)
(* number of the message type and the body; its length is                  *)
(* MessageReconstructor's business.                                        *)
(***************************************************************************)
EXTENDS Integers

CONSTANT QuantityWord   \* quantities on the wire are modulo QuantityWord (2^32)

ASSUME CodecAssumption == QuantityWord \in Nat \ {0}

MessageTypeToNum == [QUOTE |-> 1, TRADE |-> 2, HEARTBEAT |-> 3, SESSION_CONTROL |-> 4]
MessageTypeFromNum == <<"QUOTE", "TRADE", "HEARTBEAT", "SESSION_CONTROL">>

AggressorToChar == [BUY |-> "B", SELL |-> "S", UNKNOWN |-> "?"]
AggressorFromChar ==
  [c \in {"B", "S", "?"} |-> CASE c = "B" -> "BUY" [] c = "S" -> "SELL" [] c = "?" -> "UNKNOWN"]

SessionControlStateToNum == [OPEN |-> 0, CLOSE |-> 1, HALT |-> 2]
SessionControlStateFromNum ==
  [n \in 0 .. 2 |-> CASE n = 0 -> "OPEN" [] n = 1 -> "HALT" [] n = 2 -> "CLOSE"]

\* The variants of MDMessage.  Their quantities are uint32_t.
Quote(symbol, ts, bidQuantity, bidPrice, askQuantity, askPrice) ==
  [type |-> "QUOTE", symbol |-> symbol, timestampNs |-> ts,
   bidQuantity |-> bidQuantity % QuantityWord, bidPrice |-> bidPrice,
   askQuantity |-> askQuantity % QuantityWord, askPrice |-> askPrice]

Trade(symbol, ts, quantity, price, aggressor, id) ==
  [type |-> "TRADE", symbol |-> symbol, timestampNs |-> ts,
   quantity |-> quantity % QuantityWord, price |-> price, aggressor |-> aggressor, id |-> id]

Heartbeat(ts) == [type |-> "HEARTBEAT", timestamp |-> ts]

SessionControl(ts, state) == [type |-> "SESSION_CONTROL", timestamp |-> ts, state |-> state]

\* toQuoteBody, toTradeBody, toHeartbeatBody, toSessionControlBody.
QuoteBody(q) ==
  [symbol |-> q.symbol, timestampNs |-> q.timestampNs,
   bidQuantity |-> q.bidQuantity, bidPrice |-> q.bidPrice,
   askQuantity |-> q.askQuantity, askPrice |-> q.askPrice]

TradeBody(t) ==
  [symbol |-> t.symbol, timestampNs |-> t.timestampNs, quantity |-> t.quantity,
   price |-> t.price, aggressor |-> AggressorToChar[t.aggressor], id |-> t.id]

HeartbeatBody(h) == [timestamp |-> h.timestamp]

SessionControlBody(c) ==
  [timestamp |-> c.timestamp, state |-> SessionControlStateToNum[c.state]]

\* serialiseQuoteMessage and its sisters.
Serialise(message) ==
  [msgType |-> MessageTypeToNum[message.type],
   body |-> CASE message.type = "QUOTE" -> QuoteBody(message)
              [] message.type = "TRADE" -> TradeBody(message)
              [] message.type = "HEARTBEAT" -> HeartbeatBody(message)
              [] message.type = "SESSION_CONTROL" -> SessionControlBody(message)]

\* deserialiseMessage.
DeserialiseMessage(frame) ==
  LET type == MessageTypeFromNum[frame.msgType]
      body == frame.body
  IN  CASE type = "QUOTE" ->
             Quote(body.symbol, body.timestampNs, body.bidQuantity, body.bidPrice,
                   body.askQuantity, body.askPrice)
        [] type = "TRADE" ->
             Trade(body.symbol, body.timestampNs, body.quantity, body.price,
                   AggressorFromChar[body.aggressor], body.id)
        [] type = "HEARTBEAT" -> Heartbeat(body.timestamp)
        [] type = "SESSION_CONTROL" ->
             SessionControl(body.timestamp, SessionControlStateFromNum[body.state])
=============================================================================
