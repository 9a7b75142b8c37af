--------------------------- MODULE ExecutionEngine ---------------------------
(***************************************************************************)
(* ExecutionEngine (src/slipstream/engine/ExecutionEngine.{h,cpp}) with    *)
(* the two handlers that drive it, QuoteMessageHandler and                 *)
(* TradeMessageHandler, and the VWAPService it consults.                   *)
(*                                                                         *)
(* The demultiplexer thread handles one message at a time: one action is   *)
(* one onMessage up to the order it hands to the sender.  The trade is put *)
(* in the VWAP ring first (TradeMessageHandler.cpp:11-12), so the price it *)
(* is compared with includes it.                                           *)
(*                                                                         *)
(* haltTrading and resumeTrading run on the session thread and write a     *)
(* plain bool that the demultiplexer reads (ExecutionEngine.h:16, 41-42):  *)
(* a data race.  What the builds of this program can produce is a read of  *)
(* an older value: haltWrites holds the writes not yet visible, in order.  *)
(*                                                                         *)
(* system_clock (getVWAP) and steady_clock (the warm-up) appear only in    *)
(* differences, so one clock stands for both.                              *)
(***************************************************************************)
EXTENDS VWAPService

CONSTANTS
  maxQuantity,       \* --max-quantity
  participationCap,  \* --participation-cap * 10000, as main passes it
  bandBps,           \* --band-bps * 100, as main passes it
  BandScale,         \* 10000, the divisor of the band
  MinQuotes,         \* MIN_QUOTES_REQUIRED (10 in the code)
  CounterMod,        \* uint32_t quotesReceived is modulo CounterMod (2^32)
  MaxQuotes,         \* bound: how many quotes a behaviour handles
  MaxHaltWrites      \* bound: writes of isHalted in flight

ASSUME EngineAssumption ==
  /\ maxQuantity \in Nat
  /\ participationCap \in Nat
  /\ bandBps \in Nat
  /\ BandScale \in Nat \ {0}
  /\ MinQuotes \in Nat \ {0}
  /\ CounterMod \in Nat \ {0}
  /\ MaxQuotes \in Nat
  /\ MaxHaltWrites \in Nat
  /\ \A t \in Trades : t.aggressor \in {"BUY", "SELL", "UNKNOWN"}

VARIABLES
  quotesReceived,
  tradingStarted,
  timestampStarted,          \* not initialised by the constructor
  isHalted,                  \* the value the demultiplexer thread reads
  haltWrites,                \* later writes of isHalted, not yet visible to it
  tradedQuantity,
  cumulativeTradedQuantity,
  clientOrderIdCounter,
  answer,                    \* the optional<NewOrder> last returned by handleTrade
  quotesSeen, firstQuoteAt,  \* history: all quotes, and when the first came
  bought, sold               \* history: accepted quantity of each side

engineVars == <<ringVars, quotesReceived, tradingStarted, timestampStarted,
                isHalted, haltWrites, tradedQuantity, cumulativeTradedQuantity,
                clientOrderIdCounter, answer, quotesSeen, firstQuoteAt, bought, sold>>

warmUpVars == <<quotesReceived, timestampStarted, quotesSeen, firstQuoteAt>>
haltVars == <<isHalted, haltWrites>>
orderVars == <<tradedQuantity, cumulativeTradedQuantity, clientOrderIdCounter,
               answer, bought, sold>>

NewOrder(id, status, side, quantity) ==
  [clientOrderId |-> id, status |-> status, side |-> side, quantity |-> quantity]

\* nullopt.
NoOrder == NewOrder(0, "NONE", "NONE", 0)

-----------------------------------------------------------------------------
(* Decisions.                                                              *)

\* isReadyToTrade; the garbage of timestampStarted is read only after
\* MinQuotes quotes.
ReadyToTrade ==
  \/ tradingStarted
  \/ /\ quotesReceived >= MinQuotes
     /\ Age(now, timestampStarted) >= VwapWindowMs

\* uint64_t arithmetic: BandScale - bandBps wraps when the band is wider than 1.
UpperBound(vwap) == ((vwap * ((BandScale - bandBps) % Word)) % Word) \div BandScale
LowerBound(vwap) == ((vwap * ((BandScale + bandBps) % Word)) % Word) \div BandScale

\* (Faulty: no test of the maximum quantity.)
ShouldBuyUnlimited(t, vwap) ==
  /\ t.price <= UpperBound(vwap)
  /\ cumulativeTradedQuantity + t.quantity <= participationCap

ShouldBuy(t, vwap) ==
  /\ t.price <= UpperBound(vwap)
  /\ cumulativeTradedQuantity + t.quantity <= participationCap
  /\ tradedQuantity + t.quantity <= maxQuantity

\* (Faulty: no test of what has been executed.)
ShouldSellAnything(t, vwap) == t.price >= LowerBound(vwap)

ShouldSell(t, vwap) ==
  /\ t.price >= LowerBound(vwap)
  /\ tradedQuantity >= t.quantity

\* handleReject: what is not a buy is reported as a sell.
RejectedSide(t) == IF t.aggressor = "BUY" THEN "BUY" ELSE "SELL"

-----------------------------------------------------------------------------
EngineInit ==
  /\ RingInit
  /\ quotesReceived = 0
  /\ tradingStarted = FALSE
  /\ timestampStarted \in Stamp
  /\ isHalted = FALSE
  /\ haltWrites = <<>>
  /\ tradedQuantity = 0
  /\ cumulativeTradedQuantity = 0
  /\ clientOrderIdCounter = 0
  /\ answer = NoOrder
  /\ quotesSeen = 0
  /\ firstQuoteAt = 0
  /\ bought = 0
  /\ sold = 0

\* (Faulty: the counter is not bounded by its type.)
OnQuoteWide ==
  /\ quotesSeen < MaxQuotes
  /\ quotesReceived' = quotesReceived + 1
  /\ timestampStarted' = IF quotesReceived' = 1 /\ ~tradingStarted THEN now ELSE timestampStarted
  /\ quotesSeen' = quotesSeen + 1
  /\ firstQuoteAt' = IF quotesSeen = 0 THEN now ELSE firstQuoteAt
  /\ UNCHANGED <<ringVars, tradingStarted, haltVars, orderVars>>

\* (Faulty: the start is never stamped and keeps its garbage.)
OnQuoteUnstamped ==
  /\ quotesSeen < MaxQuotes
  /\ quotesReceived' = (quotesReceived + 1) % CounterMod
  /\ quotesSeen' = quotesSeen + 1
  /\ firstQuoteAt' = IF quotesSeen = 0 THEN now ELSE firstQuoteAt
  /\ UNCHANGED <<ringVars, timestampStarted, tradingStarted, haltVars, orderVars>>

\* QuoteMessageHandler::onMessage.  The order book it also updates is read by
\* nobody; onQuoteReceived counts the quotes of every symbol.
OnQuote ==
  /\ quotesSeen < MaxQuotes
  /\ quotesReceived' = (quotesReceived + 1) % CounterMod
  /\ timestampStarted' = IF quotesReceived' = 1 /\ ~tradingStarted THEN now ELSE timestampStarted
  /\ quotesSeen' = quotesSeen + 1
  /\ firstQuoteAt' = IF quotesSeen = 0 THEN now ELSE firstQuoteAt
  /\ UNCHANGED <<ringVars, tradingStarted, haltVars, orderVars>>

\* What every path of TradeMessageHandler::onMessage does: the ring takes the
\* trade, readiness is latched, handleBuy, handleSell and handleReject each
\* count the volume and take an id.
HandledByEngine(t, ts) ==
  /\ Recorded(Stamped(t, ts))
  /\ tradingStarted' = ReadyToTrade
  /\ cumulativeTradedQuantity' = cumulativeTradedQuantity + t.quantity
  /\ clientOrderIdCounter' = clientOrderIdCounter + 1
  /\ UNCHANGED <<now, warmUpVars, haltVars>>

RingWith(t, ts) == HandledTrade(ring, Stamped(t, ts))

\* (Faulty: the price is read without expiring what is old.)
RingReadStale(t, ts) == RingWith(t, ts)

\* The ring after the getVWAP of shouldBuy or shouldSell.
RingRead(t, ts) == RemoveOldTrades(RingWith(t, ts), now)

Answer(status, side, t) == NewOrder(clientOrderIdCounter, status, side, t.quantity)

Reject(t) ==
  /\ answer' = Answer("REJECTED", RejectedSide(t), t)
  /\ UNCHANGED <<tradedQuantity, bought, sold>>

RejectWarmUp(t, ts) ==
  /\ HandledByEngine(t, ts)
  /\ ~ReadyToTrade
  /\ ring' = RingWith(t, ts)
  /\ Reject(t)

\* (Faulty: a halted engine forgets the volume it observes.)
DropHaltedUncounted(t, ts) ==
  /\ Recorded(Stamped(t, ts))
  /\ ReadyToTrade
  /\ isHalted
  /\ tradingStarted' = ReadyToTrade
  /\ ring' = RingWith(t, ts)
  /\ answer' = NoOrder
  /\ UNCHANGED <<now, warmUpVars, haltVars, tradedQuantity, cumulativeTradedQuantity,
                 clientOrderIdCounter, bought, sold>>

\* Halted: handleReject has its effects, its order is dropped.
DropHalted(t, ts) ==
  /\ HandledByEngine(t, ts)
  /\ ReadyToTrade
  /\ isHalted
  /\ ring' = RingWith(t, ts)
  /\ answer' = NoOrder
  /\ UNCHANGED <<tradedQuantity, bought, sold>>

Buy(t, ts) ==
  /\ HandledByEngine(t, ts)
  /\ ReadyToTrade
  /\ ~isHalted
  /\ t.aggressor = "BUY"
  /\ ring' = RingRead(t, ts)
  /\ ShouldBuy(t, VWAPOf(ring'))
  /\ answer' = Answer("ACCEPTED", "BUY", t)
  /\ tradedQuantity' = tradedQuantity + t.quantity
  /\ bought' = bought + t.quantity
  /\ UNCHANGED sold

Sell(t, ts) ==
  /\ HandledByEngine(t, ts)
  /\ ReadyToTrade
  /\ ~isHalted
  /\ t.aggressor = "SELL"
  /\ ring' = RingRead(t, ts)
  /\ ShouldSell(t, VWAPOf(ring'))
  /\ answer' = Answer("ACCEPTED", "SELL", t)
  /\ tradedQuantity' = tradedQuantity + t.quantity
  /\ sold' = sold + t.quantity
  /\ UNCHANGED bought

\* A buy or a sell that should not be: the ring has been read.
RejectNoEdge(t, ts) ==
  /\ HandledByEngine(t, ts)
  /\ ReadyToTrade
  /\ ~isHalted
  /\ ring' = RingRead(t, ts)
  /\ \/ t.aggressor = "BUY" /\ ~ShouldBuy(t, VWAPOf(ring'))
     \/ t.aggressor = "SELL" /\ ~ShouldSell(t, VWAPOf(ring'))
  /\ Reject(t)

\* An aggressor that is neither: nothing reads the ring.
RejectUnknown(t, ts) ==
  /\ HandledByEngine(t, ts)
  /\ ReadyToTrade
  /\ ~isHalted
  /\ t.aggressor = "UNKNOWN"
  /\ ring' = RingWith(t, ts)
  /\ Reject(t)

\* TradeMessageHandler::onMessage on a trade stamped ts.
OnTrade(t, ts) ==
  \/ RejectWarmUp(t, ts)
  \/ DropHalted(t, ts)
  \/ Buy(t, ts)
  \/ Sell(t, ts)
  \/ RejectNoEdge(t, ts)
  \/ RejectUnknown(t, ts)

\* haltTrading and resumeTrading, on the session thread.
WriteHalted(b) ==
  /\ Len(haltWrites) < MaxHaltWrites
  /\ haltWrites' = Append(haltWrites, b)
  /\ UNCHANGED <<ringVars, warmUpVars, tradingStarted, isHalted, orderVars>>

HaltTrading == WriteHalted(TRUE)
ResumeTrading == WriteHalted(FALSE)

\* The next write becomes visible to the demultiplexer thread.
HaltWriteVisible ==
  /\ haltWrites # <<>>
  /\ isHalted' = Head(haltWrites)
  /\ haltWrites' = Tail(haltWrites)
  /\ UNCHANGED <<ringVars, warmUpVars, tradingStarted, orderVars>>

TimePasses ==
  /\ Tick
  /\ UNCHANGED <<warmUpVars, tradingStarted, haltVars, orderVars>>

EngineNext ==
  \/ OnQuote
  \/ \E t \in Trades, ts \in StampsNow : OnTrade(t, ts)
  \/ HaltTrading
  \/ ResumeTrading
  \/ HaltWriteVisible
  \/ TimePasses

EngineSpec == EngineInit /\ [][EngineNext]_engineVars
-----------------------------------------------------------------------------
(* Properties.                                                             *)

\* Types.
EngineTypeOK ==
  /\ quotesReceived \in 0 .. CounterMod - 1
  /\ tradingStarted \in BOOLEAN
  /\ timestampStarted \in Stamp
  /\ isHalted \in BOOLEAN
  /\ haltWrites \in Seq(BOOLEAN)
  /\ tradedQuantity \in Nat
  /\ cumulativeTradedQuantity \in Nat
  /\ clientOrderIdCounter \in Nat
  /\ quotesSeen \in Nat
  /\ firstQuoteAt \in Stamp
  /\ bought \in Nat
  /\ sold \in Nat
  /\ now \in Stamp

\* Whatever is sold and rejected in between, the quantity bought in the whole
\* session exceeds neither --max-quantity nor the scaled participation cap
\* (ExecutionEngine.cpp:43 compares running sums that sells also move).
BoughtWithinLimits ==
  /\ bought <= maxQuantity
  /\ bought <= participationCap

\* A sale needs an earlier purchase: shouldSell is bounded by tradedQuantity,
\* which sales also raise, but the first quantity in it was bought.
NoSaleBeforePurchase == sold > 0 => bought > 0

\* Nothing is accepted before MinQuotes quotes came and the window has passed
\* since the first of them: not when the 32-bit counter has wrapped and the
\* start is stamped again, and not because of the uninitialised start.
WarmUp ==
  answer.status = "ACCEPTED"
    => /\ quotesSeen >= MinQuotes
       /\ now - firstQuoteAt >= VwapWindowMs

\* cumulativeTradedQuantity is the volume of every trade observed, each
\* counted once on whichever path handled it, and executions never exceed it.
VolumeAccounted ==
  /\ cumulativeTradedQuantity = QuantityOf(feed, DOMAIN feed)
  /\ tradedQuantity = bought + sold
  /\ bought + sold <= cumulativeTradedQuantity

\* An accepted order crosses with the required edge against the true VWAP of
\* the trailing window, the trade itself included, as long as the ring's read
\* is exact (ReadIsExact).  Bounds are truncated to whole price units.
CrossesWithEdge ==
  [][ answer'.status = "ACCEPTED" /\ feed' # feed /\ ~skewed' /\ ~everFull'
        => LET vwap == WindowVWAP(feed', now)
               price == Last(feed').price
           IN  IF answer'.side = "BUY"
               THEN price * BandScale <= vwap * (BandScale - bandBps)
               ELSE price >= (vwap * (BandScale + bandBps)) \div BandScale
    ]_engineVars

\* What main.cpp:32 says of the participation cap: executed quantity stays
\* within the fraction participationCap / BandScale of the volume observed.
\* The code breaks it: ExecutionEngine.cpp:43 bounds the observed volume by
\* the scaled fraction itself.
ParticipationCap ==
  (bought + sold) * BandScale <= participationCap * cumulativeTradedQuantity
=============================================================================
