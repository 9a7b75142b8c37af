------------------------ MODULE ExecutionEngineProofs ------------------------
(***************************************************************************)
(* Proofs about ExecutionEngine, for every value of its constants: types,  *)
(* the limits on what is bought, no sale before a purchase, the warm-up;   *)
(* the volume it counts, and the edge of the orders it accepts.            *)
(*                                                                         *)
(* The first four do not depend on what the VWAP ring holds: the price     *)
(* test only restricts which orders are accepted, so the ring stays        *)
(* unexpanded.  The last two rest on what VWAPServiceProofs shows of the   *)
(* ring, which the engine drives by a trade and a read in one step.        *)
(***************************************************************************)
EXTENDS ExecutionEngine, VWAPServiceProofs

\* Sales raise tradedQuantity as purchases do; both are market volume.
Accounts ==
  /\ tradedQuantity = bought + sold
  /\ tradedQuantity <= cumulativeTradedQuantity

\* The counter may wrap, and the start may be stamped again when it does; but
\* whenever quotesReceived is positive the start has been stamped, not before
\* the first quote.
StartStamped ==
  /\ quotesReceived <= quotesSeen
  /\ firstQuoteAt <= now
  /\ quotesReceived >= 1 /\ ~tradingStarted
       => firstQuoteAt <= timestampStarted /\ timestampStarted <= now

\* Once latched, readiness is backed by quotes and elapsed time.
StartedIsWarm ==
  /\ tradingStarted
       => quotesSeen >= MinQuotes /\ now - firstQuoteAt >= VwapWindowMs
  /\ answer.status = "ACCEPTED" => tradingStarted

EngineInv ==
  /\ EngineTypeOK
  /\ Accounts
  /\ BoughtWithinLimits
  /\ NoSaleBeforePurchase
  /\ StartStamped
  /\ StartedIsWarm

-----------------------------------------------------------------------------
\* What the proofs use of the assumptions on the constants.
LEMMA Constants ==
  /\ maxQuantity \in Nat
  /\ participationCap \in Nat
  /\ MinQuotes \in Nat \ {0}
  /\ CounterMod \in Nat \ {0}
  /\ VwapWindowMs \in Nat
  /\ MaxTime \in Nat
  /\ \A t \in Trades : t.quantity \in Nat
BY VWAPAssumption, EngineAssumption DEF VWAPAssumption, EngineAssumption

\* Incrementing an unsigned counter either adds one or wraps below.
LEMMA WrapIncrement ==
  ASSUME NEW M \in Nat \ {0}, NEW x \in 0 .. M - 1
  PROVE  (x + 1) % M \in 0 .. M - 1 /\ (x + 1) % M <= x + 1
<1>1. CASE x + 1 < M
  BY <1>1
<1>2. CASE x + 1 = M
  BY <1>2
<1> QED
  BY <1>1, <1>2

\* Time that has passed stays passed.
LEMMA ElapsedGrows ==
  ASSUME NEW a \in Nat, NEW b \in Nat, NEW start \in Nat, NEW w \in Nat, b >= a
  PROVE  a - start >= w => b - start >= w
OBVIOUS

\* The invariant holds initially, whatever timestampStarted holds.
LEMMA InitEstablishes ==
  EngineInit => EngineInv
<1> SUFFICES ASSUME EngineInit PROVE EngineInv
  OBVIOUS
<1> USE Constants DEF EngineInit
<1>1. now = 0
  BY DEF RingInit
<1>2. EngineTypeOK
  <2>1. haltWrites \in Seq(BOOLEAN)
    OBVIOUS
  <2>2. tradingStarted \in BOOLEAN /\ isHalted \in BOOLEAN
    OBVIOUS
  <2>3. now \in Stamp /\ firstQuoteAt \in Stamp /\ quotesReceived \in 0 .. CounterMod - 1
    BY <1>1 DEF Stamp
  <2> QED
    BY <2>1, <2>2, <2>3 DEF EngineTypeOK
<1>3. answer.status # "ACCEPTED"
  BY DEF NoOrder, NewOrder
<1>4. StartStamped /\ StartedIsWarm
  BY <1>1, <1>3 DEF StartStamped, StartedIsWarm
<1>5. Accounts /\ BoughtWithinLimits /\ NoSaleBeforePurchase
  BY DEF Accounts, BoughtWithinLimits, NoSaleBeforePurchase
<1> QED
  BY <1>2, <1>4, <1>5 DEF EngineInv

\* A ready engine is warm.
LEMMA ReadyIsWarm ==
  ASSUME EngineInv, ReadyToTrade
  PROVE  quotesSeen >= MinQuotes /\ now - firstQuoteAt >= VwapWindowMs
<1> USE Constants
<1>1. CASE tradingStarted
  BY <1>1 DEF EngineInv, StartedIsWarm
<1>2. CASE ~tradingStarted
  <2>1. quotesReceived >= MinQuotes /\ Age(now, timestampStarted) >= VwapWindowMs
    BY <1>2 DEF ReadyToTrade
  <2>2. firstQuoteAt <= timestampStarted /\ timestampStarted <= now
    BY <1>2, <2>1 DEF EngineInv, EngineTypeOK, StartStamped
  <2>3. Age(now, timestampStarted) = now - timestampStarted
    BY <2>2 DEF Age, EngineInv, EngineTypeOK, Stamp
  <2> QED
    BY <2>1, <2>2, <2>3 DEF EngineInv, EngineTypeOK, StartStamped, Stamp
<1> QED
  BY <1>1, <1>2

\* What every path of onMessage does to the parts of the invariant that the
\* order does not decide.
LEMMA HandledKeeps ==
  ASSUME EngineInv, NEW t \in Trades, NEW ts \in Stamp, HandledByEngine(t, ts)
  PROVE  /\ StartStamped'
         /\ tradingStarted' \in BOOLEAN
         /\ tradingStarted' => quotesSeen' >= MinQuotes /\ now' - firstQuoteAt' >= VwapWindowMs
         /\ cumulativeTradedQuantity' = cumulativeTradedQuantity + t.quantity
         /\ cumulativeTradedQuantity' \in Nat
         /\ clientOrderIdCounter' \in Nat
         /\ UNCHANGED <<now, warmUpVars, haltVars>>
         /\ t.quantity \in Nat
<1> USE Constants DEF HandledByEngine
<1>1. UNCHANGED <<now, warmUpVars, haltVars>>
  OBVIOUS
<1>2. UNCHANGED <<quotesReceived, timestampStarted, quotesSeen, firstQuoteAt, now>>
  BY <1>1 DEF warmUpVars
<1>3. tradingStarted => tradingStarted'
  BY DEF ReadyToTrade
<1>4. StartStamped'
  BY <1>2, <1>3 DEF EngineInv, StartStamped
<1>5. tradingStarted' \in BOOLEAN
  BY DEF ReadyToTrade, EngineInv, EngineTypeOK
<1>6. tradingStarted' => quotesSeen' >= MinQuotes /\ now' - firstQuoteAt' >= VwapWindowMs
  BY <1>2, ReadyIsWarm
<1>7. cumulativeTradedQuantity' \in Nat /\ clientOrderIdCounter' \in Nat /\ t.quantity \in Nat
  BY DEF EngineInv, EngineTypeOK
<1> QED
  BY <1>1, <1>4, <1>5, <1>6, <1>7

\* A path that moves no quantity into the position, and accepts nothing.
LEMMA NothingExecuted ==
  ASSUME EngineInv, NEW t \in Trades, NEW ts \in Stamp, HandledByEngine(t, ts),
         UNCHANGED <<tradedQuantity, bought, sold>>,
         answer'.status # "ACCEPTED"
  PROVE  EngineInv'
<1> USE Constants
<1>1. EngineTypeOK'
  BY HandledKeeps DEF EngineInv, EngineTypeOK, warmUpVars, haltVars
<1>2. Accounts'
  BY HandledKeeps DEF EngineInv, EngineTypeOK, Accounts
<1>3. BoughtWithinLimits' /\ NoSaleBeforePurchase'
  BY DEF EngineInv, BoughtWithinLimits, NoSaleBeforePurchase
<1>4. StartStamped' /\ StartedIsWarm'
  BY HandledKeeps DEF StartedIsWarm
<1> QED
  BY <1>1, <1>2, <1>3, <1>4 DEF EngineInv

\* An accepted purchase: both limits were tested before it was added.
LEMMA BuyKeeps ==
  ASSUME EngineInv, NEW t \in Trades, NEW ts \in Stamp, Buy(t, ts)
  PROVE  EngineInv'
<1> USE Constants
<1>1. HandledByEngine(t, ts) /\ ReadyToTrade
  BY DEF Buy
<1>2. /\ tradedQuantity' = tradedQuantity + t.quantity
      /\ bought' = bought + t.quantity
      /\ sold' = sold
      /\ cumulativeTradedQuantity + t.quantity <= participationCap
      /\ tradedQuantity + t.quantity <= maxQuantity
  BY DEF Buy, ShouldBuy
<1>3. EngineTypeOK'
  <2>1. UNCHANGED <<now, quotesReceived, timestampStarted, quotesSeen, firstQuoteAt>>
    BY <1>1, HandledKeeps DEF warmUpVars
  <2>2. isHalted' \in BOOLEAN /\ haltWrites' \in Seq(BOOLEAN) /\ tradingStarted' \in BOOLEAN
    BY <1>1, HandledKeeps DEF haltVars, EngineInv, EngineTypeOK
  <2>3. tradedQuantity' \in Nat /\ bought' \in Nat /\ sold' \in Nat
    <3>1. tradedQuantity \in Nat /\ bought \in Nat /\ sold \in Nat
      BY DEF EngineInv, EngineTypeOK
    <3>2. t.quantity \in Nat
      OBVIOUS
    <3> QED
      BY <1>2, <3>1, <3>2
  <2> QED
    BY <1>1, <2>1, <2>2, <2>3, HandledKeeps DEF EngineInv, EngineTypeOK
<1>4. Accounts'
  BY <1>1, <1>2, HandledKeeps DEF EngineInv, EngineTypeOK, Accounts
<1>5. BoughtWithinLimits'
  BY <1>1, <1>2, HandledKeeps DEF EngineInv, EngineTypeOK, Accounts, BoughtWithinLimits
<1>6. NoSaleBeforePurchase'
  BY <1>1, <1>2, HandledKeeps DEF EngineInv, EngineTypeOK, NoSaleBeforePurchase
<1>7. tradingStarted'
  BY <1>1 DEF HandledByEngine
<1>8. StartStamped' /\ StartedIsWarm'
  BY <1>1, <1>7, HandledKeeps DEF StartedIsWarm
<1> QED
  BY <1>3, <1>4, <1>5, <1>6, <1>8 DEF EngineInv

\* An accepted sale: what it sells is bounded by what was executed before.
LEMMA SellKeeps ==
  ASSUME EngineInv, NEW t \in Trades, NEW ts \in Stamp, Sell(t, ts)
  PROVE  EngineInv'
<1> USE Constants
<1>1. HandledByEngine(t, ts) /\ ReadyToTrade
  BY DEF Sell
<1>2. /\ tradedQuantity' = tradedQuantity + t.quantity
      /\ sold' = sold + t.quantity
      /\ bought' = bought
      /\ tradedQuantity >= t.quantity
  BY DEF Sell, ShouldSell
<1>3. EngineTypeOK'
  <2>1. UNCHANGED <<now, quotesReceived, timestampStarted, quotesSeen, firstQuoteAt>>
    BY <1>1, HandledKeeps DEF warmUpVars
  <2>2. isHalted' \in BOOLEAN /\ haltWrites' \in Seq(BOOLEAN) /\ tradingStarted' \in BOOLEAN
    BY <1>1, HandledKeeps DEF haltVars, EngineInv, EngineTypeOK
  <2>3. tradedQuantity' \in Nat /\ bought' \in Nat /\ sold' \in Nat
    <3>1. tradedQuantity \in Nat /\ bought \in Nat /\ sold \in Nat
      BY DEF EngineInv, EngineTypeOK
    <3>2. t.quantity \in Nat
      OBVIOUS
    <3> QED
      BY <1>2, <3>1, <3>2
  <2> QED
    BY <1>1, <2>1, <2>2, <2>3, HandledKeeps DEF EngineInv, EngineTypeOK
<1>4. Accounts'
  BY <1>1, <1>2, HandledKeeps DEF EngineInv, EngineTypeOK, Accounts
<1>5. BoughtWithinLimits'
  BY <1>2 DEF EngineInv, BoughtWithinLimits
<1>6. NoSaleBeforePurchase'
  BY <1>1, <1>2, HandledKeeps DEF EngineInv, EngineTypeOK, Accounts, NoSaleBeforePurchase
<1>7. tradingStarted'
  BY <1>1 DEF HandledByEngine
<1>8. StartStamped' /\ StartedIsWarm'
  BY <1>1, <1>7, HandledKeeps DEF StartedIsWarm
<1> QED
  BY <1>3, <1>4, <1>5, <1>6, <1>8 DEF EngineInv

\* A quote may wrap the counter and stamp the start again.
LEMMA QuoteKeeps ==
  ASSUME EngineInv, OnQuote
  PROVE  EngineInv'
<1> USE Constants
<1>1. UNCHANGED <<ringVars, tradingStarted, haltVars, orderVars>>
  BY DEF OnQuote
<1>2. UNCHANGED <<now, tradingStarted, isHalted, haltWrites, tradedQuantity,
                  cumulativeTradedQuantity, clientOrderIdCounter, answer, bought, sold>>
  BY <1>1 DEF ringVars, haltVars, orderVars
<1>3. quotesReceived' \in 0 .. CounterMod - 1 /\ quotesReceived' <= quotesReceived + 1
  BY WrapIncrement DEF OnQuote, EngineInv, EngineTypeOK
<1>4. /\ quotesSeen' = quotesSeen + 1
      /\ firstQuoteAt' = IF quotesSeen = 0 THEN now ELSE firstQuoteAt
      /\ timestampStarted' = IF quotesReceived' = 1 /\ ~tradingStarted THEN now ELSE timestampStarted
  BY DEF OnQuote
<1>5. EngineTypeOK'
  BY <1>2, <1>3, <1>4 DEF EngineInv, EngineTypeOK
<1>6. StartStamped'
  BY <1>2, <1>3, <1>4 DEF EngineInv, EngineTypeOK, StartStamped, Stamp
<1>7. StartedIsWarm'
  BY <1>2, <1>4 DEF EngineInv, EngineTypeOK, StartedIsWarm
<1>8. Accounts' /\ BoughtWithinLimits' /\ NoSaleBeforePurchase'
  BY <1>2 DEF EngineInv, Accounts, BoughtWithinLimits, NoSaleBeforePurchase
<1> QED
  BY <1>5, <1>6, <1>7, <1>8 DEF EngineInv

\* Halting, resuming, and time leave the accounts alone.
LEMMA OthersKeep ==
  ASSUME EngineInv,
         HaltTrading \/ ResumeTrading \/ HaltWriteVisible \/ TimePasses \/ UNCHANGED engineVars
  PROVE  EngineInv'
<1> USE Constants
<1>1. UNCHANGED <<warmUpVars, tradingStarted, orderVars>>
  BY DEF HaltTrading, ResumeTrading, WriteHalted, HaltWriteVisible, TimePasses, engineVars,
         warmUpVars, orderVars
<1>2. UNCHANGED <<quotesReceived, timestampStarted, quotesSeen, firstQuoteAt, tradingStarted,
                  tradedQuantity, cumulativeTradedQuantity, clientOrderIdCounter, answer, bought, sold>>
  BY <1>1 DEF warmUpVars, orderVars
<1>3. now' \in Stamp /\ now' >= now
  <2>1. CASE TimePasses
    BY <2>1 DEF TimePasses, Tick, EngineInv, EngineTypeOK, Stamp
  <2>2. CASE ~TimePasses
    <3>1. now' = now
      BY <2>2 DEF HaltTrading, ResumeTrading, WriteHalted, HaltWriteVisible, engineVars, ringVars
    <3> QED
      BY <3>1 DEF EngineInv, EngineTypeOK, Stamp
  <2> QED
    BY <2>1, <2>2
<1>4. isHalted' \in BOOLEAN /\ haltWrites' \in Seq(BOOLEAN)
  <2>1. isHalted \in BOOLEAN /\ haltWrites \in Seq(BOOLEAN)
    BY DEF EngineInv, EngineTypeOK
  <2>2. ASSUME NEW b \in BOOLEAN, WriteHalted(b)
        PROVE  isHalted' \in BOOLEAN /\ haltWrites' \in Seq(BOOLEAN)
    <3>1. isHalted' = isHalted /\ haltWrites' = Append(haltWrites, b)
      BY <2>2 DEF WriteHalted
    <3> QED
      BY <2>1, <3>1
  <2>3. CASE HaltWriteVisible
    <3>1. haltWrites # <<>> /\ isHalted' = Head(haltWrites) /\ haltWrites' = Tail(haltWrites)
      BY <2>3 DEF HaltWriteVisible
    <3> QED
      BY <2>1, <3>1
  <2>4. CASE TimePasses \/ UNCHANGED engineVars
    BY <2>1, <2>4 DEF TimePasses, engineVars, haltVars
  <2> QED
    BY <2>2, <2>3, <2>4 DEF HaltTrading, ResumeTrading
<1>5. EngineTypeOK'
  BY <1>2, <1>3, <1>4 DEF EngineInv, EngineTypeOK
<1>6. StartStamped' /\ StartedIsWarm'
  <2>1. now \in Nat /\ now' \in Nat /\ firstQuoteAt \in Nat /\ timestampStarted \in Nat
    BY <1>3 DEF EngineInv, EngineTypeOK, Stamp
  <2>2. StartStamped'
    BY <1>2, <1>3, <2>1 DEF EngineInv, StartStamped
  <2>3. StartedIsWarm'
    <3>1. (now - firstQuoteAt >= VwapWindowMs) => (now' - firstQuoteAt' >= VwapWindowMs)
      <4>1. firstQuoteAt' = firstQuoteAt
        BY <1>2
      <4>2. now' >= now
        BY <1>3
      <4>3. VwapWindowMs \in Nat
        OBVIOUS
      <4> QED
        BY <2>1, <4>1, <4>2, <4>3, ElapsedGrows
    <3>2. quotesSeen' = quotesSeen /\ tradingStarted' = tradingStarted /\ answer' = answer
      BY <1>2
    <3> QED
      BY <3>1, <3>2, Zenon DEF EngineInv, StartedIsWarm
  <2> QED
    BY <2>2, <2>3
<1>7. Accounts' /\ BoughtWithinLimits' /\ NoSaleBeforePurchase'
  BY <1>2 DEF EngineInv, Accounts, BoughtWithinLimits, NoSaleBeforePurchase
<1> QED
  BY <1>5, <1>6, <1>7 DEF EngineInv

\* A trade, on whichever path it is handled and however old its stamp is.
LEMMA TradeKeeps ==
  ASSUME EngineInv, NEW t \in Trades, NEW ts \in Stamp, OnTrade(t, ts)
  PROVE  EngineInv'
<1>1. CASE Buy(t, ts)
  BY <1>1, BuyKeeps
<1>2. CASE Sell(t, ts)
  BY <1>2, SellKeeps
<1>3. CASE RejectWarmUp(t, ts) \/ RejectNoEdge(t, ts) \/ RejectUnknown(t, ts)
  <2>1. HandledByEngine(t, ts) /\ Reject(t)
    BY <1>3 DEF RejectWarmUp, RejectNoEdge, RejectUnknown
  <2>2. answer'.status # "ACCEPTED"
    BY <2>1 DEF Reject, Answer, NewOrder
  <2> QED
    BY <2>1, <2>2, NothingExecuted DEF Reject
<1>4. CASE DropHalted(t, ts)
  <2>1. answer'.status # "ACCEPTED"
    BY <1>4 DEF DropHalted, NoOrder, NewOrder
  <2> QED
    BY <1>4, <2>1, NothingExecuted DEF DropHalted
<1> QED
  BY <1>1, <1>2, <1>3, <1>4 DEF OnTrade

\* One message, one halt write, one tick or a stutter keeps the invariant.
LEMMA StepKeeps ==
  EngineInv /\ [EngineNext]_engineVars => EngineInv'
<1> SUFFICES ASSUME EngineInv, [EngineNext]_engineVars PROVE EngineInv'
  OBVIOUS
<1>1. CASE OnQuote
  BY <1>1, QuoteKeeps
<1>2. ASSUME NEW t \in Trades, NEW ts \in StampsNow, OnTrade(t, ts)
      PROVE  EngineInv'
  <2>1. ts \in Stamp
    BY DEF StampsNow
  <2> QED
    BY <1>2, <2>1, TradeKeeps
<1>3. CASE HaltTrading \/ ResumeTrading \/ HaltWriteVisible \/ TimePasses \/ UNCHANGED engineVars
  BY <1>3, OthersKeep
<1> QED
  BY <1>1, <1>2, <1>3 DEF EngineNext

-----------------------------------------------------------------------------
\* Every reachable state satisfies the invariant.
THEOREM Invariance == EngineSpec => []EngineInv
BY InitEstablishes, StepKeeps, PTL DEF EngineSpec

\* Every reachable state is well typed.
THEOREM EngineTypeCorrect == EngineSpec => []EngineTypeOK
<1>1. EngineInv => EngineTypeOK
  BY DEF EngineInv
<1> QED
  BY <1>1, Invariance, PTL

\* What is bought in a session exceeds neither limit, for any limits and any
\* sequence of trades, halts and quotes.
THEOREM PurchasesAreLimited == EngineSpec => []BoughtWithinLimits
<1>1. EngineInv => BoughtWithinLimits
  BY DEF EngineInv
<1> QED
  BY <1>1, Invariance, PTL

\* Something sold means something was bought.
THEOREM SalesNeedPurchases == EngineSpec => []NoSaleBeforePurchase
<1>1. EngineInv => NoSaleBeforePurchase
  BY DEF EngineInv
<1> QED
  BY <1>1, Invariance, PTL

\* No order is accepted by a cold engine, whatever the width of the quote
\* counter and whatever the uninitialised start holds.
THEOREM AcceptsOnlyWhenWarm == EngineSpec => []WarmUp
<1>1. EngineInv => WarmUp
  BY DEF EngineInv, StartedIsWarm, WarmUp
<1> QED
  BY <1>1, Invariance, PTL

-----------------------------------------------------------------------------
(* The ring under the engine, and the volume it has seen.                  *)

\* The counted volume is the sum over the whole history.
VolumeSeen ==
  /\ RingInv
  /\ cumulativeTradedQuantity = SumOver(Quantities(feed), 1 .. Len(feed))

\* A trade, on whichever path it is handled, takes the ring from one that
\* follows the history to one that does, read or not.
LEMMA TradeRing ==
  ASSUME RingInv, NEW t \in Trades, NEW ts \in Stamp, OnTrade(t, ts)
  PROVE  /\ RingInv'
         /\ feed' = Append(feed, Stamped(t, ts))
         /\ cumulativeTradedQuantity' = cumulativeTradedQuantity + t.quantity
         /\ now' = now
         /\ ring' = RingRead(t, ts) /\ ~skewed' /\ ~everFull'
              => VWAPOf(ring') = WindowVWAP(feed', now)
<1> DEFINE s == Stamped(t, ts)
<1>1. HandledByEngine(t, ts) /\ (ring' = RingWith(t, ts) \/ ring' = RingRead(t, ts))
  BY DEF OnTrade, RejectWarmUp, DropHalted, Buy, Sell, RejectNoEdge, RejectUnknown
<1>2. /\ feed' = Append(feed, s)
      /\ everFull' = (everFull \/ IsFull(HandledTrade(ring, s)))
      /\ skewed' = (skewed \/ s.ts > now \/ (feed # <<>> /\ s.ts < Last(feed).ts))
      /\ cumulativeTradedQuantity' = cumulativeTradedQuantity + t.quantity
      /\ now' = now
  BY <1>1 DEF HandledByEngine, Recorded
<1>3. s \in StampedTrade
  BY StampedTypes
<1> HIDE DEF s
<1>4. RingOK(HandledTrade(ring, s), now, feed', everFull', skewed')
  BY <1>2, <1>3, HandledOK DEF RingInv
<1>5. /\ RingOK(RemoveOldTrades(HandledTrade(ring, s), now), now, feed', everFull', skewed')
      /\ ~skewed' /\ ~everFull'
           => VWAPOf(RemoveOldTrades(HandledTrade(ring, s), now)) = WindowVWAP(feed', now)
  BY <1>4, ReadOK
<1>6. RingWith(t, ts) = HandledTrade(ring, s) /\ RingRead(t, ts) = RemoveOldTrades(HandledTrade(ring, s), now)
  BY DEF RingWith, RingRead, s
<1>7. RingInv'
  BY <1>1, <1>2, <1>4, <1>5, <1>6 DEF RingInv
<1> QED
  BY <1>2, <1>5, <1>6, <1>7 DEF s

\* The volume of a history that is one trade longer.
LEMMA VolumeOfLonger ==
  ASSUME NEW f \in Seq(StampedTrade), NEW t \in StampedTrade
  PROVE  SumOver(Quantities(Append(f, t)), 1 .. Len(Append(f, t)))
           = t.quantity + SumOver(Quantities(f), 1 .. Len(f))
<1> DEFINE e == Append(f, t)
           L == Len(f)
           q == Quantities(f)
           q2 == Quantities(e)
<1>1. /\ L \in Nat /\ Len(e) = L + 1 /\ DOMAIN e = 1 .. L + 1 /\ DOMAIN f = 1 .. L
      /\ e[L + 1] = t /\ \A i \in 1 .. L : e[i] = f[i] /\ f[i] \in StampedTrade
  BY AppendProperties, LenProperties, ElementOfSeq
<1> HIDE DEF e, L
<1>2. \A i \in 1 .. L : i \in 1 .. L + 1
  BY <1>1
<1>3. L + 1 \in 1 .. L + 1 /\ \A i \in 1 .. L + 1 : i = L + 1 \/ i \in 1 .. L
  BY <1>1
<1>4. q2[L + 1] = t.quantity /\ \A i \in 1 .. L : q2[i] = q[i] /\ q2[i] \in Nat
  BY <1>1, <1>2, <1>3 DEF Quantities, StampedTrade
<1>5. t.quantity \in Nat
  BY DEF StampedTrade
<1> HIDE DEF q, q2
<1>6. \A i \in 1 .. L + 1 : q2[i] \in Int
  BY <1>3, <1>4, <1>5
<1>7. SumOver(q2, 0 + 1 .. L + 1) = q2[L + 1] + SumOver(q, 0 + 1 .. L)
  <2>1. 0 \in Nat /\ 0 <= L /\ L \in Nat /\ \A i \in 1 .. L : q2[i] = q[i]
    BY <1>1, <1>4
  <2> DEFINE z == 0
  <2>2. z \in Nat /\ z <= L
    BY <2>1
  <2> HIDE DEF z
  <2>3. SumOver(q2, z + 1 .. L + 1) = q2[L + 1] + SumOver(q, z + 1 .. L)
    BY <1>6, <2>1, <2>2, SumOfLonger
  <2> QED
    BY <2>3 DEF z
<1> QED
  BY <1>1, <1>4, <1>7 DEF e, L, q, q2

\* A trade is counted, however old its stamp is.
LEMMA TradeIsCounted ==
  ASSUME VolumeSeen, NEW t \in Trades, NEW ts \in Stamp, OnTrade(t, ts)
  PROVE  VolumeSeen'
<1> DEFINE s == Stamped(t, ts)
<1>1. s \in StampedTrade /\ s.quantity = t.quantity
  BY StampedTypes DEF Stamped
<1> HIDE DEF s
<1>2. /\ RingInv' /\ feed' = Append(feed, s)
      /\ cumulativeTradedQuantity' = cumulativeTradedQuantity + t.quantity
  BY <1>1, TradeRing DEF VolumeSeen, s
<1>3. feed \in Seq(StampedTrade)
  BY DEF VolumeSeen, RingInv, RingOK, Follows
<1>4. SumOver(Quantities(feed'), 1 .. Len(feed'))
        = t.quantity + SumOver(Quantities(feed), 1 .. Len(feed))
  BY <1>1, <1>2, <1>3, VolumeOfLonger
<1>5. SumOver(Quantities(feed), 1 .. Len(feed)) \in Int /\ t.quantity \in Int
  <2>1. \A i \in 1 .. Len(feed) : Quantities(feed)[i] \in Int
    BY Followed DEF VolumeSeen, RingInv, RingOK
  <2>2. IsFiniteSet(1 .. Len(feed))
    BY <1>3, FS_Interval, LenProperties
  <2> QED
    BY <2>1, <2>2, SumWithOne, Constants
<1>6. cumulativeTradedQuantity + t.quantity = t.quantity + SumOver(Quantities(feed), 1 .. Len(feed))
  BY <1>5 DEF VolumeSeen
<1> QED
  BY <1>2, <1>4, <1>6 DEF VolumeSeen

\* Nothing else touches the volume, and time is all that moves beside it.
LEMMA OthersCountNothing ==
  ASSUME VolumeSeen,
         \/ OnQuote \/ HaltTrading \/ ResumeTrading \/ HaltWriteVisible \/ TimePasses
         \/ UNCHANGED engineVars
  PROVE  VolumeSeen'
<1>1. CASE TimePasses
  BY <1>1, TickInv DEF TimePasses, VolumeSeen, Tick, orderVars
<1>2. CASE OnQuote \/ HaltTrading \/ ResumeTrading \/ HaltWriteVisible \/ UNCHANGED engineVars
  BY <1>2 DEF OnQuote, HaltTrading, ResumeTrading, WriteHalted, HaltWriteVisible, engineVars,
              ringVars, orderVars, VolumeSeen, RingInv
<1> QED
  BY <1>1, <1>2

\* Every step of the engine keeps the count.
LEMMA VolumeKeeps ==
  VolumeSeen /\ [EngineNext]_engineVars => VolumeSeen'
BY TradeIsCounted, OthersCountNothing DEF EngineNext, StampsNow

\* Nothing has been seen, and nothing counted.
LEMMA VolumeInit ==
  EngineInit => VolumeSeen
<1> SUFFICES ASSUME EngineInit PROVE VolumeSeen
  OBVIOUS
<1>1. RingInv /\ feed = <<>>
  BY RingInitInv DEF EngineInit, RingInit
<1>2. 1 .. Len(feed) = {}
  BY <1>1
<1>3. cumulativeTradedQuantity = 0
  BY DEF EngineInit
<1> QED
  BY <1>1, <1>2, <1>3, SumOfNone DEF VolumeSeen

\* The two invariants say what is accounted for.
LEMMA SeenIsAccounted ==
  ASSUME EngineInv, VolumeSeen
  PROVE  VolumeAccounted
<1>1. /\ Len(feed) \in Nat /\ DOMAIN feed = 1 .. Len(feed)
      /\ \A i \in 1 .. Len(feed) :
           Quantities(feed)[i] = feed[i].quantity /\ Quantities(feed)[i] \in Int
  BY Followed DEF VolumeSeen, RingInv, RingOK
<1>2. IsFiniteSet(1 .. Len(feed))
  BY <1>1, FS_Interval
<1>3. QuantityOf(feed, 1 .. Len(feed)) = SumOver(Quantities(feed), 1 .. Len(feed))
  BY <1>1, <1>2, QuantityIsSum
<1>4. cumulativeTradedQuantity = QuantityOf(feed, DOMAIN feed)
  BY <1>1, <1>3 DEF VolumeSeen
<1> QED
  BY <1>4 DEF EngineInv, Accounts, VolumeAccounted

\* The ring keeps all that VWAPServiceProofs shows of it when the engine
\* drives it, a trade and a read in one step.
THEOREM VolumeInvariance == EngineSpec => []VolumeSeen
BY VolumeInit, VolumeKeeps, PTL DEF EngineSpec

\* Each trade observed is counted once, whichever path handles it, halted and
\* rejected ones included, and executions do not exceed what is observed.
THEOREM VolumeIsAccounted == EngineSpec => []VolumeAccounted
<1>1. EngineInv /\ VolumeSeen => VolumeAccounted
  BY SeenIsAccounted
<1> QED
  BY <1>1, Invariance, VolumeInvariance, PTL

-----------------------------------------------------------------------------
(* The edge of an accepted order.                                          *)

\* A quotient by a positive number, bounded from both sides.
LEMMA Quotients ==
  ASSUME NEW a \in Nat, NEW q \in Nat \ {0}
  PROVE  /\ a \div q \in Nat
         /\ (a \div q) * q <= a
         /\ \A p \in Nat : a <= p * q => a \div q <= p
<1>1. a \div q \in Nat /\ (a \div q) * q <= a
  OBVIOUS
<1>2. ASSUME NEW p \in Nat, a <= p * q PROVE a \div q <= p
  <2> DEFINE d == a \div q
  <2>1. d \in Nat /\ d * q <= a
    BY <1>1
  <2> HIDE DEF d
  <2>2. d * q <= p * q
    <3> DEFINE x == d * q
               y == p * q
    <3>1. x \in Nat /\ y \in Nat /\ x <= a /\ a <= y
      BY <1>2, <2>1
    <3> HIDE DEF x, y
    <3>2. x <= y
      BY <3>1
    <3> QED
      BY <3>2 DEF x, y
  <2>3. d <= p
    BY <2>1, <2>2
  <2> QED
    BY <2>3 DEF d
<1> QED
  BY <1>1, <1>2

\* Products of natural numbers grow with their factors.
LEMMA Products ==
  ASSUME NEW a \in Nat, NEW b \in Nat, NEW c \in Nat, a <= b
  PROVE  a * c <= b * c /\ c * a <= c * b /\ a * c \in Nat /\ c * a \in Nat
OBVIOUS

\* A remainder is no more than what it is of, and that itself if it is small.
LEMMA Remainders ==
  ASSUME NEW x \in Nat, NEW M \in Nat \ {0}
  PROVE  /\ x % M \in Nat
         /\ x % M <= x
         /\ x < M => x % M = x
OBVIOUS

\* Sums grow with what they are of.
LEMMA SumsScale ==
  ASSUME NEW S, IsFiniteSet(S), NEW g, NEW h, NEW p \in Nat,
         \A x \in S : g[x] \in Nat /\ h[x] \in Nat /\ h[x] <= p * g[x]
  PROVE  SumOver(h, S) <= p * SumOver(g, S)
<1> PICK G : Sums(G, g, S) /\ \A s \in SUBSET S : SumOver(g, s) = G[s]
  BY SumsOfSubsets
<1> PICK H : Sums(H, h, S) /\ \A s \in SUBSET S : SumOver(h, s) = H[s]
  BY SumsOfSubsets
<1> DEFINE T == {s \in SUBSET S : ~(H[s] <= p * G[s])}
<1>1. SUFFICES ASSUME T # {} PROVE FALSE
  <2>1. S \in SUBSET S
    OBVIOUS
  <2> QED
    BY <2>1
<1>2. PICK m \in T : \A s \in T : s \subseteq m => s = m
  <2>1. T \in SUBSET SUBSET S
    OBVIOUS
  <2> HIDE DEF T
  <2> QED
    BY <1>1, <2>1, LeastSubset
<1>3. PICK y \in m : TRUE
  <2>1. {} \notin T
    <3>1. H[{}] = 0 /\ G[{}] = 0
      BY DEF Sums
    <3>2. p * 0 = 0
      OBVIOUS
    <3> QED
      BY <3>1, <3>2
  <2> QED
    BY <2>1
<1> DEFINE n == m \ {y}
<1>4. /\ n \in SUBSET S /\ y \in S /\ m \in SUBSET S
      /\ G[m] = g[y] + G[n] /\ H[m] = h[y] + H[n] /\ G[n] \in Int /\ H[n] \in Int
  BY <1>3 DEF Sums
<1>5. H[n] <= p * G[n]
  <2>1. n \notin T
    BY <1>2, <1>3
  <2> QED
    BY <1>4, <2>1
<1>6. ~(H[m] <= p * G[m])
  OBVIOUS
<1>7. g[y] \in Nat /\ h[y] \in Nat /\ h[y] <= p * g[y]
  BY <1>4
<1>8. ASSUME NEW a \in Int, NEW b \in Int PROVE p * (a + b) = p * a + p * b /\ p * a \in Int /\ p * b \in Int
  OBVIOUS
<1> HIDE DEF T, n
<1>9. p * G[m] = p * g[y] + p * G[n] /\ p * g[y] \in Int /\ p * G[n] \in Int
  BY <1>4, <1>7, <1>8
<1> QED
  BY <1>4, <1>5, <1>6, <1>7, <1>9

\* No trade of a history costs more than p.
PricedUpTo(f, p) == \A i \in 1 .. Len(f) : f[i].price <= p

\* An average is no more than the highest price in it.
LEMMA AverageUpTo ==
  ASSUME NEW r, NEW f, Follows(r, f), NEW p \in Nat, PricedUpTo(f, p)
  PROVE  VWAPOf(r) \in Nat /\ VWAPOf(r) <= p
<1> DEFINE q == Quantities(f)
           pq == PricedQuantities(f)
           m == Before(r, f)
           S == m + 1 .. Len(f)
<1>1. /\ m \in Nat /\ Len(f) \in Nat
      /\ \A i \in 1 .. Len(f) : /\ f[i] \in StampedTrade /\ q[i] \in Nat /\ pq[i] \in Nat
                                /\ q[i] = f[i].quantity /\ pq[i] = f[i].quantity * f[i].price
  BY Followed
<1>2. /\ r.totalQuantity = SumOver(q, S) /\ r.totalPricedQuantity = SumOver(pq, S)
      /\ r.totalQuantity \in Nat /\ r.totalPricedQuantity \in Nat
  BY Followed DEF Follows, Ring
<1>3. S \subseteq 1 .. Len(f) /\ IsFiniteSet(S)
  <2>1. m + 1 \in Int /\ Len(f) \in Int /\ S \subseteq 1 .. Len(f)
    BY <1>1
  <2>2. IsFiniteSet(S)
    BY <2>1, FS_Interval
  <2> QED
    BY <2>1, <2>2
<1>4. ASSUME NEW i \in S PROVE q[i] \in Nat /\ pq[i] \in Nat /\ pq[i] <= p * q[i]
  <2>1. /\ i \in 1 .. Len(f) /\ f[i].price <= p /\ f[i].price \in Nat /\ f[i].quantity \in Nat
    BY <1>1, <1>3 DEF PricedUpTo, StampedTrade
  <2>2. f[i].quantity * f[i].price <= f[i].quantity * p
    BY <2>1, Products
  <2>3. f[i].quantity * p = p * f[i].quantity
    BY <2>1
  <2> QED
    BY <1>1, <2>1, <2>2, <2>3
<1> HIDE DEF q, pq, S
<1>5. r.totalPricedQuantity <= p * r.totalQuantity
  BY <1>2, <1>3, <1>4, SumsScale
<1>6. CASE r.totalQuantity = 0
  BY <1>6 DEF VWAPOf
<1>7. CASE r.totalQuantity # 0
  <2>1. r.totalQuantity \in Nat \ {0}
    BY <1>2, <1>7
  <2> QED
    BY <1>2, <1>5, <1>7, <2>1, Quotients DEF VWAPOf
<1> QED
  BY <1>6, <1>7

\* What shouldBuy grants, wrapping or not: the bound is never above its price.
LEMMA BuyHasEdge ==
  ASSUME NEW v \in Nat, NEW price \in Nat, price <= UpperBound(v), bandBps <= BandScale
  PROVE  price * BandScale <= v * (BandScale - bandBps)
<1> DEFINE c == BandScale - bandBps
           d == c % Word
           x == v * d
           y == x % Word
<1>1. c \in Nat /\ BandScale \in Nat \ {0} /\ Word \in Nat \ {0}
  BY VWAPAssumption, EngineAssumption DEF VWAPAssumption, EngineAssumption
<1>2. UpperBound(v) = y \div BandScale
  BY DEF UpperBound
<1> HIDE DEF c
<1>3. d \in Nat /\ d <= c
  BY <1>1, Remainders
<1> HIDE DEF d
<1>4. x \in Nat /\ x <= v * c
  BY <1>1, <1>3, Products
<1>5. v * c \in Nat
  BY <1>1
<1> HIDE DEF x
<1>6. y \in Nat /\ y <= x
  BY <1>1, <1>4, Remainders
<1> HIDE DEF y
<1>7. y \div BandScale \in Nat /\ (y \div BandScale) * BandScale <= y
  BY <1>1, <1>6, Quotients
<1>8. price * BandScale <= (y \div BandScale) * BandScale
  BY <1>1, <1>2, <1>7, Products
<1> DEFINE a == price * BandScale
           b == (y \div BandScale) * BandScale
           e == v * c
<1>9. a \in Nat /\ b \in Nat /\ e \in Nat
  BY <1>1, <1>5, <1>7
<1> HIDE DEF a, b, e
<1>10. a <= e
  BY <1>4, <1>6, <1>7, <1>8, <1>9 DEF a, b, e
<1> QED
  BY <1>10 DEF a, e, c

\* What shouldSell grants as long as its product does not wrap.
LEMMA SellHasEdge ==
  ASSUME NEW v \in Nat, NEW price \in Nat, price >= LowerBound(v),
         NEW p \in Nat, v <= p, p * (BandScale + bandBps) < Word
  PROVE  price >= (v * (BandScale + bandBps)) \div BandScale
<1> DEFINE c == BandScale + bandBps
<1>1. c \in Nat \ {0} /\ Word \in Nat \ {0}
  BY VWAPAssumption, EngineAssumption DEF VWAPAssumption, EngineAssumption
<1>2. LowerBound(v) = ((v * (c % Word)) % Word) \div BandScale /\ p * c < Word
  BY DEF LowerBound
<1>3. SUFFICES (v * (c % Word)) % Word = v * c
  BY <1>2
<1> HIDE DEF c
<1>4. v * c < Word /\ v * c \in Nat
  <2> DEFINE a == v * c
             b == p * c
  <2>1. a <= b /\ a \in Nat /\ b \in Nat
    BY <1>1, Products
  <2>2. b < Word
    BY <1>2
  <2> HIDE DEF a, b
  <2>3. a < Word
    BY <1>1, <2>1, <2>2
  <2> QED
    BY <2>1, <2>3 DEF a
<1>5. CASE v = 0
  <2>1. c % Word \in Nat /\ 0 % Word = 0
    BY <1>1, Remainders
  <2>2. v * (c % Word) = 0 /\ v * c = 0
    BY <1>1, <1>5, <2>1
  <2> QED
    BY <2>1, <2>2
<1>6. CASE v # 0
  <2>1. c <= v * c
    <3>1. 1 \in Nat /\ 1 <= v
      BY <1>6
    <3>2. 1 * c <= v * c
      BY <1>1, <3>1, Products
    <3> QED
      BY <1>1, <3>2
  <2>2. c < Word
    <3> DEFINE a == v * c
    <3>1. a \in Nat /\ c <= a /\ a < Word
      BY <1>4, <2>1
    <3> HIDE DEF a
    <3> QED
      BY <1>1, <3>1
  <2>3. c % Word = c
    BY <1>1, <2>2, Remainders
  <2>4. (v * c) % Word = v * c
    BY <1>1, <1>4, Remainders
  <2> QED
    BY <2>3, <2>4
<1> QED
  BY <1>5, <1>6

\* No trade costs more than the trades there are.
LEMMA PricesKeep ==
  ASSUME NEW p \in Nat, \A t \in Trades : t.price <= p,
         VolumeSeen, PricedUpTo(feed, p), [EngineNext]_engineVars
  PROVE  PricedUpTo(feed, p)'
<1>1. ASSUME NEW t \in Trades, NEW ts \in StampsNow, OnTrade(t, ts)
      PROVE  PricedUpTo(feed, p)'
  <2> DEFINE s == Stamped(t, ts)
  <2>1. feed' = Append(feed, s) /\ s \in StampedTrade /\ s.price <= p
    BY <1>1, StampedTypes, TradeRing DEF VolumeSeen, StampsNow, Stamped
  <2> HIDE DEF s
  <2>2. /\ Len(feed) \in Nat /\ Len(feed') = Len(feed) + 1 /\ feed'[Len(feed) + 1] = s
        /\ \A i \in 1 .. Len(feed) : feed'[i] = feed[i]
    <3>1. feed \in Seq(StampedTrade)
      BY DEF VolumeSeen, RingInv, RingOK, Follows
    <3> QED
      BY <2>1, <3>1, AppendProperties, LenProperties
  <2>3. \A i \in 1 .. Len(feed) + 1 : i = Len(feed) + 1 \/ i \in 1 .. Len(feed)
    BY <2>2
  <2> QED
    BY <2>1, <2>2, <2>3 DEF PricedUpTo
<1>2. CASE TimePasses \/ OnQuote \/ HaltTrading \/ ResumeTrading \/ HaltWriteVisible \/ UNCHANGED engineVars
  BY <1>2 DEF TimePasses, Tick, OnQuote, HaltTrading, ResumeTrading, WriteHalted,
              HaltWriteVisible, engineVars, ringVars, PricedUpTo
<1> QED
  BY <1>1, <1>2 DEF EngineNext

\* The step of CrossesWithEdge.
AcceptsWithEdge ==
  answer'.status = "ACCEPTED" /\ feed' # feed /\ ~skewed' /\ ~everFull'
    => LET vwap == WindowVWAP(feed', now)
           price == Last(feed').price
       IN  IF answer'.side = "BUY"
           THEN price * BandScale <= vwap * (BandScale - bandBps)
           ELSE price >= (vwap * (BandScale + bandBps)) \div BandScale

\* A step accepts an order only with its edge.
LEMMA AcceptedHasEdge ==
  ASSUME bandBps <= BandScale, NEW p \in Nat, \A t \in Trades : t.price <= p,
         p * (BandScale + bandBps) < Word,
         VolumeSeen, PricedUpTo(feed, p), [EngineNext]_engineVars
  PROVE  AcceptsWithEdge
<1>1. ASSUME NEW t \in Trades, NEW ts \in StampsNow, OnTrade(t, ts),
             answer'.status = "ACCEPTED", ~skewed', ~everFull'
      PROVE  IF answer'.side = "BUY"
             THEN Last(feed').price * BandScale <= WindowVWAP(feed', now) * (BandScale - bandBps)
             ELSE Last(feed').price >= (WindowVWAP(feed', now) * (BandScale + bandBps)) \div BandScale
  <2> DEFINE s == Stamped(t, ts)
             v == VWAPOf(ring')
  <2>1. (Buy(t, ts) /\ answer'.side = "BUY") \/ (Sell(t, ts) /\ answer'.side = "SELL")
    BY <1>1 DEF OnTrade, Buy, Sell, RejectWarmUp, DropHalted, RejectNoEdge, RejectUnknown,
                Reject, Answer, NewOrder, NoOrder
  <2>2. ring' = RingRead(t, ts) /\ (ShouldBuy(t, v) \/ ~Buy(t, ts)) /\ (ShouldSell(t, v) \/ ~Sell(t, ts))
    BY <2>1 DEF Buy, Sell
  <2>3. /\ RingInv' /\ feed' = Append(feed, s) /\ now' = now /\ ts \in Stamp
        /\ v = WindowVWAP(feed', now)
    BY <1>1, <2>2, TradeRing DEF VolumeSeen, StampsNow
  <2>4. Last(feed').price = t.price /\ t.price \in Nat
    <3>1. feed \in Seq(StampedTrade) /\ s \in StampedTrade /\ s.price = t.price
      BY <2>3, StampedTypes DEF VolumeSeen, RingInv, RingOK, Follows, Stamped
    <3> HIDE DEF s
    <3>2. Last(feed') = s
      BY <2>3, <3>1, AppendProperties, LenProperties DEF Last
    <3> QED
      BY <3>1, <3>2 DEF StampedTrade
  <2>5. v \in Nat /\ v <= p
    <3>1. Follows(ring', feed')
      BY <2>3 DEF RingInv, RingOK
    <3>2. PricedUpTo(feed, p)'
      BY <1>1, PricesKeep DEF EngineNext
    <3>3. PricedUpTo(feed', p)
      BY <3>2
    <3> QED
      BY <3>1, <3>3, AverageUpTo
  <2> HIDE DEF v, s
  <2>6. CASE Buy(t, ts) /\ answer'.side = "BUY"
    <3>1. t.price <= UpperBound(v)
      BY <2>2, <2>6 DEF ShouldBuy
    <3>2. t.price * BandScale <= v * (BandScale - bandBps)
      BY <2>4, <2>5, <3>1, BuyHasEdge
    <3> QED
      BY <2>3, <2>4, <2>6, <3>2
  <2>7. CASE Sell(t, ts) /\ answer'.side = "SELL"
    <3>1. t.price >= LowerBound(v)
      BY <2>2, <2>7 DEF ShouldSell
    <3>2. t.price >= (v * (BandScale + bandBps)) \div BandScale
      BY <2>4, <2>5, <3>1, SellHasEdge
    <3> QED
      BY <2>3, <2>4, <2>7, <3>2
  <2> QED
    BY <2>1, <2>6, <2>7
<1>2. CASE TimePasses \/ OnQuote \/ HaltTrading \/ ResumeTrading \/ HaltWriteVisible \/ UNCHANGED engineVars
  <2>1. feed' = feed
    BY <1>2 DEF TimePasses, Tick, OnQuote, HaltTrading, ResumeTrading, WriteHalted,
                HaltWriteVisible, engineVars, ringVars
  <2> QED
    BY <2>1 DEF AcceptsWithEdge
<1>3. ASSUME NEW t \in Trades, NEW ts \in StampsNow, OnTrade(t, ts) PROVE AcceptsWithEdge
  BY <1>1, <1>3 DEF AcceptsWithEdge
<1> QED
  BY <1>2, <1>3 DEF EngineNext

\* An accepted order crosses with the required edge against the true VWAP of
\* the window, the trade itself included, while the ring's read is exact.  It
\* takes a band no wider than the whole price (a wider one wraps the factor of
\* the upper bound, ExecutionEngine.cpp:41) and prices p whose product with
\* the factor of the lower bound fits in 64 bits.
THEOREM AcceptedOrdersHaveEdge ==
  ASSUME bandBps <= BandScale, NEW p \in Nat, \A t \in Trades : t.price <= p,
         p * (BandScale + bandBps) < Word
  PROVE  EngineSpec => CrossesWithEdge
<1> DEFINE J == VolumeSeen /\ PricedUpTo(feed, p)
<1>1. EngineInit => J
  <2>1. ASSUME EngineInit PROVE PricedUpTo(feed, p)
    BY <2>1 DEF EngineInit, RingInit, PricedUpTo
  <2> QED
    BY <2>1, VolumeInit
<1>2. J /\ [EngineNext]_engineVars => J'
  BY VolumeKeeps, PricesKeep
<1>3. J /\ [EngineNext]_engineVars => [AcceptsWithEdge]_engineVars
  BY AcceptedHasEdge
<1> QED
  BY <1>1, <1>2, <1>3, PTL DEF EngineSpec, CrossesWithEdge, AcceptsWithEdge
=============================================================================
