----------------------------- MODULE VWAPService -----------------------------
(***************************************************************************)
(* VWAPService (src/slipstream/orders/VWAPService.{hpp,cpp}): a ring of    *)
(* BufferSize trades with running totals, from which the volume weighted   *)
(* average price of a trailing window is read.                             *)
(*                                                                         *)
(* The state of the C++ object is the record `ring'.  Each method is an    *)
(* operator from one value of that record to the next, so that a caller    *)
(* (TradeMessageHandler, then ExecutionEngine::shouldBuy) can apply        *)
(* several of them in one step, as the demultiplexer thread does.          *)
(*                                                                         *)
(* head = tail is ambiguous in a ring; the code tells a full ring from an  *)
(* empty one by totalQuantity.                                             *)
(*                                                                         *)
(* Of the three overflow policies the program instantiates only            *)
(* OVERWRITE_OLDEST (TradeMessageHandler.cpp:11).                          *)
(***************************************************************************)
EXTENDS Integers, Sequences, FiniteSets, FiniteSetsExt, SequencesExt

CONSTANTS
  BufferSize,    \* slots of the ring (1024 in the code)
  VwapWindowMs,  \* rollingWindowSizeMs
  Word,          \* uint64_t arithmetic is modulo Word (2^64 in the code)
  Trades,        \* the trades that may come: records with a quantity and a price
  Skews,         \* how far a trade's stamp may be from the clock: a set of integers
  MaxTime,       \* bound: the last value of the clock
  MaxTrades      \* bound: how many trades a behaviour handles

ASSUME VWAPAssumption ==
  /\ BufferSize \in Nat \ {0}
  /\ VwapWindowMs \in Nat
  /\ Word \in Nat \ {0}
  /\ \A t \in Trades : t.quantity \in Nat /\ t.price \in Nat
  /\ Skews \subseteq Int
  /\ MaxTime \in Nat
  /\ MaxTrades \in Nat
  /\ VwapWindowMs + MaxTime < Word   \* times in ms are far below 2^64

VARIABLES
  ring,      \* the object's fields
  now,       \* the clock, in ms
  feed,      \* history: the trades handled so far, in order
  everFull,  \* history: has the ring been full at some time
  skewed     \* history: has a trade come with an earlier stamp than its
             \* predecessor's, or with one ahead of the clock

ringVars == <<ring, now, feed, everFull, skewed>>

Slot == 0 .. BufferSize - 1
Stamp == 0 .. MaxTime

\* What the service uses of a Trade t that is stamped ts.
Stamped(t, ts) == [ts |-> ts, quantity |-> t.quantity, price |-> t.price]

\* The stamps a trade may carry at this moment.
StampsNow == {ts \in Stamp : ts - now \in Skews}

-----------------------------------------------------------------------------
(* The methods.                                                            *)

\* The sums over the positions S of f, a sequence or the array of slots.
QuantityOf(f, S) == MapThenSumSet(LAMBDA i : f[i].quantity, S)
PricedQuantityOf(f, S) == MapThenSumSet(LAMBDA i : f[i].quantity * f[i].price, S)

NextSlot(i) == (i + 1) % BufferSize

\* uint64_t subtraction: a stamp in the future wraps to a huge age.
Age(cur, ts) == IF cur >= ts THEN cur - ts ELSE cur - ts + Word

IsFull(r) == r.head = r.tail /\ r.totalQuantity > 0

AddTrade(r, t) ==
  [r EXCEPT !.trades = [@ EXCEPT ![r.head] = t],
            !.head = NextSlot(r.head),
            !.totalQuantity = @ + t.quantity,
            !.totalPricedQuantity = @ + t.quantity * t.price]

OldestSlots(r, k) == {(r.tail + i) % BufferSize : i \in 0 .. k - 1}

\* (Faulty: the tail moves before the slot is read.)
DropOldestTailFirst(r, k) ==
  LET S == {NextSlot(i) : i \in OldestSlots(r, k)}
  IN  [r EXCEPT !.totalQuantity = @ - QuantityOf(r.trades, S),
                !.totalPricedQuantity = @ - PricedQuantityOf(r.trades, S),
                !.tail = (@ + k) % BufferSize]

\* The statements removeOldTrades and removeOldestTrade share, for the k oldest
\* trades.
DropOldest(r, k) ==
  LET S == OldestSlots(r, k)
  IN  [r EXCEPT !.totalQuantity = @ - QuantityOf(r.trades, S),
                !.totalPricedQuantity = @ - PricedQuantityOf(r.trades, S),
                !.tail = (@ + k) % BufferSize]

RemoveOldestTrade(r) ==
  IF r.head = r.tail /\ r.totalQuantity = 0 THEN r ELSE DropOldest(r, 1)

\* (Faulty: the edge of the window is outside it.)
OldestExpiredAtEdge(r, cur) ==
  /\ r.head # r.tail
  /\ r.totalQuantity > 0
  /\ Age(cur, r.trades[r.tail].ts) >= VwapWindowMs

\* The loop condition of removeOldTrades, its early exit included.
OldestExpired(r, cur) ==
  /\ r.head # r.tail
  /\ r.totalQuantity > 0
  /\ Age(cur, r.trades[r.tail].ts) > VwapWindowMs

\* The loop: it drops trades up to the first that is to stay.
RemoveOldTrades(r, cur) ==
  LET expired == CHOOSE k \in 0 .. BufferSize :
                   /\ ~OldestExpired(DropOldest(r, k), cur)
                   /\ \A j \in 0 .. k - 1 : OldestExpired(DropOldest(r, j), cur)
  IN  DropOldest(r, expired)

\* (Faulty: a full ring is written without taking the oldest trade out.)
HandledTradeNoEviction(r, t) == AddTrade(RemoveOldTrades(r, t.ts), t)

\* (Faulty: the policy of another instantiation, REJECT_NEW.)
HandledTradeRejectNew(r, t) ==
  LET fresh == RemoveOldTrades(r, t.ts)
  IN  IF IsFull(fresh) THEN fresh ELSE AddTrade(fresh, t)

\* handleTrade<OverflowPolicy::OVERWRITE_OLDEST>: the trade's own stamp is the
\* current time of the expiry.
HandledTrade(r, t) ==
  LET fresh == RemoveOldTrades(r, t.ts)
  IN  AddTrade(IF IsFull(fresh) THEN RemoveOldestTrade(fresh) ELSE fresh, t)

\* getVWAP after its call of removeOldTrades.
VWAPOf(r) ==
  IF r.totalQuantity = 0 THEN 0 ELSE r.totalPricedQuantity \div r.totalQuantity

-----------------------------------------------------------------------------
(* The component on its own: any trades, with any stamps (the clients'     *)
(* clocks are not this machine's, and two connections may interleave       *)
(* theirs), and reads at any time.                                         *)

RingInit ==
  /\ ring = [trades |-> [i \in Slot |-> [ts |-> 0, quantity |-> 0, price |-> 0]],
             head |-> 0, tail |-> 0, totalQuantity |-> 0, totalPricedQuantity |-> 0]
  /\ now = 0
  /\ feed = <<>>
  /\ everFull = FALSE
  /\ skewed = FALSE

\* What a history records of the arrival of the stamped trade t.
Recorded(t) ==
  /\ Len(feed) < MaxTrades
  /\ feed' = Append(feed, t)
  /\ everFull' = (everFull \/ IsFull(HandledTrade(ring, t)))
  /\ skewed' = (skewed \/ t.ts > now \/ (feed # <<>> /\ t.ts < Last(feed).ts))

HandleTrade(t) ==
  /\ Recorded(t)
  /\ ring' = HandledTrade(ring, t)
  /\ UNCHANGED now

\* The object after getVWAP: a read removes what has expired.
GetVWAP ==
  /\ ring' = RemoveOldTrades(ring, now)
  /\ UNCHANGED <<now, feed, everFull, skewed>>

Tick ==
  /\ now < MaxTime
  /\ now' = now + 1
  /\ UNCHANGED <<ring, feed, everFull, skewed>>

RingNext ==
  \/ \E t \in Trades, ts \in StampsNow : HandleTrade(Stamped(t, ts))
  \/ GetVWAP
  \/ Tick

RingSpec == RingInit /\ [][RingNext]_ringVars

-----------------------------------------------------------------------------
(* What the ring holds, and what it ought to hold.                         *)

Occupied(r) == IF IsFull(r) THEN BufferSize ELSE (r.head - r.tail) % BufferSize

\* The k-th oldest live trade, k from 1.
Live(r, k) == r.trades[(r.tail + k - 1) % BufferSize]

\* The positions of the trades of f that a window ending at cur covers.
WindowOf(f, cur) == {i \in DOMAIN f : cur - f[i].ts <= VwapWindowMs}

\* The reference: the VWAP of the window, from the feed alone.
WindowVWAP(f, cur) ==
  LET W == WindowOf(f, cur)
  IN  IF QuantityOf(f, W) = 0 THEN 0
      ELSE PricedQuantityOf(f, W) \div QuantityOf(f, W)

-----------------------------------------------------------------------------
(* Properties.                                                             *)

\* Types.  That both totals stay in Nat says that their unsigned subtractions
\* (VWAPService.cpp:33-34 and 47-48) never wrap.
RingTypeOK ==
  /\ ring.head \in Slot
  /\ ring.tail \in Slot
  /\ DOMAIN ring.trades = Slot
  /\ ring.totalQuantity \in Nat
  /\ ring.totalPricedQuantity \in Nat
  /\ now \in Stamp
  /\ everFull \in BOOLEAN
  /\ skewed \in BOOLEAN

\* The running totals are the sums over the live slots, whatever mix of
\* expiry, overwriting and zero-quantity trades led there: head = tail with a
\* total of zero may be an empty ring or a ring of zero-quantity trades, and
\* the code does not tell them apart.
TotalsMatchRing ==
  LET live == [k \in 1 .. Occupied(ring) |-> Live(ring, k)]
  IN  /\ ring.totalQuantity = QuantityOf(live, DOMAIN live)
      /\ ring.totalPricedQuantity = PricedQuantityOf(live, DOMAIN live)

\* The live slots are the most recent trades, in the order they came: eviction
\* (removeOldTrades, removeOldestTrade) takes from the old end only and no
\* trade is lost in the middle or overtaken when the ring wraps.
RingIsSuffixOfFeed ==
  LET n == Occupied(ring)
  IN  /\ n <= Len(feed)
      /\ \A k \in 1 .. n : Live(ring, k) = feed[Len(feed) - n + k]

\* A read at any moment gives exactly the VWAP of the trailing window, as long
\* as the stamps are in order and the ring has never been full.  (Past that
\* point TrailingWindow shows what happens.)
ReadIsExact ==
  ~skewed /\ ~everFull
    => VWAPOf(RemoveOldTrades(ring, now)) = WindowVWAP(feed, now)

\* What main.cpp:37 says of the benchmark, for in-order stamps: a read gives
\* the VWAP of the trailing window whenever its trades fit in the ring.  The
\* code breaks it: in a full ring head = tail, so the loop of removeOldTrades
\* (line 27) ends before it has looked at a trade.
TrailingWindow ==
  ~skewed /\ Cardinality(WindowOf(feed, now)) <= BufferSize
    => VWAPOf(RemoveOldTrades(ring, now)) = WindowVWAP(feed, now)
=============================================================================
