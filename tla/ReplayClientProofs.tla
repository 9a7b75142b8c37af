-------------------------- MODULE ReplayClientProofs --------------------------
(***************************************************************************)
(* Proofs about ReplayClient, for all files, clocks and sizes: the codec   *)
(* gives a message back, the rows of a file arrive, each once, in order    *)
(* and not before their time, the book at the other end shows them, and    *)
(* heartbeats fill the waits.                                              *)
(***************************************************************************)
EXTENDS ReplayClient, NaturalsInduction, WellFoundedInduction, TLAPS

-----------------------------------------------------------------------------
(* The codec.                                                              *)

Quantity == 0 .. QuantityWord - 1
Aggressor == {"BUY", "SELL", "UNKNOWN"}

\* A quantity that fits its type is not changed by it.
LEMMA QuantityFits == ASSUME NEW q \in Quantity PROVE q % QuantityWord = q
  BY CodecAssumption DEF CodecAssumption, Quantity

\* A quote is read as it was written (GCMDSerialiser.cpp:14-20, 36-45,
\* GCMDDeserialiser.cpp:10-13, GCMDTypes.cpp:63-72).
THEOREM QuoteRoundTrip ==
  ASSUME NEW s, NEW ts, NEW bq \in Quantity, NEW bp, NEW aq \in Quantity, NEW ap
  PROVE  LET q == Quote(s, ts, bq, bp, aq, ap) IN DeserialiseMessage(Serialise(q)) = q
<1> DEFINE q == Quote(s, ts, bq, bp, aq, ap)
<1>1. Serialise(q) = [msgType |-> 1, body |-> QuoteBody(q)]
  BY DEF Serialise, MessageTypeToNum, Quote
<1>2. DeserialiseMessage(Serialise(q)) =
        Quote(s, ts, bq % QuantityWord, bp, aq % QuantityWord, ap)
  BY <1>1 DEF DeserialiseMessage, MessageTypeFromNum, QuoteBody, Quote
<1> QED
  BY <1>2, QuantityFits

\* So is a trade, whoever was the aggressor.
THEOREM TradeRoundTrip ==
  ASSUME NEW s, NEW ts, NEW n \in Quantity, NEW p, NEW a \in Aggressor, NEW id
  PROVE  LET t == Trade(s, ts, n, p, a, id) IN DeserialiseMessage(Serialise(t)) = t
<1> DEFINE t == Trade(s, ts, n, p, a, id)
<1>1. Serialise(t) = [msgType |-> 2, body |-> TradeBody(t)]
  BY DEF Serialise, MessageTypeToNum, Trade
<1>2. AggressorFromChar[AggressorToChar[a]] = a
  BY DEF AggressorFromChar, AggressorToChar, Aggressor
<1>3. DeserialiseMessage(Serialise(t)) =
        Trade(s, ts, n % QuantityWord, p, AggressorFromChar[AggressorToChar[a]], id)
  BY <1>1 DEF DeserialiseMessage, MessageTypeFromNum, TradeBody, Trade
<1> QED
  BY <1>2, <1>3, QuantityFits

\* A heartbeat keeps its stamp, which is what the receiver's timeout is about.
THEOREM HeartbeatRoundTrip ==
  ASSUME NEW ts
  PROVE  DeserialiseMessage(Serialise(Heartbeat(ts))) = Heartbeat(ts)
<1>1. Serialise(Heartbeat(ts)) = [msgType |-> 3, body |-> HeartbeatBody(Heartbeat(ts))]
  BY DEF Serialise, MessageTypeToNum, Heartbeat
<1> QED
  BY <1>1 DEF DeserialiseMessage, MessageTypeFromNum, HeartbeatBody, Heartbeat

\* A session control message is not: HALT is read as CLOSE and CLOSE as HALT,
\* for the two conversions of GCMDTypes.cpp:45-61 number them differently.
THEOREM SessionControlSwapped ==
  ASSUME NEW ts
  PROVE  /\ DeserialiseMessage(Serialise(SessionControl(ts, "OPEN"))) = SessionControl(ts, "OPEN")
         /\ DeserialiseMessage(Serialise(SessionControl(ts, "HALT"))) = SessionControl(ts, "CLOSE")
         /\ DeserialiseMessage(Serialise(SessionControl(ts, "CLOSE"))) = SessionControl(ts, "HALT")
<1> DEFINE c(s) == SessionControl(ts, s)
<1>1. ASSUME NEW s \in {"OPEN", "HALT", "CLOSE"}
      PROVE  DeserialiseMessage(Serialise(c(s))) =
               c(SessionControlStateFromNum[SessionControlStateToNum[s]])
  <2>1. Serialise(c(s)) = [msgType |-> 4, body |-> SessionControlBody(c(s))]
    BY DEF Serialise, MessageTypeToNum, SessionControl
  <2> QED
    BY <2>1 DEF DeserialiseMessage, MessageTypeFromNum, SessionControlBody, SessionControl
<1>2. /\ SessionControlStateFromNum[SessionControlStateToNum["OPEN"]] = "OPEN"
      /\ SessionControlStateFromNum[SessionControlStateToNum["HALT"]] = "CLOSE"
      /\ SessionControlStateFromNum[SessionControlStateToNum["CLOSE"]] = "HALT"
  BY DEF SessionControlStateFromNum, SessionControlStateToNum
<1> QED
  BY <1>1, <1>2

-----------------------------------------------------------------------------
(* Picked.                                                                 *)

\* Every set of numbers has a least element.
LEMMA Least ==
  ASSUME NEW S, S \subseteq Nat, NEW x \in S
  PROVE  \E n \in S : \A m \in S : n <= m
<1> DEFINE R == OpToRel(<, Nat)
<1>1. IsWellFoundedOn(R, Nat)
  BY NatLessThanWellFounded
<1>2. PICK n \in S : \A m \in S : <<m, n>> \notin R
  BY <1>1, WFMin
<1>3. \A m \in S : ~(m < n)
  BY <1>2 DEF OpToRel
<1> QED
  BY <1>3

\* The recursion of PickedUpto, as far as n.
Picks(f, s, I, n) ==
  f = [k \in 0 .. n |->
         IF k = 0 THEN <<>> ELSE IF k \in I THEN Append(f[k - 1], s[k]) ELSE f[k - 1]]

\* By the least number for which there is none.
LEMMA PicksExist ==
  ASSUME NEW s, NEW I, NEW n \in Nat
  PROVE  \E f : Picks(f, s, I, n)
<1> DEFINE Has(m) == \E f : Picks(f, s, I, m)
           Lacks == {m \in Nat : ~Has(m)}
<1>1. SUFFICES ASSUME Lacks # {} PROVE FALSE
  OBVIOUS
<1>2. PICK m \in Lacks : \A k \in Lacks : m <= k
  BY <1>1, Least
<1>3. Has(0)
  <2> DEFINE f == [k \in 0 .. 0 |-> <<>>]
  <2>1. Picks(f, s, I, 0)
    BY DEF Picks
  <2> QED
    BY <2>1
<1>4. m \in Nat \ {0}
  <2> HIDE DEF Has
  <2> QED
    BY <1>2, <1>3
<1>5. Has(m - 1)
  <2>1. m - 1 \in Nat /\ ~(m <= m - 1)
    BY <1>4
  <2>2. m - 1 \notin Lacks
    BY <2>1, <1>2
  <2> HIDE DEF Has
  <2> QED
    BY <2>1, <2>2
<1>6. PICK f : Picks(f, s, I, m - 1)
  BY <1>5
<1> DEFINE g == [k \in 0 .. m |-> IF k < m THEN f[k]
                                  ELSE IF m \in I THEN Append(f[m - 1], s[m]) ELSE f[m - 1]]
<1>7. ASSUME NEW k \in 0 .. m
      PROVE  g[k] = IF k = 0 THEN <<>>
                    ELSE IF k \in I THEN Append(g[k - 1], s[k]) ELSE g[k - 1]
  <2>1. CASE k < m
    <3>1. k \in 0 .. m - 1 /\ g[k] = f[k] /\ (k # 0 => g[k - 1] = f[k - 1])
      BY <2>1, <1>4
    <3>2. f[k] = IF k = 0 THEN <<>>
                 ELSE IF k \in I THEN Append(f[k - 1], s[k]) ELSE f[k - 1]
      BY <3>1, <1>6 DEF Picks
    <3> QED
      BY <3>1, <3>2
  <2>2. CASE k = m
    BY <2>2, <1>4
  <2> QED
    BY <2>1, <2>2, <1>4
<1>8. Picks(g, s, I, m)
  BY <1>7 DEF Picks
<1>9. Has(m)
  BY <1>8
<1> QED
  BY <1>9, <1>2

\* PickedUpto takes one element after another.
LEMMA PickedIs ==
  ASSUME NEW s, NEW I, Len(s) \in Nat
  PROVE  \E f : Picks(f, s, I, Len(s)) /\ \A k : PickedUpto(s, I, k) = f[k]
<1> DEFINE upto == CHOOSE f : f = [k \in 0 .. Len(s) |->
                     IF k = 0 THEN <<>>
                     ELSE IF k \in I THEN Append(f[k - 1], s[k]) ELSE f[k - 1]]
<1>1. PICK g : Picks(g, s, I, Len(s))
  BY PicksExist
<1>2. g = [k \in 0 .. Len(s) |->
             IF k = 0 THEN <<>> ELSE IF k \in I THEN Append(g[k - 1], s[k]) ELSE g[k - 1]]
  BY <1>1 DEF Picks
<1>3. upto = [k \in 0 .. Len(s) |->
                IF k = 0 THEN <<>>
                ELSE IF k \in I THEN Append(upto[k - 1], s[k]) ELSE upto[k - 1]]
  BY <1>2
<1>4. \A k : PickedUpto(s, I, k) = upto[k]
  BY DEF PickedUpto
<1> HIDE DEF upto
<1>5. Picks(upto, s, I, Len(s))
  BY <1>3, Zenon DEF Picks
<1> QED
  BY <1>4, <1>5

\* Of no elements, none is picked.
LEMMA PickedNone ==
  ASSUME NEW s, NEW I, Len(s) \in Nat
  PROVE  PickedUpto(s, I, 0) = <<>>
<1>1. PICK f : Picks(f, s, I, Len(s)) /\ \A k : PickedUpto(s, I, k) = f[k]
  BY PickedIs
<1>2. f[0] = <<>>
  BY <1>1 DEF Picks
<1> QED
  BY <1>1, <1>2

\* One element more, by the set of indices.
LEMMA PickedStep ==
  ASSUME NEW s, NEW I, Len(s) \in Nat, NEW k \in 1 .. Len(s)
  PROVE  /\ k \in I => PickedUpto(s, I, k) = Append(PickedUpto(s, I, k - 1), s[k])
         /\ k \notin I => PickedUpto(s, I, k) = PickedUpto(s, I, k - 1)
<1>1. PICK f : Picks(f, s, I, Len(s)) /\ \A l : PickedUpto(s, I, l) = f[l]
  BY PickedIs
<1>2. k \in 0 .. Len(s) /\ k # 0
  OBVIOUS
<1>3. f[k] = IF k \in I THEN Append(f[k - 1], s[k]) ELSE f[k - 1]
  BY <1>1, <1>2 DEF Picks
<1> QED
  BY <1>1, <1>3

\* w is a sequence of whatever elements.
IsSeq(w) == Len(w) \in Nat /\ w = [i \in 1 .. Len(w) |-> w[i]]

\* Append, whatever the elements are.
LEMMA AppendAny ==
  ASSUME NEW w, IsSeq(w), NEW x
  PROVE  /\ IsSeq(Append(w, x)) /\ Len(Append(w, x)) = Len(w) + 1
         /\ \A i \in 1 .. Len(w) : Append(w, x)[i] = w[i]
         /\ Append(w, x)[Len(w) + 1] = x
<1> DEFINE T == {w[i] : i \in 1 .. Len(w)} \cup {x}
<1>1. w \in [1 .. Len(w) -> T] /\ Len(w) \in Nat
  BY DEF IsSeq
<1>2. w \in Seq(T) /\ x \in T
  <2> HIDE DEF T
  <2>1. w \in Seq(T)
    BY <1>1
  <2> QED
    BY <2>1 DEF T
<1> HIDE DEF T
<1>3. /\ Append(w, x) \in Seq(T) /\ Len(Append(w, x)) = Len(w) + 1
      /\ \A i \in 1 .. Len(w) : Append(w, x)[i] = w[i]
      /\ Append(w, x)[Len(w) + 1] = x
  BY <1>2
<1>4. ASSUME NEW z \in Seq(T) PROVE IsSeq(z)
  BY DEF IsSeq
<1> QED
  BY <1>3, <1>4

\* The empty sequence.
LEMMA EmptyIsSeq == IsSeq(<<>>) /\ Len(<<>>) = 0
BY DEF IsSeq

\* What is picked is a sequence.
LEMMA PickedIsSeq ==
  ASSUME NEW s, NEW I, Len(s) \in Nat
  PROVE  \A k \in 0 .. Len(s) : IsSeq(PickedUpto(s, I, k))
<1> DEFINE Bad == {k \in 0 .. Len(s) : ~IsSeq(PickedUpto(s, I, k))}
<1>1. SUFFICES ASSUME Bad # {} PROVE FALSE
  OBVIOUS
<1>2. PICK k \in Bad : \A l \in Bad : k <= l
  <2>1. Bad \subseteq Nat
    OBVIOUS
  <2> HIDE DEF Bad
  <2> QED
    BY <2>1, <1>1, Least
<1>3. k \in 1 .. Len(s)
  BY <1>2, PickedNone, EmptyIsSeq
<1>4. IsSeq(PickedUpto(s, I, k - 1))
  <2>1. k - 1 \in 0 .. Len(s) /\ ~(k <= k - 1)
    BY <1>3
  <2> QED
    BY <2>1, <1>2
<1>5. IsSeq(PickedUpto(s, I, k))
  <2>1. IsSeq(Append(PickedUpto(s, I, k - 1), s[k]))
    BY <1>4, AppendAny
  <2> QED
    BY <2>1, <1>3, <1>4, PickedStep
<1> QED
  BY <1>2, <1>5

\* What was picked stays at its place.
LEMMA PickedRises ==
  ASSUME NEW s, NEW I, Len(s) \in Nat, NEW k \in 0 .. Len(s), NEW l \in k .. Len(s)
  PROVE  /\ Len(PickedUpto(s, I, k)) <= Len(PickedUpto(s, I, l))
         /\ \A i \in 1 .. Len(PickedUpto(s, I, k)) :
              PickedUpto(s, I, l)[i] = PickedUpto(s, I, k)[i]
<1> DEFINE P(n) == PickedUpto(s, I, n)
           Good(n) == /\ Len(P(k)) <= Len(P(n))
                      /\ \A i \in 1 .. Len(P(k)) : P(n)[i] = P(k)[i]
           Bad == {n \in k .. Len(s) : ~Good(n)}
<1>1. SUFFICES ASSUME Bad # {} PROVE FALSE
  OBVIOUS
<1>2. PICK n \in Bad : \A m \in Bad : n <= m
  <2>1. Bad \subseteq Nat
    OBVIOUS
  <2> HIDE DEF Bad
  <2> QED
    BY <2>1, <1>1, Least
<1>3. \A m \in 0 .. Len(s) : IsSeq(P(m)) /\ Len(P(m)) \in Nat
  BY PickedIsSeq DEF IsSeq
<1>4. n # k
  BY <1>2, <1>3
<1>5. n \in 1 .. Len(s) /\ n - 1 \in k .. Len(s) /\ n - 1 \in 0 .. Len(s)
  BY <1>2, <1>4
<1>6. Good(n - 1)
  <2>1. ~(n <= n - 1)
    BY <1>5
  <2> HIDE DEF Good
  <2> QED
    BY <2>1, <1>2, <1>5
<1>7. P(n) = IF n \in I THEN Append(P(n - 1), s[n]) ELSE P(n - 1)
  BY <1>5, PickedStep
<1>8. IsSeq(P(n - 1)) /\ Len(P(n - 1)) \in Nat /\ Len(P(k)) \in Nat
  BY <1>3, <1>5
<1> HIDE DEF P
<1>9. CASE n \in I
  <2>1. /\ Len(P(n)) = Len(P(n - 1)) + 1
        /\ \A i \in 1 .. Len(P(n - 1)) : P(n)[i] = P(n - 1)[i]
    BY <1>7, <1>8, <1>9, AppendAny
  <2>2. \A i \in 1 .. Len(P(k)) : i \in 1 .. Len(P(n - 1))
    BY <1>6, <1>8
  <2>3. Good(n)
    BY <2>1, <2>2, <1>6, <1>8
  <2> QED
    BY <2>3, <1>2
<1>10. CASE n \notin I
  <2>1. P(n) = P(n - 1)
    BY <1>7, <1>10
  <2>2. Good(n)
    BY <2>1, <1>6
  <2> QED
    BY <2>2, <1>2
<1> QED
  BY <1>9, <1>10

\* Nothing is picked where nothing is of I.
LEMMA PickedNothing ==
  ASSUME NEW s, NEW I, Len(s) \in Nat, NEW k \in 0 .. Len(s), NEW l \in k .. Len(s),
         \A i \in k + 1 .. l : i \notin I
  PROVE  PickedUpto(s, I, l) = PickedUpto(s, I, k)
<1> DEFINE Bad == {n \in k .. l : PickedUpto(s, I, n) # PickedUpto(s, I, k)}
<1>1. SUFFICES ASSUME Bad # {} PROVE FALSE
  OBVIOUS
<1>2. PICK n \in Bad : \A m \in Bad : n <= m
  <2>1. Bad \subseteq Nat
    OBVIOUS
  <2> HIDE DEF Bad
  <2> QED
    BY <2>1, <1>1, Least
<1>3. /\ n \in 1 .. Len(s) /\ n - 1 \in k .. l /\ n \in k + 1 .. l /\ ~(n <= n - 1)
  BY <1>2
<1>4. PickedUpto(s, I, n - 1) = PickedUpto(s, I, k)
  BY <1>2, <1>3
<1>5. PickedUpto(s, I, n) = PickedUpto(s, I, n - 1)
  BY <1>3, PickedStep
<1> QED
  BY <1>2, <1>4, <1>5

\* What is picked depends only on what it is picked from.
LEMMA PickedAlike ==
  ASSUME NEW s, NEW I, Len(s) \in Nat, NEW t, NEW J, Len(t) \in Nat, Len(s) <= Len(t),
         \A k \in 1 .. Len(s) : s[k] = t[k] /\ (k \in I <=> k \in J)
  PROVE  \A k \in 0 .. Len(s) : PickedUpto(s, I, k) = PickedUpto(t, J, k)
<1> DEFINE Bad == {k \in 0 .. Len(s) : PickedUpto(s, I, k) # PickedUpto(t, J, k)}
<1>1. SUFFICES ASSUME Bad # {} PROVE FALSE
  OBVIOUS
<1>2. PICK n \in Bad : \A m \in Bad : n <= m
  <2>1. Bad \subseteq Nat
    OBVIOUS
  <2> HIDE DEF Bad
  <2> QED
    BY <2>1, <1>1, Least
<1>3. n # 0
  <2>1. PickedUpto(s, I, 0) = <<>> /\ PickedUpto(t, J, 0) = <<>>
    BY PickedNone
  <2> QED
    BY <2>1, <1>2
<1>4. n \in 1 .. Len(s) /\ n \in 1 .. Len(t) /\ n - 1 \in 0 .. Len(s) /\ ~(n <= n - 1)
  BY <1>2, <1>3
<1>5. PickedUpto(s, I, n - 1) = PickedUpto(t, J, n - 1)
  BY <1>2, <1>4
<1>6. /\ PickedUpto(s, I, n) = IF n \in I THEN Append(PickedUpto(s, I, n - 1), s[n])
                               ELSE PickedUpto(s, I, n - 1)
      /\ PickedUpto(t, J, n) = IF n \in J THEN Append(PickedUpto(t, J, n - 1), t[n])
                               ELSE PickedUpto(t, J, n - 1)
  BY <1>4, PickedStep
<1> QED
  BY <1>2, <1>4, <1>5, <1>6

\* One element more.
LEMMA PickedOneMore ==
  ASSUME NEW s, IsSeq(s), NEW I, NEW x, NEW J,
         \A k \in 1 .. Len(s) : k \in I <=> k \in J
  PROVE  Picked(Append(s, x), J) = IF Len(s) + 1 \in J THEN Append(Picked(s, I), x)
                                   ELSE Picked(s, I)
<1> DEFINE t == Append(s, x)
<1>1. /\ Len(s) \in Nat /\ Len(t) = Len(s) + 1 /\ t[Len(s) + 1] = x
      /\ \A k \in 1 .. Len(s) : t[k] = s[k]
  BY AppendAny DEF IsSeq
<1> HIDE DEF t
<1>2. /\ Len(t) \in Nat /\ Len(s) <= Len(t) /\ Len(s) \in 0 .. Len(s)
      /\ Len(t) \in 1 .. Len(t) /\ Len(t) - 1 = Len(s)
  BY <1>1
<1>3. PickedUpto(s, I, Len(s)) = PickedUpto(t, J, Len(s))
  BY <1>1, <1>2, PickedAlike
<1>4. PickedUpto(t, J, Len(t)) = IF Len(t) \in J THEN Append(PickedUpto(t, J, Len(t) - 1), t[Len(t)])
                                 ELSE PickedUpto(t, J, Len(t) - 1)
  BY <1>2, PickedStep
<1> QED
  BY <1>1, <1>2, <1>3, <1>4 DEF Picked, t

-----------------------------------------------------------------------------
(* The file, and what a row becomes.                                       *)

\* Min of a set of numbers.
LEMMA LeastOf ==
  ASSUME NEW S, S \subseteq Nat, NEW x \in S
  PROVE  Min(S) \in S /\ \A y \in S : Min(S) <= y
<1>1. \E n \in S : \A y \in S : n <= y
  BY Least
<1> QED
  BY <1>1 DEF Min

\* A file is a sequence, its header one of its lines or the place before them.
LEMMA FileTypes ==
  ASSUME NEW f \in Files
  PROVE  /\ Len(f) \in Nat /\ DOMAIN f = 1 .. Len(f)
         /\ Header(f) \in 0 .. Len(f)
<1>1. f \in Seq(Range(f))
  BY ClientAssumption
<1>2. Len(f) \in Nat /\ DOMAIN f = 1 .. Len(f)
  BY <1>1
<1> DEFINE S == {i \in DOMAIN f : f[i].type \notin {"empty", "comment"}} \cup {Len(f)}
<1>3. S \subseteq 0 .. Len(f) /\ S \subseteq Nat /\ Len(f) \in S
  BY <1>2
<1>4. Min(S) \in S
  <2> HIDE DEF S
  <2> QED
    BY <1>3, LeastOf
<1>5. Header(f) = Min(S)
  BY DEF Header
<1> HIDE DEF S
<1> QED
  BY <1>2, <1>3, <1>4, <1>5

\* The rows of type k among the first n lines of f.
RowsUpto(f, k, n) == PickedUpto(f, RowLines(f, k), n)

\* All the rows, and none up to the header.
LEMMA RowsAre ==
  ASSUME NEW f \in Files, NEW k
  PROVE  /\ RowsUpto(f, k, Len(f)) = Picked(f, RowLines(f, k))
         /\ RowsUpto(f, k, Header(f)) = <<>> /\ RowsUpto(f, k, 0) = <<>>
<1>1. Len(f) \in Nat /\ 0 \in 0 .. Len(f) /\ Header(f) \in 0 .. Len(f)
  BY FileTypes
<1>2. RowsUpto(f, k, 0) = <<>>
  BY <1>1, PickedNone DEF RowsUpto
<1>3. \A i \in 0 + 1 .. Header(f) : i \notin RowLines(f, k)
  BY <1>1 DEF RowLines
<1>4. RowsUpto(f, k, Header(f)) = RowsUpto(f, k, 0)
  BY <1>1, <1>3, PickedNothing DEF RowsUpto
<1> QED
  BY <1>2, <1>4 DEF Picked, RowsUpto

\* The next row of this client is the next that Rows has.
LEMMA NextRow ==
  ASSUME file \in Files, read \in Header(file) .. Len(file), RowsAhead # {}
  PROVE  /\ Min(RowsAhead) \in RowLines(file, kind)
         /\ Min(RowsAhead) \in read + 1 .. Len(file)
         /\ RowsUpto(file, kind, Min(RowsAhead) - 1) = RowsUpto(file, kind, read)
<1> DEFINE n == Min(RowsAhead)
<1>1. /\ Len(file) \in Nat /\ Header(file) \in Nat /\ read \in Nat /\ read \in 0 .. Len(file)
      /\ Header(file) <= read
  BY FileTypes
<1>2. RowsAhead \subseteq Nat /\ RowsAhead \subseteq read + 1 .. Len(file)
  BY <1>1 DEF RowsAhead
<1>3. n \in RowsAhead /\ \A i \in RowsAhead : n <= i
  BY <1>2, LeastOf
<1> HIDE DEF n
<1>4. n \in read + 1 .. Len(file) /\ file[n].type = kind
  BY <1>3 DEF RowsAhead
<1>5. n \in RowLines(file, kind)
  BY <1>1, <1>4 DEF RowLines
<1>6. ASSUME NEW i \in read + 1 .. n - 1 PROVE i \notin RowLines(file, kind)
  <2>1. i \in read + 1 .. Len(file) /\ ~(n <= i)
    BY <1>1, <1>4
  <2>2. i \notin RowsAhead
    BY <2>1, <1>3
  <2> QED
    BY <2>1, <2>2 DEF RowsAhead, RowLines
<1>7. n - 1 \in read .. Len(file)
  BY <1>1, <1>4
<1>8. RowsUpto(file, kind, n - 1) = RowsUpto(file, kind, read)
  BY <1>1, <1>6, <1>7, PickedNothing DEF RowsUpto
<1> QED
  BY <1>4, <1>5, <1>8 DEF n

\* Without one, there is none to come.
LEMMA NoNextRow ==
  ASSUME file \in Files, read \in Header(file) .. Len(file), RowsAhead = {}
  PROVE  RowsUpto(file, kind, read) = RowsUpto(file, kind, Len(file))
<1>1. /\ Len(file) \in Nat /\ Header(file) \in Nat /\ read \in 0 .. Len(file)
      /\ Header(file) <= read /\ Len(file) \in read .. Len(file)
  BY FileTypes
<1>2. \A i \in read + 1 .. Len(file) : i \notin RowLines(file, kind)
  BY DEF RowsAhead, RowLines
<1> QED
  BY <1>1, <1>2, PickedNothing DEF RowsUpto

\* The row of a line is the last of those up to it.
LEMMA RowOfLine ==
  ASSUME NEW f \in Files, NEW k, NEW n \in RowLines(f, k)
  PROVE  /\ n \in 1 .. Len(f) /\ n - 1 \in 0 .. Len(f) /\ n \in 0 .. Len(f)
         /\ n \in Header(f) .. Len(f)
         /\ Len(RowsUpto(f, k, n - 1)) \in Nat
         /\ Len(RowsUpto(f, k, n)) = Len(RowsUpto(f, k, n - 1)) + 1
         /\ RowsUpto(f, k, n)[Len(RowsUpto(f, k, n - 1)) + 1] = f[n]
         /\ \A i \in 1 .. Len(RowsUpto(f, k, n - 1)) :
              RowsUpto(f, k, n)[i] = RowsUpto(f, k, n - 1)[i]
<1>1. /\ n \in 1 .. Len(f) /\ n - 1 \in 0 .. Len(f) /\ n \in 0 .. Len(f) /\ Len(f) \in Nat
      /\ n \in Header(f) .. Len(f)
  BY FileTypes DEF RowLines
<1>2. RowsUpto(f, k, n) = Append(RowsUpto(f, k, n - 1), f[n])
  BY <1>1, PickedStep DEF RowsUpto
<1>3. IsSeq(RowsUpto(f, k, n - 1))
  BY <1>1, PickedIsSeq DEF RowsUpto
<1>4. Len(RowsUpto(f, k, n - 1)) \in Nat
  BY <1>3 DEF IsSeq
<1> QED
  BY <1>1, <1>2, <1>3, <1>4, AppendAny

\* The rows up to a line begin all the rows.
LEMMA RowsRise ==
  ASSUME NEW f \in Files, NEW k, NEW n \in 0 .. Len(f)
  PROVE  LET all == Picked(f, RowLines(f, k))
         IN  /\ IsSeq(all) /\ Len(RowsUpto(f, k, n)) <= Len(all)
             /\ \A i \in 1 .. Len(RowsUpto(f, k, n)) : all[i] = RowsUpto(f, k, n)[i]
<1>1. Len(f) \in Nat /\ Len(f) \in n .. Len(f) /\ Len(f) \in 0 .. Len(f)
  BY FileTypes
<1>2. IsSeq(Picked(f, RowLines(f, k)))
  BY <1>1, PickedIsSeq DEF Picked
<1>3. /\ Len(RowsUpto(f, k, n)) <= Len(RowsUpto(f, k, Len(f)))
      /\ \A i \in 1 .. Len(RowsUpto(f, k, n)) :
           RowsUpto(f, k, Len(f))[i] = RowsUpto(f, k, n)[i]
  BY <1>1, PickedRises DEF RowsUpto
<1> QED
  BY <1>2, <1>3, RowsAre

\* A quantity fits its type once it was put into it.
LEMMA QuantityOnTheWire ==
  ASSUME NEW q \in Nat
  PROVE  q % QuantityWord \in Quantity /\ (q % QuantityWord) % QuantityWord = q % QuantityWord
<1>1. q % QuantityWord \in Quantity
  BY CodecAssumption DEF Quantity
<1> QED
  BY <1>1, QuantityFits

\* parsePrice keeps four decimals.
LEMMA PriceOnTheWire ==
  ASSUME NEW p \in Nat
  PROVE  FourDecimals(ParsePrice(p), p)
BY DEF FourDecimals, ParsePrice

\* The other end decodes the row, with the price to four decimals and the
\* quantity to 32 bits.
LEMMA RowSaid ==
  ASSUME file \in Files, kind \in {"Q", "T"}, read \in RowLines(file, kind)
  PROVE  /\ Says(DeserialiseMessage(Serialise(MessageOfRow)), file[read])
         /\ DeserialiseMessage(Serialise(MessageOfRow)).type # "HEARTBEAT"
<1> DEFINE row == file[read]
<1>1. read \in DOMAIN file /\ row.type = kind
  BY FileTypes DEF RowLines
<1>2. NumbersOf(row) \subseteq Nat
  BY <1>1, ClientAssumption
<1>3. CASE kind = "Q"
  <2>1. /\ row.bidQuantity \in Nat /\ row.bidPrice \in Nat
        /\ row.askQuantity \in Nat /\ row.askPrice \in Nat
    BY <1>1, <1>2, <1>3 DEF NumbersOf
  <2> DEFINE bq == row.bidQuantity % QuantityWord
             aq == row.askQuantity % QuantityWord
             bp == ParsePrice(row.bidPrice)
             ap == ParsePrice(row.askPrice)
  <2>2. /\ bq \in Quantity /\ bq % QuantityWord = bq
        /\ aq \in Quantity /\ aq % QuantityWord = aq
    BY <2>1, QuantityOnTheWire
  <2>3. MessageOfRow = Quote(row.symbol, now, bq, bp, aq, ap)
    BY <2>2, <1>3 DEF MessageOfRow, Quote
  <2>4. FourDecimals(bp, row.bidPrice) /\ FourDecimals(ap, row.askPrice)
    BY <2>1, PriceOnTheWire
  <2>5. bq = row.bidQuantity % QuantityWord /\ aq = row.askQuantity % QuantityWord
    OBVIOUS
  <2> HIDE DEF bq, aq, bp, ap
  <2>6. DeserialiseMessage(Serialise(MessageOfRow)) = Quote(row.symbol, now, bq, bp, aq, ap)
    BY <2>2, <2>3, QuoteRoundTrip
  <2> QED
    BY <2>2, <2>4, <2>5, <2>6, <1>1, <1>3 DEF Says, Quote
<1>4. CASE kind = "T"
  <2>1. row.quantity \in Nat /\ row.price \in Nat
    BY <1>1, <1>2, <1>4 DEF NumbersOf
  <2> DEFINE n == row.quantity % QuantityWord
             p == ParsePrice(row.price)
  <2>2. n \in Quantity /\ n % QuantityWord = n
    BY <2>1, QuantityOnTheWire
  <2>3. MessageOfRow = Trade(row.symbol, now, n, p, "UNKNOWN", 0)
    BY <2>2, <1>4 DEF MessageOfRow, Trade
  <2>4. FourDecimals(p, row.price)
    BY <2>1, PriceOnTheWire
  <2>5. n = row.quantity % QuantityWord /\ "UNKNOWN" \in Aggressor
    BY DEF Aggressor
  <2> HIDE DEF n, p
  <2>6. DeserialiseMessage(Serialise(MessageOfRow))
        = Trade(row.symbol, now, n, p, "UNKNOWN", 0)
    BY <2>2, <2>3, <2>5, TradeRoundTrip
  <2> QED
    BY <2>2, <2>4, <2>5, <2>6, <1>1, <1>4 DEF Says, Trade
<1> QED
  BY <1>3, <1>4

-----------------------------------------------------------------------------
(* What has been sent.                                                     *)

\* Replayed, of the wire w and the times t.
ReplayedOf(w, t) ==
  Picked([i \in DOMAIN w |-> [message |-> DeserialiseMessage(w[i]), at |-> t[i]]],
         {i \in DOMAIN w : DeserialiseMessage(w[i]).type # "HEARTBEAT"})

\* Replayed is ReplayedOf the wire.
LEMMA ReplayedIs == Replayed = ReplayedOf(wire, sentAt)
BY DEF Replayed, ReplayedOf, Received, DataFrames

\* It is a sequence.
LEMMA ReplayedIsSeq ==
  ASSUME NEW w, NEW t, IsSeq(w)
  PROVE  IsSeq(ReplayedOf(w, t))
<1> DEFINE s == [i \in DOMAIN w |-> [message |-> DeserialiseMessage(w[i]), at |-> t[i]]]
<1>1. Len(w) \in Nat /\ DOMAIN w = 1 .. Len(w)
  BY DEF IsSeq
<1>2. Len(s) = Len(w)
  BY <1>1
<1>3. Len(s) \in Nat /\ Len(s) \in 0 .. Len(s)
  BY <1>1, <1>2
<1> HIDE DEF s
<1>4. \A I : IsSeq(Picked(s, I))
  BY <1>3, PickedIsSeq DEF Picked
<1> QED
  BY <1>4 DEF ReplayedOf, s

\* One more frame on the wire.
LEMMA OneMoreOnTheWire ==
  ASSUME NEW w, NEW t, IsSeq(w), IsSeq(t), Len(w) = Len(t), NEW frame, NEW time
  PROVE  LET message == DeserialiseMessage(frame)
         IN  ReplayedOf(Append(w, frame), Append(t, time)) =
               IF message.type = "HEARTBEAT" THEN ReplayedOf(w, t)
               ELSE Append(ReplayedOf(w, t), [message |-> message, at |-> time])
<1> DEFINE message == DeserialiseMessage(frame)
           w1 == Append(w, frame)
           t1 == Append(t, time)
           item(x, y) == [message |-> DeserialiseMessage(x), at |-> y]
           s == [i \in DOMAIN w |-> item(w[i], t[i])]
           s1 == [i \in DOMAIN w1 |-> item(w1[i], t1[i])]
           I == {i \in DOMAIN w : DeserialiseMessage(w[i]).type # "HEARTBEAT"}
           J == {i \in DOMAIN w1 : DeserialiseMessage(w1[i]).type # "HEARTBEAT"}
           n == Len(w)
<1>1. n \in Nat /\ DOMAIN w = 1 .. n
  BY DEF IsSeq
<1>2. /\ Len(w1) = n + 1 /\ DOMAIN w1 = 1 .. n + 1
      /\ \A i \in 1 .. n : w1[i] = w[i]
      /\ w1[n + 1] = frame
  BY AppendAny DEF IsSeq
<1>3. (\A i \in 1 .. n : t1[i] = t[i]) /\ t1[n + 1] = time
  BY AppendAny
<1> HIDE DEF w1, t1
<1>4. IsSeq(s) /\ Len(s) = n
  BY <1>1 DEF IsSeq
<1>5. s1 = Append(s, item(frame, time))
  <2> DEFINE z == Append(s, item(frame, time))
  <2>1. /\ IsSeq(z) /\ Len(z) = n + 1 /\ z[n + 1] = item(frame, time)
        /\ \A i \in 1 .. n : z[i] = s[i]
    BY <1>4, AppendAny
  <2>2. \A i \in 1 .. n : z[i] = item(w[i], t[i])
    BY <1>1, <2>1
  <2> HIDE DEF z, s
  <2>3. z = [i \in 1 .. n + 1 |-> z[i]]
    BY <2>1 DEF IsSeq
  <2>4. ASSUME NEW i \in 1 .. n + 1 PROVE z[i] = item(w1[i], t1[i])
    <3>1. i \in 1 .. n \/ i = n + 1
      BY <1>1
    <3> QED
      BY <3>1, <2>1, <2>2, <1>2, <1>3
  <2>5. z = s1
    BY <2>3, <2>4, <1>2
  <2> QED
    BY <2>5 DEF z
<1>6. \A i \in 1 .. Len(s) : i \in I <=> i \in J
  <2>1. \A i \in 1 .. n : i \in 1 .. n + 1
    BY <1>1
  <2> HIDE DEF s
  <2> QED
    BY <2>1, <1>1, <1>2, <1>4
<1>7. Len(s) + 1 \in J <=> message.type # "HEARTBEAT"
  <2>1. n + 1 \in 1 .. n + 1
    BY <1>1
  <2> HIDE DEF s
  <2> QED
    BY <2>1, <1>2, <1>4
<1> HIDE DEF s, I, J
<1>8. Picked(s1, J) = IF Len(s) + 1 \in J THEN Append(Picked(s, I), item(frame, time))
                      ELSE Picked(s, I)
  <2> HIDE DEF s1, item
  <2> QED
    BY <1>4, <1>5, <1>6, PickedOneMore
<1>9. ReplayedOf(w1, t1) = Picked(s1, J) /\ ReplayedOf(w, t) = Picked(s, I)
  BY DEF ReplayedOf, s, I, J
<1> QED
  BY <1>7, <1>8, <1>9 DEF w1, t1

-----------------------------------------------------------------------------
(* The inductive invariant.                                                *)

\* The rows r of which the other end has heard are those among the first n lines.
Sent(r, f, k, n) ==
  /\ Len(r) = Len(RowsUpto(f, k, n))
  /\ \A i \in 1 .. Len(r) : Says(r[i].message, RowsUpto(f, k, n)[i])

TypeInv ==
  /\ file \in Files /\ kind \in {"Q", "T"}
  /\ now \in StartTime .. MaxTime
  /\ read \in 0 .. Len(file)
  /\ at \in {"open", "connect", "first", "send first", "read", "wait", "sleep", "done", "crashed"}
  /\ startTimestamp \in 0 .. Word - 1
  /\ reachedEnd => at \in {"done", "crashed"}
  /\ IsSeq(wire) /\ IsSeq(sentAt) /\ Len(wire) = Len(sentAt)

\* How far the parser and the wire are; a client that crashed may have sent no
\* row of the last line it read.
PlaceInv ==
  LET replayed == ReplayedOf(wire, sentAt)
  IN  /\ at \in {"open", "connect", "first", "send first"} => replayed = <<>>
      /\ at \in {"connect", "first"} => read = Header(file)
      /\ at \in {"send first", "wait", "sleep"}
           => read \in RowLines(file, kind) /\ Sent(replayed, file, kind, read - 1)
      /\ at \in {"read", "done"}
           => read \in Header(file) .. Len(file) /\ Sent(replayed, file, kind, read)
      /\ at = "done" => RowsUpto(file, kind, read) = RowsUpto(file, kind, Len(file))
      /\ at = "crashed" => \E n \in 0 .. Len(file) : Sent(replayed, file, kind, n)

\* The times of the rows r that were sent, by the start s of the replay.
InTime(r, f, k, s) ==
  \A i \in 1 .. Len(r) :
    r[i].at - s >= Picked(f, RowLines(f, k))[i].timestamp - Picked(f, RowLines(f, k))[1].timestamp

TimeInv ==
  LET rows == Picked(file, RowLines(file, kind))
  IN  /\ at \in {"send first", "read", "wait", "sleep", "done"}
           => /\ startedAt \in StartTime .. now
              /\ startTimestamp = (startedAt - rows[1].timestamp) % Word
              /\ rows[1].timestamp \in Nat /\ 2 * rows[1].timestamp < Word
      /\ InTime(ReplayedOf(wire, sentAt), file, kind, startedAt)

ClientInv == TypeInv /\ PlaceInv /\ TimeInv

\* When nothing was sent, no row up to the header was.
LEMMA NoneSent ==
  ASSUME NEW f \in Files, NEW k
  PROVE  Sent(<<>>, f, k, 0) /\ Sent(<<>>, f, k, Header(f))
BY RowsAre, EmptyIsSeq DEF Sent

\* The row of line n is sent after those before it.
LEMMA OneMoreSent ==
  ASSUME NEW f \in Files, NEW k, NEW n \in RowLines(f, k), NEW r, IsSeq(r), NEW x,
         Sent(r, f, k, n - 1), Says(x.message, f[n])
  PROVE  Sent(Append(r, x), f, k, n)
<1> DEFINE old == RowsUpto(f, k, n - 1)
           new == RowsUpto(f, k, n)
           all == Append(r, x)
<1>1. /\ Len(new) = Len(old) + 1 /\ Len(old) \in Nat /\ new[Len(old) + 1] = f[n]
      /\ \A i \in 1 .. Len(old) : new[i] = old[i]
  BY RowOfLine
<1>2. /\ Len(all) = Len(r) + 1 /\ all[Len(r) + 1] = x
      /\ \A i \in 1 .. Len(r) : all[i] = r[i]
  BY AppendAny
<1>3. Len(r) = Len(old) /\ \A i \in 1 .. Len(r) : Says(r[i].message, old[i])
  BY DEF Sent
<1> HIDE DEF old, new, all
<1>4. ASSUME NEW i \in 1 .. Len(all) PROVE Says(all[i].message, new[i])
  <2>1. i \in 1 .. Len(r) \/ i = Len(r) + 1
    BY <1>1, <1>2, <1>3
  <2>2. CASE i \in 1 .. Len(r)
    BY <2>2, <1>1, <1>2, <1>3
  <2>3. CASE i = Len(r) + 1
    BY <2>3, <1>1, <1>2, <1>3
  <2> QED
    BY <2>1, <2>2, <2>3
<1> QED
  BY <1>1, <1>2, <1>3, <1>4 DEF Sent, new, all

\* What has been said is of the first rows of all.
LEMMA SentOfAll ==
  ASSUME NEW f \in Files, NEW k, NEW n \in 0 .. Len(f), NEW r, Sent(r, f, k, n)
  PROVE  LET all == Picked(f, RowLines(f, k))
         IN  /\ IsSeq(all) /\ Len(r) <= Len(all)
             /\ \A i \in 1 .. Len(r) : Says(r[i].message, all[i])
<1>1. /\ Len(r) = Len(RowsUpto(f, k, n))
      /\ \A i \in 1 .. Len(r) : Says(r[i].message, RowsUpto(f, k, n)[i])
  BY DEF Sent
<1> QED
  BY <1>1, RowsRise

\* The next to be sent, of all the rows, is the one of line n.
LEMMA NextOfAll ==
  ASSUME NEW f \in Files, NEW k, NEW n \in RowLines(f, k), NEW r, Sent(r, f, k, n - 1)
  PROVE  Picked(f, RowLines(f, k))[Len(r) + 1] = f[n]
<1>1. /\ n \in 0 .. Len(f) /\ Len(RowsUpto(f, k, n - 1)) \in Nat
      /\ Len(RowsUpto(f, k, n)) = Len(RowsUpto(f, k, n - 1)) + 1
      /\ RowsUpto(f, k, n)[Len(RowsUpto(f, k, n - 1)) + 1] = f[n]
  BY RowOfLine
<1>2. Len(r) = Len(RowsUpto(f, k, n - 1))
  BY DEF Sent
<1>3. Len(r) + 1 \in 1 .. Len(RowsUpto(f, k, n))
  BY <1>1, <1>2
<1>4. Picked(f, RowLines(f, k))[Len(r) + 1] = RowsUpto(f, k, n)[Len(r) + 1]
  BY <1>1, <1>3, RowsRise
<1> QED
  BY <1>1, <1>2, <1>4

\* It is sent in time if its own time has come.
LEMMA OneMoreInTime ==
  ASSUME NEW f \in Files, NEW k, NEW n \in RowLines(f, k), NEW r, IsSeq(r), NEW x, NEW s,
         Sent(r, f, k, n - 1), InTime(r, f, k, s),
         x.at - s >= f[n].timestamp - Picked(f, RowLines(f, k))[1].timestamp
  PROVE  InTime(Append(r, x), f, k, s)
<1> DEFINE rows == Picked(f, RowLines(f, k))
           all == Append(r, x)
<1>1. rows[Len(r) + 1] = f[n]
  BY NextOfAll
<1>2. /\ Len(r) \in Nat /\ Len(all) = Len(r) + 1 /\ all[Len(r) + 1] = x
      /\ \A i \in 1 .. Len(r) : all[i] = r[i]
  BY AppendAny DEF IsSeq
<1>3. \A i \in 1 .. Len(r) : r[i].at - s >= rows[i].timestamp - rows[1].timestamp
  BY DEF InTime
<1>4. x.at - s >= f[n].timestamp - rows[1].timestamp
  OBVIOUS
<1> HIDE DEF rows, all
<1>5. ASSUME NEW i \in 1 .. Len(all) PROVE all[i].at - s >= rows[i].timestamp - rows[1].timestamp
  <2>1. i \in 1 .. Len(r) \/ i = Len(r) + 1
    BY <1>2
  <2>2. CASE i \in 1 .. Len(r)
    BY <2>2, <1>2, <1>3
  <2>3. CASE i = Len(r) + 1
    BY <2>3, <1>1, <1>2, <1>4
  <2> QED
    BY <2>1, <2>2, <2>3
<1> QED
  BY <1>5 DEF InTime, rows, all

\* The arithmetic of size_t.
LEMMA WrapRange == ASSUME NEW w \in Nat \ {0}, NEW x \in Int PROVE x % w \in 0 .. w - 1
OBVIOUS

\* What the remainder is within one turn of zero.
LEMMA WrapIs ==
  ASSUME NEW w \in Nat \ {0}, NEW x \in Int
  PROVE  /\ x \in 0 .. w - 1 => x % w = x
         /\ x \in w .. 2 * w - 1 => x % w = x - w
         /\ x \in -w .. -1 => x % w = x + w
OBVIOUS

\* With a start before the clock's the sum wraps around twice, or is too large
\* for any clock.
LEMMA NotBeforeItsTime ==
  ASSUME NEW w \in Nat \ {0}, NEW a \in Nat, NEW b \in Nat, NEW c \in Nat,
         2 * a < w, 2 * b < w, 2 * c < w
  PROVE  ((((a - b) % w) + c) % w) - a >= c - b
<1>1. CASE a >= b
  <2>1. a - b \in 0 .. w - 1 /\ a - b \in Int
    BY <1>1
  <2>2. (a - b) % w = a - b
    BY <2>1, WrapIs
  <2>3. (a - b) + c \in 0 .. w - 1 /\ (a - b) + c \in Int
    BY <1>1
  <2>4. ((a - b) + c) % w = (a - b) + c
    BY <2>3, WrapIs
  <2> QED
    BY <2>2, <2>4
<1>2. CASE a < b
  <2>1. a - b \in -w .. -1 /\ a - b \in Int
    BY <1>2
  <2>2. (a - b) % w = (a - b) + w
    BY <2>1, WrapIs
  <2> DEFINE x == ((a - b) + w) + c
  <2>3. x \in Int /\ x \in 0 .. 2 * w - 1
    BY <1>2
  <2>4. x - a >= c - b /\ (x - w) - a >= c - b
    OBVIOUS
  <2> HIDE DEF x
  <2>5. x % w = x \/ x % w = x - w
    <3>1. x \in 0 .. w - 1 \/ x \in w .. 2 * w - 1
      BY <2>3
    <3> QED
      BY <3>1, <2>3, WrapIs
  <2> QED
    BY <2>2, <2>4, <2>5 DEF x
<1> QED
  BY <1>1, <1>2

-----------------------------------------------------------------------------
(* Every step preserves it.                                                *)

\* The invariant holds at first.
LEMMA InitInv == ClientInit => ClientInv
<1> SUFFICES ASSUME ClientInit PROVE ClientInv
  OBVIOUS
<1>1. file \in Files /\ kind \in {"Q", "T"}
  BY DEF ClientInit
<1>2. Len(file) \in Nat
  BY <1>1, FileTypes
<1>3. ReplayedOf(wire, sentAt) = <<>>
  <2> DEFINE s == [i \in DOMAIN wire |-> [message |-> DeserialiseMessage(wire[i]), at |-> sentAt[i]]]
  <2>1. wire = <<>>
    BY DEF ClientInit
  <2>2. Len(s) = 0
    BY <2>1
  <2> HIDE DEF s
  <2>3. \A I : Picked(s, I) = <<>>
    BY <2>2, PickedNone DEF Picked
  <2> QED
    BY <2>3 DEF ReplayedOf, s
<1>4. TypeInv
  BY <1>1, <1>2, EmptyIsSeq, ClientAssumption DEF TypeInv, ClientInit
<1>5. PlaceInv
  BY <1>3 DEF PlaceInv, ClientInit
<1>6. TimeInv
  BY <1>3, EmptyIsSeq DEF TimeInv, InTime, ClientInit
<1> QED
  BY <1>4, <1>5, <1>6 DEF ClientInv

\* Numbers that the steps compute with.
LEMMA Numbers ==
  ASSUME TypeInv
  PROVE  /\ Len(file) \in Nat /\ Header(file) \in 0 .. Len(file)
         /\ now \in Nat /\ read \in Nat /\ Word \in Nat \ {0} /\ 2 * now < Word
         /\ startTimestamp \in Nat /\ StartTime \in Nat /\ MaxTime \in Nat
<1>1. /\ Len(file) \in Nat /\ Header(file) \in 0 .. Len(file)
  BY FileTypes DEF TypeInv
<1>2. StartTime \in Nat /\ MaxTime \in Nat /\ Word \in Nat \ {0} /\ 2 * MaxTime < Word
  BY ClientAssumption
<1>3. now \in StartTime .. MaxTime /\ read \in 0 .. Len(file) /\ startTimestamp \in 0 .. Word - 1
  BY DEF TypeInv
<1>4. now \in Nat /\ now <= MaxTime
  BY <1>2, <1>3
<1>5. 2 * now < Word
  BY <1>2, <1>4
<1>6. read \in Nat /\ startTimestamp \in Nat
  BY <1>1, <1>2, <1>3
<1> QED
  BY <1>1, <1>2, <1>4, <1>5, <1>6

\* The time of a row.
LEMMA RowTime ==
  ASSUME TypeInv, NEW n \in RowLines(file, kind)
  PROVE  file[n].timestamp \in Nat /\ 2 * file[n].timestamp < Word
<1>1. n \in DOMAIN file /\ file[n].type \in {"Q", "T"} /\ file \in Files
  BY FileTypes, RowOfLine DEF TypeInv, RowLines
<1>2. 2 * file[n].timestamp < Word /\ NumbersOf(file[n]) \subseteq Nat
  BY <1>1, ClientAssumption
<1>3. file[n].timestamp \in NumbersOf(file[n])
  BY <1>1 DEF NumbersOf
<1> QED
  BY <1>2, <1>3

\* One frame more: what the other end has decoded then, and the types.
LEMMA SendsFrame ==
  ASSUME TypeInv, NEW message, Sends(message)
  PROVE  LET m == DeserialiseMessage(Serialise(message))
         IN  /\ IsSeq(wire') /\ IsSeq(sentAt') /\ Len(wire') = Len(sentAt')
             /\ Len(wire') = Len(wire) + 1 /\ Len(wire) \in Nat
             /\ wire'[Len(wire) + 1] = Serialise(message) /\ sentAt'[Len(wire) + 1] = now
             /\ m.type = "HEARTBEAT" => ReplayedOf(wire', sentAt') = ReplayedOf(wire, sentAt)
             /\ m.type # "HEARTBEAT"
                  => ReplayedOf(wire', sentAt') =
                       Append(ReplayedOf(wire, sentAt), [message |-> m, at |-> now])
<1>1. IsSeq(wire) /\ IsSeq(sentAt) /\ Len(wire) = Len(sentAt) /\ Len(wire) \in Nat
  BY DEF TypeInv, IsSeq
<1>2. wire' = Append(wire, Serialise(message)) /\ sentAt' = Append(sentAt, now)
  BY DEF Sends
<1>3. /\ IsSeq(wire') /\ Len(wire') = Len(wire) + 1
      /\ wire'[Len(wire) + 1] = Serialise(message)
  BY <1>1, <1>2, AppendAny
<1>4. IsSeq(sentAt') /\ Len(sentAt') = Len(sentAt) + 1 /\ sentAt'[Len(sentAt) + 1] = now
  BY <1>1, <1>2, AppendAny
<1> DEFINE m == DeserialiseMessage(Serialise(message))
<1>5. ReplayedOf(wire', sentAt') =
        IF m.type = "HEARTBEAT" THEN ReplayedOf(wire, sentAt)
        ELSE Append(ReplayedOf(wire, sentAt), [message |-> m, at |-> now])
  BY <1>1, <1>2, OneMoreOnTheWire
<1> QED
  BY <1>1, <1>3, <1>4, <1>5

\* Behind the header no row has been passed; a crash is before the first.
LEMMA OpenFileKeeps == ASSUME ClientInv, OpenFile PROVE ClientInv'
<1>1. TypeInv /\ PlaceInv /\ TimeInv
  BY DEF ClientInv
<1>2. /\ UNCHANGED <<file, kind, now, reachedEnd, startTimestamp, wire, sentAt, startedAt>>
      /\ at = "open" /\ at' \in {"connect", "crashed"}
      /\ at' = "connect" => read' = Header(file)
      /\ at' = "crashed" => read' = read
  BY DEF OpenFile
<1>3. ReplayedOf(wire, sentAt) = <<>>
  BY <1>1, <1>2 DEF PlaceInv
<1>4. TypeInv'
  BY <1>1, <1>2, Numbers DEF TypeInv
<1>5. file \in Files /\ 0 \in 0 .. Len(file)
  <2>1. Len(file) \in Nat /\ file \in Files
    BY <1>1, Numbers DEF TypeInv
  <2> QED
    BY <2>1
<1>6. Sent(<<>>, file, kind, 0)
  BY <1>5, NoneSent
<1>7. PlaceInv'
  BY <1>2, <1>3, <1>5, <1>6 DEF PlaceInv
<1>8. TimeInv'
  BY <1>1, <1>2 DEF TimeInv
<1> QED
  BY <1>4, <1>7, <1>8 DEF ClientInv

\* Connecting sends nothing.
LEMMA ConnectKeeps == ASSUME ClientInv, Connect PROVE ClientInv'
<1>1. TypeInv /\ PlaceInv /\ TimeInv
  BY DEF ClientInv
<1>2. /\ UNCHANGED <<file, kind, now, read, reachedEnd, startTimestamp, wire, sentAt, startedAt>>
      /\ at = "connect" /\ at' \in {"first", "crashed"}
  BY DEF Connect
<1>3. ReplayedOf(wire, sentAt) = <<>> /\ read = Header(file)
  BY <1>1, <1>2 DEF PlaceInv
<1>4. TypeInv'
  BY <1>1, <1>2 DEF TypeInv
<1>5. file \in Files /\ 0 \in 0 .. Len(file)
  <2>1. Len(file) \in Nat /\ file \in Files
    BY <1>1, Numbers DEF TypeInv
  <2> QED
    BY <2>1
<1>6. Sent(<<>>, file, kind, 0)
  BY <1>5, NoneSent
<1>7. PlaceInv'
  BY <1>2, <1>3, <1>5, <1>6 DEF PlaceInv
<1>8. TimeInv'
  BY <1>1, <1>2 DEF TimeInv
<1> QED
  BY <1>4, <1>7, <1>8 DEF ClientInv

\* The first row read is the first of all; its time is that of the start.
LEMMA ReadFirstKeeps == ASSUME ClientInv, ReadFirst PROVE ClientInv'
<1>1. TypeInv /\ PlaceInv /\ TimeInv
  BY DEF ClientInv
<1>2. UNCHANGED <<file, kind, now, wire, sentAt>> /\ at = "first"
  BY DEF ReadFirst
<1>3. ReplayedOf(wire, sentAt) = <<>> /\ read = Header(file) /\ reachedEnd = FALSE
  BY <1>1, <1>2 DEF PlaceInv, TypeInv
<1>4. file \in Files /\ 0 \in 0 .. Len(file) /\ read \in Header(file) .. Len(file)
  <2>1. Len(file) \in Nat /\ file \in Files /\ Header(file) \in 0 .. Len(file)
    BY <1>1, Numbers DEF TypeInv
  <2> QED
    BY <2>1, <1>3
<1>5. CASE NextRowReadable
  <2> DEFINE n == Min(RowsAhead)
             rows == Picked(file, RowLines(file, kind))
  <2>1. /\ at' = "send first" /\ read' = n /\ startedAt' = now /\ reachedEnd' = reachedEnd
        /\ startTimestamp' = (now - file[n].timestamp) % Word
    BY <1>2, <1>5 DEF ReadFirst
  <2>2. /\ n \in RowLines(file, kind) /\ n \in read + 1 .. Len(file)
        /\ RowsUpto(file, kind, n - 1) = RowsUpto(file, kind, read)
    BY <1>4, <1>5, NextRow DEF NextRowReadable
  <2> HIDE DEF n
  <2>3. file[n].timestamp \in Nat /\ 2 * file[n].timestamp < Word
    BY <1>1, <2>2, RowTime
  <2>4. startTimestamp' \in 0 .. Word - 1
    <3>1. now - file[n].timestamp \in Int /\ Word \in Nat \ {0}
      BY <2>3, <1>1, Numbers
    <3> QED
      BY <3>1, <2>1, WrapRange
  <2>5. n \in 0 .. Len(file)
    BY <2>2, <1>4, RowOfLine
  <2>6. TypeInv'
    BY <1>1, <1>2, <1>3, <2>1, <2>4, <2>5 DEF TypeInv
  <2>7. Sent(<<>>, file, kind, n - 1)
    <3>1. RowsUpto(file, kind, n - 1) = RowsUpto(file, kind, Header(file))
      BY <1>3, <2>2
    <3>2. Sent(<<>>, file, kind, Header(file))
      BY <1>4, NoneSent
    <3> QED
      BY <3>1, <3>2 DEF Sent
  <2>8. PlaceInv'
    BY <1>2, <1>3, <2>1, <2>2, <2>7 DEF PlaceInv
  <2>9. rows[1] = file[n]
    <3>1. Len(<<>>) + 1 = 1
      BY EmptyIsSeq
    <3> HIDE DEF rows
    <3>2. rows[Len(<<>>) + 1] = file[n]
      BY <1>4, <2>2, <2>7, NextOfAll DEF rows
    <3> QED
      BY <3>1, <3>2
  <2>10. now \in StartTime .. now
    <3>1. now \in StartTime .. MaxTime /\ StartTime \in Nat /\ MaxTime \in Nat
      BY <1>1, Numbers DEF TypeInv
    <3> QED
      BY <3>1
  <2>11. InTime(<<>>, file, kind, now)
    BY EmptyIsSeq DEF InTime
  <2>12. TimeInv'
    <3>1. ReplayedOf(wire', sentAt') = <<>>
      BY <1>2, <1>3
    <3> QED
      BY <3>1, <1>2, <2>1, <2>3, <2>9, <2>10, <2>11 DEF TimeInv
  <2> QED
    BY <2>6, <2>8, <2>12 DEF ClientInv
<1>6. CASE ~NextRowReadable
  <2>1. at' = "crashed" /\ UNCHANGED <<read, startTimestamp, startedAt>>
        /\ reachedEnd' \in BOOLEAN
    BY <1>2, <1>6 DEF ReadFirst
  <2>2. TypeInv'
    BY <1>1, <1>2, <2>1 DEF TypeInv
  <2>3. Sent(<<>>, file, kind, 0)
    BY <1>4, NoneSent
  <2>4. PlaceInv'
    BY <1>2, <1>3, <1>4, <2>1, <2>3 DEF PlaceInv
  <2>5. TimeInv'
    BY <1>1, <1>2, <2>1 DEF TimeInv
  <2> QED
    BY <2>2, <2>4, <2>5 DEF ClientInv
<1> QED
  BY <1>5, <1>6

\* The row last read goes out, at a time that it is due.
LEMMA RowGoesOut ==
  ASSUME ClientInv, read \in RowLines(file, kind), Sends(MessageOfRow),
         Sent(ReplayedOf(wire, sentAt), file, kind, read - 1),
         now - startedAt >= file[read].timestamp
                              - Picked(file, RowLines(file, kind))[1].timestamp
  PROVE  /\ Sent(ReplayedOf(wire', sentAt'), file, kind, read)
         /\ InTime(ReplayedOf(wire', sentAt'), file, kind, startedAt)
         /\ IsSeq(wire') /\ IsSeq(sentAt') /\ Len(wire') = Len(sentAt')
<1> DEFINE old == ReplayedOf(wire, sentAt)
           m == DeserialiseMessage(Serialise(MessageOfRow))
           x == [message |-> m, at |-> now]
<1>1. TypeInv /\ PlaceInv /\ TimeInv
  BY DEF ClientInv
<1>2. file \in Files /\ kind \in {"Q", "T"} /\ IsSeq(wire)
  BY <1>1 DEF TypeInv
<1>3. Says(m, file[read]) /\ m.type # "HEARTBEAT"
  BY <1>2, RowSaid
<1>4. /\ IsSeq(wire') /\ IsSeq(sentAt') /\ Len(wire') = Len(sentAt')
      /\ ReplayedOf(wire', sentAt') = Append(old, x)
  BY <1>1, <1>3, SendsFrame
<1>5. IsSeq(old)
  BY <1>2, ReplayedIsSeq
<1>6. Sent(old, file, kind, read - 1) /\ InTime(old, file, kind, startedAt)
  BY <1>1 DEF TimeInv
<1>7. x.message = m /\ x.at = now
  OBVIOUS
<1> HIDE DEF old, m, x
<1>8. Sent(Append(old, x), file, kind, read)
  <2>1. Says(x.message, file[read])
    BY <1>3, <1>7
  <2> QED
    BY <2>1, <1>2, <1>5, <1>6, OneMoreSent
<1>9. InTime(Append(old, x), file, kind, startedAt)
  <2>1. x.at - startedAt >= file[read].timestamp - Picked(file, RowLines(file, kind))[1].timestamp
    BY <1>7
  <2> QED
    BY <2>1, <1>2, <1>5, <1>6, OneMoreInTime
<1> QED
  BY <1>4, <1>8, <1>9

\* The first row is due at once.
LEMMA SendFirstKeeps == ASSUME ClientInv, SendFirst PROVE ClientInv'
<1> DEFINE rows == Picked(file, RowLines(file, kind))
           old == ReplayedOf(wire, sentAt)
<1>1. TypeInv /\ PlaceInv /\ TimeInv
  BY DEF ClientInv
<1>2. /\ UNCHANGED <<file, kind, now, read, reachedEnd, startTimestamp, startedAt>>
      /\ at = "send first" /\ at' = "read" /\ Sends(MessageOfRow)
  BY DEF SendFirst
<1>3. /\ old = <<>> /\ read \in RowLines(file, kind) /\ Sent(old, file, kind, read - 1)
  BY <1>1, <1>2 DEF PlaceInv
<1>4. /\ startedAt \in StartTime .. now
      /\ startTimestamp = (startedAt - rows[1].timestamp) % Word
      /\ rows[1].timestamp \in Nat /\ 2 * rows[1].timestamp < Word
  BY <1>1, <1>2 DEF TimeInv
<1>5. file \in Files
  BY <1>1 DEF TypeInv
<1>6. rows[1] = file[read]
  <2>1. Len(old) + 1 = 1
    BY <1>3, EmptyIsSeq
  <2> HIDE DEF rows, old
  <2>2. rows[Len(old) + 1] = file[read]
    BY <1>3, <1>5, NextOfAll DEF rows
  <2> QED
    BY <2>1, <2>2
<1> HIDE DEF rows
<1>7. now - startedAt >= file[read].timestamp - rows[1].timestamp
  <2>1. now \in Nat /\ StartTime \in Nat
    BY <1>1, Numbers
  <2>2. startedAt \in Nat /\ startedAt <= now
    BY <2>1, <1>4
  <2> QED
    BY <2>1, <2>2, <1>4, <1>6
<1>8. /\ Sent(ReplayedOf(wire', sentAt'), file, kind, read)
      /\ InTime(ReplayedOf(wire', sentAt'), file, kind, startedAt)
      /\ IsSeq(wire') /\ IsSeq(sentAt') /\ Len(wire') = Len(sentAt')
  BY <1>2, <1>3, <1>7, RowGoesOut DEF rows, old
<1>9. TypeInv'
  BY <1>1, <1>2, <1>8 DEF TypeInv
<1>10. read \in Header(file) .. Len(file)
  BY <1>3, <1>5, RowOfLine
<1>11. PlaceInv'
  BY <1>2, <1>8, <1>10 DEF PlaceInv
<1>12. TimeInv'
  BY <1>2, <1>4, <1>8 DEF TimeInv, rows
<1> QED
  BY <1>9, <1>11, <1>12 DEF ClientInv

\* Between the row sent and the one read there is none of the type.
LEMMA ReadRowKeeps == ASSUME ClientInv, ReadRow PROVE ClientInv'
<1> DEFINE replayed == ReplayedOf(wire, sentAt)
<1>1. TypeInv /\ PlaceInv /\ TimeInv
  BY DEF ClientInv
<1>2. UNCHANGED <<file, kind, now, startTimestamp, wire, sentAt, startedAt>> /\ at = "read"
  BY DEF ReadRow, ReadsUnto
<1>3. read \in Header(file) .. Len(file) /\ Sent(replayed, file, kind, read)
  BY <1>1, <1>2 DEF PlaceInv
<1>4. file \in Files /\ reachedEnd = FALSE
  BY <1>1, <1>2 DEF TypeInv
<1>5. read \in 0 .. Len(file)
  BY <1>1 DEF TypeInv
<1> HIDE DEF replayed
<1>6. CASE RowsAhead = {}
  <2>1. at' = "done" /\ reachedEnd' = TRUE /\ read' = read
    BY <1>6 DEF ReadRow, ReadsUnto
  <2>2. RowsUpto(file, kind, read) = RowsUpto(file, kind, Len(file))
    BY <1>3, <1>4, <1>6, NoNextRow
  <2>3. TypeInv'
    BY <1>1, <1>2, <2>1 DEF TypeInv
  <2>4. PlaceInv'
    BY <1>2, <1>3, <2>1, <2>2 DEF PlaceInv, replayed
  <2>5. TimeInv'
    BY <1>1, <1>2, <2>1 DEF TimeInv
  <2> QED
    BY <2>3, <2>4, <2>5 DEF ClientInv
<1>7. CASE NextRowReadable
  <2> DEFINE n == Min(RowsAhead)
  <2>1. RowsAhead # {}
    BY <1>7 DEF NextRowReadable
  <2>2. /\ n \in RowLines(file, kind)
        /\ RowsUpto(file, kind, n - 1) = RowsUpto(file, kind, read)
    BY <1>3, <1>4, <2>1, NextRow
  <2>3. at' = "wait" /\ read' = n /\ reachedEnd' = FALSE
    BY <1>4, <1>7, <2>1 DEF ReadRow, ReadsUnto
  <2> HIDE DEF n
  <2>4. n \in 0 .. Len(file)
    BY <2>2, <1>4, RowOfLine
  <2>5. Sent(replayed, file, kind, n - 1)
    BY <1>3, <2>2 DEF Sent
  <2>6. TypeInv'
    BY <1>1, <1>2, <2>3, <2>4 DEF TypeInv
  <2>7. PlaceInv'
    BY <1>2, <2>2, <2>3, <2>5 DEF PlaceInv, replayed
  <2>8. TimeInv'
    BY <1>1, <1>2, <2>3 DEF TimeInv
  <2> QED
    BY <2>6, <2>7, <2>8 DEF ClientInv
<1>8. CASE RowsAhead # {} /\ ~NextRowReadable
  <2>1. at' = "crashed" /\ UNCHANGED <<read, reachedEnd>>
    BY <1>4, <1>8 DEF ReadRow, ReadsUnto
  <2>2. TypeInv'
    BY <1>1, <1>2, <2>1 DEF TypeInv
  <2>3. PlaceInv'
    BY <1>2, <1>3, <1>5, <2>1 DEF PlaceInv, replayed
  <2>4. TimeInv'
    BY <1>1, <1>2, <2>1 DEF TimeInv
  <2> QED
    BY <2>2, <2>3, <2>4 DEF ClientInv
<1> QED
  BY <1>6, <1>7, <1>8

\* A heartbeat is no row.
LEMMA WaitKeeps == ASSUME ClientInv, Wait PROVE ClientInv'
<1>1. TypeInv /\ PlaceInv /\ TimeInv
  BY DEF ClientInv
<1>2. /\ UNCHANGED <<file, kind, now, read, reachedEnd, startTimestamp, startedAt>>
      /\ at = "wait" /\ at' = "sleep"
      /\ Sends(Heartbeat(now)) \/ UNCHANGED <<wire, sentAt>>
  BY DEF Wait, SleepsUntil
<1>3. /\ IsSeq(wire') /\ IsSeq(sentAt') /\ Len(wire') = Len(sentAt')
      /\ ReplayedOf(wire', sentAt') = ReplayedOf(wire, sentAt)
  <2>1. CASE Sends(Heartbeat(now))
    <3>1. DeserialiseMessage(Serialise(Heartbeat(now))).type = "HEARTBEAT"
      BY HeartbeatRoundTrip DEF Heartbeat
    <3> QED
      BY <3>1, <2>1, <1>1, SendsFrame
  <2>2. CASE UNCHANGED <<wire, sentAt>>
    BY <2>2, <1>1 DEF TypeInv
  <2> QED
    BY <1>2, <2>1, <2>2
<1>4. TypeInv'
  BY <1>1, <1>2, <1>3 DEF TypeInv
<1>5. PlaceInv'
  BY <1>1, <1>2, <1>3 DEF PlaceInv
<1>6. TimeInv'
  BY <1>1, <1>2, <1>3 DEF TimeInv
<1> QED
  BY <1>4, <1>5, <1>6 DEF ClientInv

\* The sleep ends.
LEMMA WakeUpKeeps == ASSUME ClientInv, WakeUp PROVE ClientInv'
<1>1. TypeInv /\ PlaceInv /\ TimeInv
  BY DEF ClientInv
<1>2. /\ UNCHANGED <<file, kind, now, read, reachedEnd, startTimestamp, wire, sentAt, startedAt>>
      /\ at = "sleep" /\ at' = "wait"
  BY DEF WakeUp
<1>3. TypeInv'
  BY <1>1, <1>2 DEF TypeInv
<1>4. PlaceInv'
  BY <1>1, <1>2 DEF PlaceInv
<1>5. TimeInv'
  BY <1>1, <1>2 DEF TimeInv
<1> QED
  BY <1>3, <1>4, <1>5 DEF ClientInv

\* What startTimestamp is for.
LEMMA DueRow ==
  ASSUME ClientInv, at = "wait", now >= TimeToSend
  PROVE  now - startedAt >= file[read].timestamp
                              - Picked(file, RowLines(file, kind))[1].timestamp
<1> DEFINE ts == file[read].timestamp
           first == Picked(file, RowLines(file, kind))[1].timestamp
<1>1. TypeInv /\ read \in RowLines(file, kind)
  BY DEF ClientInv, PlaceInv
<1>2. /\ startedAt \in StartTime .. now /\ startTimestamp = (startedAt - first) % Word
      /\ first \in Nat /\ 2 * first < Word
  BY DEF ClientInv, TimeInv
<1>3. ts \in Nat /\ 2 * ts < Word
  BY <1>1, RowTime
<1>4. now \in Nat /\ 2 * now < Word /\ Word \in Nat \ {0} /\ StartTime \in Nat
  BY <1>1, Numbers
<1>5. now >= (startTimestamp + ts) % Word
  BY DEF TimeToSend
<1> HIDE DEF ts, first
<1>6. startedAt \in Nat /\ 2 * startedAt < Word
  BY <1>2, <1>4
<1>7. ((((startedAt - first) % Word) + ts) % Word) - startedAt >= ts - first
  BY <1>2, <1>3, <1>4, <1>6, NotBeforeItsTime
<1>8. ((startTimestamp + ts) % Word) - startedAt >= ts - first
  BY <1>2, <1>7
<1>9. (startTimestamp + ts) % Word \in Nat
  <2>1. startTimestamp + ts \in Int
    BY <1>1, <1>3, Numbers
  <2> QED
    BY <2>1, <1>4, WrapRange
<1>10. now - startedAt >= ts - first
  <2> DEFINE due == (startTimestamp + ts) % Word
  <2>1. due \in Nat /\ due - startedAt >= ts - first /\ now >= due
    BY <1>5, <1>8, <1>9
  <2> HIDE DEF due
  <2> QED
    BY <2>1, <1>2, <1>3, <1>4, <1>6
<1> QED
  BY <1>10 DEF ts, first

\* A row that is due is the next of all.
LEMMA SendRowKeeps == ASSUME ClientInv, SendRow PROVE ClientInv'
<1> DEFINE old == ReplayedOf(wire, sentAt)
<1>1. TypeInv /\ PlaceInv /\ TimeInv
  BY DEF ClientInv
<1>2. /\ UNCHANGED <<file, kind, now, read, reachedEnd, startTimestamp, startedAt>>
      /\ at = "wait" /\ at' = "read" /\ now >= TimeToSend /\ Sends(MessageOfRow)
  BY DEF SendRow, SendsRowFrom
<1>3. read \in RowLines(file, kind) /\ Sent(old, file, kind, read - 1)
  BY <1>1, <1>2 DEF PlaceInv
<1>4. file \in Files
  BY <1>1 DEF TypeInv
<1>5. /\ Sent(ReplayedOf(wire', sentAt'), file, kind, read)
      /\ InTime(ReplayedOf(wire', sentAt'), file, kind, startedAt)
      /\ IsSeq(wire') /\ IsSeq(sentAt') /\ Len(wire') = Len(sentAt')
  BY <1>2, <1>3, DueRow, RowGoesOut
<1>6. TypeInv'
  BY <1>1, <1>2, <1>5 DEF TypeInv
<1>7. read \in Header(file) .. Len(file)
  BY <1>3, <1>4, RowOfLine
<1>8. PlaceInv'
  BY <1>2, <1>5, <1>7 DEF PlaceInv
<1>9. TimeInv'
  BY <1>1, <1>2, <1>5 DEF TimeInv
<1> QED
  BY <1>6, <1>8, <1>9 DEF ClientInv

\* A row that failed was not sent.
LEMMA SendFailsKeeps == ASSUME ClientInv, SendFails PROVE ClientInv'
<1>1. TypeInv /\ PlaceInv /\ TimeInv
  BY DEF ClientInv
<1>2. /\ UNCHANGED <<file, kind, now, read, reachedEnd, startTimestamp, wire, sentAt, startedAt>>
      /\ at \in {"send first", "wait"} /\ at' = "crashed"
  BY DEF SendFails
<1>3. /\ read \in RowLines(file, kind)
      /\ Sent(ReplayedOf(wire, sentAt), file, kind, read - 1)
  BY <1>1, <1>2 DEF PlaceInv
<1>4. read - 1 \in 0 .. Len(file)
  BY <1>1, <1>3, RowOfLine DEF TypeInv
<1>5. TypeInv'
  BY <1>1, <1>2 DEF TypeInv
<1>6. PlaceInv'
  BY <1>2, <1>3, <1>4 DEF PlaceInv
<1>7. TimeInv'
  BY <1>1, <1>2 DEF TimeInv
<1> QED
  BY <1>5, <1>6, <1>7 DEF ClientInv

\* Time goes on.
LEMMA ClockTicksKeeps == ASSUME ClientInv, ClockTicks PROVE ClientInv'
<1>1. TypeInv /\ PlaceInv /\ TimeInv
  BY DEF ClientInv
<1>2. /\ UNCHANGED <<file, kind, read, reachedEnd, at, startTimestamp, wire, sentAt, startedAt>>
      /\ now < MaxTime /\ now' = now + 1
  BY DEF ClockTicks
<1>3. now \in StartTime .. MaxTime /\ StartTime \in Nat /\ MaxTime \in Nat
  BY <1>1, Numbers DEF TypeInv
<1>4. now' \in StartTime .. MaxTime /\ StartTime .. now \subseteq StartTime .. now'
  BY <1>2, <1>3
<1>5. TypeInv'
  BY <1>1, <1>2, <1>4 DEF TypeInv
<1>6. PlaceInv'
  BY <1>1, <1>2 DEF PlaceInv
<1>7. TimeInv'
  BY <1>1, <1>2, <1>4 DEF TimeInv
<1> QED
  BY <1>5, <1>6, <1>7 DEF ClientInv

\* Nothing happens.
LEMMA StutterKeeps == ASSUME ClientInv, UNCHANGED clientVars PROVE ClientInv'
BY DEF ClientInv, TypeInv, PlaceInv, TimeInv, clientVars

\* Every step preserves the invariant.
LEMMA StepKeeps == ClientInv /\ [ClientNext]_clientVars => ClientInv'
BY OpenFileKeeps, ConnectKeeps, ReadFirstKeeps, SendFirstKeeps, ReadRowKeeps, WaitKeeps,
   WakeUpKeeps, SendRowKeeps, SendFailsKeeps, ClockTicksKeeps, StutterKeeps
   DEF ClientNext, ClientStep

\* The inductive invariant holds in every reachable state.
THEOREM ClientInvariance == ClientSpec => []ClientInv
BY InitInv, StepKeeps, PTL DEF ClientSpec

-----------------------------------------------------------------------------
(* What the client promises.                                               *)

\* The types (MarketClient.cpp:8-32, CSVParser.cpp:5-106).
THEOREM ClientTypes == ClientSpec => []ClientTypeOK
<1>1. ClientInv => ClientTypeOK
  BY DEF ClientInv, TypeInv, ClientTypeOK
<1> QED
  BY <1>1, ClientInvariance, PTL

\* At every place of run, the frames sent stand for the rows of some first lines.
LEMMA SentSoFar ==
  ASSUME ClientInv
  PROVE  \E n \in 0 .. Len(file) : Sent(ReplayedOf(wire, sentAt), file, kind, n)
<1> DEFINE replayed == ReplayedOf(wire, sentAt)
<1>1. TypeInv /\ PlaceInv
  BY DEF ClientInv
<1>2. file \in Files /\ Len(file) \in Nat /\ read \in 0 .. Len(file)
  BY <1>1, Numbers DEF TypeInv
<1>3. CASE at \in {"open", "connect", "first"}
  <2>1. replayed = <<>>
    BY <1>1, <1>3 DEF PlaceInv
  <2>2. 0 \in 0 .. Len(file) /\ Sent(<<>>, file, kind, 0)
    BY <1>2, NoneSent
  <2> HIDE DEF replayed
  <2>3. Sent(replayed, file, kind, 0)
    BY <2>1, <2>2
  <2> QED
    BY <2>2, <2>3 DEF replayed
<1>4. CASE at \in {"send first", "wait", "sleep"}
  <2>1. read \in RowLines(file, kind) /\ Sent(replayed, file, kind, read - 1)
    BY <1>1, <1>4 DEF PlaceInv
  <2>2. read - 1 \in 0 .. Len(file)
    BY <2>1, <1>2, RowOfLine
  <2> QED
    BY <2>1, <2>2
<1>5. CASE at \in {"read", "done"}
  <2>1. Sent(replayed, file, kind, read)
    BY <1>1, <1>5 DEF PlaceInv
  <2> QED
    BY <2>1, <1>2
<1>6. CASE at = "crashed"
  BY <1>1, <1>6 DEF PlaceInv
<1> QED
  BY <1>1, <1>3, <1>4, <1>5, <1>6 DEF TypeInv

\* How far the invariant says the client is, and what the property asks.
LEMMA InvReplaysTheRows == ASSUME ClientInv PROVE ReplaysTheRows
<1> DEFINE r == ReplayedOf(wire, sentAt)
           rows == Picked(file, RowLines(file, kind))
<1>1. file \in Files /\ IsSeq(wire)
  BY DEF ClientInv, TypeInv
<1>2. PICK n \in 0 .. Len(file) : Sent(r, file, kind, n)
  BY SentSoFar
<1>3. IsSeq(rows) /\ Len(r) <= Len(rows) /\ \A i \in 1 .. Len(r) : Says(r[i].message, rows[i])
  BY <1>1, <1>2, SentOfAll
<1>4. IsSeq(r)
  BY <1>1, ReplayedIsSeq
<1>5. at = "done" => Len(r) = Len(rows)
  <2>1. SUFFICES ASSUME at = "done" PROVE Len(r) = Len(rows)
    OBVIOUS
  <2>2. /\ Sent(r, file, kind, read)
        /\ RowsUpto(file, kind, read) = RowsUpto(file, kind, Len(file))
    BY <2>1 DEF ClientInv, PlaceInv
  <2>3. RowsUpto(file, kind, Len(file)) = rows
    BY <1>1, RowsAre
  <2> HIDE DEF r, rows
  <2> QED
    BY <2>2, <2>3 DEF Sent
<1>6. Replayed = r /\ Rows = rows
  BY ReplayedIs DEF Rows
<1> HIDE DEF r, rows
<1>7. DOMAIN r = 1 .. Len(r)
  BY <1>4 DEF IsSeq
<1> QED
  BY <1>3, <1>5, <1>6, <1>7 DEF ReplaysTheRows

\* Whatever the file, the other end gets its rows, each once and in order, and
\* all of them if the client gets to the end (MarketClient.cpp:8-32,
\* TradeClient.cpp:8-32, CSVParser.cpp:19-102).
THEOREM RowsAreReplayed == ClientSpec => []ReplaysTheRows
BY InvReplaysTheRows, ClientInvariance, PTL

\* No row is sent before its time, though startTimestamp may have wrapped around
\* (MarketClient.cpp:13, 19, 20, TradeClient.cpp:13, 19, 20).
THEOREM RowsAreNeverEarly == ClientSpec => []NeverEarly
<1>1. ASSUME ClientInv PROVE NeverEarly
  <2> DEFINE r == ReplayedOf(wire, sentAt)
             rows == Picked(file, RowLines(file, kind))
  <2>1. IsSeq(r)
    BY <1>1, ReplayedIsSeq DEF ClientInv, TypeInv
  <2>2. \A i \in 1 .. Len(r) : r[i].at - startedAt >= rows[i].timestamp - rows[1].timestamp
    BY <1>1 DEF ClientInv, TimeInv, InTime
  <2>3. Replayed = r /\ Rows = rows
    BY ReplayedIs DEF Rows
  <2> HIDE DEF r, rows
  <2>4. DOMAIN r = 1 .. Len(r)
    BY <2>1 DEF IsSeq
  <2> QED
    BY <2>2, <2>3, <2>4 DEF NeverEarly
<1> QED
  BY <1>1, ClientInvariance, PTL

-----------------------------------------------------------------------------
(* From the file to the book.                                              *)

\* The book after each of the first n items of r.
Books(b, r, n) ==
  b = [k \in 0 .. n |-> IF k = 0 THEN NewBook ELSE SetQuote(b[k - 1], r[k].message)]

\* The recursion has a value: there is no least number for which it has none.
LEMMA BooksExist ==
  ASSUME NEW r, NEW n \in Nat
  PROVE  \E b : Books(b, r, n)
<1> DEFINE Has(m) == \E b : Books(b, r, m)
           Lacks == {m \in Nat : ~Has(m)}
<1>1. SUFFICES ASSUME Lacks # {} PROVE FALSE
  OBVIOUS
<1>2. PICK m \in Lacks : \A k \in Lacks : m <= k
  BY <1>1, Least
<1>3. Has(0)
  <2> DEFINE b == [k \in 0 .. 0 |-> NewBook]
  <2>1. Books(b, r, 0)
    BY DEF Books
  <2> QED
    BY <2>1
<1>4. m \in Nat \ {0}
  <2> HIDE DEF Has
  <2> QED
    BY <1>2, <1>3
<1>5. Has(m - 1)
  <2>1. m - 1 \in Nat /\ ~(m <= m - 1)
    BY <1>4
  <2>2. m - 1 \notin Lacks
    BY <2>1, <1>2
  <2> HIDE DEF Has
  <2> QED
    BY <2>1, <2>2
<1>6. PICK b : Books(b, r, m - 1)
  BY <1>5
<1> DEFINE g == [k \in 0 .. m |-> IF k < m THEN b[k] ELSE SetQuote(b[m - 1], r[m].message)]
<1>7. ASSUME NEW k \in 0 .. m
      PROVE  g[k] = IF k = 0 THEN NewBook ELSE SetQuote(g[k - 1], r[k].message)
  <2>1. CASE k < m
    <3>1. k \in 0 .. m - 1 /\ g[k] = b[k] /\ (k # 0 => g[k - 1] = b[k - 1])
      BY <2>1, <1>4
    <3>2. b[k] = IF k = 0 THEN NewBook ELSE SetQuote(b[k - 1], r[k].message)
      BY <3>1, <1>6 DEF Books
    <3> QED
      BY <3>1, <3>2
  <2>2. CASE k = m
    BY <2>2, <1>4
  <2> QED
    BY <2>1, <2>2, <1>4
<1>8. Books(g, r, m)
  BY <1>7 DEF Books
<1>9. Has(m)
  BY <1>8
<1> QED
  BY <1>9, <1>2

\* The first n elements of a sequence.
LEMMA FirstOf ==
  ASSUME NEW w, IsSeq(w), NEW n \in 0 .. Len(w)
  PROVE  /\ Len(SubSeq(w, 1, n)) = n
         /\ \A i \in 1 .. n : SubSeq(w, 1, n)[i] = w[i]
<1> DEFINE T == {w[i] : i \in 1 .. Len(w)}
<1>1. w \in [1 .. Len(w) -> T] /\ Len(w) \in Nat
  BY DEF IsSeq
<1> HIDE DEF T
<1>2. w \in Seq(T)
  BY <1>1
<1> QED
  BY <1>2

\* The book counts its rows and shows the last of them.
LEMMA BookShowsWhatWasSaid ==
  ASSUME NEW r, NEW rows, Len(r) \in Nat, NEW s, Len(s) = Len(r), NEW b, Books(b, r, Len(r)),
         NEW I, \A i \in 1 .. Len(r) : i \in I <=> rows[i].symbol = symbol,
         \A i \in 1 .. Len(r) : s[i] = rows[i] /\ Says(r[i].message, rows[i])
  PROVE  LET own == Picked(s, I)
             shown == b[Len(r)]
         IN  /\ shown.quotesReceived = Len(own)
             /\ own # <<>> => Says(shown.latestQuote, Last(own))
<1> DEFINE Own(n) == PickedUpto(s, I, n)
           Good(n) == /\ b[n].quotesReceived = Len(Own(n))
                      /\ Own(n) # <<>> => Says(b[n].latestQuote, Last(Own(n)))
           Bad == {n \in 0 .. Len(r) : ~Good(n)}
<1>1. Bad = {}
  <2>1. SUFFICES ASSUME Bad # {} PROVE FALSE
    OBVIOUS
  <2>2. PICK n \in Bad : \A m \in Bad : n <= m
    <3>1. Bad \subseteq Nat
      OBVIOUS
    <3> HIDE DEF Bad
    <3> QED
      BY <3>1, <2>1, Least
  <2>3. Good(0)
    <3>1. Own(0) = <<>> /\ Len(Own(0)) = 0
      BY PickedNone, EmptyIsSeq
    <3>2. 0 \in 0 .. Len(r)
      OBVIOUS
    <3>3. b[0] = NewBook
      BY <3>2 DEF Books
    <3> HIDE DEF Own
    <3> QED
      BY <3>1, <3>3 DEF NewBook
  <2>4. n \in 1 .. Len(r) /\ n - 1 \in 0 .. Len(r) /\ n \in 0 .. Len(r) /\ ~(n <= n - 1)
    <3>1. n # 0
      <4> HIDE DEF Good
      <4> QED
        BY <2>2, <2>3
    <3> QED
      BY <3>1, <2>2
  <2>5. Good(n - 1)
    <3> HIDE DEF Good
    <3> QED
      BY <2>2, <2>4
  <2>6. b[n] = SetQuote(b[n - 1], r[n].message)
    BY <2>4 DEF Books
  <2>7. r[n].message.symbol = rows[n].symbol
    BY <2>4 DEF Says
  <2>8. CASE n \in I
    <3>1. b[n] = [latestQuote |-> r[n].message, quotesReceived |-> b[n - 1].quotesReceived + 1]
      BY <2>4, <2>6, <2>7, <2>8 DEF SetQuote
    <3>2. Own(n) = Append(Own(n - 1), s[n])
      BY <2>4, <2>8, PickedStep
    <3>3. IsSeq(Own(n - 1))
      BY <2>4, PickedIsSeq
    <3> HIDE DEF Own
    <3>4. Len(Own(n)) = Len(Own(n - 1)) + 1 /\ Own(n)[Len(Own(n - 1)) + 1] = s[n]
      BY <3>2, <3>3, AppendAny
    <3>5. Last(Own(n)) = s[n]
      BY <3>4 DEF Last
    <3>6. Says(r[n].message, s[n])
      BY <2>4
    <3>7. b[n].quotesReceived = Len(Own(n)) /\ b[n].latestQuote = r[n].message
      BY <3>1, <3>4, <2>5
    <3>8. Good(n)
      BY <3>5, <3>6, <3>7
    <3> QED
      BY <3>8, <2>2
  <2>9. CASE n \notin I
    <3>1. b[n] = b[n - 1]
      BY <2>4, <2>6, <2>7, <2>9 DEF SetQuote
    <3>2. Own(n) = Own(n - 1)
      BY <2>4, <2>9, PickedStep
    <3> HIDE DEF Own
    <3>3. Good(n)
      BY <3>1, <3>2, <2>5
    <3> QED
      BY <3>3, <2>2
  <2> QED
    BY <2>8, <2>9
<1>2. Good(Len(r))
  <2>1. Len(r) \in 0 .. Len(r)
    OBVIOUS
  <2> HIDE DEF Good
  <2> QED
    BY <2>1, <1>1
<1> QED
  BY <1>2 DEF Picked

\* A client, its wire and the book at the other end, for all files: the book has
\* counted the rows of its symbol that were sent and shows the last of them
\* (OrderBookService.cpp:18-23 behind MarketClient.cpp:8-32).
THEOREM BookShows == ClientSpec => []BookShowsTheFile
<1>1. ASSUME ClientInv PROVE BookShowsTheFile
  <2> DEFINE r == Replayed
             rows == Rows
             s == SubSeq(rows, 1, Len(r))
             I == {i \in 1 .. Len(r) : rows[i].symbol = symbol}
             book == CHOOSE b : b = [n \in 0 .. Len(r) |->
                       IF n = 0 THEN NewBook ELSE SetQuote(b[n - 1], r[n].message)]
  <2>1. IsSeq(r)
    BY <1>1, ReplayedIsSeq, ReplayedIs DEF ClientInv, TypeInv
  <2>2. IsSeq(rows)
    BY <1>1, SentSoFar, SentOfAll DEF ClientInv, TypeInv, Rows
  <2>3. Len(r) <= Len(rows) /\ \A i \in DOMAIN r : Says(r[i].message, rows[i])
    BY <1>1, InvReplaysTheRows DEF ReplaysTheRows
  <2> HIDE DEF r, rows
  <2>4. Len(r) \in Nat /\ Len(rows) \in Nat /\ DOMAIN r = 1 .. Len(r) /\ Len(r) \in 0 .. Len(rows)
    BY <2>1, <2>2, <2>3 DEF IsSeq
  <2>5. Len(s) = Len(r) /\ \A i \in 1 .. Len(r) : s[i] = rows[i]
    BY <2>2, <2>4, FirstOf
  <2>6. PICK g : Books(g, r, Len(r))
    BY <2>4, BooksExist
  <2>7. g = [n \in 0 .. Len(r) |->
               IF n = 0 THEN NewBook ELSE SetQuote(g[n - 1], r[n].message)]
    BY <2>6 DEF Books
  <2>8. book = [n \in 0 .. Len(r) |->
                  IF n = 0 THEN NewBook ELSE SetQuote(book[n - 1], r[n].message)]
    BY <2>7
  <2> HIDE DEF book
  <2>9. Books(book, r, Len(r))
    BY <2>8, Zenon DEF Books
  <2>10. \A i \in 1 .. Len(r) : i \in I <=> rows[i].symbol = symbol
    OBVIOUS
  <2> HIDE DEF s, I
  <2>11. \A i \in 1 .. Len(r) : s[i] = rows[i] /\ Says(r[i].message, rows[i])
    BY <2>3, <2>4, <2>5
  <2>12. /\ book[Len(r)].quotesReceived = Len(Picked(s, I))
         /\ Picked(s, I) # <<>> => Says(book[Len(r)].latestQuote, Last(Picked(s, I)))
    BY <2>4, <2>5, <2>9, <2>10, <2>11, BookShowsWhatWasSaid
  <2> QED
    BY <2>12 DEF BookShowsTheFile, book, s, I, r, rows
<1> QED
  BY <1>1, ClientInvariance, PTL

-----------------------------------------------------------------------------
(* The heartbeats.                                                         *)

\* A wait begins with a heartbeat and is planned no longer than HEARTBEAT_PER_MS.
LEMMA WaitBeats ==
  ASSUME ClientInv, Wait, StartTime > HEARTBEAT_PER_MS
  PROVE  \E i \in DOMAIN wire' : /\ DeserialiseMessage(wire'[i]).type = "HEARTBEAT"
                                 /\ wakeAt' - sentAt'[i] <= HEARTBEAT_PER_MS
<1> DEFINE rest == TimeToSend - now
           S == {HEARTBEAT_PER_MS, rest}
<1>1. TypeInv /\ at = "wait" /\ now < TimeToSend /\ wakeAt' = now + Min(S)
  BY DEF ClientInv, Wait, SleepsUntil
<1>2. read \in RowLines(file, kind)
  BY <1>1 DEF ClientInv, PlaceInv
<1>3. HEARTBEAT_PER_MS \in Nat
  BY ClientAssumption
<1>4. /\ now \in Nat /\ StartTime \in Nat /\ MaxTime \in Nat /\ Word \in Nat \ {0}
      /\ startTimestamp \in Nat /\ now \in StartTime .. MaxTime
  BY <1>1, Numbers DEF TypeInv
<1>5. now > HEARTBEAT_PER_MS
  BY <1>3, <1>4
<1>6. Sends(Heartbeat(now))
  BY <1>5 DEF Wait, SleepsUntil
<1>7. TimeToSend \in Nat
  <2>1. startTimestamp + file[read].timestamp \in Int
    BY <1>1, <1>2, <1>4, RowTime
  <2>2. (startTimestamp + file[read].timestamp) % Word \in 0 .. Word - 1
    BY <2>1, <1>4, WrapRange
  <2> QED
    BY <2>2, <1>4 DEF TimeToSend
<1>8. rest \in Nat
  BY <1>1, <1>4, <1>7
<1>9. Min(S) \in Nat /\ Min(S) <= HEARTBEAT_PER_MS
  <2> HIDE DEF rest
  <2>1. S \subseteq Nat /\ HEARTBEAT_PER_MS \in S
    BY <1>3, <1>8
  <2> HIDE DEF S
  <2> QED
    BY <2>1, LeastOf
<1> HIDE DEF S
<1>10. /\ IsSeq(wire') /\ Len(wire') = Len(wire) + 1 /\ Len(wire) \in Nat
       /\ wire'[Len(wire) + 1] = Serialise(Heartbeat(now)) /\ sentAt'[Len(wire) + 1] = now
  BY <1>1, <1>6, SendsFrame
<1>11. Len(wire) + 1 \in DOMAIN wire'
  BY <1>10 DEF IsSeq
<1>12. DeserialiseMessage(wire'[Len(wire) + 1]).type = "HEARTBEAT"
  BY <1>10, HeartbeatRoundTrip DEF Heartbeat
<1>13. wakeAt' - sentAt'[Len(wire) + 1] <= HEARTBEAT_PER_MS
  BY <1>1, <1>3, <1>4, <1>9, <1>10
<1> QED
  BY <1>11, <1>12, <1>13

\* A client that waits plans to wait no longer than HEARTBEAT_PER_MS after its
\* last heartbeat, if its clock is past the first HEARTBEAT_PER_MS: now is
\* compared with lastSentHeartbeatMS, which stays 0 (MarketClient.cpp:21-23,
\* TradeClient.cpp:21-23).
THEOREM BeatsGoOut ==
  ASSUME StartTime > HEARTBEAT_PER_MS
  PROVE  ClientSpec => []BeatsWhileWaiting
<1>1. ClientInit => BeatsWhileWaiting
  BY DEF ClientInit, BeatsWhileWaiting
<1>2. ASSUME ClientInv, BeatsWhileWaiting, [ClientNext]_clientVars PROVE BeatsWhileWaiting'
  <2>1. CASE Wait
    BY <2>1, <1>2, WaitBeats DEF BeatsWhileWaiting
  <2>2. CASE ClockTicks \/ UNCHANGED clientVars
    BY <2>2, <1>2 DEF BeatsWhileWaiting, ClockTicks, clientVars
  <2>3. CASE \/ OpenFile \/ Connect \/ ReadFirst \/ SendFirst
             \/ ReadRow \/ WakeUp \/ SendRow \/ SendFails
    <3>1. at' # "sleep"
      BY <2>3 DEF OpenFile, Connect, ReadFirst, SendFirst, ReadRow, ReadsUnto, WakeUp, SendRow,
                  SendsRowFrom, SendFails
    <3> QED
      BY <3>1 DEF BeatsWhileWaiting
  <2> QED
    BY <2>1, <2>2, <2>3, <1>2 DEF ClientNext, ClientStep
<1> QED
  BY <1>1, <1>2, ClientInvariance, PTL DEF ClientSpec
=============================================================================
