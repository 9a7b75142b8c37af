------------------------ MODULE ConcurrentQueueProofs ------------------------
(***************************************************************************)
(* Proofs about ConcurrentQueue, for every set of producers and every      *)
(* capacity: types, no race on a slot, and that the queue implements the   *)
(* safety part of BoundedFIFO whatever its acquire loads return.           *)
(***************************************************************************)
EXTENDS ConcurrentQueue, SequenceTheorems, TLAPS

\* Only the owner of the mutex is inside emplace, and only with an item to push.
OwnerIsInside ==
  \A p \in Producers : at[p] # "outside" => lock = p /\ sent[p] < MaxItems

\* What the two sides know of each other's index is old but safe: the queue is
\* no fuller than the producers think, and no emptier than the consumer thinks.
\* Past its check, each side knows that it has room, or an item.
KnowledgeIsSafe ==
  /\ head <= knownTail + Capacity
  /\ tail <= knownHead
  /\ \A p \in Producers : at[p] \in {"write", "publish"} => head < knownTail + Capacity
  /\ popping # "outside" => tail < knownHead

\* The published slots hold items; so does the slot about to be published, and
\* the item taken out is still the oldest.
SlotsHoldItems ==
  /\ \A i \in tail .. head - 1 : buffer[SlotOf(i)] \in Item
  /\ \A p \in Producers : at[p] = "publish" => buffer[SlotOf(head)] = <<p, sent[p] + 1>>
  /\ popping = "retire" => taken = buffer[SlotOf(tail)]

QueueInv ==
  /\ QueueTypeOK
  /\ OwnerIsInside
  /\ KnowledgeIsSafe
  /\ SlotsHoldItems

-----------------------------------------------------------------------------
(* Arithmetic of the ring's indices.                                       *)

\* The quotient and the remainder.
LEMMA Division ==
  ASSUME NEW S \in Nat \ {0}, NEW a \in Nat
  PROVE  /\ a = (S * (a \div S)) + (a % S)
         /\ a \div S \in Nat
         /\ a % S \in 0 .. S - 1
OBVIOUS

\* The remainder of a multiple plus a rest is the rest.
LEMMA RemainderOfSum ==
  ASSUME NEW S \in Nat \ {0}, NEW k \in Nat, NEW r \in 0 .. S - 1
  PROVE  ((k * S) + r) % S = r
OBVIOUS

\* A multiple of S between 0 and S - 1 is 0.
LEMMA MultipleBelow ==
  ASSUME NEW S \in Nat \ {0}, NEW k \in Int, 0 <= k * S, k * S < S
  PROVE  k = 0
OBVIOUS

\* A slot is an index of the buffer.
LEMMA SlotIsIndex ==
  ASSUME NEW n \in Nat
  PROVE  SlotOf(n) \in 0 .. Capacity
BY QueueAssumption, Division DEF QueueAssumption, SlotOf, SlotCount

\* One turn of the ring leads to the same slot.
LEMMA OneTurn ==
  ASSUME NEW n \in Nat
  PROVE  SlotOf(n + SlotCount) = SlotOf(n)
<1> DEFINE k == n \div SlotCount
           r == n % SlotCount
<1>1. SlotCount \in Nat \ {0}
  BY QueueAssumption DEF QueueAssumption, SlotCount
<1>2. n = (SlotCount * k) + r /\ k \in Nat /\ r \in 0 .. SlotCount - 1
  BY <1>1, Division
<1> HIDE DEF k, r
<1>3. n + SlotCount = ((k + 1) * SlotCount) + r
  BY <1>1, <1>2
<1>4. n % SlotCount = r /\ (n + SlotCount) % SlotCount = r
  <2>1. n = (k * SlotCount) + r
    BY <1>1, <1>2
  <2>2. ((k * SlotCount) + r) % SlotCount = r
    BY <1>1, <1>2, RemainderOfSum
  <2>3. (((k + 1) * SlotCount) + r) % SlotCount = r
    BY <1>1, <1>2, RemainderOfSum
  <2> QED
    BY <1>3, <2>1, <2>2, <2>3
<1> QED
  BY <1>4 DEF SlotOf

\* Less than a turn apart, different counts are different slots.
LEMMA SlotsDiffer ==
  ASSUME NEW m \in Nat, NEW n \in Nat, m < n, n - m <= Capacity
  PROVE  SlotOf(m) # SlotOf(n)
<1> SUFFICES ASSUME SlotOf(m) = SlotOf(n) PROVE FALSE
  OBVIOUS
<1> DEFINE x == m \div SlotCount
           y == n \div SlotCount
           r == m % SlotCount
<1>1. SlotCount \in Nat \ {0} /\ n - m < SlotCount
  BY QueueAssumption DEF QueueAssumption, SlotCount
<1>2. m = (SlotCount * x) + r /\ x \in Nat /\ r \in 0 .. SlotCount - 1
  BY <1>1, Division
<1>3. n = (SlotCount * y) + (n % SlotCount) /\ y \in Nat
  BY <1>1, Division
<1>4. n % SlotCount = r
  BY DEF SlotOf
<1> HIDE DEF x, y, r
<1>5. n - m = (y - x) * SlotCount
  BY <1>1, <1>2, <1>3, <1>4
<1>6. y - x = 0
  BY <1>1, <1>2, <1>3, <1>5, MultipleBelow
<1> QED
  BY <1>1, <1>2, <1>3, <1>5, <1>6

-----------------------------------------------------------------------------
(* The invariant.                                                          *)

\* What the invariant says of the counts and the constants.
LEMMA Ranges ==
  ASSUME QueueInv
  PROVE  /\ Capacity \in Nat \ {0} /\ MaxItems \in Nat
         /\ head \in Nat /\ tail \in Nat /\ knownTail \in Nat /\ knownHead \in Nat
         /\ tail <= head /\ head <= tail + Capacity
         /\ knownTail <= tail /\ knownHead <= head
BY QueueAssumption DEF QueueAssumption, QueueInv, QueueTypeOK

\* No two producers are inside.
LEMMA OneInside ==
  ASSUME QueueInv, NEW p \in Producers, NEW q \in Producers,
         at[p] # "outside", at[q] # "outside"
  PROVE  p = q
BY DEF QueueInv, OwnerIsInside

\* The invariant holds initially.
LEMMA InitEstablishes ==
  QueueInit => QueueInv
<1> SUFFICES ASSUME QueueInit PROVE QueueInv
  OBVIOUS
<1> USE QueueAssumption DEF QueueAssumption, QueueInit
<1>1. QueueTypeOK
  BY DEF QueueTypeOK
<1>2. OwnerIsInside /\ KnowledgeIsSafe
  BY DEF OwnerIsInside, KnowledgeIsSafe
<1>3. SlotsHoldItems
  BY DEF SlotsHoldItems
<1> QED
  BY <1>1, <1>2, <1>3 DEF QueueInv

\* Taking the mutex: nobody was inside.
LEMMA EnterKeeps ==
  ASSUME QueueInv, NEW p \in Producers, Enter(p)
  PROVE  QueueInv'
<1> USE QueueAssumption DEF QueueAssumption, QueueInv, Enter
<1>1. QueueTypeOK'
  BY DEF QueueTypeOK
<1>2. \A q \in Producers : at[q] = "outside" /\ at'[q] = IF q = p THEN "check" ELSE "outside"
  BY DEF OwnerIsInside, QueueTypeOK
<1>3. OwnerIsInside' /\ KnowledgeIsSafe'
  BY <1>2 DEF OwnerIsInside, KnowledgeIsSafe
<1>4. SlotsHoldItems'
  BY <1>2 DEF SlotsHoldItems
<1> QED
  BY <1>1, <1>3, <1>4

\* The check of emplace: a slot that is not the tail's, however old the value
\* loaded from tail, is free.
LEMMA CheckKeeps ==
  ASSUME QueueInv, NEW p \in Producers, NEW seen \in knownTail .. tail, Check(p, seen)
  PROVE  QueueInv'
<1> USE DEF Check
<1>1. seen \in Nat /\ seen <= tail /\ knownTail <= seen
  BY Ranges
<1>2. QueueTypeOK'
  <2>1. lock' \in Producers \cup {NoOne} /\ knownTail' \in 0 .. tail'
    BY <1>1 DEF QueueInv, QueueTypeOK
  <2>2. at' \in [Producers -> {"outside", "check", "write", "publish"}]
    BY DEF QueueInv, QueueTypeOK
  <2> QED
    BY <2>1, <2>2 DEF QueueInv, QueueTypeOK
<1>3. head <= seen + Capacity
  BY <1>1, Ranges DEF QueueInv, KnowledgeIsSafe
<1>4. SlotOf(head + 1) # SlotOf(seen) => head < seen + Capacity
  <2> SUFFICES ASSUME head >= seen + Capacity PROVE SlotOf(head + 1) = SlotOf(seen)
    BY <1>1, Ranges
  <2>1. head + 1 = seen + SlotCount
    BY <1>1, <1>3, Ranges DEF SlotCount
  <2> QED
    BY <1>1, <2>1, OneTurn
<1>5. \A q \in Producers : q # p => at[q] = "outside" /\ at'[q] = "outside"
  BY OneInside DEF QueueInv, QueueTypeOK
<1>6. at'[p] \in {"outside", "write"}
  BY DEF QueueInv, QueueTypeOK
<1>7. at'[p] = "write" => head < knownTail' + Capacity /\ lock' = lock
  BY <1>4 DEF QueueInv, QueueTypeOK
<1>8. OwnerIsInside'
  BY <1>5, <1>6, <1>7 DEF QueueInv, OwnerIsInside
<1>9. KnowledgeIsSafe'
  BY <1>3, <1>5, <1>6, <1>7 DEF QueueInv, KnowledgeIsSafe
<1>10. SlotsHoldItems'
  BY <1>5, <1>6 DEF QueueInv, SlotsHoldItems
<1> QED
  BY <1>2, <1>8, <1>9, <1>10 DEF QueueInv

\* The published slots are not the slot that is being written.
LEMMA WriteMissesContent ==
  ASSUME QueueInv, NEW p \in Producers, Write(p)
  PROVE  /\ buffer' = [buffer EXCEPT ![SlotOf(head)] = <<p, sent[p] + 1>>]
         /\ <<p, sent[p] + 1>> \in Item
         /\ head - tail < Capacity
         /\ \A i \in tail .. head - 1 : buffer'[SlotOf(i)] = buffer[SlotOf(i)]
<1> USE DEF Write
<1>1. sent[p] \in 0 .. MaxItems /\ sent[p] < MaxItems
  BY DEF QueueInv, QueueTypeOK, OwnerIsInside
<1>2. <<p, sent[p] + 1>> \in Item
  BY <1>1, Ranges DEF Item
<1>3. head - tail < Capacity
  BY Ranges DEF QueueInv, KnowledgeIsSafe
<1>4. ASSUME NEW i \in tail .. head - 1
      PROVE  buffer'[SlotOf(i)] = buffer[SlotOf(i)]
  <2>1. i \in Nat /\ i < head /\ head - i <= Capacity
    BY Ranges
  <2>2. SlotOf(i) # SlotOf(head)
    BY <2>1, Ranges, SlotsDiffer
  <2>3. SlotOf(i) \in 0 .. Capacity
    BY <2>1, SlotIsIndex
  <2> QED
    BY <2>2, <2>3 DEF QueueInv, QueueTypeOK
<1> QED
  BY <1>2, <1>3, <1>4

\* The assignment to the slot.
LEMMA WriteKeeps ==
  ASSUME QueueInv, NEW p \in Producers, Write(p)
  PROVE  QueueInv'
<1> USE DEF Write
<1>1. SlotOf(head) \in 0 .. Capacity
  BY Ranges, SlotIsIndex
<1>2. QueueTypeOK'
  BY <1>1, WriteMissesContent DEF QueueInv, QueueTypeOK
<1>3. \A q \in Producers : q # p => at[q] = "outside" /\ at'[q] = "outside"
  BY OneInside DEF QueueInv, QueueTypeOK
<1>4. at'[p] = "publish"
  BY DEF QueueInv, QueueTypeOK
<1>5. OwnerIsInside' /\ KnowledgeIsSafe'
  BY <1>3 DEF QueueInv, OwnerIsInside, KnowledgeIsSafe
<1>6. \A i \in tail' .. head' - 1 : buffer'[SlotOf(i)] \in Item
  BY WriteMissesContent DEF QueueInv, SlotsHoldItems
<1>7. buffer'[SlotOf(head)] = <<p, sent[p] + 1>>
  BY <1>1 DEF QueueInv, QueueTypeOK
<1>8. popping' = "retire" => taken' = buffer'[SlotOf(tail')]
  <2> SUFFICES ASSUME popping = "retire" PROVE taken = buffer'[SlotOf(tail)]
    OBVIOUS
  <2>1. tail \in tail .. head - 1
    BY Ranges DEF QueueInv, KnowledgeIsSafe
  <2> QED
    BY <2>1, WriteMissesContent DEF QueueInv, SlotsHoldItems
<1>9. SlotsHoldItems'
  BY <1>3, <1>6, <1>7, <1>8 DEF SlotsHoldItems
<1> QED
  BY <1>2, <1>5, <1>9 DEF QueueInv

\* The store of head.
LEMMA PublishKeeps ==
  ASSUME QueueInv, NEW p \in Producers, Publish(p)
  PROVE  QueueInv'
<1> USE DEF Publish
<1>1. sent[p] \in 0 .. MaxItems /\ sent[p] < MaxItems /\ sent[p] + 1 \in 0 .. MaxItems
  BY Ranges DEF QueueInv, QueueTypeOK, OwnerIsInside
<1>2. head < knownTail + Capacity
  BY DEF QueueInv, KnowledgeIsSafe
<1>3. QueueTypeOK'
  <2>1. head' \in tail' .. tail' + Capacity /\ knownHead' \in 0 .. head'
    BY <1>2, Ranges DEF QueueInv, QueueTypeOK
  <2>2. sent' \in [Producers -> 0 .. MaxItems]
    BY <1>1 DEF QueueInv, QueueTypeOK
  <2> QED
    BY <2>1, <2>2 DEF QueueInv, QueueTypeOK
<1>4. \A q \in Producers : at'[q] = "outside"
  BY OneInside DEF QueueInv, QueueTypeOK
<1>5. OwnerIsInside' /\ KnowledgeIsSafe'
  BY <1>2, <1>4, Ranges DEF QueueInv, OwnerIsInside, KnowledgeIsSafe
<1>6. buffer[SlotOf(head)] \in Item
  <2>1. buffer[SlotOf(head)] = <<p, sent[p] + 1>>
    BY DEF QueueInv, SlotsHoldItems
  <2>2. sent[p] + 1 \in 1 .. MaxItems
    BY <1>1, Ranges
  <2> QED
    BY <2>1, <2>2 DEF Item
<1>7. SlotsHoldItems'
  BY <1>4, <1>6, Ranges DEF QueueInv, SlotsHoldItems
<1> QED
  BY <1>3, <1>5, <1>7 DEF QueueInv

\* The check of pop: an index that is not the tail's, however old the value
\* loaded from head, is that of an item.
LEMMA LookKeeps ==
  ASSUME QueueInv, NEW seen \in knownHead .. head, Look(seen)
  PROVE  QueueInv'
<1> USE DEF Look
<1>1. seen \in Nat /\ seen <= head /\ tail <= seen
  BY Ranges DEF QueueInv, KnowledgeIsSafe
<1>2. QueueTypeOK'
  BY <1>1 DEF QueueInv, QueueTypeOK
<1>3. popping' # "outside" => tail < seen
  BY <1>1, Ranges
<1>4. OwnerIsInside' /\ KnowledgeIsSafe'
  BY <1>1, <1>3 DEF QueueInv, OwnerIsInside, KnowledgeIsSafe
<1>5. SlotsHoldItems'
  BY DEF QueueInv, SlotsHoldItems
<1> QED
  BY <1>2, <1>4, <1>5 DEF QueueInv

\* The move out of the slot.
LEMMA MoveKeeps ==
  ASSUME QueueInv, Move
  PROVE  QueueInv'
<1> USE DEF Move
<1>1. SlotOf(tail) \in 0 .. Capacity
  BY Ranges, SlotIsIndex
<1>2. QueueTypeOK'
  BY <1>1 DEF QueueInv, QueueTypeOK
<1>3. OwnerIsInside' /\ KnowledgeIsSafe'
  BY DEF QueueInv, OwnerIsInside, KnowledgeIsSafe
<1>4. SlotsHoldItems'
  BY DEF QueueInv, SlotsHoldItems
<1> QED
  BY <1>2, <1>3, <1>4 DEF QueueInv

\* The store of tail.
LEMMA RetireKeeps ==
  ASSUME QueueInv, Retire
  PROVE  QueueInv'
<1> USE DEF Retire
<1>1. tail < knownHead
  BY DEF QueueInv, KnowledgeIsSafe
<1>2. taken \in Item
  BY <1>1, Ranges DEF QueueInv, SlotsHoldItems
<1>3. QueueTypeOK'
  <2>1. tail' \in Nat /\ head' \in tail' .. tail' + Capacity /\ knownTail' \in 0 .. tail'
    BY <1>1, Ranges DEF QueueInv, QueueTypeOK
  <2>2. received' \in Seq(Item)
    BY <1>2, AppendProperties DEF QueueInv, QueueTypeOK
  <2> QED
    BY <2>1, <2>2 DEF QueueInv, QueueTypeOK
<1>4. OwnerIsInside' /\ KnowledgeIsSafe'
  BY <1>1, Ranges DEF QueueInv, OwnerIsInside, KnowledgeIsSafe
<1>5. SlotsHoldItems'
  BY Ranges DEF QueueInv, SlotsHoldItems
<1> QED
  BY <1>3, <1>4, <1>5 DEF QueueInv

\* Every step keeps the invariant.
LEMMA StepKeeps ==
  QueueInv /\ [QueueNext]_queueVars => QueueInv'
<1> SUFFICES ASSUME QueueInv, [QueueNext]_queueVars PROVE QueueInv'
  OBVIOUS
<1>1. CASE UNCHANGED queueVars
  BY <1>1 DEF queueVars, QueueInv, QueueTypeOK, OwnerIsInside, KnowledgeIsSafe,
              SlotsHoldItems
<1>2. ASSUME NEW p \in Producers, Emplace(p) PROVE QueueInv'
  BY <1>2, EnterKeeps, CheckKeeps, WriteKeeps, PublishKeeps DEF Emplace, CheckAny
<1>3. CASE PopStep
  BY <1>3, LookKeeps, MoveKeeps, RetireKeeps DEF PopStep, LookAny
<1> QED
  BY <1>1, <1>2, <1>3 DEF QueueNext

\* The invariant holds always.
LEMMA Invariance ==
  QueueSpec => []QueueInv
BY InitEstablishes, StepKeeps, PTL DEF QueueSpec

-----------------------------------------------------------------------------
(* The queue as a sequence of items.                                       *)

\* The published slots, oldest first, as a sequence of items.
ContentIsItems ==
  /\ Content \in Seq(Item)
  /\ Len(Content) = head - tail
  /\ \A i \in 1 .. head - tail : Content[i] = buffer[SlotOf(tail + i - 1)]

\* The published slots are a sequence, in every state of the invariant.
LEMMA ContentIsSeq ==
  QueueInv => ContentIsItems
<1> SUFFICES ASSUME QueueInv PROVE ContentIsItems
  OBVIOUS
<1>1. head - tail \in Nat
  BY Ranges
<1>2. ASSUME NEW i \in 1 .. head - tail
      PROVE  buffer[SlotOf(tail + i - 1)] \in Item
  <2>1. tail + i - 1 \in tail .. head - 1
    BY Ranges
  <2> QED
    BY <2>1 DEF QueueInv, SlotsHoldItems
<1>3. Content \in [1 .. head - tail -> Item]
  BY <1>2 DEF Content
<1>4. Content \in Seq(Item)
  BY <1>1, <1>3, SeqDef
<1>5. Len(Content) = head - tail
  BY <1>1, <1>4 DEF Content
<1> QED
  BY <1>4, <1>5 DEF Content, ContentIsItems

\* The store of head makes the written slot the last item.
LEMMA PublishPushes ==
  ASSUME QueueInv, NEW p \in Producers, Publish(p)
  PROVE  Fifo!Push(p)
<1> USE DEF Publish
<1>0. ContentIsItems
  BY ContentIsSeq
<1>1. QueueInv'
  BY PublishKeeps
<1>2. sent[p] \in 0 .. MaxItems /\ sent[p] < MaxItems
  BY DEF QueueInv, QueueTypeOK, OwnerIsInside
<1>3. Len(Content) < Capacity
  BY <1>0, Ranges DEF QueueInv, KnowledgeIsSafe, ContentIsItems
<1>4. <<p, sent[p] + 1>> \in Item
  BY <1>2, Ranges DEF Item
<1>5. /\ Content' \in Seq(Item)
      /\ Len(Content') = head' - tail'
      /\ \A i \in 1 .. head' - tail' : Content'[i] = buffer'[SlotOf(tail' + i - 1)]
  <2>1. ContentIsItems'
    BY <1>1, ContentIsSeq, PTL
  <2> QED
    BY <2>1 DEF ContentIsItems
<1> DEFINE pushed == Append(Content, <<p, sent[p] + 1>>)
<1>6. /\ pushed \in Seq(Item)
      /\ Len(pushed) = Len(Content) + 1
      /\ \A i \in 1 .. Len(Content) : pushed[i] = Content[i]
      /\ pushed[Len(Content) + 1] = <<p, sent[p] + 1>>
  BY <1>4, <1>0, AppendProperties DEF ContentIsItems
<1> HIDE DEF pushed
<1>7. Len(Content') = Len(pushed) /\ head' - tail' = head - tail + 1
  BY <1>5, <1>6, <1>0, Ranges DEF ContentIsItems
<1>8. ASSUME NEW i \in 1 .. Len(Content') PROVE Content'[i] = pushed[i]
  <2>1. Content'[i] = buffer[SlotOf(tail + i - 1)]
    BY <1>5
  <2>2. CASE i <= head - tail
    BY <1>6, <2>1, <2>2, <1>0 DEF ContentIsItems
  <2>3. CASE i = head - tail + 1
    <3>1. tail + i - 1 = head
      BY <2>3, Ranges
    <3>2. Content'[i] = <<p, sent[p] + 1>>
      BY <2>1, <3>1 DEF QueueInv, SlotsHoldItems
    <3> QED
      BY <1>6, <2>3, <3>2, <1>0 DEF ContentIsItems
  <2> QED
    BY <1>5, <1>7, <2>2, <2>3, Ranges
<1>9. Content' = pushed
  BY <1>5, <1>6, <1>7, <1>8, SeqEqual
<1> QED
  BY <1>2, <1>3, <1>9 DEF Fifo!Push, pushed

\* The store of tail removes the first item, which is the one taken.
LEMMA RetirePops ==
  ASSUME QueueInv, Retire
  PROVE  Fifo!Pop
<1> USE DEF Retire
<1>0. ContentIsItems
  BY ContentIsSeq
<1>1. QueueInv'
  BY RetireKeeps
<1>2. tail < head
  BY Ranges DEF QueueInv, KnowledgeIsSafe
<1>3. Content # <<>> /\ Head(Content) = taken
  <2>1. Len(Content) >= 1 /\ Content \in Seq(Item)
    BY <1>2, <1>0, Ranges DEF ContentIsItems
  <2>2. Content[1] = buffer[SlotOf(tail)]
    BY <1>2, <1>0, Ranges DEF ContentIsItems
  <2> QED
    BY <2>1, <2>2 DEF QueueInv, SlotsHoldItems
<1>4. /\ Tail(Content) \in Seq(Item)
      /\ Len(Tail(Content)) = head - tail - 1
      /\ \A i \in 1 .. head - tail - 1 : Tail(Content)[i] = Content[i + 1]
  BY <1>3, <1>0, HeadTailProperties DEF ContentIsItems
<1>5. /\ Content' \in Seq(Item)
      /\ Len(Content') = head' - tail'
      /\ \A i \in 1 .. head' - tail' : Content'[i] = buffer'[SlotOf(tail' + i - 1)]
  <2>1. ContentIsItems'
    BY <1>1, ContentIsSeq, PTL
  <2> QED
    BY <2>1 DEF ContentIsItems
<1>6. head' - tail' = head - tail - 1
  BY Ranges
<1>7. ASSUME NEW i \in 1 .. head - tail - 1 PROVE Content'[i] = Tail(Content)[i]
  <2>1. tail' + i - 1 = tail + (i + 1) - 1 /\ i + 1 \in 1 .. head - tail
    <3>1. tail' = tail + 1 /\ tail \in Nat /\ head \in Nat /\ i \in Int
      BY Ranges
    <3> HIDE DEF Retire
    <3> QED
      BY <3>1
  <2>2. Content'[i] = buffer[SlotOf(tail + (i + 1) - 1)]
    BY <1>5, <1>6, <2>1
  <2> QED
    BY <1>4, <2>1, <2>2, <1>0 DEF ContentIsItems
<1>8. Content' = Tail(Content)
  BY <1>4, <1>5, <1>6, <1>7, SeqEqual
<1> QED
  BY <1>3, <1>8 DEF Fifo!Pop

\* The assignment to the free slot changes nothing that is in the queue.
LEMMA WriteIsInvisible ==
  ASSUME QueueInv, NEW p \in Producers, Write(p)
  PROVE  UNCHANGED Content
<1> USE DEF Write
<1>1. ASSUME NEW i \in 1 .. head - tail
      PROVE  buffer'[SlotOf(tail' + i - 1)] = buffer[SlotOf(tail + i - 1)]
  <2>1. tail + i - 1 \in tail .. head - 1
    BY Ranges
  <2> QED
    BY <2>1, WriteMissesContent
<1> QED
  BY <1>1 DEF Content

-----------------------------------------------------------------------------
(* The theorems.                                                           *)

\* The indices stay within a turn of each other and of what each side knows of
\* them, and every variable keeps its type.
THEOREM QueueTypes ==
  QueueSpec => []QueueTypeOK
<1>1. QueueInv => QueueTypeOK
  BY DEF QueueInv
<1> QED
  BY <1>1, Invariance, PTL

\* The unsynchronised accesses to the slots never meet: the mutex keeps the
\* producers apart, the two indices keep the producer from the consumer.
THEOREM QueueHasNoSlotRace ==
  QueueSpec => []NoSlotRace
<1>1. ASSUME QueueInv PROVE NoSlotRace
  <2>1. ASSUME NEW p \in Producers, NEW q \in Producers,
               at[p] = "write", at[q] \in {"write", "publish"}
        PROVE  p = q
    BY <1>1, <2>1, OneInside
  <2>2. ASSUME NEW p \in Producers, at[p] = "write", popping = "move"
        PROVE  SlotOf(head) # SlotOf(tail)
    <3>1. tail < head /\ head - tail <= Capacity
      BY <1>1, <2>2, Ranges DEF QueueInv, KnowledgeIsSafe
    <3> QED
      BY <1>1, <3>1, Ranges, SlotsDiffer
  <2> QED
    BY <2>1, <2>2 DEF NoSlotRace
<1> QED
  BY <1>1, Invariance, PTL

\* The queue implements a bounded FIFO channel: publishing is the push, retiring
\* is the pop, and no other access of either side can be seen.
THEOREM QueueIsFIFO ==
  QueueSpec => ImplementsFIFO
<1>1. QueueInit => Fifo!FifoInit
  BY DEF QueueInit, Fifo!FifoInit, Content
<1>2. QueueInv /\ [QueueNext]_queueVars => [Fifo!FifoNext]_(Fifo!fifoVars)
  <2> SUFFICES ASSUME QueueInv, [QueueNext]_queueVars
               PROVE  [Fifo!FifoNext]_(Fifo!fifoVars)
    OBVIOUS
  <2>1. ASSUME UNCHANGED <<buffer, head, tail, sent, received>>
        PROVE  UNCHANGED Fifo!fifoVars
    BY <2>1 DEF Fifo!fifoVars, Content
  <2>2. CASE UNCHANGED queueVars
    BY <2>1, <2>2 DEF queueVars
  <2>3. ASSUME NEW p \in Producers, Emplace(p) PROVE [Fifo!FifoNext]_(Fifo!fifoVars)
    <3>1. CASE Enter(p)
      BY <2>1, <3>1 DEF Enter
    <3>2. CASE CheckAny(p)
      BY <2>1, <3>2 DEF CheckAny, Check
    <3>3. CASE Write(p)
      BY <3>3, WriteIsInvisible DEF Write, Fifo!fifoVars
    <3>4. CASE Publish(p)
      BY <3>4, PublishPushes DEF Fifo!FifoNext
    <3> QED
      BY <2>3, <3>1, <3>2, <3>3, <3>4 DEF Emplace
  <2>4. CASE LookAny
    BY <2>1, <2>4 DEF LookAny, Look
  <2>5. CASE Move
    BY <2>1, <2>5 DEF Move
  <2>6. CASE Retire
    BY <2>6, RetirePops DEF Fifo!FifoNext
  <2> QED
    BY <2>2, <2>3, <2>4, <2>5, <2>6 DEF QueueNext, PopStep
<1> QED
  BY <1>1, <1>2, Invariance, PTL DEF QueueSpec, ImplementsFIFO, Fifo!FifoSafety
=============================================================================
