-------------------- MODULE NetworkMessageReceiverProofs --------------------
(***************************************************************************)
(* Proofs about NetworkMessageReceiver, for every timeout, queue capacity, *)
(* set of clock differences and bound: types, the order of what is pushed, *)
(* the newest heartbeat, and that only a silent peer is closed as stale.   *)
(***************************************************************************)
EXTENDS NetworkMessageReceiver, SequenceTheorems, TLAPS

\* What is sent: a heartbeat's stamp is unsigned.
Message == [kind : {"heartbeat"}, timestamp : Nat] \cup {Other}

MessagesOK ==
  /\ channel \in Seq(Message)
  /\ batch \in Seq(Message)
  /\ messageQueue \in Seq(Message)
  /\ pushed \in Seq(Message)
  /\ sent \in Seq(Message)

\* lastHeartbeat in the terms of NewestBeatKept, with the maximum spelled out.
NewestOfPushed ==
  /\ StartTime <= lastHeartbeat
  /\ \A i \in DOMAIN pushed : IsHeartbeat(pushed[i]) => pushed[i].timestamp <= lastHeartbeat
  /\ \/ lastHeartbeat = StartTime
     \/ \E i \in DOMAIN pushed : IsHeartbeat(pushed[i]) /\ pushed[i].timestamp = lastHeartbeat

\* The peer stamps a heartbeat with its own clock when it sends it: no stamp is
\* ahead of that clock, and the last heartbeat's is sentBeatAt on it.
BeatsAreStamped ==
  /\ sentBeatAt \in StartTime .. now
  /\ \A i \in DOMAIN sent : IsHeartbeat(sent[i]) => sent[i].timestamp <= now + skew
  /\ \/ sentBeatAt = StartTime
     \/ \E i \in DOMAIN sent : sent[i] = Heartbeat(sentBeatAt + skew)

ReceiverInv ==
  /\ ReceiverTypeOK
  /\ MessagesOK
  /\ PushedInOrder
  /\ NewestOfPushed
  /\ BeatsAreStamped

-----------------------------------------------------------------------------
\* The numbers among the constants and the variables.
LEMMA Numbers ==
  ASSUME ReceiverTypeOK
  PROVE  /\ HeartbeatTimeoutMs \in Nat /\ InboundCapacity \in Nat \ {0}
         /\ StartTime \in Nat /\ MaxTime \in Nat
         /\ now \in Nat /\ StartTime <= now /\ now <= MaxTime
         /\ skew \in Int /\ StartTime + skew >= 0
         /\ lastHeartbeat \in Nat
<1>1. HeartbeatTimeoutMs \in Nat /\ InboundCapacity \in Nat \ {0} /\ lastHeartbeat \in Nat
  BY ReceiverAssumption DEF ReceiverAssumption, ReceiverTypeOK
<1>2. StartTime \in Nat /\ MaxTime \in Nat
  <2>1. MaxTime \in Nat /\ StartTime \in 0 .. MaxTime
    BY ReceiverAssumption DEF ReceiverAssumption
  <2> QED
    BY <2>1
<1>3. now \in Nat /\ StartTime <= now /\ now <= MaxTime
  <2>1. now \in StartTime .. MaxTime
    BY DEF ReceiverTypeOK
  <2> QED
    BY <1>2, <2>1
<1>4. skew \in Int /\ StartTime + skew >= 0
  BY ReceiverAssumption DEF ReceiverAssumption, ReceiverTypeOK
<1> QED
  BY <1>1, <1>2, <1>3, <1>4

\* A heartbeat of the peer is a message.
LEMMA HeartbeatIsMessage ==
  ASSUME NEW n \in Nat
  PROVE  Heartbeat(n) \in Message /\ IsHeartbeat(Heartbeat(n)) /\ Heartbeat(n).timestamp = n
BY DEF Heartbeat, Message, IsHeartbeat

\* A message that is not a heartbeat is no heartbeat.
LEMMA OtherIsMessage ==
  Other \in Message /\ ~IsHeartbeat(Other)
BY DEF Other, Message, IsHeartbeat

\* Moving the first element of s to the end of r leaves r \o s \o t as it was.
LEMMA MoveFirst ==
  ASSUME NEW S, NEW r \in Seq(S), NEW s \in Seq(S), NEW t \in Seq(S), s # <<>>
  PROVE  Append(r, Head(s)) \o Tail(s) \o t = r \o s \o t
<1>1. Head(s) \in S /\ Tail(s) \in Seq(S)
  BY HeadTailProperties
<1>2. Append(r, Head(s)) = r \o <<Head(s)>>
  BY <1>1, AppendIsConcat
<1>3. <<Head(s)>> \in Seq(S)
  BY <1>1
<1>4. <<Head(s)>> \o Tail(s) = s
  OBVIOUS
<1>5. (r \o <<Head(s)>>) \o Tail(s) = r \o (<<Head(s)>> \o Tail(s))
  BY <1>1, <1>3, ConcatAssociative
<1> QED
  BY <1>2, <1>4, <1>5

\* Splitting t in two leaves r \o t as it was.
LEMMA SplitTail ==
  ASSUME NEW S, NEW r \in Seq(S), NEW t \in Seq(S), NEW k \in 1 .. Len(t)
  PROVE  /\ SubSeq(t, 1, k) \in Seq(S) /\ SubSeq(t, 1, k) # <<>>
         /\ SubSeq(t, k + 1, Len(t)) \in Seq(S)
         /\ r \o SubSeq(t, 1, k) \o SubSeq(t, k + 1, Len(t)) = r \o t
<1> DEFINE first == SubSeq(t, 1, k)
           rest == SubSeq(t, k + 1, Len(t))
<1>1. Len(t) \in Nat /\ \A i \in 1 .. Len(t) : t[i] \in S
  BY LenProperties, ElementOfSeq
<1>2. SubSeq(t, 1, k) \in Seq(S) /\ Len(SubSeq(t, 1, k)) = k
  BY <1>1, SubSeqProperties
<1>3. SubSeq(t, k + 1, Len(t)) \in Seq(S)
  BY <1>1, SubSeqProperties
<1>4. SubSeq(t, 1, k) \o SubSeq(t, k + 1, Len(t)) = SubSeq(t, 1, Len(t))
  BY <1>1, ConcatAdjacentSubSeq
<1>5. SubSeq(t, 1, Len(t)) = t
  BY SubSeqFull
<1>6. SubSeq(t, 1, k) # <<>>
  BY <1>2
<1>7. (r \o first) \o rest = r \o (first \o rest)
  <2>1. first \in Seq(S) /\ rest \in Seq(S)
    BY <1>2, <1>3
  <2> HIDE DEF first, rest
  <2> QED
    BY <2>1, ConcatAssociative
<1> QED
  BY <1>2, <1>3, <1>4, <1>5, <1>6, <1>7

\* What is pushed is the beginning of what was sent.
LEMMA PushedIsPrefix ==
  ASSUME MessagesOK, PushedInOrder
  PROVE  /\ Len(pushed) \in Nat /\ Len(sent) \in Nat /\ Len(pushed) <= Len(sent)
         /\ DOMAIN pushed = 1 .. Len(pushed) /\ DOMAIN sent = 1 .. Len(sent)
         /\ \A i \in DOMAIN pushed : pushed[i] = sent[i]
<1>1. pushed \in Seq(Message) /\ batch \in Seq(Message) /\ channel \in Seq(Message)
  BY DEF MessagesOK
<1>2. sent = pushed \o (batch \o channel) /\ batch \o channel \in Seq(Message)
  <2>1. (pushed \o batch) \o channel = pushed \o (batch \o channel)
    BY <1>1, ConcatAssociative
  <2> QED
    BY <1>1, <2>1, ConcatProperties DEF PushedInOrder
<1> QED
  BY <1>1, <1>2, ConcatProperties, LenProperties DEF MessagesOK

-----------------------------------------------------------------------------
(* The invariant.                                                          *)

\* The invariant holds initially.
LEMMA InitEstablishes ==
  ReceiverInit => ReceiverInv
<1> SUFFICES ASSUME ReceiverInit PROVE ReceiverInv
  OBVIOUS
<1> USE ReceiverAssumption DEF ReceiverAssumption, ReceiverInit
<1>1. ReceiverTypeOK
  BY DEF ReceiverTypeOK
<1>2. MessagesOK
  BY DEF MessagesOK
<1>3. PushedInOrder
  BY DEF PushedInOrder
<1>4. NewestOfPushed /\ BeatsAreStamped
  BY DEF NewestOfPushed, BeatsAreStamped
<1> QED
  BY <1>1, <1>2, <1>3, <1>4 DEF ReceiverInv

\* What a message that is sent does to the history, whatever else it is.
LEMMA SendKeeps ==
  ASSUME ReceiverInv, NEW m \in Message, Send(m),
         m = Heartbeat(now + skew) \/ m = Other
  PROVE  ReceiverInv'
<1> USE DEF Send
<1>1. ReceiverTypeOK'
  BY DEF ReceiverInv, ReceiverTypeOK
<1>2. /\ sent' \in Seq(Message) /\ channel' \in Seq(Message)
      /\ Len(sent') = Len(sent) + 1 /\ Len(sent) \in Nat
      /\ \A i \in 1 .. Len(sent) : sent'[i] = sent[i]
      /\ sent'[Len(sent) + 1] = m
      /\ DOMAIN sent = 1 .. Len(sent) /\ DOMAIN sent' = 1 .. Len(sent) + 1
  BY AppendProperties, LenProperties DEF ReceiverInv, MessagesOK
<1>3. MessagesOK'
  BY <1>2 DEF ReceiverInv, MessagesOK
<1>4. PushedInOrder'
  <2> DEFINE front == pushed \o batch
  <2>1. front \in Seq(Message) /\ channel \in Seq(Message) /\ <<m>> \in Seq(Message)
    BY ConcatProperties DEF ReceiverInv, MessagesOK
  <2>2. Append(front \o channel, m) = (front \o channel) \o <<m>>
    BY <2>1, ConcatProperties, AppendIsConcat
  <2>3. front \o Append(channel, m) = front \o (channel \o <<m>>)
    BY <2>1, AppendIsConcat
  <2> HIDE DEF front
  <2>4. (front \o channel) \o <<m>> = front \o (channel \o <<m>>)
    BY <2>1, ConcatAssociative
  <2>5. front \o Append(channel, m) = Append(front \o channel, m)
    BY <2>2, <2>3, <2>4
  <2> QED
    BY <2>5 DEF ReceiverInv, PushedInOrder, front
<1>5. NewestOfPushed'
  BY DEF ReceiverInv, NewestOfPushed
<1>6. BeatsAreStamped'
  <2>1. now + skew \in Nat /\ now \in StartTime .. now
    BY Numbers DEF ReceiverInv
  <2>2. CASE m = Heartbeat(now + skew)
    <3>1. IsHeartbeat(m) /\ m.timestamp = now + skew
      BY <2>1, <2>2, HeartbeatIsMessage
    <3>2. sentBeatAt' = now
      BY <3>1
    <3> QED
      BY <1>2, <2>1, <2>2, <3>1, <3>2 DEF ReceiverInv, BeatsAreStamped
  <2>3. CASE m = Other
    <3>1. ~IsHeartbeat(m) /\ sentBeatAt' = sentBeatAt
      BY <2>3, OtherIsMessage
    <3> QED
      BY <1>2, <3>1 DEF ReceiverInv, BeatsAreStamped
  <2> QED
    BY <2>2, <2>3
<1> QED
  BY <1>1, <1>3, <1>4, <1>5, <1>6 DEF ReceiverInv

\* Time passes on both clocks.
LEMMA TickKeeps ==
  ASSUME ReceiverInv, ClockTicks
  PROVE  ReceiverInv'
<1> USE DEF ClockTicks
<1>1. ReceiverTypeOK'
  <2>1. now' \in StartTime .. MaxTime
    BY Numbers DEF ReceiverInv
  <2> QED
    BY <2>1 DEF ReceiverInv, ReceiverTypeOK
<1>2. BeatsAreStamped'
  <2>1. sentBeatAt' \in StartTime .. now'
    BY Numbers DEF ReceiverInv, BeatsAreStamped
  <2>2. ASSUME NEW i \in DOMAIN sent, IsHeartbeat(sent[i])
        PROVE  sent[i].timestamp <= now' + skew
    <3>1. sent[i] \in Message
      BY ElementOfSeq, LenProperties DEF ReceiverInv, MessagesOK
    <3>2. sent[i].timestamp \in Nat
      BY <2>2, <3>1 DEF Message, Other, IsHeartbeat
    <3>3. sent[i].timestamp <= now + skew
      BY <2>2 DEF ReceiverInv, BeatsAreStamped
    <3> QED
      BY <3>2, <3>3, Numbers DEF ReceiverInv
  <2> QED
    BY <2>1, <2>2 DEF ReceiverInv, BeatsAreStamped
<1> QED
  BY <1>1, <1>2 DEF ReceiverInv, MessagesOK, PushedInOrder, NewestOfPushed

\* recv returns the first part of what is on its way.
LEMMA ReceiveKeeps ==
  ASSUME ReceiverInv, Receive
  PROVE  ReceiverInv'
<1> PICK k \in 1 .. Len(channel) :
      /\ batch' = SubSeq(channel, 1, k)
      /\ channel' = SubSeq(channel, k + 1, Len(channel))
  BY DEF Receive
<1> USE DEF Receive
<1>1. batch = <<>>
  BY DEF ReceiverInv, ReceiverTypeOK
<1>2. /\ batch' \in Seq(Message) /\ batch' # <<>> /\ channel' \in Seq(Message)
      /\ pushed \o batch' \o channel' = pushed \o channel
  <2>1. pushed \in Seq(Message) /\ channel \in Seq(Message)
    BY DEF ReceiverInv, MessagesOK
  <2>2. /\ SubSeq(channel, 1, k) \in Seq(Message) /\ SubSeq(channel, 1, k) # <<>>
        /\ SubSeq(channel, k + 1, Len(channel)) \in Seq(Message)
        /\ pushed \o SubSeq(channel, 1, k) \o SubSeq(channel, k + 1, Len(channel))
             = pushed \o channel
    BY <2>1, SplitTail
  <2> QED
    BY <2>2
<1>3. pushed \o batch = pushed
  BY <1>1, ConcatEmptySeq DEF ReceiverInv, MessagesOK
<1>4. ReceiverTypeOK'
  BY <1>2 DEF ReceiverInv, ReceiverTypeOK
<1>5. MessagesOK' /\ PushedInOrder'
  BY <1>2, <1>3 DEF ReceiverInv, MessagesOK, PushedInOrder
<1>6. NewestOfPushed' /\ BeatsAreStamped'
  BY DEF ReceiverInv, NewestOfPushed, BeatsAreStamped
<1> QED
  BY <1>4, <1>5, <1>6 DEF ReceiverInv

\* One round of the push loop.
LEMMA DeliverKeeps ==
  ASSUME ReceiverInv, Deliver
  PROVE  ReceiverInv'
<1> USE DEF Deliver
<1> DEFINE m == Head(batch)
<1>1. batch # <<>>
  BY DEF ReceiverInv, ReceiverTypeOK
<1>2. m \in Message /\ Tail(batch) \in Seq(Message) /\ Len(Tail(batch)) = Len(batch) - 1
  BY <1>1, HeadTailProperties DEF ReceiverInv, MessagesOK
<1>3. IsHeartbeat(m) => m.timestamp \in Nat
  BY <1>2 DEF Message, Other, IsHeartbeat
<1>4. /\ pushed' \in Seq(Message)
      /\ Len(pushed') = Len(pushed) + 1 /\ Len(pushed) \in Nat
      /\ \A i \in 1 .. Len(pushed) : pushed'[i] = pushed[i]
      /\ pushed'[Len(pushed) + 1] = m
      /\ DOMAIN pushed = 1 .. Len(pushed) /\ DOMAIN pushed' = 1 .. Len(pushed) + 1
  BY <1>2, AppendProperties, LenProperties DEF ReceiverInv, MessagesOK
<1>5. messageQueue' \in Seq(Message) /\ Len(messageQueue') <= InboundCapacity
  <2>1. messageQueue \in Seq(Message) /\ Len(messageQueue) \in Nat
    BY LenProperties DEF ReceiverInv, MessagesOK
  <2>2. messageQueue' \in Seq(Message) /\ Len(messageQueue') = Len(messageQueue) + 1
    BY <1>2, <2>1, AppendProperties
  <2> QED
    BY <2>1, <2>2, Numbers DEF ReceiverInv
<1>6. MessagesOK'
  BY <1>2, <1>4, <1>5 DEF ReceiverInv, MessagesOK, netVars
<1>7. PushedInOrder'
  <2>1. pushed \in Seq(Message) /\ batch \in Seq(Message) /\ channel \in Seq(Message)
    BY DEF ReceiverInv, MessagesOK
  <2>2. Append(pushed, Head(batch)) \o Tail(batch) \o channel = pushed \o batch \o channel
    <3> HIDE DEF Deliver
    <3> QED
      BY <1>1, <2>1, MoveFirst
  <2> QED
    BY <2>2 DEF ReceiverInv, PushedInOrder, netVars
<1>8. lastHeartbeat' \in Nat /\ lastHeartbeat <= lastHeartbeat'
  BY <1>3, Numbers DEF ReceiverInv, NewestBeat
<1>9. ReceiverTypeOK'
  <2>1. Len(batch) = 1 => batch' = <<>>
    BY <1>2
  <2>2. Len(batch) # 1 => batch' # <<>>
    <3>1. batch' = <<>> => Len(batch') = 0
      OBVIOUS
    <3>2. Len(batch) \in Nat
      BY LenProperties DEF ReceiverInv, MessagesOK
    <3> QED
      BY <1>2, <3>1, <3>2 DEF Deliver
  <2>3. at' \in {"deliver", "check"} /\ (at' = "deliver" <=> batch' # <<>>)
    BY <2>1, <2>2
  <2> QED
    BY <1>5, <1>8, <2>3 DEF ReceiverInv, ReceiverTypeOK, netVars
<1>10. NewestOfPushed'
  <2>1. /\ IsHeartbeat(m) => m.timestamp <= lastHeartbeat'
        /\ lastHeartbeat' = lastHeartbeat
             \/ (IsHeartbeat(m) /\ lastHeartbeat' = m.timestamp)
    BY <1>3, Numbers DEF ReceiverInv, NewestBeat
  <2>2. ASSUME NEW i \in 1 .. Len(pushed), IsHeartbeat(pushed[i])
        PROVE  pushed[i].timestamp <= lastHeartbeat'
    <3>1. pushed[i] \in Message
      BY ElementOfSeq DEF ReceiverInv, MessagesOK
    <3>2. pushed[i].timestamp \in Nat
      BY <2>2, <3>1 DEF Message, Other, IsHeartbeat
    <3>3. pushed[i].timestamp <= lastHeartbeat
      BY <1>4, <2>2 DEF ReceiverInv, NewestOfPushed
    <3> QED
      BY <1>8, <3>2, <3>3, Numbers DEF ReceiverInv
  <2>3. StartTime <= lastHeartbeat'
    BY <1>8, Numbers DEF ReceiverInv, NewestOfPushed
  <2>4. \A i \in DOMAIN pushed' : IsHeartbeat(pushed'[i]) => pushed'[i].timestamp <= lastHeartbeat'
    BY <1>4, <2>1, <2>2
  <2>5. \/ lastHeartbeat' = StartTime
        \/ \E i \in DOMAIN pushed' : IsHeartbeat(pushed'[i]) /\ pushed'[i].timestamp = lastHeartbeat'
    BY <1>4, <2>1 DEF ReceiverInv, NewestOfPushed
  <2> QED
    BY <2>3, <2>4, <2>5 DEF NewestOfPushed
<1>11. BeatsAreStamped'
  BY DEF ReceiverInv, BeatsAreStamped, netVars
<1> QED
  BY <1>6, <1>7, <1>9, <1>10, <1>11 DEF ReceiverInv

\* The steps that move no message and no stamp.
LEMMA RestKeeps ==
  ASSUME ReceiverInv,
         ClosePeer \/ Consume \/ ReceiveNothing \/ ReceiveEnd \/ ReceiveFails \/ DecodeFails
           \/ CloseStale \/ GoOn \/ Shutdown
  PROVE  ReceiverInv'
<1>1. UNCHANGED <<now, skew, channel, batch, pushed, sent, sentBeatAt, lastHeartbeat>>
  BY DEF ClosePeer, Consume, ReceiveNothing, ReceiveEnd, ReceiveFails, DecodeFails,
         CloseStale, GoOn, Shutdown, netVars
<1>2. messageQueue' \in Seq(Message) /\ Len(messageQueue') <= InboundCapacity
  <2>1. CASE messageQueue' = messageQueue
    BY <2>1 DEF ReceiverInv, ReceiverTypeOK, MessagesOK
  <2>2. CASE Consume
    <3>1. messageQueue' = Tail(messageQueue) /\ messageQueue # <<>>
      BY <2>2 DEF Consume
    <3>2. messageQueue' \in Seq(Message) /\ Len(messageQueue') = Len(messageQueue) - 1
      BY <3>1, HeadTailProperties DEF ReceiverInv, MessagesOK
    <3>3. Len(messageQueue) \in Nat /\ Len(messageQueue) <= InboundCapacity
      BY LenProperties DEF ReceiverInv, ReceiverTypeOK, MessagesOK
    <3> QED
      BY <3>2, <3>3, Numbers DEF ReceiverInv
  <2> QED
    BY <2>1, <2>2 DEF ClosePeer, ReceiveNothing, ReceiveEnd, ReceiveFails, DecodeFails,
                      CloseStale, GoOn, Shutdown
<1>3. /\ at' \in {"recv", "deliver", "check", "exited"}
      /\ at' = "deliver" => batch # <<>>
      /\ batch # <<>> => at' \in {"deliver", "exited"}
      /\ triggered' <=> (at' = "exited")
      /\ cause' \in {"none", "stale", "closed by peer", "error", "stopped"}
  <2>1. CASE ClosePeer \/ Consume \/ Shutdown
    <3>1. UNCHANGED <<at, batch, triggered, cause>>
      BY <2>1 DEF ClosePeer, Consume, Shutdown
    <3> QED
      BY <3>1 DEF ReceiverInv, ReceiverTypeOK
  <2>2. CASE ReceiveNothing
    BY <2>2 DEF ReceiveNothing, ReceiverInv, ReceiverTypeOK
  <2>3. CASE ReceiveEnd \/ ReceiveFails \/ DecodeFails \/ CloseStale
    BY <2>3 DEF ReceiveEnd, ReceiveFails, DecodeFails, CloseStale, Exit
  <2>4. CASE GoOn
    BY <2>4 DEF GoOn, Exit, ReceiverInv, ReceiverTypeOK
  <2> QED
    BY <2>1, <2>2, <2>3, <2>4
<1>4. ReceiverTypeOK'
  BY <1>1, <1>2, <1>3 DEF ReceiverInv, ReceiverTypeOK
<1>5. MessagesOK' /\ PushedInOrder' /\ NewestOfPushed' /\ BeatsAreStamped'
  BY <1>1, <1>2 DEF ReceiverInv, MessagesOK, PushedInOrder, NewestOfPushed, BeatsAreStamped
<1> QED
  BY <1>4, <1>5 DEF ReceiverInv

\* Every step keeps the invariant.
LEMMA StepKeeps ==
  ReceiverInv /\ [ReceiverNext]_receiverVars => ReceiverInv'
<1> SUFFICES ASSUME ReceiverInv, [ReceiverNext]_receiverVars PROVE ReceiverInv'
  OBVIOUS
<1>1. CASE UNCHANGED receiverVars
  BY <1>1 DEF receiverVars, netVars, ReceiverInv, ReceiverTypeOK, MessagesOK, PushedInOrder,
              NewestOfPushed, BeatsAreStamped
<1>2. CASE SendHeartbeat
  <2>1. now + skew \in Nat
    BY Numbers DEF ReceiverInv
  <2> QED
    BY <1>2, <2>1, HeartbeatIsMessage, SendKeeps DEF SendHeartbeat
<1>3. CASE SendOther
  BY <1>3, OtherIsMessage, SendKeeps DEF SendOther
<1> QED
  BY <1>1, <1>2, <1>3, TickKeeps, ReceiveKeeps, DeliverKeeps, RestKeeps
     DEF ReceiverNext, ReceiverStep

\* The invariant holds always.
LEMMA Invariance ==
  ReceiverSpec => []ReceiverInv
BY InitEstablishes, StepKeeps, PTL DEF ReceiverSpec

-----------------------------------------------------------------------------
(* The theorems.                                                           *)

\* Types, and what each place of the loop says of the batch: run never pushes
\* from an empty batch, and no exit forgets to trigger the signal.
THEOREM ReceiverTypes ==
  ReceiverSpec => []ReceiverTypeOK
<1>1. ReceiverInv => ReceiverTypeOK
  BY DEF ReceiverInv
<1> QED
  BY <1>1, Invariance, PTL

\* tryReceive pushes what was sent, in the order in which it was sent.
THEOREM PushesInOrder ==
  ReceiverSpec => []PushedInOrder
<1>1. ReceiverInv => PushedInOrder
  BY DEF ReceiverInv
<1> QED
  BY <1>1, Invariance, PTL

\* lastHeartbeat is the greatest stamp among the heartbeats that were pushed.
THEOREM KeepsNewestBeat ==
  ReceiverSpec => []NewestBeatKept
<1>1. ASSUME ReceiverInv PROVE NewestBeatKept
  <2> DEFINE beats == {StartTime} \cup
                        {pushed[i].timestamp : i \in {j \in DOMAIN pushed : IsHeartbeat(pushed[j])}}
  <2>1. lastHeartbeat \in beats
    BY <1>1 DEF ReceiverInv, NewestOfPushed
  <2>2. \A b \in beats : b \in Nat /\ lastHeartbeat >= b
    <3>1. StartTime \in Nat /\ lastHeartbeat >= StartTime
      BY <1>1, Numbers DEF ReceiverInv, NewestOfPushed
    <3>2. ASSUME NEW i \in DOMAIN pushed, IsHeartbeat(pushed[i])
          PROVE  pushed[i].timestamp \in Nat /\ lastHeartbeat >= pushed[i].timestamp
      <4>1. pushed[i] \in Message
        BY <1>1, ElementOfSeq, LenProperties DEF ReceiverInv, MessagesOK
      <4>2. pushed[i].timestamp \in Nat
        BY <3>2, <4>1 DEF Message, Other, IsHeartbeat
      <4> QED
        BY <1>1, <3>2, <4>2, Numbers DEF ReceiverInv, NewestOfPushed
    <3> QED
      BY <3>1, <3>2
  <2> HIDE DEF beats
  <2>3. Max(beats) = lastHeartbeat
    <3>1. \A x \in beats : (\A y \in beats : x >= y) => x = lastHeartbeat
      BY <2>1, <2>2
    <3> QED
      BY <2>1, <2>2, <3>1 DEF Max
  <2> QED
    BY <2>3 DEF beats, NewestBeatKept
<1> QED
  BY <1>1, Invariance, PTL

\* A connection that the heartbeat test closes with nothing unread, its peer's
\* clock not ahead, was silent: then no stamp is ahead of the receiver's clock,
\* the subtraction does not wrap, and the last heartbeat sent is the newest kept.
THEOREM ClosesOnlySilent ==
  ReceiverSpec => ClosedOnlyIfSilent
<1> DEFINE A == cause' = "stale" /\ cause = "none" /\ channel = <<>> /\ skew <= 0
                  => now - sentBeatAt > HeartbeatTimeoutMs + skew
<1>1. ASSUME ReceiverInv, [ReceiverNext]_receiverVars
      PROVE  [A]_receiverVars
  <2> SUFFICES ASSUME ReceiverNext, cause' = "stale", cause = "none", channel = <<>>, skew <= 0
               PROVE  now - sentBeatAt > HeartbeatTimeoutMs + skew
    BY <1>1
  <2>1. CloseStale
    BY DEF ReceiverNext, ReceiverStep, SendHeartbeat, SendOther, Send, ClosePeer, Consume,
           ClockTicks, Shutdown, Receive, ReceiveNothing, ReceiveEnd, ReceiveFails, Deliver,
           DecodeFails, GoOn, Exit
  <2>2. batch = <<>>
    BY <1>1, <2>1 DEF CloseStale, ReceiverInv, ReceiverTypeOK
  <2>3. pushed = sent
    BY <1>1, <2>2, ConcatEmptySeq DEF ReceiverInv, PushedInOrder, MessagesOK
  <2>4. lastHeartbeat <= now
    BY <1>1, <2>3, Numbers DEF ReceiverInv, NewestOfPushed, BeatsAreStamped
  <2>5. now - lastHeartbeat > HeartbeatTimeoutMs
    BY <1>1, <2>1, <2>4, Numbers DEF ReceiverInv, CloseStale, HeartbeatStale, SinceLastBeat
  <2>6. sentBeatAt \in Nat /\ sentBeatAt >= StartTime
    BY <1>1, Numbers DEF ReceiverInv, BeatsAreStamped
  <2>7. lastHeartbeat >= sentBeatAt + skew
    <3>1. CASE sentBeatAt = StartTime
      BY <1>1, <3>1, Numbers DEF ReceiverInv, NewestOfPushed
    <3>2. CASE \E i \in DOMAIN sent : sent[i] = Heartbeat(sentBeatAt + skew)
      <4>1. sentBeatAt + skew \in Nat
        BY <1>1, <2>6, Numbers DEF ReceiverInv
      <4>2. \E i \in DOMAIN pushed : IsHeartbeat(pushed[i]) /\ pushed[i].timestamp = sentBeatAt + skew
        BY <2>3, <3>2, <4>1, HeartbeatIsMessage
      <4> QED
        BY <1>1, <4>1, <4>2, Numbers DEF ReceiverInv, NewestOfPushed
    <3> QED
      BY <1>1, <3>1, <3>2 DEF ReceiverInv, BeatsAreStamped
  <2> QED
    BY <1>1, <2>5, <2>6, <2>7, Numbers DEF ReceiverInv
<1> QED
  BY <1>1, Invariance, PTL DEF ReceiverSpec, ClosedOnlyIfSilent
=============================================================================
