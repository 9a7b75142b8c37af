----------------------- MODULE NetworkMessageReceiver -----------------------
(***************************************************************************)
(* NetworkMessageReceiver (src/slipstream/network): the thread that reads  *)
(* one connection, pushes what it decodes to the inbound queue and closes  *)
(* the connection when the peer's heartbeats stop.                         *)
(*                                                                         *)
(* A heartbeat carries its sender's clock; the receiver compares the       *)
(* greatest stamp with its own clock, by unsigned subtraction.  `skew' is  *)
(* how far the peer's clock is ahead.                                      *)
(*                                                                         *)
(* MessageReconstructor has its own module: here recv returns whole        *)
(* messages.  The inbound queue is emptied by a thread of which nothing is *)
(* assumed.                                                                *)
(***************************************************************************)
EXTENDS Integers, Sequences, SequencesExt, FiniteSetsExt

CONSTANTS
  HeartbeatTimeoutMs,  \* 5000 in the code
  InboundCapacity,     \* of InboundMessageQueue
  Word,                \* uint64_t arithmetic is modulo Word (2^64)
  Skews,               \* how far the peer's clock may be ahead: a set of integers
  StartTime,           \* the clock when the receiver is constructed
  MaxTime,             \* bound: the last value of the clock
  MaxMessages          \* bound: how many messages the peer sends

ASSUME ReceiverAssumption ==
  /\ HeartbeatTimeoutMs \in Nat
  /\ InboundCapacity \in Nat \ {0}
  /\ MaxTime \in Nat
  /\ StartTime \in 0 .. MaxTime
  /\ MaxMessages \in Nat
  /\ Skews \subseteq Int
  /\ \A s \in Skews : StartTime + s >= 0
  /\ \A s \in Skews : Word > MaxTime + s + HeartbeatTimeoutMs  \* ms are far below 2^64

VARIABLES
  now,            \* the receiver's clock
  skew,
  peer,           \* the peer's end of the connection: "open" or "closed"
  socketShut,     \* ClientConnection::shutdown was called
  channel,        \* what the peer sent and recv has not returned
  at,             \* where run is: "recv", "deliver", "check", "exited"
  batch,          \* the messages of the last recv, not yet pushed
  messageQueue,   \* the inbound queue
  lastHeartbeat,
  shouldStop,
  triggered,      \* the exit of run has triggered the ShutdownSignal
  cause,          \* history: why run ended
  sent, pushed,   \* history: all messages sent, and all pushed
  sentBeatAt, heardBeatAt  \* history: the receiver's clock when the last
                           \* heartbeat was sent, and when it was taken from a batch

netVars == <<now, skew, peer, channel, sent, sentBeatAt>>
receiverVars == <<netVars, socketShut, at, batch, messageQueue, lastHeartbeat,
                  shouldStop, triggered, cause, pushed, heardBeatAt>>

Heartbeat(stamp) == [kind |-> "heartbeat", timestamp |-> stamp]
Other == [kind |-> "other"]

IsHeartbeat(m) == m.kind = "heartbeat"

ReceiverInit ==
  /\ now = StartTime
  /\ skew \in Skews
  /\ peer = "open"
  /\ socketShut = FALSE
  /\ channel = <<>>
  /\ at = "recv"
  /\ batch = <<>>
  /\ messageQueue = <<>>
  /\ lastHeartbeat = StartTime
  /\ shouldStop = FALSE
  /\ triggered = FALSE
  /\ cause = "none"
  /\ sent = <<>>
  /\ pushed = <<>>
  /\ sentBeatAt = StartTime
  /\ heardBeatAt = StartTime

-----------------------------------------------------------------------------
(* The peer, the consumer of the queue and the clock.                      *)

Send(m) ==
  /\ peer = "open"
  /\ Len(sent) < MaxMessages
  /\ channel' = Append(channel, m)
  /\ sent' = Append(sent, m)
  /\ sentBeatAt' = IF IsHeartbeat(m) THEN now ELSE sentBeatAt
  /\ UNCHANGED <<now, skew, peer, socketShut, at, batch, messageQueue, lastHeartbeat,
                 shouldStop, triggered, cause, pushed, heardBeatAt>>

SendHeartbeat == Send(Heartbeat(now + skew))
SendOther == Send(Other)

ClosePeer ==
  /\ peer = "open"
  /\ peer' = "closed"
  /\ UNCHANGED <<now, skew, channel, sent, sentBeatAt, socketShut, at, batch, messageQueue,
                 lastHeartbeat, shouldStop, triggered, cause, pushed, heardBeatAt>>

Consume ==
  /\ messageQueue # <<>>
  /\ messageQueue' = Tail(messageQueue)
  /\ UNCHANGED <<netVars, socketShut, at, batch, lastHeartbeat, shouldStop, triggered,
                 cause, pushed, heardBeatAt>>

ClockTicks ==
  /\ now < MaxTime
  /\ now' = now + 1
  /\ UNCHANGED <<skew, peer, channel, sent, sentBeatAt, socketShut, at, batch, messageQueue,
                 lastHeartbeat, shouldStop, triggered, cause, pushed, heardBeatAt>>

-----------------------------------------------------------------------------
(* The thread.                                                             *)

\* (Faulty: an exit that does not trigger the signal.)
ExitSilently(why) ==
  /\ at' = "exited"
  /\ cause' = why
  /\ UNCHANGED triggered

\* run returns; TriggerOnExit's destructor triggers the ShutdownSignal.
Exit(why) ==
  /\ at' = "exited"
  /\ cause' = why
  /\ triggered' = TRUE

\* recv returns what has come, all of it or the first part.
Receive ==
  /\ at = "recv"
  /\ \E k \in 1 .. Len(channel) :
       /\ batch' = SubSeq(channel, 1, k)
       /\ channel' = SubSeq(channel, k + 1, Len(channel))
  /\ at' = "deliver"
  /\ UNCHANGED <<now, skew, peer, sent, sentBeatAt, socketShut, messageQueue, lastHeartbeat,
                 shouldStop, triggered, cause, pushed, heardBeatAt>>

\* (Faulty: no receive timeout was set, and recv waits for data.)
ReceiveBlocks == at = "recv" /\ FALSE /\ UNCHANGED receiverVars

\* recv times out.
ReceiveNothing ==
  /\ at = "recv"
  /\ channel = <<>>
  /\ peer = "open"
  /\ ~socketShut
  /\ at' = "check"
  /\ UNCHANGED <<netVars, socketShut, batch, messageQueue, lastHeartbeat, shouldStop,
                 triggered, cause, pushed, heardBeatAt>>

\* recv finds the end of the stream.  After a shutdown of our own the kernel may
\* or may not hand over what is left.
ReceiveEnd ==
  /\ at = "recv"
  /\ socketShut \/ (peer = "closed" /\ channel = <<>>)
  /\ Exit(IF shouldStop THEN "stopped" ELSE "closed by peer")
  /\ UNCHANGED <<netVars, socketShut, batch, messageQueue, lastHeartbeat, shouldStop,
                 pushed, heardBeatAt>>

\* The connection is reset, or the reconstructor throws.
ReceiveFails ==
  /\ at = "recv"
  /\ channel # <<>>
  /\ Exit("error")
  /\ UNCHANGED <<netVars, socketShut, batch, messageQueue, lastHeartbeat, shouldStop,
                 pushed, heardBeatAt>>

\* (Faulty: the last heartbeat counts, older or not.)
NewestBeatLast(m) == IF IsHeartbeat(m) THEN m.timestamp ELSE lastHeartbeat

NewestBeat(m) ==
  IF IsHeartbeat(m) /\ m.timestamp > lastHeartbeat THEN m.timestamp ELSE lastHeartbeat

\* (Faulty: a message that finds the queue full is dropped.)
DeliverOrDrop ==
  /\ at = "deliver"
  /\ messageQueue' = IF Len(messageQueue) < InboundCapacity
                     THEN Append(messageQueue, Head(batch)) ELSE messageQueue
  /\ pushed' = IF Len(messageQueue) < InboundCapacity THEN Append(pushed, Head(batch)) ELSE pushed
  /\ lastHeartbeat' = NewestBeat(Head(batch))
  /\ heardBeatAt' = IF IsHeartbeat(Head(batch)) THEN now ELSE heardBeatAt
  /\ batch' = Tail(batch)
  /\ at' = IF Len(batch) = 1 THEN "check" ELSE "deliver"
  /\ UNCHANGED <<netVars, socketShut, shouldStop, triggered, cause>>

\* (Faulty: the last message of a batch is not looked at for a heartbeat.)
DeliverBeatNotLast ==
  /\ at = "deliver"
  /\ Len(messageQueue) < InboundCapacity
  /\ messageQueue' = Append(messageQueue, Head(batch))
  /\ pushed' = Append(pushed, Head(batch))
  /\ lastHeartbeat' = IF Len(batch) = 1 THEN lastHeartbeat ELSE NewestBeat(Head(batch))
  /\ heardBeatAt' = IF IsHeartbeat(Head(batch)) THEN now ELSE heardBeatAt
  /\ batch' = Tail(batch)
  /\ at' = IF Len(batch) = 1 THEN "check" ELSE "deliver"
  /\ UNCHANGED <<netVars, socketShut, shouldStop, triggered, cause>>

\* One round of tryReceive's loop.  Its inner loop waits for room, whatever
\* shouldStop says.
Deliver ==
  /\ at = "deliver"
  /\ Len(messageQueue) < InboundCapacity
  /\ messageQueue' = Append(messageQueue, Head(batch))
  /\ pushed' = Append(pushed, Head(batch))
  /\ lastHeartbeat' = NewestBeat(Head(batch))
  /\ heardBeatAt' = IF IsHeartbeat(Head(batch)) THEN now ELSE heardBeatAt
  /\ batch' = Tail(batch)
  /\ at' = IF Len(batch) = 1 THEN "check" ELSE "deliver"
  /\ UNCHANGED <<netVars, socketShut, shouldStop, triggered, cause>>

\* The decoder throws: what is left of the batch is lost.
DecodeFails ==
  /\ at = "deliver"
  /\ Exit("error")
  /\ UNCHANGED <<netVars, socketShut, batch, messageQueue, lastHeartbeat, shouldStop,
                 pushed, heardBeatAt>>

SinceLastBeat == IF now >= lastHeartbeat THEN now - lastHeartbeat ELSE now - lastHeartbeat + Word

HeartbeatStale == SinceLastBeat > HeartbeatTimeoutMs

CloseStale ==
  /\ at = "check"
  /\ HeartbeatStale
  /\ socketShut' = TRUE
  /\ shouldStop' = TRUE
  /\ Exit("stale")
  /\ UNCHANGED <<netVars, batch, messageQueue, lastHeartbeat, pushed, heardBeatAt>>

\* The end of the loop's body, and the test at its head.
GoOn ==
  /\ at = "check"
  /\ ~HeartbeatStale
  /\ IF shouldStop
     THEN Exit("stopped")
     ELSE at' = "recv" /\ UNCHANGED <<cause, triggered>>
  /\ UNCHANGED <<netVars, socketShut, batch, messageQueue, lastHeartbeat, shouldStop,
                 pushed, heardBeatAt>>

ReceiverStep ==
  \/ Receive
  \/ ReceiveNothing
  \/ ReceiveEnd
  \/ ReceiveFails
  \/ Deliver
  \/ DecodeFails
  \/ CloseStale
  \/ GoOn

\* What the thread must do at some time: it does not have to fail.
ReceiverGoesOn == Receive \/ ReceiveNothing \/ ReceiveEnd \/ Deliver \/ CloseStale \/ GoOn

\* NetworkMessageReceiver::shutdown, called by main or by the session thread.
Shutdown ==
  /\ ~shouldStop
  /\ socketShut' = TRUE
  /\ shouldStop' = TRUE
  /\ UNCHANGED <<netVars, at, batch, messageQueue, lastHeartbeat, triggered, cause,
                 pushed, heardBeatAt>>

ReceiverNext ==
  \/ SendHeartbeat
  \/ SendOther
  \/ ClosePeer
  \/ Consume
  \/ ClockTicks
  \/ ReceiverStep
  \/ Shutdown

\* The thread is scheduled and the clock goes on; the peer and the consumer of
\* the queue may do nothing.
ReceiverSpec ==
  /\ ReceiverInit
  /\ [][ReceiverNext]_receiverVars
  /\ WF_receiverVars(ReceiverGoesOn)
  /\ WF_receiverVars(ClockTicks)

-----------------------------------------------------------------------------
(* Properties.                                                             *)

\* Types; what each place of the loop says of the batch.
ReceiverTypeOK ==
  /\ now \in StartTime .. MaxTime
  /\ skew \in Skews
  /\ at \in {"recv", "deliver", "check", "exited"}
  /\ at = "deliver" => batch # <<>>
  /\ batch # <<>> => at \in {"deliver", "exited"}
  /\ Len(messageQueue) <= InboundCapacity
  /\ lastHeartbeat \in Nat
  /\ triggered <=> (at = "exited")
  /\ cause \in {"none", "stale", "closed by peer", "error", "stopped"}

\* No message is lost, repeated or overtaken on its way to the queue, whatever
\* the pieces that recv returns and however long the queue stays full.
PushedInOrder == pushed \o batch \o channel = sent

\* lastHeartbeat is the greatest stamp taken from a batch, or the time of the
\* construction: a peer whose clock is behind cannot make it older.
NewestBeatKept ==
  lastHeartbeat =
    Max({StartTime} \cup {pushed[i].timestamp : i \in {j \in DOMAIN pushed : IsHeartbeat(pushed[j])}})

\* With a peer whose clock is not ahead, a connection closed as stale with
\* nothing left unread was truly silent: no heartbeat was sent for longer than
\* the timeout, less what the peer's clock is behind.
ClosedOnlyIfSilent ==
  [][ cause' = "stale" /\ cause = "none" /\ channel = <<>> /\ skew <= 0
        => now - sentBeatAt > HeartbeatTimeoutMs + skew ]_receiverVars

\* A peer that sends no heartbeat for longer than the timeout and what its clock
\* is ahead, other messages or not, is left: run ends, unless the inbound queue
\* stays full for ever.
SilenceIsNoticed ==
  <>[](now - sentBeatAt > HeartbeatTimeoutMs + Max({0, skew}))
    => \/ <>(at = "exited")
       \/ <>[](at = "deliver" /\ Len(messageQueue) = InboundCapacity)

\* What NetworkMessageReceiver.cpp:70 logs when it closes the connection, "No
\* heartbeat in over ... ms": none was received for that long.  The code breaks
\* it: a stamp ahead of the receiver's clock makes the subtraction of line 95
\* wrap.
NoHeartbeatInOver ==
  [][ cause' = "stale" /\ cause = "none"
        => now - heardBeatAt > HeartbeatTimeoutMs ]_receiverVars
=============================================================================
