------------------------------ MODULE Lifecycle ------------------------------
(***************************************************************************)
(* The life of the process: main waits for its two clients, declares its   *)
(* objects, some of which start threads, waits for the ShutdownSignal,     *)
(* shuts the receivers down and destroys its objects in the reverse order  *)
(* of their declaration, while the other threads go on:                    *)
(*   two NetworkMessageReceivers, the MessageDeMultiplexer, the            *)
(*   OrderMessageSender and the SessionControlHandler's detached thread.   *)
(*                                                                         *)
(* Messages and orders are counted, not told apart: the other modules say  *)
(* what is in them.  The peer of the order connection reads its orders or  *)
(* does not: TradeClient never does.                                       *)
(***************************************************************************)
EXTENDS Integers, Sequences, FiniteSets, SequencesExt

CONSTANTS
  InboundCapacity,   \* of InboundMessageQueue
  OutboundCapacity,  \* QUEUE_SIZE of OrderMessageSender
  SocketCapacity,    \* how many orders the kernels hold that the peer has not read
  MaxMessages        \* bound: how many messages the receivers push

ASSUME LifecycleAssumption ==
  /\ InboundCapacity \in Nat \ {0}
  /\ OutboundCapacity \in Nat \ {0}
  /\ SocketCapacity \in Nat \ {0}
  /\ MaxMessages \in Nat

VARIABLES
  process,     \* "running", "aborted" (std::terminate), "ended"
  main,        \* the next position of Plan
  alive,       \* the objects that are constructed and not destroyed
  latch,       \* ShutdownSignal's latch
  signalled,   \* ShutdownSignal's flag `triggered'
  socketShut,  \* of each connection
  shouldStop,  \* of each object that has one
  receiver,    \* where each receiver's run is
  demux,       \* where MessageDeMultiplexer::run is
  sender,      \* where OrderMessageSender::run is
  session,     \* where runSession is
  inbound,     \* how many messages are in the inbound queue
  outbound,    \* how many orders are in the sender's queue
  unread,      \* how many orders the peer has not read
  messages     \* history: how many messages were received

mainVars == <<process, main, alive>>
signalVars == <<latch, signalled>>
stopVars == <<socketShut, shouldStop>>
queueVars == <<inbound, outbound, unread>>
threadVars == <<receiver, demux, sender, session>>
lifeVars == <<mainVars, signalVars, stopVars, threadVars, queueVars, messages>>

Receivers == {"mdReceiver", "oeReceiver"}
Joined == Receivers \cup {"demux", "sender"}

\* (Faulty: the inbound queue is declared after the receivers.)
DeclarationsQueueLast ==
  << "mdListener", "oeListener", "mdClient", "oeClient", "signal", "engine", "sender",
     "handlers", "mdMessageHandler", "mdReceiver", "oeMessageHandler", "oeReceiver",
     "inbound", "demux", "session" >>

\* What main declares, in order.  "engine" stands for the engine and the two
\* services it reads, "handlers" for the three message handlers.
Declarations ==
  << "mdListener", "oeListener", "mdClient", "oeClient", "signal", "engine", "sender",
     "handlers", "inbound", "mdMessageHandler", "mdReceiver", "oeMessageHandler",
     "oeReceiver", "demux", "session" >>

Step(op, object) == [op |-> op, object |-> object]

\* The sender's thread is a member, started before the constructor is done; the
\* others are started by a call after it.
ConstructionOf(o) ==
  CASE o = "sender" -> <<Step("start", o), Step("construct", o)>>
    [] o \in Receivers \cup {"demux", "session"} -> <<Step("construct", o), Step("start", o)>>
    [] o \in {"mdClient", "oeClient"} -> <<Step("accept", o)>>
    [] OTHER -> <<Step("construct", o)>>

\* The session's destructor detaches its thread.
DestructionOf(o) ==
  IF o \in Joined THEN <<Step("stop", o), Step("join", o), Step("destroy", o)>>
                  ELSE <<Step("destroy", o)>>

\* What main does from line 67 on.
Plan ==
  FlattenSeq([i \in DOMAIN Declarations |-> ConstructionOf(Declarations[i])])
  \o <<Step("wait", "signal"), Step("stop", "mdReceiver"), Step("stop", "oeReceiver")>>
  \o FlattenSeq([i \in DOMAIN Declarations |-> DestructionOf(Reverse(Declarations)[i])])

LifeInit ==
  /\ process = "running"
  /\ main = 1
  /\ alive = {}
  /\ latch = 1
  /\ signalled = FALSE
  /\ socketShut = [r \in Receivers |-> FALSE]
  /\ shouldStop = [o \in Joined |-> FALSE]
  /\ receiver = [r \in Receivers |-> "unborn"]
  /\ demux = "unborn"
  /\ sender = "unborn"
  /\ session = "unborn"
  /\ inbound = 0
  /\ outbound = 0
  /\ unread = 0
  /\ messages = 0

-----------------------------------------------------------------------------
(* Main.                                                                   *)

\* main's next step is op, on MainObject.
Does(op) == process = "running" /\ main \in DOMAIN Plan /\ Plan[main].op = op

MainObject == Plan[main].object

HasEnded(t) ==
  CASE t \in Receivers -> receiver[t] = "exited"
    [] t = "demux" -> demux = "exited"
    [] t = "sender" -> sender \in {"exited", "misled"}

ConstructObject ==
  /\ Does("construct")
  /\ alive' = alive \cup {MainObject}
  /\ main' = main + 1
  /\ UNCHANGED <<process, signalVars, stopVars, threadVars, queueVars, messages>>

\* A client connects.
AcceptClient ==
  /\ Does("accept")
  /\ alive' = alive \cup {MainObject}
  /\ main' = main + 1
  /\ UNCHANGED <<process, signalVars, stopVars, threadVars, queueVars, messages>>

\* A listener cannot be made, accept fails, or the order book refuses a symbol of
\* the wrong length, before any thread runs: the exception leaves main.
StartUpFails ==
  /\ \/ Does("accept")
     \/ Does("construct") /\ MainObject \in {"mdListener", "oeListener", "engine"}
  /\ process' = "aborted"
  /\ UNCHANGED <<main, alive, signalVars, stopVars, threadVars, queueVars, messages>>

StartThread ==
  /\ Does("start")
  /\ receiver' = [r \in Receivers |-> IF r = MainObject THEN "recv" ELSE receiver[r]]
  /\ demux' = IF MainObject = "demux" THEN "test" ELSE demux
  /\ sender' = IF MainObject = "sender" THEN "test" ELSE sender
  /\ session' = IF MainObject = "session" THEN "reading" ELSE session
  /\ main' = main + 1
  /\ UNCHANGED <<process, alive, signalVars, stopVars, queueVars, messages>>

\* latch.wait.
WakeUp ==
  /\ Does("wait")
  /\ latch = 0
  /\ main' = main + 1
  /\ UNCHANGED <<process, alive, signalVars, stopVars, threadVars, queueVars, messages>>

\* The shutdown of a receiver; elsewhere the destructor's shouldStop = true.
StopThread ==
  /\ Does("stop")
  /\ shouldStop' = [shouldStop EXCEPT ![MainObject] = TRUE]
  /\ socketShut' = IF MainObject \in Receivers THEN [socketShut EXCEPT ![MainObject] = TRUE]
                   ELSE socketShut
  /\ main' = main + 1
  /\ UNCHANGED <<process, alive, signalVars, threadVars, queueVars, messages>>

JoinThread ==
  /\ Does("join")
  /\ HasEnded(MainObject)
  /\ main' = main + 1
  /\ UNCHANGED <<process, alive, signalVars, stopVars, threadVars, queueVars, messages>>

DestroyObject ==
  /\ Does("destroy")
  /\ alive' = alive \ {MainObject}
  /\ main' = main + 1
  /\ process' = IF main = Len(Plan) THEN "ended" ELSE process
  /\ UNCHANGED <<signalVars, stopVars, threadVars, queueVars, messages>>

MainStep ==
  ConstructObject \/ StartThread \/ WakeUp \/ StopThread \/ JoinThread \/ DestroyObject

-----------------------------------------------------------------------------
(* ShutdownSignal::trigger.                                                *)

\* (Faulty: the latch is counted down whatever the flag says.)
TriggerAgain ==
  /\ signalled' = TRUE
  /\ latch' = latch - 1

Trigger ==
  /\ signalled' = TRUE
  /\ latch' = IF signalled THEN latch ELSE latch - 1

-----------------------------------------------------------------------------
(* The receivers.                                                          *)

ReceiverMoves(r, from, to) ==
  /\ process = "running"
  /\ receiver[r] = from
  /\ receiver' = [receiver EXCEPT ![r] = to]
  /\ UNCHANGED <<mainVars, demux, sender, session, outbound, unread>>

\* tryReceive has a message: the peer's data, or what is left of it after a
\* shutdown.
ReceiveMessage(r) ==
  /\ messages < MaxMessages
  /\ messages' = messages + 1
  /\ ReceiverMoves(r, "recv", "push")
  /\ UNCHANGED <<signalVars, stopVars, inbound>>

\* The push of NetworkMessageReceiver.cpp:35 succeeds.  It was the last message
\* of its batch, and shouldStop is read, or the next one follows.
PushMessage(r) ==
  /\ inbound < InboundCapacity
  /\ inbound' = inbound + 1
  /\ \/ ReceiverMoves(r, "push", IF shouldStop[r] THEN "leave" ELSE "recv") /\ UNCHANGED messages
     \/ /\ messages < MaxMessages
        /\ messages' = messages + 1
        /\ ReceiverMoves(r, "push", "push")
  /\ UNCHANGED <<signalVars, stopVars>>

\* recv ends or throws: the socket was shut, or the peer closed or reset it.
ReceiveEnds(r) ==
  /\ ReceiverMoves(r, "recv", "leave")
  /\ UNCHANGED <<signalVars, stopVars, inbound, messages>>

\* The heartbeats stopped: run calls shutdown.
HeartbeatStale(r) ==
  /\ ReceiverMoves(r, "recv", "leave")
  /\ socketShut' = [socketShut EXCEPT ![r] = TRUE]
  /\ shouldStop' = [shouldStop EXCEPT ![r] = TRUE]
  /\ UNCHANGED <<signalVars, inbound, messages>>

\* (Faulty: run ends without triggering the signal.)
LeaveSilently(r) ==
  /\ ReceiverMoves(r, "leave", "exited")
  /\ UNCHANGED <<signalVars, stopVars, inbound, messages>>

\* TriggerOnExit.
Leave(r) ==
  /\ ReceiverMoves(r, "leave", "exited")
  /\ Trigger
  /\ UNCHANGED <<stopVars, inbound, messages>>

\* What a receiver must do at some time: recv returns, with the end if the
\* socket was shut.
ReceiverStep(r) ==
  \/ PushMessage(r)
  \/ Leave(r)
  \/ socketShut[r] /\ ReceiveEnds(r)

-----------------------------------------------------------------------------
(* The demultiplexer.                                                      *)

DemuxMoves(from, to) ==
  /\ process = "running"
  /\ demux = from
  /\ demux' = to
  /\ UNCHANGED <<mainVars, signalVars, stopVars, receiver, sender, session, unread, messages>>

\* while (!shouldStop).
DemuxTest ==
  /\ DemuxMoves("test", IF shouldStop["demux"] THEN "exited" ELSE "wait")
  /\ UNCHANGED <<inbound, outbound>>

\* The inner loop ends when there is a message, and only then.
DemuxPop ==
  /\ inbound > 0
  /\ inbound' = inbound - 1
  /\ DemuxMoves("wait", "handle")
  /\ UNCHANGED outbound

\* onMessage; a trade may have to be answered.
DemuxHandle ==
  /\ DemuxMoves("handle", "test") \/ DemuxMoves("handle", "send")
  /\ UNCHANGED <<inbound, outbound>>

\* OrderMessageSender::send.
DemuxSend ==
  /\ outbound < OutboundCapacity
  /\ outbound' = outbound + 1
  /\ DemuxMoves("send", "test")
  /\ UNCHANGED inbound

DemuxStep == DemuxTest \/ DemuxPop \/ DemuxHandle \/ DemuxSend

-----------------------------------------------------------------------------
(* The sender, and the peer that reads what it writes.                     *)

SenderMoves(from, to) ==
  /\ process = "running"
  /\ sender = from
  /\ sender' = to
  /\ UNCHANGED <<main, alive, signalVars, stopVars, receiver, demux, session, inbound, messages>>

\* The thread may get here before shouldStop is initialised, reads anything, and
\* may leave misled.
SenderTest ==
  /\ \/ SenderMoves("test", IF shouldStop["sender"] THEN "exited" ELSE "pop")
     \/ "sender" \notin alive /\ SenderMoves("test", "misled")
  /\ UNCHANGED <<process, outbound, unread>>

\* (Faulty: an empty queue ends the loop.)
SenderPopOrLeave ==
  /\ \/ outbound = 0 /\ SenderMoves("pop", "exited") /\ UNCHANGED outbound
     \/ outbound > 0 /\ SenderMoves("pop", "write") /\ outbound' = outbound - 1
  /\ UNCHANGED <<process, unread>>

SenderPop ==
  /\ \/ outbound = 0 /\ SenderMoves("pop", "test") /\ UNCHANGED outbound
     \/ outbound > 0 /\ SenderMoves("pop", "write") /\ outbound' = outbound - 1
  /\ UNCHANGED <<process, unread>>

\* send waits until the socket has room.
SenderWrite ==
  /\ ~socketShut["oeReceiver"]
  /\ unread < SocketCapacity
  /\ unread' = unread + 1
  /\ SenderMoves("write", "test")
  /\ UNCHANGED <<process, outbound>>

\* The connection ends while send waits with a part taken: the short count is
\* not looked at.
SenderWriteCut ==
  /\ unread = SocketCapacity
  /\ SenderMoves("write", "test")
  /\ UNCHANGED <<process, outbound, unread>>

\* sendBuffer throws, because the peer closed the connection or oeReceiver's
\* shutdown did; nobody catches what leaves the thread.
SenderWriteFails ==
  /\ SenderMoves("write", "threw")
  /\ process' = "aborted"
  /\ UNCHANGED <<outbound, unread>>

\* What the sender must do at some time.
SenderStep ==
  \/ SenderTest
  \/ SenderPop
  \/ SenderWrite
  \/ socketShut["oeReceiver"] /\ (SenderWriteCut \/ SenderWriteFails)

PeerReads ==
  /\ process = "running"
  /\ unread > 0
  /\ unread' = unread - 1
  /\ UNCHANGED <<mainVars, signalVars, stopVars, threadVars, inbound, outbound, messages>>

-----------------------------------------------------------------------------
(* The session thread, detached when its object is destroyed.              *)

SessionMoves(from, to) ==
  /\ process = "running"
  /\ session = from
  /\ session' = to
  /\ UNCHANGED <<mainVars, receiver, demux, sender, queueVars, messages>>

\* handleClose: it shuts oeReceiver down, then mdReceiver, then triggers.
CloseSession ==
  /\ SessionMoves("reading", "stopOe")
  /\ UNCHANGED <<signalVars, stopVars>>

SessionStops(r, from, to) ==
  /\ SessionMoves(from, to)
  /\ shouldStop' = [shouldStop EXCEPT ![r] = TRUE]
  /\ socketShut' = [socketShut EXCEPT ![r] = TRUE]
  /\ UNCHANGED signalVars

SessionTriggers ==
  /\ SessionMoves("trigger", "ended")
  /\ Trigger
  /\ UNCHANGED stopVars

SessionStep ==
  \/ SessionStops("oeReceiver", "stopOe", "stopMd")
  \/ SessionStops("mdReceiver", "stopMd", "trigger")
  \/ SessionTriggers

LifeNext ==
  \/ MainStep
  \/ AcceptClient
  \/ StartUpFails
  \/ \E r \in Receivers :
       ReceiveMessage(r) \/ PushMessage(r) \/ ReceiveEnds(r) \/ HeartbeatStale(r) \/ Leave(r)
  \/ DemuxStep
  \/ SenderStep
  \/ SenderWriteCut
  \/ SenderWriteFails
  \/ PeerReads
  \/ CloseSession
  \/ SessionStep

\* Every thread is scheduled.  Nobody has to type CLOSE, and no peer has to
\* connect, to send, to read or to close.
LifeFairness ==
  /\ WF_lifeVars(MainStep)
  /\ \A r \in Receivers : WF_lifeVars(ReceiverStep(r))
  /\ WF_lifeVars(DemuxStep)
  /\ WF_lifeVars(SenderStep)
  /\ WF_lifeVars(SessionStep)

LifeSpec == LifeInit /\ [][LifeNext]_lifeVars /\ LifeFairness

-----------------------------------------------------------------------------
(* Properties.                                                             *)

\* Types; the latch is counted down once, whoever triggers, and how often.
LifeTypeOK ==
  /\ process \in {"running", "aborted", "ended"}
  /\ main \in 1 .. Len(Plan) + 1
  /\ alive \subseteq Range(Declarations)
  /\ latch \in {0, 1}
  /\ signalled <=> latch = 0
  /\ receiver \in [Receivers -> {"unborn", "recv", "push", "leave", "exited"}]
  /\ demux \in {"unborn", "test", "wait", "handle", "send", "exited"}
  /\ sender \in {"unborn", "test", "pop", "write", "exited", "misled", "threw"}
  /\ session \in {"unborn", "reading", "stopOe", "stopMd", "trigger", "ended"}
  /\ inbound \in 0 .. InboundCapacity
  /\ outbound \in 0 .. OutboundCapacity
  /\ unread \in 0 .. SocketCapacity

\* The objects that a thread may still use where it is.  (main calls the
\* reconstructors message handlers.)
UsedByReceiver(r) ==
  IF receiver[r] \in {"unborn", "exited"} THEN {}
  ELSE {r, "inbound", "signal"} \cup
       (IF r = "mdReceiver" THEN {"mdMessageHandler", "mdClient"} ELSE {"oeMessageHandler", "oeClient"})

UsedByDemux ==
  IF demux \in {"unborn", "exited"} THEN {}
  ELSE {"demux", "inbound", "handlers", "engine", "sender"}

\* (Its own object it uses before that is constructed: see SenderTest.)
UsedBySender ==
  IF sender \in {"unborn", "exited", "misled"} THEN {}
  ELSE {"oeClient"} \cup (IF Does("construct") /\ MainObject = "sender" THEN {} ELSE {"sender"})

\* No joined thread can touch an object that is not constructed yet, or whose
\* destructor has run: the order of main's declarations is one in which its
\* threads can be started and taken down.  (The session thread is detached and
\* has no such guarantee.)
NoUseOutsideLifetime ==
  UsedByDemux \cup UsedBySender \cup UNION {UsedByReceiver(r) : r \in Receivers} \subseteq alive

\* The ways in which a shut-down never ends: the demultiplexer waits for a
\* message that nobody will push; it waits for room that a sender which left
\* misled will not make; or a receiver waits for room when the demultiplexer is
\* gone.
DemuxStarved == demux = "wait" /\ inbound = 0 /\ \A r \in Receivers : receiver[r] = "exited"
DemuxBlocked == demux = "send" /\ outbound = OutboundCapacity /\ sender = "misled"
ReceiverBlocked ==
  demux = "exited" /\ inbound = InboundCapacity /\ \E r \in Receivers : receiver[r] = "push"

\* When a receiver ends, for whatever reason, or the session is closed, the
\* process ends or aborts; DemuxStarved, DemuxBlocked and ReceiverBlocked are
\* all that can keep it.  A peer that does not read cannot: the shut-down
\* breaks the send that waits for it.
EndOfOneEndsAll ==
  (\E r \in Receivers : receiver[r] = "leave") \/ session \in {"stopOe", "stopMd", "trigger"}
    ~> process # "running" \/ DemuxStarved \/ DemuxBlocked \/ ReceiverBlocked

\* The peer of the order connection does not read, and the sender waits in send.
SenderBlocked == sender = "write" /\ unread = SocketCapacity /\ ~socketShut["oeReceiver"]

\* A full inbound queue, behind which the receivers wait, is emptied again, for
\* the demultiplexer, the sender and the socket pass everything on, unless the
\* peer of the order connection stops reading: then all of them wait on each
\* other, whatever the clients send.
PressureIsRelieved ==
  inbound = InboundCapacity
    ~> \/ inbound < InboundCapacity
       \/ process # "running"
       \/ SenderBlocked \/ DemuxBlocked \/ ReceiverBlocked
=============================================================================
