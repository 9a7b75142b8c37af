------------------------------ MODULE FrameStream ------------------------------
(***************************************************************************)
(* One direction of a connection, from the sendBuffer of a client to the   *)
(* messages its NetworkMessageReceiver decodes: sendBuffer and             *)
(* receiveBuffer of ClientConnection (src/libs/networking), the callers'   *)
(* loops, and between them a socket that holds a few bytes.                *)
(*                                                                         *)
(* The sockets block.  send returns when the kernel has taken every byte,  *)
(* and returns a short count only if the connection ends meanwhile; no     *)
(* caller looks at the count.  recv returns any piece of what has come.    *)
(***************************************************************************)
EXTENDS MessageReconstructor

CONSTANT SocketCapacity   \* how many bytes the kernels hold

ASSUME SocketAssumption == SocketCapacity \in Nat \ {0}

VARIABLES
  sender,   \* the sender: "idle", "sending", "threw" or "closed"
  sent,     \* how many sends have returned
  taken,    \* the bytes of the frame being sent that the kernel has taken
  link,     \* "up", or "down" when send has an error to report
  wire,     \* the bytes in the socket
  at,       \* the receiver: "recv", "decode", or "closed", "stopped" when run has ended
  left,     \* the frames of the last recieve still to be decoded
  ptr,      \* where the next of them is in the buffer
  whole,    \* history: the frames of which the kernel took every byte
  decoded   \* history: what was read through ptr

senderVars == <<sender, sent, taken, whole>>
decoderVars == <<at, left, ptr, decoded>>
streamVars == <<reconstructorVars, senderVars, link, wire, decoderVars>>

StreamInit ==
  /\ ReconstructorInit
  /\ sender = "idle"
  /\ sent = 0
  /\ taken = 0
  /\ link = "up"
  /\ wire = <<>>
  /\ at = "recv"
  /\ left = 0
  /\ ptr = 0
  /\ whole = <<>>
  /\ decoded = <<>>

-----------------------------------------------------------------------------
(* The sender.                                                             *)

BeginSend ==
  /\ sender = "idle"
  /\ sent < Len(Frames)
  /\ sender' = "sending"
  /\ UNCHANGED <<reconstructorVars, sent, taken, whole, link, wire, decoderVars>>

\* send returns, whatever the number of bytes.
SendReturns ==
  /\ sender' = "idle"
  /\ sent' = sent + 1
  /\ taken' = 0

\* The kernel takes bytes for which there is room; with the last of the frame
\* send returns.
KernelTakes ==
  /\ sender = "sending"
  /\ link = "up"
  /\ \E k \in 1 .. Min({SocketCapacity - Len(wire), Frames[sent + 1] - taken}) :
       /\ wire' = wire \o SubSeq(FrameBytes(sent + 1), taken + 1, taken + k)
       /\ IF taken + k = Frames[sent + 1]
          THEN SendReturns /\ whole' = Append(whole, sent + 1)
          ELSE taken' = taken + k /\ UNCHANGED <<sender, sent, whole>>
  /\ UNCHANGED <<reconstructorVars, link, decoderVars>>

\* (Faulty: the socket does not block, and the count is still not looked at.)
SendReturnsWhenFull ==
  /\ sender = "sending"
  /\ taken > 0
  /\ SendReturns
  /\ UNCHANGED <<reconstructorVars, whole, link, wire, decoderVars>>

\* The connection ended with a part of the frame taken: the count is short and
\* the caller goes on.
SendReturnsShort ==
  /\ sender = "sending"
  /\ taken > 0
  /\ link = "down"
  /\ SendReturns
  /\ UNCHANGED <<reconstructorVars, whole, link, wire, decoderVars>>

\* With nothing taken sendBuffer throws, and no caller catches it.
SendThrows ==
  /\ sender = "sending"
  /\ taken = 0
  /\ link = "down"
  /\ sender' = "threw"
  /\ UNCHANGED <<reconstructorVars, sent, taken, whole, link, wire, decoderVars>>

\* The sender's process ends, after its last row or at any other time; what the
\* kernel has taken is still delivered.
CloseSender ==
  /\ sender # "closed"
  /\ sender' = "closed"
  /\ UNCHANGED <<reconstructorVars, sent, taken, whole, link, wire, decoderVars>>

\* The peer shuts the connection down or resets it, and send will say so.
LinkGoesDown ==
  /\ link = "up"
  /\ link' = "down"
  /\ UNCHANGED <<reconstructorVars, senderVars, wire, decoderVars>>

-----------------------------------------------------------------------------
(* The receiver.                                                           *)

\* What recv may return.
Pieces == {SubSeq(wire, 1, k) : k \in 1 .. Min({Len(wire), BUFFER_SIZE})}

\* receiveBuffer and recieve put a piece into the buffer; what it completes
\* begins there.
TakePiece ==
  /\ \E bytes \in Pieces :
       \/ /\ Recieve(bytes)
          /\ wire' = SubSeq(wire, Len(bytes) + 1, Len(wire))
          /\ left' = Len(delivered') - Len(delivered)
          /\ at' = IF left' = 0 THEN "recv" ELSE "decode"
       \/ /\ Refuse(bytes)
          /\ at' = "stopped"
          /\ UNCHANGED <<wire, left>>
  /\ ptr' = 0
  /\ UNCHANGED <<senderVars, link, decoded>>

\* (Faulty: the next piece is taken while frames are still to be decoded.)
ReceiveEagerly == at \in {"recv", "decode"} /\ TakePiece

\* (Faulty: recv waits until it can fill the buffer.)
ReceiveAll == at = "recv" /\ Len(wire) >= BUFFER_SIZE /\ TakePiece

Receive == at = "recv" /\ TakePiece

\* One round of tryReceive's loop: the frame behind ptr.
DecodeFrame ==
  /\ at = "decode"
  /\ decoded' = Append(decoded, MessageBytes(buffer, ptr))
  /\ ptr' = ptr + MessageSize(buffer, ptr)
  /\ left' = left - 1
  /\ at' = IF left = 1 THEN "recv" ELSE "decode"
  /\ UNCHANGED <<reconstructorVars, senderVars, link, wire>>

\* recv returns 0: the sender has closed and everything was read.
ReceiveEnd ==
  /\ at = "recv"
  /\ sender = "closed"
  /\ wire = <<>>
  /\ at' = "closed"
  /\ UNCHANGED <<reconstructorVars, senderVars, link, wire, left, ptr, decoded>>

\* run ends for another reason: its own shutdown, a reset, a missing heartbeat.
ReceiverStops ==
  /\ at \in {"recv", "decode"}
  /\ at' = "stopped"
  /\ UNCHANGED <<reconstructorVars, senderVars, link, wire, left, ptr, decoded>>

ReceiverStep == Receive \/ DecodeFrame \/ ReceiveEnd

StreamNext ==
  \/ BeginSend
  \/ KernelTakes
  \/ SendReturnsShort
  \/ SendThrows
  \/ CloseSender
  \/ LinkGoesDown
  \/ ReceiverStep
  \/ ReceiverStops

\* The kernel and the receiver's thread go on; the sender may stop at any time.
StreamSpec ==
  /\ StreamInit
  /\ [][StreamNext]_streamVars
  /\ WF_streamVars(KernelTakes)
  /\ WF_streamVars(ReceiverStep)

-----------------------------------------------------------------------------
(* Properties.                                                             *)

\* Types; while frames are to be decoded, ptr is in the part of the buffer that
\* recieve handed out, and at its end when they are done.
StreamTypeOK ==
  /\ ReconstructorTypeOK
  /\ sent \in 0 .. Len(Frames)
  /\ sender \in {"idle", "sending", "threw", "closed"}
  /\ Len(wire) <= SocketCapacity
  /\ at = "decode" => left > 0 /\ ptr < dirtyStart
  /\ at = "recv" => left = 0 /\ ptr \in {0, dirtyStart}

\* A frame of which only a part was sent is the last thing on the wire: a short
\* count that nobody looks at does not bring the stream out of step.
WireInStep == wire = SubSeq(Stream, got + 1, got + Len(wire))

Channel == INSTANCE FrameChannel WITH
  Frame <- {FrameBytes(i) : i \in DOMAIN Frames},
  accepted <- [i \in DOMAIN whole |-> FrameBytes(whole[i])],
  arrived <- decoded

\* What is read through the pointer that recieve returned is what was sent,
\* whole, once and in order: the buffer is not overwritten, and the pointer
\* goes from frame to frame, whatever the pieces.
ImplementsChannel == Channel!ChannelSpec

\* A frame whose sending has begun is decoded, though the socket may be smaller
\* than the frame, unless the sender or the connection ends in the middle of it
\* or the receiver gives up.  The end of the stream is no excuse.
FramesGetThrough ==
  \A i \in DOMAIN Frames :
    (sender = "sending" /\ sent + 1 = i)
      ~> \/ Len(decoded) >= i
         \/ at = "stopped"
         \/ link = "down"
         \/ sender = "closed" /\ sent < i
=============================================================================
