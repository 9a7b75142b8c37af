------------------------ MODULE MessageReconstructor ------------------------
(***************************************************************************)
(* MessageReconstructor (src/libs/networking/libslipstream_codec): cuts a  *)
(* byte stream, which recv hands over in pieces of any size, into frames.  *)
(*                                                                         *)
(* A byte is the pair of its frame's number and its position in the frame; *)
(* byte 1 stands for the header, from which the frame's length is read.    *)
(* FrameStream has the callers of recieve.                                 *)
(*                                                                         *)
(* The memcpy of line 15 overlaps itself when more bytes are kept than     *)
(* were consumed, which C++ leaves undefined; copying to a lower address   *)
(* with the C libraries this builds against has the effect of memmove, and *)
(* that is what the model does.                                            *)
(***************************************************************************)
EXTENDS Integers, Sequences, FiniteSets, SequencesExt

CONSTANTS
  BUFFER_SIZE,   \* 2048 in the code
  HeaderSize,    \* sizeof(FrameHeader): 4
  Frames         \* the lengths of the frames of the stream, headers included

ASSUME ReconstructorAssumption ==
  /\ HeaderSize \in Nat \ {0}
  /\ BUFFER_SIZE \in Nat \ {0}
  /\ Frames \in Seq(HeaderSize .. BUFFER_SIZE)

VARIABLES
  buffer,      \* the bytes, indexed from 0
  size,        \* how many of them are kept or new
  dirtyStart,  \* where the kept bytes begin
  got,         \* history: bytes taken from the stream
  delivered,   \* history: the frames returned so far, as sequences of bytes
  refused      \* recieve threw bad_alloc: the receiver's thread ends

reconstructorVars == <<buffer, size, dirtyStart, got, delivered, refused>>

\* A byte that no one has written.
Junk == <<0, 0>>

FrameBytes(i) == [j \in 1 .. Frames[i] |-> <<i, j>>]
Stream == FlattenSeq([i \in DOMAIN Frames |-> FrameBytes(i)])

ReconstructorInit ==
  /\ buffer = [n \in 0 .. BUFFER_SIZE - 1 |-> Junk]
  /\ size = 0
  /\ dirtyStart = 0
  /\ got = 0
  /\ delivered = <<>>
  /\ refused = FALSE

-----------------------------------------------------------------------------
\* (Faulty: the kept bytes are not moved to the front.)
CompactedNot(b) == b

\* The buffer after the kept bytes moved to its front.
Compacted(b) ==
  [n \in DOMAIN b |-> IF n < size THEN b[dirtyStart + n] ELSE b[n]]

\* The buffer after new bytes were copied behind the kept ones.
WithNew(b, bytes) ==
  [n \in DOMAIN b |-> IF n - size + 1 \in DOMAIN bytes THEN bytes[n - size + 1] ELSE b[n]]

\* header.bodyLen + sizeof(FrameHeader), as the bytes at offset o of b give it.
MessageSize(b, o) == IF b[o][2] = 1 THEN Frames[b[o][1]] ELSE HeaderSize

\* (Faulty: the first frame only.)
MessagesFirstOnly(b, n) ==
  IF n < HeaderSize \/ MessageSize(b, 0) > n THEN <<>> ELSE <<0>>

\* getMessages: the offsets of the complete frames among the first n bytes.
Messages(b, n) ==
  LET from[o \in 0 .. n] ==
        IF n - o < HeaderSize \/ MessageSize(b, o) > n - o
        THEN <<>>
        ELSE <<o>> \o from[o + MessageSize(b, o)]
  IN  from[0]

MessageBytes(b, o) == [j \in 1 .. MessageSize(b, o) |-> b[o + j - 1]]

\* (Faulty: the test of the room is off by one.)
FitsOneMore(k) == size + k <= BUFFER_SIZE + 1

\* The buffer has room for k more bytes.
Fits(k) == size + k <= BUFFER_SIZE

\* recieve, when they fit, and the getMessages that follows it.
Recieve(bytes) ==
  /\ ~refused
  /\ Fits(Len(bytes))
  /\ got' = got + Len(bytes)
  /\ buffer' = WithNew(IF dirtyStart # 0 THEN Compacted(buffer) ELSE buffer, bytes)
  /\ LET offsets == Messages(buffer', size + Len(bytes))
         consumed == IF offsets = <<>> THEN 0
                     ELSE Last(offsets) + MessageSize(buffer', Last(offsets))
     IN  /\ size' = size + Len(bytes) - consumed
         /\ dirtyStart' = consumed
         /\ delivered' = delivered \o
              [i \in DOMAIN offsets |-> MessageBytes(buffer', offsets[i])]
  /\ UNCHANGED refused

\* recieve, when they do not.
Refuse(bytes) ==
  /\ ~refused
  /\ ~Fits(Len(bytes))
  /\ refused' = TRUE
  /\ UNCHANGED <<buffer, size, dirtyStart, got, delivered>>

-----------------------------------------------------------------------------
(* Properties.                                                             *)

\* Types; what is kept fits behind what was consumed.
ReconstructorTypeOK ==
  /\ DOMAIN buffer = 0 .. BUFFER_SIZE - 1
  /\ size \in Nat
  /\ dirtyStart \in Nat
  /\ dirtyStart + size <= BUFFER_SIZE
  /\ got \in 0 .. Len(Stream)
  /\ refused \in BOOLEAN

\* Every frame comes out whole and in order, and as soon as its last byte was
\* received, however the stream is cut: after each call what was delivered is
\* exactly the frames that are complete.
FramesIntact ==
  LET complete == {i \in DOMAIN Frames : Len(FlattenSeq([j \in 1 .. i |-> FrameBytes(j)])) <= got}
  IN  delivered = [i \in 1 .. Cardinality(complete) |-> FrameBytes(i)]

\* The kept bytes are the ones received since the last complete frame: a piece
\* of a frame that is waiting survives the move to the front of the buffer.
KeepsThePiece ==
  /\ size + Len(FlattenSeq(delivered)) = got
  /\ \A n \in 0 .. size - 1 : buffer[dirtyStart + n] = Stream[got - size + n + 1]

\* MessageHandlerTests.cpp:58-61 wants the frame that a call completes,
\* "regardless of how finely the stream was chopped up".  The code breaks it:
\* a full read behind the kept piece of a frame does not fit (line 11), and the
\* exception ends the receiver's thread.
NeverRefuses == ~refused
=============================================================================
