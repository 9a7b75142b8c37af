----------------------------- MODULE FrameChannel -----------------------------
(***************************************************************************)
(* What a connection promises to the program: the frames that were handed  *)
(* to it whole come out at the other end whole, once and in their order,   *)
(* and the connection may end with some of them undelivered.               *)
(***************************************************************************)
EXTENDS Naturals, Sequences

CONSTANT Frame   \* the frames that may be sent

VARIABLES
  accepted,  \* the frames handed over whole
  arrived    \* those that came out

ChannelInit == accepted = <<>> /\ arrived = <<>>

Accept ==
  /\ \E f \in Frame : accepted' = Append(accepted, f)
  /\ UNCHANGED arrived

Arrive ==
  /\ Len(arrived) < Len(accepted)
  /\ arrived' = Append(arrived, accepted[Len(arrived) + 1])
  /\ UNCHANGED accepted

ChannelSpec == ChannelInit /\ [][Accept \/ Arrive]_<<accepted, arrived>>
=============================================================================
