----------------------------- MODULE MCFrameStream -----------------------------
(* FrameStream for TLC: frames of several lengths, down to a bare header   *)
(* and up to the whole buffer, which is more than the socket holds.        *)
EXTENDS FrameStream

MCFrames == <<3, 2, 5, 8, 2, 2, 4, 3>>
=============================================================================
