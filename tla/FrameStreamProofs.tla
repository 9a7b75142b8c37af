--------------------------- MODULE FrameStreamProofs ---------------------------
(***************************************************************************)
(* Proofs about FrameStream and the MessageReconstructor in it, for every  *)
(* sequence of frames that fit the buffer, every size of the buffer and    *)
(* the header, and every capacity of the socket.                           *)
(*                                                                         *)
(* The first part shows what FlattenSeq returns, the second where each     *)
(* frame begins in the stream (Off), the third what the recursive function *)
(* in Messages finds in a buffer that begins like the stream.  Then comes  *)
(* the invariant StreamInv, which says of the bytes in the socket, in the  *)
(* buffer and behind the receiver's pointer where on the stream they are;  *)
(* it is shown of every step, and the properties follow from it.           *)
(***************************************************************************)
EXTENDS FrameStream, NaturalsInduction, WellFoundedInduction, FiniteSetTheorems, TLAPS

-----------------------------------------------------------------------------
(* FlattenSeq.                                                             *)

\* Every set of numbers has a least element.
LEMMA Least ==
  ASSUME NEW S, S \subseteq Nat, NEW x \in S
  PROVE  \E n \in S : \A m \in S : n <= m
<1> DEFINE R == OpToRel(<, Nat)
<1>1. IsWellFoundedOn(R, Nat)
  BY NatLessThanWellFounded
<1>2. PICK n \in S : \A m \in S : <<m, n>> \notin R
  BY <1>1, WFMin
<1>3. \A m \in S : ~(m < n)
  BY <1>2 DEF OpToRel
<1> QED
  BY <1>3

\* The running concatenation that FlattenSeq ends with.
Runs(f, seqs) ==
  f = [i \in 1 .. Len(seqs) |-> IF i = 1 THEN seqs[i] ELSE f[i - 1] \o seqs[i]]

\* By the least number for which there is none.
LEMMA RunsExist ==
  ASSUME NEW seqs, NEW n \in Nat
  PROVE  \E f : f = [i \in 1 .. n |-> IF i = 1 THEN seqs[i] ELSE f[i - 1] \o seqs[i]]
<1> DEFINE Has(m) ==
             \E f : f = [i \in 1 .. m |-> IF i = 1 THEN seqs[i] ELSE f[i - 1] \o seqs[i]]
           Lacks == {m \in Nat : ~Has(m)}
<1> SUFFICES ASSUME Lacks # {} PROVE FALSE
  OBVIOUS
<1>1. PICK m \in Lacks : \A k \in Lacks : m <= k
  BY Least
<1>2. Has(0)
  <2> DEFINE f == [i \in 1 .. 0 |-> IF i = 1 THEN seqs[i] ELSE seqs[i]]
  <2>1. f = [i \in 1 .. 0 |-> IF i = 1 THEN seqs[i] ELSE f[i - 1] \o seqs[i]]
    OBVIOUS
  <2> QED
    BY <2>1
<1>3. m # 0 /\ m \in Nat
  BY <1>2, <1>1
<1>4. Has(m - 1)
  <2>1. m - 1 \in Nat /\ ~(m <= m - 1)
    BY <1>3
  <2>2. m - 1 \notin Lacks
    BY <2>1, <1>1
  <2> HIDE DEF Has
  <2> QED
    BY <2>1, <2>2
<1>5. PICK f : f = [i \in 1 .. m - 1 |-> IF i = 1 THEN seqs[i] ELSE f[i - 1] \o seqs[i]]
  BY <1>4
<1> DEFINE g == [i \in 1 .. m |-> IF i < m THEN f[i]
                                  ELSE IF m = 1 THEN seqs[1] ELSE f[m - 1] \o seqs[m]]
<1>6. ASSUME NEW i \in 1 .. m
      PROVE g[i] = IF i = 1 THEN seqs[i] ELSE g[i - 1] \o seqs[i]
  <2>1. CASE i < m
    <3>1. i \in 1 .. m - 1 /\ g[i] = f[i] /\ (i # 1 => g[i - 1] = f[i - 1])
      BY <2>1, <1>3
    <3>2. f[i] = IF i = 1 THEN seqs[i] ELSE f[i - 1] \o seqs[i]
      BY <3>1, <1>5
    <3> QED
      BY <3>1, <3>2
  <2>2. CASE i = m
    BY <2>2, <1>3
  <2> QED
    BY <2>1, <2>2, <1>3
<1>7. g = [i \in 1 .. m |-> IF i = 1 THEN seqs[i] ELSE g[i - 1] \o seqs[i]]
  BY <1>6
<1>8. Has(m)
  BY <1>7
<1> QED
  BY <1>8, <1>1

\* FlattenSeq of a sequence that is not empty is the last of the running
\* concatenations.
LEMMA FlattenIsRuns ==
  ASSUME NEW seqs, Len(seqs) \in Nat \ {0}
  PROVE  \E f : Runs(f, seqs) /\ FlattenSeq(seqs) = f[Len(seqs)]
<1> DEFINE flatten == CHOOSE f : f = [i \in 1 .. Len(seqs) |->
                                        IF i = 1 THEN seqs[i] ELSE f[i - 1] \o seqs[i]]
<1>1. FlattenSeq(seqs) = flatten[Len(seqs)]
  BY DEF FlattenSeq
<1>2. Runs(flatten, seqs)
  BY RunsExist DEF Runs
<1> QED
  BY <1>1, <1>2

\* The k-th step of a part is within the whole.
LEMMA StepWithin ==
  ASSUME NEW a \in Nat, NEW b \in Nat, NEW c \in Nat, NEW k \in Nat,
         1 <= k, k <= b, a + b <= c
  PROVE  a + k \in 1 .. c
OBVIOUS

\* off[i] is where the (i + 1)-st of seqs begins in their concatenation.
Offsets(off, seqs) ==
  /\ off \in [0 .. Len(seqs) -> Nat]
  /\ off[0] = 0
  /\ \A i \in 1 .. Len(seqs) : off[i] = off[i - 1] + Len(seqs[i])

\* s is the concatenation of the first m of seqs.
Joins(s, seqs, off, m) ==
  /\ Len(s) = off[m]
  /\ \A i \in 1 .. m : off[i] <= off[m]
  /\ \A i \in 1 .. m : \A k \in 1 .. Len(seqs[i]) : s[off[i - 1] + k] = seqs[i][k]

\* One more sequence behind a concatenation.
LEMMA JoinOneMore ==
  ASSUME NEW T, NEW seqs \in Seq(Seq(T)), NEW off, Offsets(off, seqs),
         NEW m \in 1 .. Len(seqs) - 1, NEW s \in Seq(T), Joins(s, seqs, off, m)
  PROVE  Joins(s \o seqs[m + 1], seqs, off, m + 1)
<1> DEFINE z == s \o seqs[m + 1]
<1>1. m \in Nat /\ m + 1 \in 1 .. Len(seqs) /\ m \in 0 .. Len(seqs)
  OBVIOUS
<1>2. seqs[m + 1] \in Seq(T) /\ Len(seqs[m + 1]) \in Nat
  BY <1>1
<1>3. off[m] \in Nat /\ off[m + 1] = off[m] + Len(seqs[m + 1])
  <2>1. off[m + 1] = off[(m + 1) - 1] + Len(seqs[m + 1])
    BY <1>1 DEF Offsets
  <2>2. (m + 1) - 1 = m
    BY <1>1
  <2>3. off[m] \in Nat
    BY <1>1 DEF Offsets
  <2> QED
    BY <2>1, <2>2, <2>3
<1>4. Len(z) = off[m + 1]
  <2>1. Len(s) = off[m]
    BY DEF Joins
  <2>2. Len(z) = Len(s) + Len(seqs[m + 1])
    BY <1>2
  <2> QED
    BY <2>1, <2>2, <1>3
<1>5. ASSUME NEW i \in 1 .. m + 1 PROVE off[i] <= off[m + 1]
  <2>1. CASE i \in 1 .. m
    <3>1. i \in 0 .. Len(seqs)
      BY <2>1, <1>1
    <3>2. off[i] <= off[m] /\ off[i] \in Nat
      BY <2>1, <3>1 DEF Joins, Offsets
    <3> QED
      BY <3>2, <1>2, <1>3
  <2>2. CASE i = m + 1
    BY <2>2, <1>2, <1>3
  <2> QED
    BY <2>1, <2>2
<1>6. ASSUME NEW i \in 1 .. m + 1, NEW k \in 1 .. Len(seqs[i])
      PROVE  z[off[i - 1] + k] = seqs[i][k]
  <2>1. CASE i \in 1 .. m
    <3>1. i \in 1 .. Len(seqs) /\ i - 1 \in 0 .. Len(seqs) /\ Len(seqs[i]) \in Nat
      BY <2>1, <1>1
    <3>2. off[i - 1] \in Nat /\ off[i] = off[i - 1] + Len(seqs[i]) /\ off[i] <= off[m]
      BY <3>1, <2>1 DEF Offsets, Joins
    <3>3. off[i - 1] + k \in 1 .. Len(s)
      <4>1. Len(s) = off[m]
        BY DEF Joins
      <4>2. k \in Nat /\ 1 <= k /\ k <= Len(seqs[i])
        BY <3>1
      <4>3. off[i - 1] + Len(seqs[i]) <= Len(s)
        BY <3>2, <4>1
      <4>4. Len(seqs[i]) \in Nat /\ off[i - 1] \in Nat /\ Len(s) \in Nat
        BY <3>1, <3>2
      <4> QED
        BY <4>2, <4>3, <4>4, StepWithin
    <3>4. z[off[i - 1] + k] = s[off[i - 1] + k]
      BY <3>3, <1>2
    <3> QED
      BY <3>4, <2>1 DEF Joins
  <2>2. CASE i = m + 1
    <3>1. off[i - 1] = Len(s) /\ Len(s) \in Nat
      BY <2>2 DEF Joins
    <3>2. z[Len(s) + k] = seqs[m + 1][k]
      BY <3>1, <2>2, <1>2
    <3> QED
      BY <3>1, <3>2, <2>2
  <2>3. i \in 1 .. m \/ i = m + 1
    BY <1>1
  <2> HIDE DEF z
  <2> QED
    BY <2>1, <2>2, <2>3
<1> QED
  BY <1>4, <1>5, <1>6 DEF Joins

\* FlattenSeq is the concatenation, each sequence at its offset.
LEMMA FlattenJoins ==
  ASSUME NEW T, NEW seqs \in Seq(Seq(T)), seqs # <<>>, NEW off, Offsets(off, seqs)
  PROVE  /\ FlattenSeq(seqs) \in Seq(T)
         /\ Joins(FlattenSeq(seqs), seqs, off, Len(seqs))
<1>1. Len(seqs) \in Nat \ {0}
  OBVIOUS
<1>2. PICK f : Runs(f, seqs) /\ FlattenSeq(seqs) = f[Len(seqs)]
  BY <1>1, FlattenIsRuns
<1> DEFINE P(m) == f[m] \in Seq(T) /\ Joins(f[m], seqs, off, m)
           Bad == {m \in 1 .. Len(seqs) : ~P(m)}
<1>3. SUFFICES ASSUME Bad # {} PROVE FALSE
  BY <1>1, <1>2
<1>4. PICK m \in Bad : \A k \in Bad : m <= k
  <2>1. Bad \subseteq Nat
    BY <1>1
  <2> HIDE DEF Bad
  <2> QED
    BY <2>1, <1>3, Least
<1>5. P(1)
  <2>1. f[1] = seqs[1]
    BY <1>1, <1>2 DEF Runs
  <2>2. seqs[1] \in Seq(T)
    BY <1>1
  <2>3. off[1] = Len(seqs[1])
    BY <1>1, <2>2 DEF Offsets
  <2>4. Joins(seqs[1], seqs, off, 1)
    <3>1. \A i \in 1 .. 1 : i = 1 /\ off[i - 1] = 0
      BY DEF Offsets
    <3>2. \A k \in 1 .. Len(seqs[1]) : 0 + k = k
      BY <2>2
    <3>3. \A i \in 1 .. 1 : off[i] <= off[1]
      BY <3>1, <2>2, <2>3
    <3>4. \A i \in 1 .. 1 : \A k \in 1 .. Len(seqs[i]) : seqs[1][off[i - 1] + k] = seqs[i][k]
      BY <3>1, <3>2
    <3> QED
      BY <3>3, <3>4, <2>3 DEF Joins
  <2> QED
    BY <2>1, <2>2, <2>4
<1>6. m \in 2 .. Len(seqs)
  BY <1>4, <1>5, <1>1
<1>7. P(m - 1)
  <2>1. m - 1 \in 1 .. Len(seqs) /\ ~(m <= m - 1)
    BY <1>6
  <2>2. m - 1 \notin Bad
    BY <2>1, <1>4
  <2> HIDE DEF P
  <2> QED
    BY <2>1, <2>2
<1>8. f[m] = f[m - 1] \o seqs[m]
  <2>1. m \in 1 .. Len(seqs) /\ m # 1
    BY <1>6
  <2>2. f[m] = IF m = 1 THEN seqs[m] ELSE f[m - 1] \o seqs[m]
    BY <2>1, <1>2 DEF Runs
  <2> QED
    BY <2>1, <2>2
<1>9. P(m)
  <2>1. m - 1 \in 1 .. Len(seqs) - 1 /\ (m - 1) + 1 = m
    BY <1>6, <1>1
  <2>2. Joins(f[m - 1] \o seqs[(m - 1) + 1], seqs, off, (m - 1) + 1)
    BY <2>1, <1>7, JoinOneMore
  <2>3. seqs[m] \in Seq(T)
    BY <1>6
  <2> QED
    BY <2>1, <2>2, <2>3, <1>7, <1>8
<1> QED
  BY <1>9, <1>4

-----------------------------------------------------------------------------
(* The stream: where each frame begins.                                    *)

Count == Len(Frames)
Byte == (1 .. Count) \X Nat
Framed == [i \in DOMAIN Frames |-> FrameBytes(i)]

\* off[i] is the end of frame i and the beginning of the next.
Off == CHOOSE off : Offsets(off, Framed)

\* The frames, their lengths and their bytes.
LEMMA FrameTypes ==
  /\ Count \in Nat /\ DOMAIN Frames = 1 .. Count
  /\ HeaderSize \in Nat \ {0} /\ BUFFER_SIZE \in Nat \ {0}
  /\ \A i \in 1 .. Count : /\ Frames[i] \in Nat /\ HeaderSize <= Frames[i]
                           /\ Frames[i] <= BUFFER_SIZE
                           /\ FrameBytes(i) \in Seq(Byte) /\ Len(FrameBytes(i)) = Frames[i]
                           /\ \A k \in 1 .. Frames[i] : FrameBytes(i)[k] = <<i, k>>
  /\ Framed \in Seq(Seq(Byte)) /\ Len(Framed) = Count
<1>1. /\ Count \in Nat /\ DOMAIN Frames = 1 .. Count
      /\ HeaderSize \in Nat \ {0} /\ BUFFER_SIZE \in Nat \ {0}
  BY ReconstructorAssumption DEF Count
<1>2. ASSUME NEW i \in 1 .. Count
      PROVE  Frames[i] \in Nat /\ HeaderSize <= Frames[i] /\ Frames[i] <= BUFFER_SIZE
  <2>1. Frames[i] \in HeaderSize .. BUFFER_SIZE
    BY <1>1, ReconstructorAssumption
  <2> QED
    BY <2>1, <1>1
<1>3. ASSUME NEW i \in 1 .. Count
      PROVE  /\ FrameBytes(i) \in Seq(Byte) /\ Len(FrameBytes(i)) = Frames[i]
             /\ \A k \in 1 .. Frames[i] : FrameBytes(i)[k] = <<i, k>>
  <2>1. \A k \in 1 .. Frames[i] : <<i, k>> \in Byte
    BY <1>2 DEF Byte
  <2> QED
    BY <1>2, <2>1 DEF FrameBytes
<1>4. Framed \in Seq(Seq(Byte)) /\ Len(Framed) = Count
  BY <1>1, <1>3 DEF Framed
<1> QED
  BY <1>1, <1>2, <1>3, <1>4

\* By the least number of sequences for which there are none.
LEMMA OffsetsExist ==
  ASSUME NEW T, NEW seqs \in Seq(Seq(T))
  PROVE  \E off : Offsets(off, seqs)
<1> DEFINE Upto(off, m) == /\ off \in [0 .. m -> Nat]
                           /\ off[0] = 0
                           /\ \A i \in 1 .. m : off[i] = off[i - 1] + Len(seqs[i])
           Lacks == {m \in 0 .. Len(seqs) : ~ \E off : Upto(off, m)}
<1>1. ASSUME Lacks # {} PROVE FALSE
  <2>1. PICK m \in Lacks : \A k \in Lacks : m <= k
    <3>1. Lacks \subseteq Nat
      OBVIOUS
    <3> HIDE DEF Lacks
    <3> QED
      BY <3>1, <1>1, Least
  <2>2. Upto([i \in 0 .. 0 |-> 0], 0)
    OBVIOUS
  <2>3. m \in 1 .. Len(seqs)
    <3> HIDE DEF Upto
    <3> QED
      BY <2>1, <2>2
  <2>4. PICK off : Upto(off, m - 1)
    <3>1. m - 1 \in 0 .. Len(seqs) /\ ~(m <= m - 1)
      BY <2>3
    <3>2. m - 1 \notin Lacks
      BY <3>1, <2>1
    <3> HIDE DEF Upto
    <3> QED
      BY <3>1, <3>2
  <2> DEFINE g == [i \in 0 .. m |-> IF i < m THEN off[i] ELSE off[m - 1] + Len(seqs[m])]
  <2>5. Len(seqs[m]) \in Nat
    BY <2>3
  <2>6. g \in [0 .. m -> Nat] /\ g[0] = 0
    BY <2>3, <2>4, <2>5
  <2>7. ASSUME NEW i \in 1 .. m PROVE g[i] = g[i - 1] + Len(seqs[i])
    <3>1. CASE i < m
      <4>1. i \in 1 .. m - 1 /\ g[i] = off[i] /\ g[i - 1] = off[i - 1]
        BY <3>1, <2>3
      <4> QED
        BY <4>1, <2>4
    <3>2. CASE i = m
      BY <3>2, <2>3
    <3> QED
      BY <3>1, <3>2, <2>3
  <2>8. Upto(g, m)
    BY <2>6, <2>7
  <2> HIDE DEF Upto
  <2> QED
    BY <2>1, <2>8
<1>2. Len(seqs) \in Nat
  OBVIOUS
<1>3. PICK off : Upto(off, Len(seqs))
  <2>1. Len(seqs) \in 0 .. Len(seqs) /\ Len(seqs) \notin Lacks
    <3>1. Len(seqs) \in 0 .. Len(seqs)
      BY <1>2
    <3>2. Lacks = {}
      BY <1>1
    <3> HIDE DEF Lacks
    <3> QED
      BY <3>1, <3>2
  <2> HIDE DEF Upto
  <2> QED
    BY <2>1
<1>4. Offsets(off, seqs)
  BY <1>3 DEF Offsets
<1> QED
  BY <1>4

\* Each frame ends where the next begins.
LEMMA OffTypes ==
  /\ Offsets(Off, Framed)
  /\ Off[0] = 0
  /\ \A i \in 0 .. Count : Off[i] \in Nat
  /\ \A i \in 1 .. Count : Off[i] = Off[i - 1] + Frames[i]
  /\ \A i \in 0 .. Count - 1 : Off[i + 1] = Off[i] + Frames[i + 1]
<1>1. Offsets(Off, Framed)
  BY OffsetsExist, FrameTypes DEF Off
<1>2. \A i \in 1 .. Count : Len(Framed[i]) = Frames[i]
  BY FrameTypes DEF Framed
<1>3. \A i \in 1 .. Count : Off[i] = Off[i - 1] + Frames[i]
  BY <1>1, <1>2, FrameTypes DEF Offsets
<1>4. ASSUME NEW i \in 0 .. Count - 1 PROVE Off[i + 1] = Off[i] + Frames[i + 1]
  <2>1. i + 1 \in 1 .. Count /\ (i + 1) - 1 = i
    BY FrameTypes
  <2> QED
    BY <2>1, <1>3
<1> QED
  BY <1>1, <1>3, <1>4, FrameTypes DEF Offsets

\* The offsets rise.
LEMMA OffRises ==
  ASSUME NEW i \in 0 .. Count, NEW j \in 0 .. Count, i <= j
  PROVE  Off[i] <= Off[j]
<1> DEFINE Bad == {n \in i .. Count : ~(Off[i] <= Off[n])}
<1>1. SUFFICES ASSUME Bad # {} PROVE FALSE
  <2>1. j \in i .. Count
    BY FrameTypes
  <2> QED
    BY <2>1
<1>2. Count \in Nat /\ i \in Nat
  BY FrameTypes
<1>3. PICK n \in Bad : \A k \in Bad : n <= k
  <2>1. Bad \subseteq Nat
    BY <1>2
  <2> HIDE DEF Bad
  <2> QED
    BY <2>1, <1>1, Least
<1>4. n \in i + 1 .. Count
  BY <1>2, <1>3, OffTypes
<1>5. Off[i] <= Off[n - 1]
  <2>1. n - 1 \in i .. Count /\ ~(n <= n - 1)
    BY <1>2, <1>4
  <2>2. n - 1 \notin Bad
    BY <2>1, <1>3
  <2> QED
    BY <2>1, <2>2
<1>6. /\ Off[n] = Off[n - 1] + Frames[n]
      /\ Off[n - 1] \in Nat /\ Frames[n] \in Nat /\ Off[i] \in Nat
  BY <1>2, <1>4, OffTypes, FrameTypes
<1> QED
  BY <1>3, <1>5, <1>6

\* The beginning of a frame before another is followed by its end.
LEMMA OffBefore ==
  ASSUME NEW i \in 0 .. Count, NEW j \in 0 .. Count, i < j
  PROVE  /\ Off[i] + Frames[i + 1] <= Off[j] /\ Off[i + 1] = Off[i] + Frames[i + 1]
         /\ Off[i] < Off[j]
<1>1. i + 1 \in 0 .. Count /\ i + 1 <= j /\ i \in 0 .. Count - 1 /\ i + 1 \in 1 .. Count
  BY FrameTypes
<1>2. Off[i + 1] = Off[i] + Frames[i + 1]
  BY <1>1, OffTypes
<1>3. Off[i + 1] <= Off[j]
  BY <1>1, OffRises
<1>4. Off[i] \in Nat /\ Off[j] \in Nat /\ Frames[i + 1] \in Nat /\ Frames[i + 1] >= 1
  <2>1. /\ Frames[i + 1] \in Nat /\ HeaderSize <= Frames[i + 1]
        /\ HeaderSize \in Nat \ {0}
    BY <1>1, FrameTypes
  <2>2. Off[i] \in Nat /\ Off[j] \in Nat
    BY OffTypes
  <2> QED
    BY <2>1, <2>2
<1> QED
  BY <1>2, <1>3, <1>4

\* The stream is the frames one after another, and so is each of its beginnings.
LEMMA Beginnings ==
  ASSUME NEW m \in 1 .. Count
  PROVE  /\ FlattenSeq([j \in 1 .. m |-> FrameBytes(j)]) \in Seq(Byte)
         /\ Len(FlattenSeq([j \in 1 .. m |-> FrameBytes(j)])) = Off[m]
         /\ \A i \in 1 .. m : \A k \in 1 .. Frames[i] :
              FlattenSeq([j \in 1 .. m |-> FrameBytes(j)])[Off[i - 1] + k] = <<i, k>>
<1> DEFINE seqs == [j \in 1 .. m |-> FrameBytes(j)]
           off == [i \in 0 .. m |-> Off[i]]
<1>1. /\ m \in Nat \ {0}
      /\ \A i \in 0 .. m : i \in 0 .. Count
      /\ \A i \in 1 .. m : i \in 1 .. Count /\ i \in 0 .. m /\ i - 1 \in 0 .. m
  <2>1. Count \in Nat
    BY FrameTypes
  <2> QED
    BY <2>1
<1>2. seqs \in Seq(Seq(Byte)) /\ Len(seqs) = m /\ seqs # <<>>
  <2>1. \A i \in 1 .. m : FrameBytes(i) \in Seq(Byte)
    BY <1>1, FrameTypes
  <2>2. seqs \in [1 .. m -> Seq(Byte)] /\ m \in Nat
    BY <1>1, <2>1
  <2>3. seqs \in Seq(Seq(Byte)) /\ Len(seqs) = m
    <3> HIDE DEF seqs
    <3> QED
      BY <2>2
  <2> HIDE DEF seqs
  <2> QED
    BY <2>3, <1>1
<1>3. \A i \in 1 .. m : seqs[i] = FrameBytes(i) /\ Len(seqs[i]) = Frames[i]
  BY <1>1, FrameTypes
<1>4. Offsets(off, seqs)
  <2>1. off \in [0 .. m -> Nat] /\ off[0] = 0
    BY <1>1, OffTypes
  <2>2. ASSUME NEW i \in 1 .. m PROVE off[i] = off[i - 1] + Len(seqs[i])
    <3>1. off[i] = Off[i] /\ off[i - 1] = Off[i - 1]
      BY <1>1
    <3>2. Off[i] = Off[i - 1] + Frames[i]
      BY <1>1, OffTypes
    <3> QED
      BY <3>1, <3>2, <1>3
  <2> HIDE DEF off, seqs
  <2> QED
    BY <2>1, <2>2, <1>2 DEF Offsets
<1>5. \A i \in 0 .. m : off[i] = Off[i]
  OBVIOUS
<1>6. m \in 0 .. m /\ \A i \in 1 .. m : i - 1 \in 0 .. m
  BY <1>1
<1> HIDE DEF off, seqs
<1>7. FlattenSeq(seqs) \in Seq(Byte) /\ Joins(FlattenSeq(seqs), seqs, off, m)
  BY <1>2, <1>4, FlattenJoins
<1>8. Len(FlattenSeq(seqs)) = Off[m]
  BY <1>5, <1>6, <1>7 DEF Joins
<1>9. ASSUME NEW i \in 1 .. m, NEW k \in 1 .. Frames[i]
      PROVE  FlattenSeq(seqs)[Off[i - 1] + k] = <<i, k>>
  <2>1. FlattenSeq(seqs)[off[i - 1] + k] = seqs[i][k]
    BY <1>3, <1>7 DEF Joins
  <2>2. i \in 1 .. Count
    BY <1>1
  <2> QED
    BY <2>1, <2>2, <1>3, <1>5, <1>6, FrameTypes
<1> QED
  BY <1>7, <1>8, <1>9 DEF seqs

\* Byte k of frame i is the k-th after the frame's beginning.
LEMMA StreamBytes ==
  /\ Stream \in Seq(Byte) /\ Len(Stream) = Off[Count]
  /\ \A i \in 1 .. Count : \A k \in 1 .. Frames[i] : Stream[Off[i - 1] + k] = <<i, k>>
<1>1. CASE Count = 0
  <2>1. Stream = Framed
    BY <1>1, FrameTypes DEF Stream, FlattenSeq, Framed
  <2>2. Framed = <<>>
    BY <1>1, FrameTypes
  <2> QED
    BY <1>1, <2>1, <2>2, OffTypes
<1>2. CASE Count # 0
  <2>1. Count \in 1 .. Count
    BY <1>2, FrameTypes
  <2>2. Stream = FlattenSeq([j \in 1 .. Count |-> FrameBytes(j)])
    BY FrameTypes DEF Stream
  <2> QED
    BY <2>1, <2>2, Beginnings
<1> QED
  BY <1>1, <1>2

-----------------------------------------------------------------------------
(* getMessages: the offsets of the complete frames in a buffer.            *)

\* What Messages is defined by, with the recursion from the other end: f holds
\* at the last m offsets.
Scans(f, b, n, m) ==
  f = [o \in n - m .. n |-> IF n - o < HeaderSize \/ MessageSize(b, o) > n - o
                            THEN <<>>
                            ELSE <<o>> \o f[o + MessageSize(b, o)]]

\* b begins with n bytes of the stream, from the beginning of frame d + 1.
Begins(b, n, d) ==
  /\ d \in 0 .. Count
  /\ n \in Nat
  /\ Off[d] + n <= Off[Count]
  /\ \A x \in 0 .. n - 1 : b[x] = Stream[(Off[d] + x) + 1]

\* The scan goes forward from wherever it is.
LEMMA SizeIsPositive ==
  ASSUME NEW b, NEW n, NEW d, Begins(b, n, d), NEW o \in 0 .. n - 1
  PROVE  MessageSize(b, o) \in Nat \ {0}
<1>1. Off[d] \in Nat /\ n \in Nat /\ Off[Count] \in Nat /\ Off[d] + n <= Off[Count]
  BY OffTypes, FrameTypes DEF Begins
<1>2. (Off[d] + o) + 1 \in 1 .. Off[Count]
  BY <1>1
<1>3. b[o] \in Byte
  <2>1. b[o] = Stream[(Off[d] + o) + 1]
    BY DEF Begins
  <2>2. Stream[(Off[d] + o) + 1] \in Byte
    BY <1>2, StreamBytes
  <2> QED
    BY <2>1, <2>2
<1>4. b[o][1] \in 1 .. Count
  BY <1>3 DEF Byte
<1>5. /\ Frames[b[o][1]] \in Nat /\ HeaderSize <= Frames[b[o][1]]
      /\ HeaderSize \in Nat \ {0}
  BY <1>4, FrameTypes
<1> QED
  BY <1>5 DEF MessageSize

\* From the last offset backwards there is always one more.
LEMMA ScansExist ==
  ASSUME NEW b, NEW n, NEW d, Begins(b, n, d)
  PROVE  \E f : Scans(f, b, n, n)
<1> DEFINE Lacks == {m \in 0 .. n : ~ \E f : Scans(f, b, n, m)}
<1>1. n \in Nat /\ HeaderSize \in Nat \ {0}
  BY FrameTypes DEF Begins
<1>2. SUFFICES ASSUME Lacks # {} PROVE FALSE
  BY <1>1
<1>3. PICK m \in Lacks : \A k \in Lacks : m <= k
  <2>1. Lacks \subseteq Nat
    BY <1>1
  <2> HIDE DEF Lacks
  <2> QED
    BY <2>1, <1>2, Least
<1>4. \E f : Scans(f, b, n, 0)
  <2> DEFINE f == [o \in n - 0 .. n |-> <<>>]
  <2>1. \A o \in n - 0 .. n : n - o < HeaderSize
    BY <1>1
  <2>2. Scans(f, b, n, 0)
    BY <2>1 DEF Scans
  <2> QED
    BY <2>2
<1>5. m \in 1 .. n
  BY <1>3, <1>4
<1>6. PICK f : Scans(f, b, n, m - 1)
  <2>1. m - 1 \in 0 .. n /\ ~(m <= m - 1)
    BY <1>1, <1>5
  <2>2. m - 1 \notin Lacks
    BY <2>1, <1>3
  <2> QED
    BY <2>1, <2>2
<1> DEFINE v == n - m
           g == [o \in n - m .. n |->
                  IF o = v
                  THEN IF n - v < HeaderSize \/ MessageSize(b, v) > n - v THEN <<>>
                       ELSE <<v>> \o f[v + MessageSize(b, v)]
                  ELSE f[o]]
<1>7. v \in 0 .. n - 1 /\ MessageSize(b, v) \in Nat \ {0}
  <2>1. v \in 0 .. n - 1
    BY <1>1, <1>5
  <2> QED
    BY <2>1, SizeIsPositive
<1>8. ASSUME NEW o \in n - m .. n
      PROVE  g[o] = IF n - o < HeaderSize \/ MessageSize(b, o) > n - o THEN <<>>
                    ELSE <<o>> \o g[o + MessageSize(b, o)]
  <2>1. \A q \in (n - (m - 1)) .. n : q \in n - m .. n /\ q # v /\ g[q] = f[q]
    BY <1>1, <1>5
  <2>2. CASE n - o < HeaderSize \/ MessageSize(b, o) > n - o
    <3>1. CASE o = v
      BY <2>2, <3>1
    <3>2. CASE o # v
      <4>1. o \in (n - (m - 1)) .. n
        BY <3>2, <1>1, <1>5
      <4>2. f[o] = <<>>
        BY <4>1, <2>2, <1>6 DEF Scans
      <4> QED
        BY <4>1, <4>2, <2>1, <2>2
    <3> QED
      BY <3>1, <3>2
  <2>3. CASE ~(n - o < HeaderSize) /\ ~(MessageSize(b, o) > n - o)
    <3>1. o \in 0 .. n - 1
      BY <2>3, <1>1, <1>5
    <3>2. MessageSize(b, o) \in Nat \ {0}
      BY <3>1, SizeIsPositive
    <3>3. o + MessageSize(b, o) \in (n - (m - 1)) .. n
      BY <3>1, <3>2, <2>3, <1>1, <1>5
    <3>4. g[o + MessageSize(b, o)] = f[o + MessageSize(b, o)]
      BY <3>3, <2>1
    <3>5. CASE o = v
      BY <3>4, <3>5, <2>3
    <3>6. CASE o # v
      <4>1. o \in (n - (m - 1)) .. n
        BY <3>6, <1>1, <1>5
      <4>2. f[o] = <<o>> \o f[o + MessageSize(b, o)]
        BY <4>1, <2>3, <1>6 DEF Scans
      <4>3. g[o] = f[o]
        BY <4>1, <2>1
      <4> HIDE DEF g
      <4> QED
        BY <4>2, <4>3, <2>3, <3>4
    <3> QED
      BY <3>5, <3>6
  <2> QED
    BY <2>2, <2>3
<1>9. Scans(g, b, n, m)
  BY <1>8 DEF Scans
<1> QED
  BY <1>9, <1>3

\* Messages is such a scan, from offset 0.
LEMMA MessagesScan ==
  ASSUME NEW b, NEW n, NEW d, Begins(b, n, d)
  PROVE  \E f : Scans(f, b, n, n) /\ Messages(b, n) = f[0]
<1> DEFINE from == CHOOSE f : f = [o \in 0 .. n |->
                     IF n - o < HeaderSize \/ MessageSize(b, o) > n - o
                     THEN <<>> ELSE <<o>> \o f[o + MessageSize(b, o)]]
<1>1. n - n = 0
  BY DEF Begins
<1>2. Scans(from, b, n, n)
  <2>1. PICK f : Scans(f, b, n, n)
    BY ScansExist
  <2>2. f = [o \in 0 .. n |-> IF n - o < HeaderSize \/ MessageSize(b, o) > n - o
                             THEN <<>> ELSE <<o>> \o f[o + MessageSize(b, o)]]
    BY <1>1, <2>1 DEF Scans
  <2>3. from = [o \in 0 .. n |-> IF n - o < HeaderSize \/ MessageSize(b, o) > n - o
                                THEN <<>> ELSE <<o>> \o from[o + MessageSize(b, o)]]
    BY <2>2
  <2> HIDE DEF from
  <2> QED
    BY <1>1, <2>3 DEF Scans
<1>3. Messages(b, n) = from[0]
  BY DEF Messages
<1> QED
  BY <1>2, <1>3

\* Where frames j + 1 to last begin, seen from the beginning of frame d + 1.
Starts(d, j, last) == [i \in 1 .. last - j |-> Off[(j + i) - 1] - Off[d]]

\* last is the last frame of which all is among n bytes after the first d frames.
LastWhole(d, n, last) ==
  /\ last \in d .. Count
  /\ Off[last] <= Off[d] + n
  /\ last # Count => Off[d] + n < Off[last + 1]

\* At the beginning of a frame its length is read from its header.
LEMMA SizeOfNext ==
  ASSUME NEW b, NEW n, NEW d, Begins(b, n, d), NEW j \in d .. Count - 1, Off[j] < Off[d] + n
  PROVE  MessageSize(b, Off[j] - Off[d]) = Frames[j + 1]
<1>1. Count \in Nat /\ d \in 0 .. Count /\ d \in 0 .. Count - 1
      /\ j \in 0 .. Count /\ j + 1 \in 1 .. Count /\ (j + 1) - 1 = j /\ d <= j
  BY FrameTypes DEF Begins
<1>2. Off[d] \in Nat /\ Off[j] \in Nat /\ Off[d] <= Off[j] /\ n \in Nat
  BY <1>1, OffTypes, OffRises DEF Begins
<1>3. Off[j] - Off[d] \in 0 .. n - 1
  BY <1>2
<1>4. b[Off[j] - Off[d]] = Stream[(Off[d] + (Off[j] - Off[d])) + 1]
  BY <1>3 DEF Begins
<1>5. (Off[d] + (Off[j] - Off[d])) + 1 = Off[j] + 1
  BY <1>2
<1>6. Stream[Off[j] + 1] = <<j + 1, 1>>
  <2>1. 1 \in 1 .. Frames[j + 1]
    <3>1. /\ Frames[j + 1] \in Nat /\ HeaderSize <= Frames[j + 1]
          /\ HeaderSize \in Nat \ {0}
      BY <1>1, FrameTypes
    <3> QED
      BY <3>1
  <2>2. Stream[Off[(j + 1) - 1] + 1] = <<j + 1, 1>>
    BY <1>1, <2>1, StreamBytes
  <2> QED
    BY <2>2, <1>1
<1> QED
  BY <1>4, <1>5, <1>6 DEF MessageSize

\* The scan ends before a frame that is not whole.
LEMMA ScanStops ==
  ASSUME NEW b, NEW n, NEW d, Begins(b, n, d), NEW last, LastWhole(d, n, last),
         NEW f, Scans(f, b, n, n)
  PROVE  f[Off[last] - Off[d]] = <<>>
<1> DEFINE o == Off[last] - Off[d]
<1>1. /\ Count \in Nat /\ d \in 0 .. Count /\ last \in 0 .. Count /\ d <= last
      /\ n \in Nat /\ HeaderSize \in Nat \ {0}
  BY FrameTypes DEF Begins, LastWhole
<1>2. Off[d] \in Nat /\ Off[last] \in Nat /\ Off[d] <= Off[last] /\ Off[last] <= Off[d] + n
  BY <1>1, OffTypes, OffRises DEF LastWhole
<1>3. o \in 0 .. n
  BY <1>1, <1>2
<1>4. n - o < HeaderSize \/ MessageSize(b, o) > n - o
  <2>1. CASE last = Count
    <3>1. Off[d] + n <= Off[last]
      BY <2>1 DEF Begins
    <3> QED
      BY <3>1, <1>1, <1>2
  <2>2. CASE last # Count /\ n - o >= HeaderSize
    <3>1. last \in d .. Count - 1 /\ last \in 0 .. Count - 1 /\ last + 1 \in 1 .. Count
      BY <2>2, <1>1
    <3>2. Off[last + 1] = Off[last] + Frames[last + 1] /\ Frames[last + 1] \in Nat
      BY <3>1, OffTypes, FrameTypes
    <3>3. Off[d] + n < Off[last + 1]
      BY <2>2 DEF LastWhole
    <3>4. Frames[last + 1] > n - o
      BY <3>2, <3>3, <1>1, <1>2
    <3>5. Off[last] < Off[d] + n
      BY <2>2, <1>1, <1>2
    <3>6. MessageSize(b, o) = Frames[last + 1]
      BY <3>1, <3>5, SizeOfNext
    <3> QED
      BY <3>4, <3>6
  <2> QED
    BY <2>1, <2>2, <1>1, <1>2
<1>5. o \in n - n .. n
  BY <1>1, <1>3
<1> HIDE DEF o
<1>6. f[o] = <<>>
  BY <1>4, <1>5 DEF Scans
<1> QED
  BY <1>6 DEF o

\* From a frame that is whole it goes on to the next.
LEMMA ScanGoesOn ==
  ASSUME NEW b, NEW n, NEW d, Begins(b, n, d), NEW f, Scans(f, b, n, n),
         NEW j \in d .. Count - 1, Off[j + 1] <= Off[d] + n
  PROVE  f[Off[j] - Off[d]] = <<Off[j] - Off[d]>> \o f[Off[j + 1] - Off[d]]
<1> DEFINE o == Off[j] - Off[d]
<1>1. /\ Count \in Nat /\ d \in 0 .. Count /\ j \in 0 .. Count /\ d <= j
      /\ j \in 0 .. Count - 1 /\ j + 1 \in 1 .. Count
      /\ n \in Nat /\ HeaderSize \in Nat \ {0}
  BY FrameTypes DEF Begins
<1>2. Off[d] \in Nat /\ Off[j] \in Nat /\ Off[d] <= Off[j]
  BY <1>1, OffTypes, OffRises
<1>3. /\ Off[j + 1] = Off[j] + Frames[j + 1] /\ Frames[j + 1] \in Nat
      /\ HeaderSize <= Frames[j + 1]
  BY <1>1, OffTypes, FrameTypes
<1>4. Off[j] < Off[d] + n
  BY <1>1, <1>2, <1>3
<1>5. MessageSize(b, o) = Frames[j + 1]
  BY <1>4, SizeOfNext
<1>6. ~(n - o < HeaderSize) /\ ~(Frames[j + 1] > n - o) /\ o \in n - n .. n
  BY <1>1, <1>2, <1>3
<1>7. o + Frames[j + 1] = Off[j + 1] - Off[d]
  BY <1>2, <1>3
<1> HIDE DEF o
<1>8. f[o] = <<o>> \o f[o + MessageSize(b, o)]
  BY <1>5, <1>6 DEF Scans
<1> QED
  BY <1>5, <1>7, <1>8 DEF o

\* The first start, and the starts after it.
LEMMA OneMoreStart ==
  ASSUME NEW d \in Nat, NEW j \in Nat, NEW last \in Nat, j < last
  PROVE  Starts(d, j, last) = <<Off[j] - Off[d]>> \o Starts(d, j + 1, last)
<1> DEFINE x == Off[j] - Off[d]
           t == Starts(d, j + 1, last)
<1>1. /\ Len(t) = last - (j + 1)
      /\ \A i \in 1 .. last - (j + 1) : t[i] = Off[((j + 1) + i) - 1] - Off[d]
  BY DEF Starts
<1> DEFINE T == {t[i] : i \in 1 .. last - (j + 1)}
<1>2. t \in Seq(T)
  <2>1. last - (j + 1) \in Nat /\ t \in [1 .. last - (j + 1) -> T]
    BY DEF Starts
  <2> HIDE DEF t, T
  <2> QED
    BY <2>1
<1> HIDE DEF x, t, T
<1>3. /\ Len(<<x>> \o t) = last - j
      /\ (<<x>> \o t)[1] = x
      /\ \A i \in 2 .. last - j : (<<x>> \o t)[i] = t[i - 1]
  BY <1>1, <1>2
<1>4. ASSUME NEW i \in 1 .. last - j
      PROVE  (<<x>> \o t)[i] = Off[(j + i) - 1] - Off[d]
  <2>1. CASE i = 1
    BY <2>1, <1>3 DEF x
  <2>2. CASE i # 1
    <3>1. /\ i \in 2 .. last - j /\ i - 1 \in 1 .. last - (j + 1)
          /\ ((j + 1) + (i - 1)) - 1 = (j + i) - 1
      BY <2>2
    <3> QED
      BY <3>1, <1>1, <1>3
  <2> QED
    BY <2>1, <2>2
<1>5. DOMAIN (<<x>> \o t) = 1 .. last - j
  BY <1>2, <1>3
<1>6. <<x>> \o t = [i \in 1 .. last - j |-> Off[(j + i) - 1] - Off[d]]
  <2>1. <<x>> \o t = [i \in DOMAIN (<<x>> \o t) |-> (<<x>> \o t)[i]]
    BY <1>2
  <2> QED
    BY <2>1, <1>4, <1>5
<1> QED
  BY <1>6 DEF Starts, x, t

\* getMessages finds the frames that are whole, and no other.
LEMMA MessagesAre ==
  ASSUME NEW b, NEW n, NEW d, Begins(b, n, d), NEW last, LastWhole(d, n, last)
  PROVE  Messages(b, n) = Starts(d, d, last)
<1>1. PICK f : Scans(f, b, n, n) /\ Messages(b, n) = f[0]
  BY MessagesScan
<1>2. /\ Count \in Nat /\ d \in Nat /\ last \in Nat
      /\ d <= last /\ last <= Count /\ d \in 0 .. Count
  BY FrameTypes DEF Begins, LastWhole
<1> DEFINE Bad == {m \in 0 .. last - d :
                     f[Off[last - m] - Off[d]] # Starts(d, last - m, last)}
<1>3. Bad = {}
  <2> SUFFICES ASSUME Bad # {} PROVE FALSE
    OBVIOUS
  <2>1. PICK m \in Bad : \A k \in Bad : m <= k
    <3>1. Bad \subseteq Nat
      BY <1>2
    <3> HIDE DEF Bad
    <3> QED
      BY <3>1, Least
  <2>2. m # 0
    <3>1. f[Off[last] - Off[d]] = <<>>
      BY <1>1, ScanStops
    <3>2. Starts(d, last, last) = <<>> /\ last - 0 = last
      BY <1>2 DEF Starts
    <3> QED
      BY <3>1, <3>2, <2>1
  <2> DEFINE j == last - m
  <2>3. /\ m \in 1 .. last - d /\ j \in d .. Count - 1 /\ j \in Nat /\ j < last
        /\ last - (m - 1) = j + 1 /\ m - 1 \in 0 .. last - d /\ ~(m <= m - 1)
        /\ j + 1 \in 0 .. Count /\ last \in 0 .. Count /\ j + 1 <= last
    BY <2>1, <2>2, <1>2
  <2>4. f[Off[j + 1] - Off[d]] = Starts(d, j + 1, last)
    <3>1. m - 1 \notin Bad
      BY <2>1, <2>3
    <3> QED
      BY <3>1, <2>3
  <2>5. Off[j + 1] <= Off[d] + n
    <3>1. Off[j + 1] <= Off[last]
      BY <2>3, OffRises
    <3>2. Off[last] <= Off[d] + n /\ n \in Nat
      BY DEF LastWhole, Begins
    <3>3. Off[j + 1] \in Nat /\ Off[last] \in Nat /\ Off[d] \in Nat
      BY <2>3, <1>2, OffTypes
    <3> QED
      BY <3>1, <3>2, <3>3
  <2>6. f[Off[j] - Off[d]] = <<Off[j] - Off[d]>> \o f[Off[j + 1] - Off[d]]
    BY <1>1, <2>3, <2>5, ScanGoesOn
  <2>7. f[Off[j] - Off[d]] = Starts(d, j, last)
    BY <2>3, <2>4, <2>6, <1>2, OneMoreStart
  <2> QED
    BY <2>1, <2>7
<1>4. last - d \in 0 .. last - d /\ last - (last - d) = d
  BY <1>2
<1>5. f[Off[d] - Off[d]] = Starts(d, d, last)
  BY <1>3, <1>4
<1>6. Off[d] - Off[d] = 0
  BY <1>2, OffTypes
<1> QED
  BY <1>1, <1>5, <1>6

\* There is always such a frame.
LEMMA LastWholeExists ==
  ASSUME NEW d \in 0 .. Count, NEW n \in Nat, Off[d] + n <= Off[Count]
  PROVE  \E last : LastWhole(d, n, last)
<1> DEFINE S == {j \in d .. Count : j = Count \/ Off[d] + n < Off[j + 1]}
<1>1. Count \in Nat /\ d \in Nat
  BY FrameTypes
<1>2. PICK last \in S : \A k \in S : last <= k
  <2>1. S \subseteq Nat /\ Count \in S
    BY <1>1
  <2> HIDE DEF S
  <2> QED
    BY <2>1, Least
<1>3. Off[last] <= Off[d] + n
  <2>1. CASE last = d
    BY <2>1, OffTypes
  <2>2. CASE last # d
    <3>1. /\ last - 1 \in d .. Count /\ last - 1 # Count
          /\ ~(last <= last - 1) /\ (last - 1) + 1 = last
      BY <2>2, <1>1, <1>2
    <3>2. last - 1 \notin S
      BY <3>1, <1>2
    <3>3. ~(Off[d] + n < Off[last])
      BY <3>1, <3>2
    <3>4. last \in 0 .. Count
      BY <1>1, <1>2
    <3>5. Off[last] \in Nat /\ Off[d] \in Nat
      BY <3>4, OffTypes
    <3> QED
      BY <3>3, <3>5
  <2> QED
    BY <2>1, <2>2
<1> QED
  BY <1>2, <1>3 DEF LastWhole

-----------------------------------------------------------------------------
(* The inductive invariant.                                                *)

Done == Len(delivered)

\* The frames returned so far are the first ones, and all that are complete; the
\* bytes that were handed out and the kept ones behind them are as on the stream.
PieceInv ==
  /\ Done \in 0 .. Count
  /\ delivered = [i \in 1 .. Done |-> FrameBytes(i)]
  /\ got \in 0 .. Off[Count]
  /\ Off[Done] <= got
  /\ Done # Count => got < Off[Done + 1]
  /\ size = got - Off[Done]
  /\ \E first \in 0 .. Done : /\ dirtyStart = Off[Done] - Off[first]
                              /\ Begins(buffer, dirtyStart + size, first)
  /\ dirtyStart + size <= BUFFER_SIZE
  /\ DOMAIN buffer = 0 .. BUFFER_SIZE - 1
  /\ refused \in BOOLEAN

\* The receiver has still to decode the last of the frames that were returned,
\* and its pointer is at the first of them.
DecodeInv ==
  /\ at \in {"recv", "decode", "closed", "stopped"}
  /\ decoded \in Seq({FrameBytes(i) : i \in 1 .. Count})
  /\ at = "decode" => /\ left \in Nat \ {0}
                      /\ Len(decoded) + left = Done
                      /\ ptr \in Nat
                      /\ ptr + (Off[Done] - dirtyStart) = Off[Len(decoded)]
  /\ at = "recv" => left = 0 /\ Len(decoded) = Done /\ ptr \in {0, dirtyStart}

\* The bytes in the socket are the next of the stream.  They end in the frame
\* after the last that the kernel took whole, and while the connection is up
\* where the sender is.
WireInv ==
  /\ wire \in Seq(Byte)
  /\ Len(wire) <= SocketCapacity
  /\ got + Len(wire) <= Off[Count]
  /\ \A i \in 1 .. Len(wire) : wire[i] = Stream[got + i]
  /\ Len(whole) \in 0 .. Count
  /\ whole = [i \in 1 .. Len(whole) |-> i]
  /\ Off[Len(whole)] <= got + Len(wire)
  /\ Len(whole) # Count => got + Len(wire) < Off[Len(whole) + 1]
  /\ link \in {"up", "down"}
  /\ sender \in {"idle", "sending", "threw", "closed"}
  /\ sent \in 0 .. Count
  /\ taken \in Nat
  /\ sender = "sending" => sent # Count
  /\ sender = "idle" => taken = 0
  /\ link = "up" => Len(whole) = sent /\ got + Len(wire) = Off[sent] + taken

StreamInv == PieceInv /\ DecodeInv /\ WireInv

-----------------------------------------------------------------------------
(* recieve.                                                                *)

\* A frame that is whole in the buffer is read from it as it was sent.
LEMMA FrameFound ==
  ASSUME NEW b, NEW n, NEW d, Begins(b, n, d),
         NEW j \in d .. Count - 1, Off[j + 1] <= Off[d] + n
  PROVE  /\ MessageSize(b, Off[j] - Off[d]) = Frames[j + 1]
         /\ MessageBytes(b, Off[j] - Off[d]) = FrameBytes(j + 1)
<1> DEFINE o == Off[j] - Off[d]
<1>1. /\ Count \in Nat /\ d \in 0 .. Count /\ j \in 0 .. Count /\ d <= j /\ n \in Nat
      /\ j \in 0 .. Count - 1 /\ j + 1 \in 1 .. Count /\ (j + 1) - 1 = j
      /\ HeaderSize \in Nat \ {0}
  BY FrameTypes DEF Begins
<1>2. Off[d] \in Nat /\ Off[j] \in Nat /\ Off[d] <= Off[j]
  BY <1>1, OffTypes, OffRises
<1>3. /\ Off[j + 1] = Off[j] + Frames[j + 1] /\ Frames[j + 1] \in Nat
      /\ HeaderSize <= Frames[j + 1]
  BY <1>1, OffTypes, FrameTypes
<1>4. Off[j] < Off[d] + n
  BY <1>1, <1>2, <1>3
<1>5. MessageSize(b, o) = Frames[j + 1]
  BY <1>4, SizeOfNext
<1>6. ASSUME NEW k \in 1 .. Frames[j + 1] PROVE b[(o + k) - 1] = <<j + 1, k>>
  <2>1. (o + k) - 1 \in 0 .. n - 1 /\ (Off[d] + ((o + k) - 1)) + 1 = Off[j] + k
    BY <1>1, <1>2, <1>3
  <2>2. b[(o + k) - 1] = Stream[Off[j] + k]
    <3> HIDE DEF o
    <3> QED
      BY <2>1 DEF Begins
  <2>3. Stream[Off[(j + 1) - 1] + k] = <<j + 1, k>>
    BY <1>1, StreamBytes
  <2> QED
    BY <2>2, <2>3, <1>1
<1>7. o \in Int /\ \A k \in 1 .. Frames[j + 1] : (o + k) - 1 = o + (k - 1)
  BY <1>2
<1> HIDE DEF o
<1>8. MessageBytes(b, o) = FrameBytes(j + 1)
  BY <1>5, <1>6, <1>7 DEF MessageBytes, FrameBytes
<1> QED
  BY <1>5, <1>8 DEF o

\* What PieceInv says of types and of where things are.
LEMMA PieceTypes ==
  ASSUME PieceInv
  PROVE  /\ Count \in Nat /\ Done \in Nat /\ Done \in 0 .. Count /\ got \in Nat
         /\ Off[Done] \in Nat /\ Off[Count] \in Nat /\ size \in Nat /\ dirtyStart \in Nat
         /\ got = Off[Done] + size /\ BUFFER_SIZE \in Nat \ {0}
         /\ dirtyStart <= Off[Done]
<1>1. /\ Count \in Nat /\ BUFFER_SIZE \in Nat \ {0} /\ Done \in 0 .. Count
      /\ size = got - Off[Done] /\ Off[Done] <= got /\ got \in 0 .. Off[Count]
  BY FrameTypes DEF PieceInv
<1>2. Off[Done] \in Nat /\ Off[Count] \in Nat
  BY <1>1, OffTypes
<1>3. PICK first \in 0 .. Done : dirtyStart = Off[Done] - Off[first]
  BY DEF PieceInv
<1>4. first \in 0 .. Count /\ first <= Done
  BY <1>1, <1>3
<1>5. Off[first] \in Nat /\ Off[first] <= Off[Done]
  BY <1>1, <1>4, OffTypes, OffRises
<1> QED
  BY <1>1, <1>2, <1>3, <1>5

\* The kept bytes are those after the last complete frame.
LEMMA KeptBytes ==
  ASSUME PieceInv, NEW x \in 0 .. size - 1
  PROVE  buffer[dirtyStart + x] = Stream[(Off[Done] + x) + 1]
<1>1. PICK first \in 0 .. Done : /\ dirtyStart = Off[Done] - Off[first]
                                 /\ Begins(buffer, dirtyStart + size, first)
  BY DEF PieceInv
<1>2. first \in 0 .. Count /\ Off[first] \in Nat
  BY <1>1, PieceTypes, OffTypes
<1>3. /\ dirtyStart + x \in 0 .. (dirtyStart + size) - 1
      /\ (Off[first] + (dirtyStart + x)) + 1 = (Off[Done] + x) + 1
  BY <1>1, <1>2, PieceTypes
<1>4. buffer[dirtyStart + x] = Stream[(Off[first] + (dirtyStart + x)) + 1]
  BY <1>1, <1>3 DEF Begins
<1> QED
  BY <1>3, <1>4

\* bytes are the next of the stream.
Follow(bytes) ==
  /\ bytes \in Seq(Byte)
  /\ got + Len(bytes) <= Off[Count]
  /\ \A i \in 1 .. Len(bytes) : bytes[i] = Stream[got + i]

\* With the new bytes behind the kept ones the buffer goes on as the stream does.
LEMMA BufferBegins ==
  ASSUME PieceInv, NEW bytes, Follow(bytes), Recieve(bytes)
  PROVE  /\ Begins(buffer', size + Len(bytes), Done)
         /\ DOMAIN buffer' = 0 .. BUFFER_SIZE - 1
         /\ size + Len(bytes) <= BUFFER_SIZE
<1> DEFINE b == IF dirtyStart # 0 THEN Compacted(buffer) ELSE buffer
           n == size + Len(bytes)
<1>1. Len(bytes) \in Nat /\ DOMAIN bytes = 1 .. Len(bytes) /\ n \in Nat /\ n <= BUFFER_SIZE
  BY PieceTypes DEF Follow, Recieve, Fits
<1>2. DOMAIN buffer = 0 .. BUFFER_SIZE - 1
  BY DEF PieceInv
<1>3. DOMAIN b = 0 .. BUFFER_SIZE - 1
  BY <1>2 DEF Compacted
<1>4. ASSUME NEW x \in 0 .. size - 1 PROVE b[x] = Stream[(Off[Done] + x) + 1]
  <2>1. buffer[dirtyStart + x] = Stream[(Off[Done] + x) + 1]
    BY KeptBytes
  <2>2. x \in DOMAIN buffer /\ x < size
    BY <1>1, <1>2, PieceTypes
  <2>3. CASE dirtyStart # 0
    BY <2>1, <2>2, <2>3 DEF Compacted
  <2>4. CASE dirtyStart = 0
    <3>1. dirtyStart + x = x
      BY <2>4
    <3> QED
      BY <3>1, <2>1, <2>4
  <2> QED
    BY <2>3, <2>4
<1> HIDE DEF b
<1>5. buffer' = [x \in 0 .. BUFFER_SIZE - 1 |->
                  IF (x - size) + 1 \in 1 .. Len(bytes) THEN bytes[(x - size) + 1] ELSE b[x]]
  <2>1. buffer' = WithNew(b, bytes)
    BY DEF Recieve, b
  <2>2. \A x \in 0 .. BUFFER_SIZE - 1 : (x - size) + 1 = x - (size - 1)
    BY PieceTypes
  <2> QED
    BY <2>1, <2>2, <1>1, <1>3 DEF WithNew
<1>6. ASSUME NEW x \in 0 .. n - 1 PROVE buffer'[x] = Stream[(Off[Done] + x) + 1]
  <2>1. x \in 0 .. BUFFER_SIZE - 1
    BY <1>1, PieceTypes
  <2>2. CASE x < size
    <3>1. x \in 0 .. size - 1 /\ (x - size) + 1 \notin 1 .. Len(bytes)
      BY <2>2, <1>1, PieceTypes
    <3> QED
      BY <2>1, <3>1, <1>4, <1>5
  <2>3. CASE x >= size
    <3>1. (x - size) + 1 \in 1 .. Len(bytes) /\ got + ((x - size) + 1) = (Off[Done] + x) + 1
      <4>1. /\ size \in Nat /\ Len(bytes) \in Nat /\ Off[Done] \in Nat
            /\ got = Off[Done] + size
        BY <1>1, PieceTypes
      <4>2. x \in Nat /\ x < size + Len(bytes)
        BY <4>1
      <4> QED
        BY <4>1, <4>2, <2>3
    <3>2. bytes[(x - size) + 1] = Stream[got + ((x - size) + 1)]
      BY <3>1 DEF Follow
    <3> QED
      BY <2>1, <3>1, <3>2, <1>5
  <2> QED
    BY <2>2, <2>3, PieceTypes
<1>7. Off[Done] + n <= Off[Count]
  BY <1>1, PieceTypes DEF Follow
<1> QED
  BY <1>1, <1>5, <1>6, <1>7, PieceTypes DEF Begins

\* The first m frames and the n after them are the first m + n.
LEMMA JoinedFrames ==
  ASSUME NEW m \in Nat, NEW n \in Nat
  PROVE  [i \in 1 .. m |-> FrameBytes(i)] \o [i \in 1 .. n |-> FrameBytes(m + i)]
         = [i \in 1 .. m + n |-> FrameBytes(i)]
<1> DEFINE s == [i \in 1 .. m |-> FrameBytes(i)]
           t == [i \in 1 .. n |-> FrameBytes(m + i)]
           T == {FrameBytes(i) : i \in 1 .. m + n}
<1>1. s \in Seq(T) /\ t \in Seq(T) /\ Len(s) = m /\ Len(t) = n
  OBVIOUS
<1>2. /\ \A i \in 1 .. m : s[i] = FrameBytes(i)
      /\ \A i \in 1 .. n : t[i] = FrameBytes(m + i)
  OBVIOUS
<1> HIDE DEF s, t, T
<1>3. s \o t \in Seq(T) /\ Len(s \o t) = m + n
  BY <1>1
<1>4. ASSUME NEW i \in 1 .. m + n PROVE (s \o t)[i] = FrameBytes(i)
  <2>1. CASE i \in 1 .. m
    BY <2>1, <1>1, <1>2
  <2>2. CASE i \notin 1 .. m
    <3>1. i - m \in 1 .. n /\ m + (i - m) = i
      BY <2>2
    <3>2. (s \o t)[i] = t[i - m]
      BY <3>1, <2>2, <1>1
    <3> QED
      BY <3>1, <3>2, <1>2
  <2> QED
    BY <2>1, <2>2
<1> QED
  BY <1>3, <1>4 DEF s, t

\* recieve returns all the frames that are now complete, and keeps what is left.
LEMMA RecieveReturns ==
  ASSUME PieceInv, NEW bytes, Follow(bytes), Recieve(bytes)
  PROVE  \E last \in Done .. Count :
           /\ LastWhole(Done, size + Len(bytes), last)
           /\ delivered' = [i \in 1 .. last |-> FrameBytes(i)]
           /\ size' = (size + Len(bytes)) - (Off[last] - Off[Done])
           /\ dirtyStart' = Off[last] - Off[Done]
<1> DEFINE n == size + Len(bytes)
           offsets == Messages(buffer', n)
           consumed == IF offsets = <<>> THEN 0
                       ELSE Last(offsets) + MessageSize(buffer', Last(offsets))
<1>1. Begins(buffer', n, Done)
  BY BufferBegins
<1>2. n \in Nat /\ Off[Done] + n <= Off[Count]
  BY <1>1 DEF Begins
<1>3. PICK last : LastWhole(Done, n, last)
  BY <1>2, PieceTypes, LastWholeExists
<1>4. /\ last \in Done .. Count /\ Off[last] <= Off[Done] + n /\ last \in Nat /\ Done <= last
      /\ last - Done \in Nat /\ last \in 0 .. Count
  BY <1>3, PieceTypes DEF LastWhole
<1>5. offsets = Starts(Done, Done, last)
  BY <1>1, <1>3, MessagesAre
<1>6. /\ DOMAIN offsets = 1 .. last - Done /\ Len(offsets) = last - Done
      /\ \A i \in 1 .. last - Done : offsets[i] = Off[(Done + i) - 1] - Off[Done]
  BY <1>4, <1>5 DEF Starts
<1>7. ASSUME NEW j \in Done .. last - 1
      PROVE  /\ MessageSize(buffer', Off[j] - Off[Done]) = Frames[j + 1]
             /\ MessageBytes(buffer', Off[j] - Off[Done]) = FrameBytes(j + 1)
  <2>1. j \in Done .. Count - 1 /\ j + 1 \in 0 .. Count /\ j + 1 <= last
    BY <1>4, PieceTypes
  <2>2. Off[j + 1] <= Off[last] /\ Off[j + 1] \in Nat /\ Off[last] \in Nat /\ Off[Done] \in Nat
    BY <2>1, <1>4, OffRises, OffTypes, PieceTypes
  <2>3. Off[j + 1] <= Off[Done] + n
    BY <2>2, <1>2, <1>4
  <2> QED
    BY <1>1, <2>1, <2>3, FrameFound
<1>8. consumed = Off[last] - Off[Done]
  <2>1. CASE last = Done
    <3>1. offsets = <<>>
      BY <1>5, <2>1, PieceTypes DEF Starts
    <3> QED
      BY <2>1, <3>1, PieceTypes
  <2>2. CASE last # Done
    <3>1. /\ last - 1 \in Done .. last - 1 /\ last - Done \in 1 .. last - Done
          /\ (Done + (last - Done)) - 1 = last - 1 /\ (last - 1) + 1 = last
          /\ last \in 1 .. Count /\ last - 1 \in 0 .. Count
      <4>1. /\ last \in Nat /\ Done \in Nat /\ Count \in Nat /\ Done <= last /\ last # Done
            /\ last <= Count
        BY <2>2, <1>4, PieceTypes
      <4> QED
        BY <4>1
    <3>2. Last(offsets) = Off[last - 1] - Off[Done]
      BY <1>6, <3>1 DEF Last
    <3>3. offsets # <<>>
      <4>1. Len(offsets) # 0
        BY <1>6, <3>1
      <4> HIDE DEF offsets
      <4> QED
        BY <4>1
    <3>4. MessageSize(buffer', Off[last - 1] - Off[Done]) = Frames[last]
      BY <1>7, <3>1
    <3>5. /\ Off[last] = Off[last - 1] + Frames[last] /\ Off[last - 1] \in Nat
          /\ Frames[last] \in Nat /\ Off[Done] \in Nat
      BY <3>1, OffTypes, FrameTypes, PieceTypes
    <3>6. consumed = Last(offsets) + MessageSize(buffer', Last(offsets))
      BY <3>3
    <3> HIDE DEF consumed, offsets
    <3> QED
      BY <3>2, <3>4, <3>5, <3>6
  <2> QED
    BY <2>1, <2>2
<1>9. /\ size' = n - consumed
      /\ dirtyStart' = consumed
      /\ delivered' = delivered \o
           [i \in DOMAIN offsets |-> MessageBytes(buffer', offsets[i])]
  <2>1. /\ size' = size + (Len(bytes) - consumed)
        /\ dirtyStart' = consumed
        /\ delivered' = delivered \o
             [i \in DOMAIN offsets |-> MessageBytes(buffer', offsets[i])]
    BY Zenon DEF Recieve
  <2>2. consumed \in Int
    BY <1>4, <1>8, OffTypes, PieceTypes
  <2>3. size + (Len(bytes) - consumed) = n - consumed
    <3>1. size \in Int /\ Len(bytes) \in Int
      BY PieceTypes DEF Follow
    <3> HIDE DEF consumed
    <3> QED
      BY <2>2, <3>1
  <2> QED
    BY <2>1, <2>3, Zenon
<1>10. delivered' = [i \in 1 .. last |-> FrameBytes(i)]
  <2> DEFINE t == [i \in DOMAIN offsets |-> MessageBytes(buffer', offsets[i])]
  <2>1. t = [i \in 1 .. last - Done |-> FrameBytes(Done + i)]
    <3>1. ASSUME NEW i \in 1 .. last - Done
          PROVE  MessageBytes(buffer', offsets[i]) = FrameBytes(Done + i)
      <4>1. (Done + i) - 1 \in Done .. last - 1 /\ ((Done + i) - 1) + 1 = Done + i
        BY <1>4, PieceTypes
      <4>2. MessageBytes(buffer', Off[(Done + i) - 1] - Off[Done])
            = FrameBytes(((Done + i) - 1) + 1)
        BY <4>1, <1>7
      <4> QED
        BY <4>1, <4>2, <1>6
    <3> HIDE DEF offsets
    <3> QED
      BY <3>1, <1>6
  <2>2. delivered = [i \in 1 .. Done |-> FrameBytes(i)]
    BY DEF PieceInv
  <2>3. delivered \o t = [i \in 1 .. last |-> FrameBytes(i)]
    <3>1. Done + (last - Done) = last /\ Done \in Nat /\ last - Done \in Nat
      BY <1>4, PieceTypes
    <3> HIDE DEF t, Done
    <3> QED
      BY <2>1, <2>2, <3>1, JoinedFrames
  <2> QED
    BY <1>9, <2>3
<1> HIDE DEF consumed, offsets
<1> QED
  BY <1>3, <1>4, <1>8, <1>9, <1>10

\* recieve leaves the buffer as the next call expects it.
LEMMA RecieveKeeps ==
  ASSUME PieceInv, NEW bytes, Follow(bytes), Recieve(bytes)
  PROVE  /\ PieceInv'
         /\ got' = got + Len(bytes)
         /\ Done' \in Done .. Count
         /\ dirtyStart' = Off[Done'] - Off[Done]
<1> DEFINE n == size + Len(bytes)
<1>1. PICK last \in Done .. Count :
           /\ LastWhole(Done, size + Len(bytes), last)
           /\ delivered' = [i \in 1 .. last |-> FrameBytes(i)]
           /\ size' = (size + Len(bytes)) - (Off[last] - Off[Done])
           /\ dirtyStart' = Off[last] - Off[Done]
  BY RecieveReturns
<1>2. got' = got + Len(bytes) /\ UNCHANGED refused
  BY DEF Recieve
<1>3. last \in Nat /\ last \in 0 .. Count /\ Len(bytes) \in Nat
  BY <1>1, PieceTypes DEF Follow
<1>4. Done' = last
  BY <1>1, <1>3 DEF Done
<1>5. /\ Off[last] \in Nat /\ Off[Done] \in Nat /\ Off[Count] \in Nat /\ size \in Nat
      /\ got = Off[Done] + size
  BY <1>3, OffTypes, PieceTypes
<1>6. /\ Off[last] <= got + Len(bytes)
      /\ last # Count => got + Len(bytes) < Off[last + 1]
  <2>1. Off[Done] + (size + Len(bytes)) = got + Len(bytes)
    BY <1>3, <1>5
  <2> QED
    BY <2>1, <1>1 DEF LastWhole
<1>7. size' = (got + Len(bytes)) - Off[last]
  BY <1>1, <1>3, <1>5
<1>8. got' \in 0 .. Off[Count]
  BY <1>2, <1>3, <1>5 DEF Follow
<1>9. /\ Begins(buffer', n, Done) /\ DOMAIN buffer' = 0 .. BUFFER_SIZE - 1
      /\ n <= BUFFER_SIZE
  BY BufferBegins
<1>10. dirtyStart' + size' = n
  BY <1>1, <1>3, <1>5
<1>11. /\ Done \in 0 .. last
       /\ dirtyStart' = Off[last] - Off[Done]
       /\ Begins(buffer', dirtyStart' + size', Done)
  BY <1>1, <1>9, <1>10, PieceTypes
<1>12. refused' \in BOOLEAN
  BY <1>2 DEF PieceInv
<1>13. \E first \in 0 .. last : /\ dirtyStart' = Off[last] - Off[first]
                                /\ Begins(buffer', dirtyStart' + size', first)
  BY <1>11, Zenon
<1>14. PieceInv'
  <2>1. Done' \in 0 .. Count /\ delivered' = [i \in 1 .. Done' |-> FrameBytes(i)]
    BY <1>1, <1>3, <1>4
  <2>2. /\ Off[Done'] <= got'
        /\ Done' # Count => got' < Off[Done' + 1]
        /\ size' = got' - Off[Done']
    BY <1>2, <1>4, <1>6, <1>7
  <2>3. dirtyStart' + size' <= BUFFER_SIZE
    BY <1>9, <1>10
  <2> QED
    BY <2>1, <2>2, <2>3, <1>4, <1>8, <1>9, <1>12, <1>13 DEF PieceInv
<1> QED
  BY <1>1, <1>2, <1>4, <1>14

-----------------------------------------------------------------------------
(* The steps of both ends.                                                 *)

\* A number up to the lesser of two is up to both.
LEMMA MinOfTwo ==
  ASSUME NEW a \in Int, NEW b \in Int, NEW k \in 1 .. Min({a, b})
  PROVE  k \in Nat \ {0} /\ k <= a /\ k <= b
<1>1. Min({a, b}) = CHOOSE x \in {a, b} : \A y \in {a, b} : x <= y
  BY DEF Min
<1>2. \E x \in {a, b} : \A y \in {a, b} : x <= y
  BY DEF Min
<1>3. Min({a, b}) \in {a, b} /\ \A y \in {a, b} : Min({a, b}) <= y
  BY <1>1, <1>2
<1>4. Min({a, b}) \in Int /\ Min({a, b}) <= a /\ Min({a, b}) <= b
  BY <1>3
<1> HIDE DEF Min
<1> QED
  BY <1>4

\* The types that the lemmas on the socket need.
LEMMA WireTypes ==
  ASSUME PieceInv, WireInv
  PROVE  /\ Len(wire) \in Nat /\ got \in Nat /\ Off[Count] \in Nat /\ SocketCapacity \in Nat
         /\ wire \in Seq(Byte) /\ DOMAIN wire = 1 .. Len(wire)
BY PieceTypes, SocketAssumption DEF WireInv

\* What SubSeq returns.
LEMMA PartOf ==
  ASSUME NEW T, NEW s \in Seq(T), NEW m \in Nat, NEW k \in Nat, m + k <= Len(s)
  PROVE  LET part == SubSeq(s, m + 1, m + k)
         IN  /\ part \in Seq(T) /\ Len(part) = k
             /\ \A j \in 1 .. k : m + j \in 1 .. Len(s) /\ part[j] = s[m + j]
<1> DEFINE part == SubSeq(s, m + 1, m + k)
<1>1. Len(s) \in Nat
  OBVIOUS
<1>2. \A j \in 1 .. k : m + j \in 1 .. Len(s) /\ s[m + j] \in T
  BY <1>1
<1>3. part = [j \in 1 .. k |-> s[m + j]]
  <2>1. (1 + (m + k)) - (m + 1) = k
    OBVIOUS
  <2>2. \A j \in 1 .. k : (j + (m + 1)) - 1 = m + j
    OBVIOUS
  <2> QED
    BY <2>1, <2>2
<1> HIDE DEF part
<1>4. part \in [1 .. k -> T]
  BY <1>2, <1>3
<1>5. part \in Seq(T) /\ Len(part) = k
  BY <1>4
<1> QED
  BY <1>2, <1>3, <1>5 DEF part

\* What is left of a sequence when its first k elements are taken.
LEMMA RestOf ==
  ASSUME NEW T, NEW s \in Seq(T), NEW k \in 0 .. Len(s)
  PROVE  LET rest == SubSeq(s, k + 1, Len(s))
         IN  /\ rest \in Seq(T) /\ Len(rest) = Len(s) - k
             /\ \A i \in 1 .. Len(rest) : k + i \in 1 .. Len(s) /\ rest[i] = s[k + i]
<1> DEFINE n == Len(s) - k
<1>1. k \in Nat /\ n \in Nat /\ k + n = Len(s) /\ k + n <= Len(s)
  OBVIOUS
<1> HIDE DEF n
<1>2. LET part == SubSeq(s, k + 1, k + n)
      IN  /\ part \in Seq(T) /\ Len(part) = n
          /\ \A i \in 1 .. n : k + i \in 1 .. Len(s) /\ part[i] = s[k + i]
  BY <1>1, PartOf
<1> QED
  BY <1>1, <1>2 DEF n

\* What recv returns is next in the stream, and what it leaves comes after it.
LEMMA PiecesFollow ==
  ASSUME PieceInv, WireInv, NEW bytes \in Pieces
  PROVE  /\ Follow(bytes) /\ Len(bytes) \in 1 .. Len(wire)
         /\ LET rest == SubSeq(wire, Len(bytes) + 1, Len(wire))
            IN  /\ rest \in Seq(Byte) /\ Len(rest) = Len(wire) - Len(bytes)
                /\ \A i \in 1 .. Len(rest) : rest[i] = Stream[(got + Len(bytes)) + i]
<1>1. PICK k \in 1 .. Min({Len(wire), BUFFER_SIZE}) : bytes = SubSeq(wire, 1, k)
  BY DEF Pieces
<1>2. Len(wire) \in Int /\ BUFFER_SIZE \in Int
  BY WireTypes, PieceTypes
<1>3. k \in Nat \ {0} /\ k <= Len(wire)
  BY <1>2, MinOfTwo
<1>4. /\ bytes \in Seq(Byte) /\ Len(bytes) = k
      /\ \A i \in 1 .. k : bytes[i] = wire[i]
  BY <1>1, <1>3, WireTypes
<1>5. Follow(bytes)
  <2>1. got + k <= Off[Count]
    <3>1. got + Len(wire) <= Off[Count]
      BY DEF WireInv
    <3>2. /\ Len(wire) \in Nat /\ got \in Nat /\ Off[Count] \in Nat
      BY WireTypes
    <3> QED
      BY <1>3, <3>1, <3>2
  <2>2. \A i \in 1 .. k : i \in 1 .. Len(wire)
    BY <1>3, WireTypes
  <2> QED
    BY <1>4, <2>1, <2>2 DEF Follow, WireInv
<1> DEFINE rest == SubSeq(wire, k + 1, Len(wire))
<1>6. /\ rest \in Seq(Byte) /\ Len(rest) = Len(wire) - k
      /\ \A i \in 1 .. Len(rest) : k + i \in 1 .. Len(wire) /\ rest[i] = wire[k + i]
  <2>1. k \in 0 .. Len(wire) /\ wire \in Seq(Byte)
    BY <1>3, WireTypes
  <2> QED
    BY <2>1, RestOf
<1>7. ASSUME NEW i \in 1 .. Len(rest) PROVE rest[i] = Stream[(got + k) + i]
  <2>1. k + i \in 1 .. Len(wire) /\ got + (k + i) = (got + k) + i
    <3>1. got \in Nat /\ Len(rest) \in Nat
      BY <1>6, WireTypes
    <3> QED
      BY <3>1, <1>3, <1>6
  <2>2. wire[k + i] = Stream[got + (k + i)]
    BY <2>1 DEF WireInv
  <2> QED
    BY <2>1, <2>2, <1>6
<1>8. Len(bytes) \in 1 .. Len(wire) /\ rest = SubSeq(wire, Len(bytes) + 1, Len(wire))
  BY <1>3, <1>4, WireTypes
<1> HIDE DEF rest
<1> QED
  BY <1>4, <1>5, <1>6, <1>7, <1>8

\* Arithmetic: the difference to something larger.
LEMMA Difference ==
  ASSUME NEW a \in Nat, NEW b \in Nat, a <= b, b # a
  PROVE  b - a \in Nat \ {0} /\ a + (b - a) = b
OBVIOUS

\* A piece taken from the socket, or refused.
LEMMA ReceiveKeeps ==
  ASSUME StreamInv, Receive
  PROVE  StreamInv'
<1>1. PieceInv /\ DecodeInv /\ WireInv /\ at = "recv" /\ TakePiece
  BY DEF StreamInv, Receive
<1>2. PICK bytes \in Pieces :
       \/ /\ Recieve(bytes)
          /\ wire' = SubSeq(wire, Len(bytes) + 1, Len(wire))
          /\ left' = Len(delivered') - Len(delivered)
          /\ at' = IF left' = 0 THEN "recv" ELSE "decode"
       \/ /\ Refuse(bytes)
          /\ at' = "stopped"
          /\ UNCHANGED <<wire, left>>
  BY <1>1 DEF TakePiece
<1>3. ptr' = 0 /\ UNCHANGED <<sender, sent, taken, whole, link, decoded>>
  BY <1>1 DEF TakePiece, senderVars
<1>4. left = 0 /\ Len(decoded) = Done /\ decoded \in Seq({FrameBytes(i) : i \in 1 .. Count})
  BY <1>1 DEF DecodeInv
<1>5. CASE Recieve(bytes) /\ ~Refuse(bytes)
  <2>1. /\ wire' = SubSeq(wire, Len(bytes) + 1, Len(wire))
        /\ left' = Done' - Done
        /\ at' = IF left' = 0 THEN "recv" ELSE "decode"
    BY <1>2, <1>5 DEF Done
  <2>2. Follow(bytes) /\ Len(bytes) \in 1 .. Len(wire)
    BY <1>1, PiecesFollow
  <2>3. /\ PieceInv' /\ got' = got + Len(bytes) /\ Done' \in Done .. Count
        /\ dirtyStart' = Off[Done'] - Off[Done]
    BY <1>1, <1>5, <2>2, RecieveKeeps
  <2>4. DecodeInv'
    <3>1. /\ Done \in Nat /\ Done' \in Nat /\ Done <= Done'
          /\ Off[Done] \in Nat /\ Off[Done'] \in Nat
      <4>1. Done \in 0 .. Count /\ Count \in Nat
        BY <1>1, PieceTypes
      <4>2. Done' \in 0 .. Count
        BY <4>1, <2>3
      <4> QED
        BY <4>1, <4>2, <2>3, OffTypes
    <3>2. CASE Done' = Done
      <4>1. at' = "recv" /\ left' = 0
        BY <2>1, <3>1, <3>2
      <4> QED
        BY <4>1, <1>3, <1>4, <3>2 DEF DecodeInv
    <3>3. CASE Done' # Done
      <4>1. at' = "decode" /\ left' \in Nat \ {0} /\ Done + left' = Done'
        <5>1. Done' - Done \in Nat \ {0} /\ Done + (Done' - Done) = Done'
          BY <3>1, <3>3, Difference
        <5> HIDE DEF Done
        <5> QED
          BY <2>1, <5>1
      <4>2. 0 + (Off[Done'] - dirtyStart') = Off[Done]
        BY <2>3, <3>1
      <4> QED
        BY <4>1, <4>2, <1>3, <1>4 DEF DecodeInv
    <3> QED
      BY <3>2, <3>3
  <2>5. WireInv'
    <3>1. /\ wire' \in Seq(Byte) /\ Len(wire') = Len(wire) - Len(bytes)
          /\ \A i \in 1 .. Len(wire') : wire'[i] = Stream[(got + Len(bytes)) + i]
      BY <1>1, <2>1, PiecesFollow
    <3>2. Len(wire) \in Nat /\ got \in Nat /\ SocketCapacity \in Nat /\ Len(bytes) \in Nat
      BY <1>1, <2>2, WireTypes
    <3>3. got' + Len(wire') = got + Len(wire)
      BY <2>3, <3>1, <3>2
    <3>4. Len(wire') <= SocketCapacity
      <4>1. Len(wire) <= SocketCapacity
        BY <1>1 DEF WireInv
      <4> QED
        BY <3>1, <3>2, <4>1
    <3> QED
      BY <1>1, <1>3, <2>3, <3>1, <3>3, <3>4 DEF WireInv
  <2> QED
    BY <2>3, <2>4, <2>5 DEF StreamInv
<1>6. CASE Refuse(bytes)
  <2>1. UNCHANGED <<buffer, size, dirtyStart, got, delivered>> /\ refused' = TRUE
    BY <1>6 DEF Refuse
  <2>2. ~Recieve(bytes)
    BY <1>6 DEF Refuse, Recieve
  <2>3. at' = "stopped" /\ UNCHANGED wire
    BY <1>2, <2>2
  <2>4. PieceInv'
    BY <1>1, <2>1 DEF PieceInv, Begins, Done
  <2>5. DecodeInv'
    BY <1>3, <1>4, <2>3 DEF DecodeInv
  <2>6. WireInv'
    BY <1>1, <1>3, <2>1, <2>3 DEF WireInv
  <2> QED
    BY <2>4, <2>5, <2>6 DEF StreamInv
<1> QED
  BY <1>2, <1>5, <1>6

\* The frame behind ptr is the next to be decoded, and lies in what recieve
\* handed out.
LEMMA NextToDecode ==
  ASSUME StreamInv, at = "decode"
  PROVE  /\ Len(decoded) \in 0 .. Count - 1 /\ Len(decoded) < Done
         /\ MessageBytes(buffer, ptr) = FrameBytes(Len(decoded) + 1)
         /\ MessageSize(buffer, ptr) = Frames[Len(decoded) + 1]
         /\ Off[Len(decoded) + 1] = Off[Len(decoded)] + Frames[Len(decoded) + 1]
         /\ ptr < dirtyStart
<1> DEFINE d == Len(decoded)
<1>1. /\ PieceInv /\ left \in Nat \ {0} /\ d + left = Done /\ ptr \in Nat
      /\ ptr + (Off[Done] - dirtyStart) = Off[d] /\ d \in Nat
  BY DEF StreamInv, DecodeInv
<1>2. /\ d \in 0 .. Count - 1 /\ d < Done
      /\ d \in 0 .. Count /\ Done \in 0 .. Count /\ d + 1 \in 0 .. Count
  BY <1>1, PieceTypes
<1>3. PICK first \in 0 .. Done : /\ dirtyStart = Off[Done] - Off[first]
                                 /\ Begins(buffer, dirtyStart + size, first)
  BY <1>1 DEF PieceInv
<1>4. first \in 0 .. Count /\ Off[first] \in Nat /\ Off[Done] \in Nat /\ Off[d] \in Nat
  <2>1. Count \in Nat /\ first \in 0 .. Count
    BY <1>2, <1>3, PieceTypes, <1>1
  <2> QED
    BY <1>2, <2>1, OffTypes
<1>5. ptr = Off[d] - Off[first] /\ Off[first] <= Off[d]
  BY <1>1, <1>3, <1>4
<1>6. first <= d
  <2>1. first \in Nat /\ d \in Nat
    BY <1>1, <1>3
  <2>2. ~(d < first)
    <3> SUFFICES ASSUME d < first PROVE FALSE
      OBVIOUS
    <3>1. Off[d] < Off[first]
      BY <1>2, <1>4, OffBefore
    <3> HIDE DEF d
    <3> QED
      BY <3>1, <1>4, <1>5
  <2> HIDE DEF d
  <2> QED
    BY <2>1, <2>2
<1>7. d \in first .. Count - 1
  BY <1>2, <1>6
<1>8. Off[d + 1] <= Off[Done] /\ Off[d + 1] = Off[d] + Frames[d + 1] /\ Off[d] < Off[Done]
  BY <1>2, OffBefore
<1>9. Off[d + 1] <= Off[first] + (dirtyStart + size)
  <2>1. size \in Nat /\ Off[d + 1] \in Nat
    BY <1>1, <1>2, PieceTypes, OffTypes
  <2>2. Off[first] + dirtyStart = Off[Done]
    BY <1>3, <1>4
  <2>3. Off[d + 1] <= Off[Done]
    BY <1>8
  <2>4. dirtyStart \in Nat
    BY <1>1, PieceTypes
  <2> HIDE DEF d, Done
  <2> QED
    BY <2>1, <2>2, <2>3, <2>4, <1>4
<1> HIDE DEF d
<1>10. /\ MessageSize(buffer, Off[d] - Off[first]) = Frames[d + 1]
       /\ MessageBytes(buffer, Off[d] - Off[first]) = FrameBytes(d + 1)
  BY <1>3, <1>7, <1>9, FrameFound
<1>11. ptr < dirtyStart
  BY <1>3, <1>4, <1>5, <1>8
<1> QED
  BY <1>2, <1>5, <1>8, <1>10, <1>11 DEF d

\* Arithmetic: the receiver's pointer moves on by a frame, and so does the offset.
LEMMA MoveBoth ==
  ASSUME NEW p \in Nat, NEW f \in Nat, NEW o \in Nat, NEW e \in Nat, NEW s \in Nat,
         NEW p1, NEW o1,
         p1 = p + f, p + (e - s) = o, o1 = o + f
  PROVE  p1 \in Nat /\ p1 + (e - s) = o1
OBVIOUS

\* One round of the decoding loop.
LEMMA DecodeFrameKeeps ==
  ASSUME StreamInv, DecodeFrame
  PROVE  StreamInv'
<1> DEFINE d == Len(decoded)
<1>1. /\ at = "decode" /\ ptr' = ptr + MessageSize(buffer, ptr) /\ left' = left - 1
      /\ decoded' = Append(decoded, MessageBytes(buffer, ptr))
      /\ at' = IF left = 1 THEN "recv" ELSE "decode"
      /\ UNCHANGED <<reconstructorVars, senderVars, link, wire>>
  BY DEF DecodeFrame
<1>2. /\ PieceInv /\ WireInv /\ left \in Nat \ {0} /\ d + left = Done /\ ptr \in Nat
      /\ ptr + (Off[Done] - dirtyStart) = Off[d] /\ d \in Nat
      /\ decoded \in Seq({FrameBytes(i) : i \in 1 .. Count})
  BY <1>1 DEF StreamInv, DecodeInv
<1>3. PieceInv' /\ WireInv' /\ Done' = Done /\ dirtyStart' = dirtyStart
  BY <1>1, <1>2 DEF PieceInv, WireInv, Begins, Done, reconstructorVars, senderVars
<1>4. /\ d \in 0 .. Count - 1
      /\ MessageBytes(buffer, ptr) = FrameBytes(d + 1)
      /\ MessageSize(buffer, ptr) = Frames[d + 1]
      /\ Off[d + 1] = Off[d] + Frames[d + 1]
  BY <1>1, NextToDecode
<1>5. d + 1 \in 1 .. Count /\ Frames[d + 1] \in Nat /\ Off[d] \in Nat
  <2>1. d + 1 \in 1 .. Count /\ d \in 0 .. Count
    BY <1>2, <1>4, PieceTypes
  <2> QED
    BY <2>1, FrameTypes, OffTypes
<1>6. decoded' \in Seq({FrameBytes(i) : i \in 1 .. Count}) /\ Len(decoded') = d + 1
  BY <1>1, <1>2, <1>4, <1>5
<1>7. ptr' \in Nat /\ ptr' + (Off[Done] - dirtyStart) = Off[d + 1]
  <2>1. Off[Done] \in Nat /\ dirtyStart \in Nat
    BY <1>2, PieceTypes
  <2> QED
    <3>1. ptr' = ptr + Frames[d + 1]
      BY <1>1, <1>4
    <3>2. /\ ptr \in Nat /\ Frames[d + 1] \in Nat /\ Off[d] \in Nat
          /\ ptr + (Off[Done] - dirtyStart) = Off[d]
          /\ Off[d + 1] = Off[d] + Frames[d + 1]
      BY <1>2, <1>4, <1>5
    <3> QED
      BY <2>1, <3>1, <3>2, MoveBoth
<1>8. CASE left = 1
  <2>1. at' = "recv" /\ left' = 0 /\ d + 1 = Done
    BY <1>1, <1>2, <1>8
  <2>2. ptr' = dirtyStart
    <3>1. Off[Done] \in Nat /\ dirtyStart \in Nat
      BY <1>2, PieceTypes
    <3> QED
      BY <3>1, <2>1, <1>7
  <2> QED
    BY <2>1, <2>2, <1>3, <1>6 DEF StreamInv, DecodeInv
<1>9. CASE left # 1
  <2>1. at' = "decode" /\ left' \in Nat \ {0} /\ (d + 1) + left' = Done
    BY <1>1, <1>2, <1>9
  <2> QED
    BY <2>1, <1>3, <1>6, <1>7 DEF StreamInv, DecodeInv
<1> QED
  BY <1>8, <1>9

\* s is the part of the stream from g on.
PartFrom(s, g) == \A i \in 1 .. Len(s) : s[i] = Stream[g + i]

\* Two parts of which one begins where the other ends.
LEMMA GoesOn ==
  ASSUME NEW T, NEW g \in Nat, NEW s \in Seq(T), NEW t \in Seq(T),
         PartFrom(s, g), PartFrom(t, g + Len(s))
  PROVE  /\ s \o t \in Seq(T) /\ Len(s \o t) = Len(s) + Len(t)
         /\ PartFrom(s \o t, g)
<1>1. s \o t \in Seq(T) /\ Len(s \o t) = Len(s) + Len(t) /\ Len(s) \in Nat /\ Len(t) \in Nat
  OBVIOUS
<1>2. ASSUME NEW i \in 1 .. Len(s \o t) PROVE (s \o t)[i] = Stream[g + i]
  <2>1. CASE i \in 1 .. Len(s)
    <3>1. (s \o t)[i] = s[i]
      BY <2>1
    <3> QED
      BY <3>1, <2>1 DEF PartFrom
  <2>2. CASE i \notin 1 .. Len(s)
    <3>1. i - Len(s) \in 1 .. Len(t) /\ (g + Len(s)) + (i - Len(s)) = g + i
      BY <1>1, <2>2
    <3>2. (s \o t)[i] = t[i - Len(s)]
      BY <3>1, <2>2, <1>1
    <3>3. t[i - Len(s)] = Stream[(g + Len(s)) + (i - Len(s))]
      BY <3>1 DEF PartFrom
    <3> QED
      BY <3>1, <3>2, <3>3
  <2> QED
    BY <2>1, <2>2
<1> QED
  BY <1>1, <1>2 DEF PartFrom

\* The sender's steps leave the reconstructor and the receiver alone.
LEMMA OthersUnchanged ==
  ASSUME PieceInv, DecodeInv, UNCHANGED <<reconstructorVars, decoderVars>>
  PROVE  PieceInv' /\ DecodeInv'
<1>1. UNCHANGED <<buffer, size, dirtyStart, got, delivered, refused>>
  BY DEF reconstructorVars
<1>2. UNCHANGED <<at, left, ptr, decoded>>
  BY DEF decoderVars
<1>3. PieceInv'
  BY <1>1 DEF PieceInv, Begins, Done
<1>4. DecodeInv'
  BY <1>1, <1>2 DEF DecodeInv, Done
<1> QED
  BY <1>3, <1>4

\* Where the kernel goes on: in frame sent + 1, with the bytes that follow.
LEMMA KernelGoesOn ==
  ASSUME PieceInv, WireInv, sender = "sending", link = "up",
         NEW k \in 1 .. Min({SocketCapacity - Len(wire), Frames[sent + 1] - taken})
  PROVE  LET new == SubSeq(FrameBytes(sent + 1), taken + 1, taken + k)
         IN  /\ k \in Nat \ {0} /\ Len(wire) + k <= SocketCapacity
             /\ taken + k <= Frames[sent + 1]
             /\ wire \o new \in Seq(Byte) /\ Len(wire \o new) = Len(wire) + k
             /\ \A i \in 1 .. Len(wire \o new) : (wire \o new)[i] = Stream[got + i]
<1> DEFINE new == SubSeq(FrameBytes(sent + 1), taken + 1, taken + k)
<1>1. /\ sent + 1 \in 1 .. Count /\ (sent + 1) - 1 = sent /\ sent \in 0 .. Count
      /\ taken \in Nat /\ got + Len(wire) = Off[sent] + taken
  BY PieceTypes DEF WireInv
<1>2. /\ Frames[sent + 1] \in Nat /\ FrameBytes(sent + 1) \in Seq(Byte)
      /\ Len(FrameBytes(sent + 1)) = Frames[sent + 1]
      /\ \A j \in 1 .. Frames[sent + 1] : FrameBytes(sent + 1)[j] = <<sent + 1, j>>
  BY <1>1, FrameTypes
<1>3. /\ Len(wire) \in Nat /\ SocketCapacity \in Nat /\ got \in Nat /\ Off[sent] \in Nat
      /\ wire \in Seq(Byte)
  BY <1>1, WireTypes, OffTypes
<1>4. k \in Nat \ {0} /\ Len(wire) + k <= SocketCapacity /\ taken + k <= Frames[sent + 1]
  <2>1. SocketCapacity - Len(wire) \in Int /\ Frames[sent + 1] - taken \in Int
    BY <1>1, <1>2, <1>3
  <2>2. /\ k \in Nat \ {0} /\ k <= SocketCapacity - Len(wire)
        /\ k <= Frames[sent + 1] - taken
    BY <2>1, MinOfTwo
  <2> QED
    BY <2>2, <1>1, <1>2, <1>3
<1>5. /\ new \in Seq(Byte) /\ Len(new) = k
      /\ \A j \in 1 .. k : /\ taken + j \in 1 .. Frames[sent + 1]
                           /\ new[j] = FrameBytes(sent + 1)[taken + j]
  BY <1>1, <1>2, <1>4, PartOf
<1>6. ASSUME NEW j \in 1 .. Len(new) PROVE new[j] = Stream[(got + Len(wire)) + j]
  <2>1. j \in 1 .. k /\ taken + j \in 1 .. Frames[sent + 1]
    BY <1>5
  <2>2. new[j] = <<sent + 1, taken + j>>
    BY <2>1, <1>2, <1>5
  <2>3. Stream[Off[(sent + 1) - 1] + (taken + j)] = <<sent + 1, taken + j>>
    BY <2>1, <1>1, StreamBytes
  <2>4. Off[sent] + (taken + j) = (got + Len(wire)) + j
    <3>1. j \in Nat
      BY <1>4, <2>1
    <3> QED
      BY <3>1, <1>1, <1>3
  <2> QED
    BY <2>2, <2>3, <2>4, <1>1
<1>7. PartFrom(wire, got) /\ PartFrom(new, got + Len(wire))
  BY <1>6 DEF WireInv, PartFrom
<1> HIDE DEF new
<1>8. /\ wire \o new \in Seq(Byte) /\ Len(wire \o new) = Len(wire) + Len(new)
      /\ PartFrom(wire \o new, got)
  BY <1>3, <1>5, <1>7, GoesOn
<1> QED
  BY <1>4, <1>5, <1>8 DEF new, PartFrom

\* Arithmetic: the kernel takes k bytes more of a frame.
LEMMA FurtherAlong ==
  ASSUME NEW g \in Nat, NEW w \in Nat, NEW o \in Nat, NEW t \in Nat, NEW k \in Nat,
         NEW f \in Nat,
         NEW e, g + w = o + t, t + k <= f, e = o + f
  PROVE  /\ g + (w + k) = o + (t + k) /\ o <= g + (w + k) /\ g + (w + k) <= e
         /\ t + k # f => g + (w + k) < e
         /\ t + k = f => g + (w + k) = e
OBVIOUS

\* Bytes taken from the sender, with the last of a frame or without.
LEMMA KernelTakesKeeps ==
  ASSUME StreamInv, KernelTakes
  PROVE  StreamInv'
<1>1. PieceInv /\ DecodeInv /\ WireInv
  BY DEF StreamInv
<1>2. /\ sender = "sending" /\ link = "up"
      /\ UNCHANGED <<reconstructorVars, decoderVars>> /\ UNCHANGED link
  BY DEF KernelTakes
<1>3. PICK k \in 1 .. Min({SocketCapacity - Len(wire), Frames[sent + 1] - taken}) :
         /\ wire' = wire \o SubSeq(FrameBytes(sent + 1), taken + 1, taken + k)
         /\ IF taken + k = Frames[sent + 1]
            THEN SendReturns /\ whole' = Append(whole, sent + 1)
            ELSE taken' = taken + k /\ UNCHANGED <<sender, sent, whole>>
  BY DEF KernelTakes
<1>4. PieceInv' /\ DecodeInv' /\ got' = got
  BY <1>1, <1>2, OthersUnchanged DEF reconstructorVars
<1>5. /\ k \in Nat \ {0} /\ Len(wire) + k <= SocketCapacity
      /\ taken + k <= Frames[sent + 1]
      /\ wire' \in Seq(Byte) /\ Len(wire') = Len(wire) + k
      /\ \A i \in 1 .. Len(wire') : wire'[i] = Stream[got + i]
  BY <1>1, <1>2, <1>3, KernelGoesOn
<1>6. /\ sent \in 0 .. Count /\ sent + 1 \in 1 .. Count /\ sent + 1 \in 0 .. Count
      /\ sent \in 0 .. Count - 1
      /\ Len(whole) = sent /\ whole = [i \in 1 .. Len(whole) |-> i]
      /\ taken \in Nat /\ got + Len(wire) = Off[sent] + taken /\ Count \in Nat
  BY <1>1, <1>2, PieceTypes DEF WireInv
<1>7. /\ Off[sent + 1] = Off[sent] + Frames[sent + 1] /\ Frames[sent + 1] \in Nat
      /\ Off[sent] \in Nat /\ Off[sent + 1] \in Nat /\ got \in Nat /\ Len(wire) \in Nat
      /\ Off[sent + 1] <= Off[Count] /\ Off[Count] \in Nat
  BY <1>1, <1>6, OffTypes, FrameTypes, WireTypes, OffRises
<1>8. /\ got' + Len(wire') = Off[sent] + (taken + k) /\ Off[sent] <= got' + Len(wire')
      /\ got' + Len(wire') <= Off[sent + 1]
      /\ taken + k # Frames[sent + 1] => got' + Len(wire') < Off[sent + 1]
      /\ taken + k = Frames[sent + 1] => got' + Len(wire') = Off[sent + 1]
  <2>1. /\ k \in Nat /\ got \in Nat /\ Len(wire) \in Nat /\ Off[sent] \in Nat
        /\ taken \in Nat /\ Frames[sent + 1] \in Nat
        /\ got + Len(wire) = Off[sent] + taken /\ taken + k <= Frames[sent + 1]
        /\ Off[sent + 1] = Off[sent] + Frames[sent + 1]
    BY <1>5, <1>6, <1>7
  <2>2. /\ got + (Len(wire) + k) = Off[sent] + (taken + k)
        /\ Off[sent] <= got + (Len(wire) + k)
        /\ got + (Len(wire) + k) <= Off[sent + 1]
        /\ taken + k # Frames[sent + 1] => got + (Len(wire) + k) < Off[sent + 1]
        /\ taken + k = Frames[sent + 1] => got + (Len(wire) + k) = Off[sent + 1]
    BY <2>1, FurtherAlong
  <2> QED
    BY <2>2, <1>4, <1>5
<1>9. got' + Len(wire') <= Off[Count] /\ Len(wire') <= SocketCapacity
  <2>1. got' + Len(wire') \in Nat
    BY <1>4, <1>5, <1>7
  <2>2. got' + Len(wire') <= Off[Count]
    BY <2>1, <1>7, <1>8
  <2> QED
    BY <2>2, <1>5
<1>10. CASE taken + k = Frames[sent + 1]
  <2>1. /\ sender' = "idle" /\ sent' = sent + 1 /\ taken' = 0
        /\ whole' = Append(whole, sent + 1)
    BY <1>3, <1>10 DEF SendReturns
  <2>2. Len(whole') = sent + 1 /\ whole' = [i \in 1 .. sent + 1 |-> i]
    <3>1. whole = [i \in 1 .. sent |-> i] /\ sent \in Nat
      BY <1>6
    <3>2. whole \in Seq(Nat)
      BY <3>1
    <3> QED
      BY <2>1, <3>1, <3>2, <1>6
  <2>3. got' + Len(wire') = Off[sent + 1]
    BY <1>8, <1>10
  <2>4. sent + 1 # Count => Off[sent + 1] < Off[(sent + 1) + 1]
    <3> HAVE sent + 1 # Count
    <3>1. (sent + 1) + 1 \in 0 .. Count
      BY <1>6
    <3>2. sent + 1 < (sent + 1) + 1
      BY <1>6
    <3> QED
      BY <1>6, <3>1, <3>2, OffBefore
  <2>5. got' + Len(wire') = Off[sent'] + taken'
    BY <2>1, <2>3, <1>7
  <2>6. WireInv'
    <3>1. /\ Len(whole') \in 0 .. Count
          /\ whole' = [i \in 1 .. Len(whole') |-> i]
          /\ Off[Len(whole')] <= got' + Len(wire')
          /\ Len(whole') # Count => got' + Len(wire') < Off[Len(whole') + 1]
      BY <1>6, <1>7, <2>2, <2>3, <2>4
    <3>2. /\ sender' = "idle" /\ link' = "up" /\ sent' \in 0 .. Count /\ taken' = 0
          /\ Len(whole') = sent' /\ got' + Len(wire') = Off[sent'] + taken'
      BY <1>2, <1>6, <2>1, <2>2, <2>5
    <3>3. \A i \in 1 .. Len(wire') : wire'[i] = Stream[got' + i]
      BY <1>4, <1>5
    <3> QED
      BY <1>5, <1>9, <3>1, <3>2, <3>3 DEF WireInv
  <2> QED
    BY <1>4, <2>6 DEF StreamInv
<1>11. CASE taken + k # Frames[sent + 1]
  <2>1. taken' = taken + k /\ UNCHANGED <<sender, sent, whole>>
    BY <1>3, <1>11
  <2>2. taken' \in Nat /\ got' + Len(wire') = Off[sent'] + taken'
    BY <2>1, <1>5, <1>6, <1>8
  <2>3. Off[sent] <= got' + Len(wire') /\ got' + Len(wire') < Off[sent + 1]
    BY <1>8, <1>11
  <2>4. WireInv'
    BY <1>1, <1>2, <1>4, <1>5, <1>6, <1>9, <2>1, <2>2, <2>3 DEF WireInv
  <2> QED
    BY <1>4, <2>4 DEF StreamInv
<1> QED
  BY <1>10, <1>11

\* The sender's other steps leave the socket alone.
LEMMA SenderKeeps ==
  ASSUME StreamInv, BeginSend \/ SendReturnsShort \/ SendThrows \/ CloseSender \/ LinkGoesDown
  PROVE  StreamInv'
<1>1. PieceInv /\ DecodeInv /\ WireInv
  BY DEF StreamInv
<1>2. UNCHANGED <<reconstructorVars, wire, decoderVars>> /\ UNCHANGED whole
  BY DEF BeginSend, SendReturnsShort, SendThrows, CloseSender, LinkGoesDown, senderVars
<1>3. PieceInv' /\ DecodeInv' /\ got' = got /\ wire' = wire
  BY <1>1, <1>2, OthersUnchanged DEF reconstructorVars
<1>4. CASE BeginSend
  <2>1. sender' = "sending" /\ sent # Count /\ UNCHANGED <<sent, taken, link>>
    <3>1. sent < Count /\ Count \in Nat
      BY <1>1, <1>4, PieceTypes DEF BeginSend, Count
    <3> QED
      BY <3>1, <1>4 DEF BeginSend
  <2>2. WireInv'
    BY <1>1, <1>2, <1>3, <2>1 DEF WireInv
  <2> QED
    BY <1>3, <2>2 DEF StreamInv
<1>5. CASE SendReturnsShort
  <2>1. /\ sender' = "idle" /\ sent' = sent + 1 /\ taken' = 0
        /\ link = "down" /\ link' = link /\ sender = "sending"
    BY <1>5 DEF SendReturnsShort, SendReturns
  <2>2. sent + 1 \in 0 .. Count
    BY <1>1, <2>1, PieceTypes DEF WireInv
  <2>3. WireInv'
    BY <1>1, <1>2, <1>3, <2>1, <2>2 DEF WireInv
  <2> QED
    BY <1>3, <2>3 DEF StreamInv
<1>6. CASE SendThrows \/ CloseSender
  <2>1. sender' \in {"threw", "closed"} /\ UNCHANGED <<sent, taken, link>>
    BY <1>6 DEF SendThrows, CloseSender
  <2>2. WireInv'
    BY <1>1, <1>2, <1>3, <2>1 DEF WireInv
  <2> QED
    BY <1>3, <2>2 DEF StreamInv
<1>7. CASE LinkGoesDown
  <2>1. link' = "down" /\ UNCHANGED <<sender, sent, taken>>
    BY <1>7 DEF LinkGoesDown, senderVars
  <2>2. WireInv'
    BY <1>1, <1>2, <1>3, <2>1 DEF WireInv
  <2> QED
    BY <1>3, <2>2 DEF StreamInv
<1> QED
  BY <1>4, <1>5, <1>6, <1>7

\* The end of run.
LEMMA EndKeeps ==
  ASSUME StreamInv, ReceiveEnd \/ ReceiverStops
  PROVE  StreamInv'
<1>1. PieceInv /\ DecodeInv /\ WireInv
  BY DEF StreamInv
<1>2. /\ at' \in {"closed", "stopped"} /\ UNCHANGED decoded
      /\ UNCHANGED <<reconstructorVars, senderVars, link, wire>>
  BY DEF ReceiveEnd, ReceiverStops
<1>3. PieceInv' /\ WireInv'
  BY <1>1, <1>2 DEF PieceInv, WireInv, Begins, Done, reconstructorVars, senderVars
<1>4. DecodeInv'
  BY <1>1, <1>2 DEF DecodeInv
<1> QED
  BY <1>3, <1>4 DEF StreamInv

\* At the start nothing was sent and nothing received.
LEMMA InitialStream ==
  ASSUME StreamInit
  PROVE  StreamInv
<1>1. /\ buffer = [n \in 0 .. BUFFER_SIZE - 1 |-> Junk] /\ size = 0 /\ dirtyStart = 0
      /\ got = 0 /\ delivered = <<>> /\ refused = FALSE
  BY DEF StreamInit, ReconstructorInit
<1>2. /\ sender = "idle" /\ sent = 0 /\ taken = 0 /\ link = "up" /\ wire = <<>>
      /\ at = "recv" /\ left = 0 /\ ptr = 0 /\ whole = <<>> /\ decoded = <<>>
  BY DEF StreamInit
<1>3. /\ Count \in Nat /\ 0 \in 0 .. Count /\ Count \in 0 .. Count /\ Off[0] = 0
      /\ Off[Count] \in Nat
  BY FrameTypes, OffTypes
<1>4. Count # 0 => 0 < Off[1]
  <2> HAVE Count # 0
  <2>1. 1 \in 0 .. Count /\ 0 < 1
    BY <1>3
  <2> QED
    BY <1>3, <2>1, OffBefore
<1>5. Done = 0
  BY <1>1 DEF Done
<1>6. Begins(buffer, dirtyStart + size, 0) /\ dirtyStart + size = 0
  BY <1>1, <1>3 DEF Begins
<1>7. PieceInv
  <2>1. BUFFER_SIZE \in Nat
    BY FrameTypes
  <2>2. \E first \in 0 .. Done : /\ dirtyStart = Off[Done] - Off[first]
                                 /\ Begins(buffer, dirtyStart + size, first)
    BY <1>1, <1>3, <1>5, <1>6
  <2>3. delivered = [i \in 1 .. Done |-> FrameBytes(i)]
    BY <1>1, <1>5
  <2>4. /\ Done \in 0 .. Count /\ got \in 0 .. Off[Count] /\ Off[Done] <= got
        /\ size = got - Off[Done]
        /\ Done # Count => got < Off[Done + 1]
    BY <1>1, <1>3, <1>4, <1>5
  <2>5. dirtyStart + size <= BUFFER_SIZE /\ DOMAIN buffer = 0 .. BUFFER_SIZE - 1
    BY <1>1, <1>6, <2>1
  <2> QED
    BY <1>1, <2>2, <2>3, <2>4, <2>5 DEF PieceInv
<1>8. DecodeInv
  BY <1>2, <1>5 DEF DecodeInv
<1>9. WireInv
  <2>1. Len(wire) = 0 /\ Len(whole) = 0 /\ wire \in Seq(Byte) /\ SocketCapacity \in Nat
    BY <1>2, SocketAssumption
  <2>2. whole = [i \in 1 .. Len(whole) |-> i]
    BY <1>2
  <2> QED
    BY <1>1, <1>2, <1>3, <1>4, <2>1, <2>2 DEF WireInv
<1> QED
  BY <1>7, <1>8, <1>9 DEF StreamInv

\* Every step of sender, kernels and receiver preserves the invariant.
LEMMA StreamStep ==
  ASSUME StreamInv, [StreamNext]_streamVars
  PROVE  StreamInv'
<1>1. CASE StreamNext
  BY <1>1, KernelTakesKeeps, SenderKeeps, EndKeeps, ReceiveKeeps, DecodeFrameKeeps
     DEF StreamNext, ReceiverStep
<1>2. CASE UNCHANGED streamVars
  <2>1. UNCHANGED <<reconstructorVars, decoderVars>> /\ UNCHANGED <<senderVars, link, wire>>
    BY <1>2 DEF streamVars
  <2>2. PieceInv' /\ DecodeInv'
    BY <2>1, OthersUnchanged DEF StreamInv
  <2>3. WireInv'
    BY <2>1 DEF StreamInv, WireInv, senderVars, reconstructorVars
  <2> QED
    BY <2>2, <2>3 DEF StreamInv
<1> QED
  BY <1>1, <1>2

\* Whatever the pieces in which send and recv pass the bytes on, and whoever ends
\* when: the bytes in the socket, in the buffer and behind the receiver's pointer
\* are those of the stream at the places where they belong.
THEOREM StreamInvariance == StreamSpec => []StreamInv
<1>1. StreamInit => StreamInv
  BY InitialStream
<1>2. StreamInv /\ [StreamNext]_streamVars => StreamInv'
  BY StreamStep
<1> QED
  BY <1>1, <1>2, PTL DEF StreamSpec

-----------------------------------------------------------------------------
(* What the invariant says of the properties.                              *)

\* Types; while frames are to be decoded, the receiver's pointer is in the part
\* of the buffer that recieve handed out, and at its end when they are done.
THEOREM StreamTypes == StreamSpec => []StreamTypeOK
<1>1. ASSUME StreamInv PROVE StreamTypeOK
  <2>1. PieceInv /\ DecodeInv /\ WireInv
    BY <1>1 DEF StreamInv
  <2>2. ReconstructorTypeOK
    BY <2>1, PieceTypes, StreamBytes DEF PieceInv, ReconstructorTypeOK
  <2>3. sent \in 0 .. Len(Frames) /\ sender \in {"idle", "sending", "threw", "closed"}
        /\ Len(wire) <= SocketCapacity
    BY <2>1 DEF WireInv, Count
  <2>4. at = "decode" => left > 0 /\ ptr < dirtyStart
    BY <1>1, <2>1, NextToDecode DEF DecodeInv
  <2>5. at = "recv" => left = 0 /\ ptr \in {0, dirtyStart}
    BY <2>1 DEF DecodeInv
  <2> QED
    BY <2>2, <2>3, <2>4, <2>5 DEF StreamTypeOK
<1> QED
  BY <1>1, StreamInvariance, PTL

\* The bytes in the socket are the next of the stream, though send may return
\* short and no caller looks at its count: nothing follows a part of a frame.
THEOREM WireStaysInStep == StreamSpec => []WireInStep
<1>1. ASSUME StreamInv PROVE WireInStep
  <2>1. PieceInv /\ WireInv
    BY <1>1 DEF StreamInv
  <2>2. /\ wire \in Seq(Byte) /\ Len(wire) \in Nat /\ got \in Nat
        /\ \A i \in 1 .. Len(wire) : wire[i] = Stream[got + i]
    BY <2>1, WireTypes DEF WireInv
  <2>3. got + Len(wire) <= Len(Stream) /\ Stream \in Seq(Byte)
    BY <2>1, StreamBytes DEF WireInv
  <2> DEFINE part == SubSeq(Stream, got + 1, got + Len(wire))
  <2>4. /\ part \in Seq(Byte) /\ Len(part) = Len(wire)
        /\ \A i \in 1 .. Len(wire) : part[i] = Stream[got + i]
    <3>1. /\ Stream \in Seq(Byte) /\ got \in Nat /\ Len(wire) \in Nat
          /\ got + Len(wire) <= Len(Stream)
      BY <2>2, <2>3
    <3> QED
      BY <3>1, PartOf
  <2> HIDE DEF part
  <2>5. wire = part
    BY <2>2, <2>4
  <2> QED
    BY <2>5 DEF WireInStep, part
<1> QED
  BY <1>1, StreamInvariance, PTL

\* The length of the first m frames together.
LEMMA LengthOfBeginning ==
  ASSUME NEW m \in 0 .. Count
  PROVE  Len(FlattenSeq([i \in 1 .. m |-> FrameBytes(i)])) = Off[m]
<1>1. CASE m = 0
  <2>1. [i \in 1 .. m |-> FrameBytes(i)] = <<>>
    BY <1>1
  <2>2. FlattenSeq(<<>>) = <<>>
    BY DEF FlattenSeq
  <2> QED
    BY <1>1, <2>1, <2>2, OffTypes
<1>2. CASE m # 0
  <2>1. m \in 1 .. Count
    BY <1>2, FrameTypes
  <2> QED
    BY <2>1, Beginnings
<1> QED
  BY <1>1, <1>2

\* The bytes kept in the buffer are the ones received since the last complete
\* frame: the piece of a frame that waits for its rest survives every move to the
\* front of the buffer.
THEOREM PieceIsKept == StreamSpec => []KeepsThePiece
<1>1. ASSUME StreamInv PROVE KeepsThePiece
  <2>1. PieceInv
    BY <1>1 DEF StreamInv
  <2>2. /\ Done \in 0 .. Count /\ size \in Nat /\ Off[Done] \in Nat /\ got = Off[Done] + size
        /\ delivered = [i \in 1 .. Done |-> FrameBytes(i)]
    BY <2>1, PieceTypes DEF PieceInv
  <2>3. Len(FlattenSeq(delivered)) = Off[Done]
    BY <2>2, LengthOfBeginning
  <2>4. size + Len(FlattenSeq(delivered)) = got
    BY <2>2, <2>3
  <2>5. ASSUME NEW n \in 0 .. size - 1
        PROVE  buffer[dirtyStart + n] = Stream[((got - size) + n) + 1]
    <3>1. got - size = Off[Done]
      BY <2>2
    <3> QED
      BY <3>1, <2>1, KeptBytes
  <2> QED
    BY <2>4, <2>5 DEF KeepsThePiece
<1> QED
  BY <1>1, StreamInvariance, PTL

\* After each call of recieve what was returned is exactly the frames that are
\* complete, whole and in order, however the stream is cut into pieces.
THEOREM FramesStayIntact == StreamSpec => []FramesIntact
<1>1. ASSUME StreamInv PROVE FramesIntact
  <2>1. PieceInv
    BY <1>1 DEF StreamInv
  <2> DEFINE complete == {i \in DOMAIN Frames :
                            Len(FlattenSeq([j \in 1 .. i |-> FrameBytes(j)])) <= got}
  <2>2. /\ Done \in 0 .. Count /\ got \in Nat /\ Count \in Nat /\ Off[Done] <= got
        /\ Done # Count => got < Off[Done + 1]
        /\ delivered = [i \in 1 .. Done |-> FrameBytes(i)]
    BY <2>1, PieceTypes DEF PieceInv
  <2>3. complete = {i \in 1 .. Count : Off[i] <= got}
    <3>1. \A i \in 1 .. Count : Len(FlattenSeq([j \in 1 .. i |-> FrameBytes(j)])) = Off[i]
      BY FrameTypes, LengthOfBeginning
    <3> QED
      BY <3>1, FrameTypes
  <2> HIDE DEF complete
  <2>4. ASSUME NEW i \in 1 .. Count PROVE Off[i] <= got <=> i <= Done
    <3>1. i \in 0 .. Count /\ Off[i] \in Nat /\ Off[Done] \in Nat /\ i \in Nat /\ Done \in Nat
      BY <2>2, OffTypes
    <3>2. CASE i <= Done
      <4>1. Off[i] <= Off[Done]
        BY <3>1, <3>2, <2>2, OffRises
      <4>2. Off[i] <= got
        BY <4>1, <3>1, <2>2
      <4> QED
        BY <4>2, <3>2
    <3>3. CASE ~(i <= Done)
      <4>1. Done + 1 \in 0 .. Count /\ Done + 1 <= i /\ Done # Count
        BY <3>1, <3>3, <2>2
      <4>2. Off[Done + 1] <= Off[i] /\ Off[Done + 1] \in Nat /\ got < Off[Done + 1]
        BY <4>1, <3>1, <2>2, OffRises, OffTypes
      <4>3. ~(Off[i] <= got)
        BY <4>2, <3>1, <2>2
      <4> QED
        BY <4>3, <3>3
    <3> QED
      BY <3>2, <3>3
  <2>5. complete = 1 .. Done
    <3>1. \A i \in 1 .. Done : i \in 1 .. Count /\ i <= Done
      BY <2>2
    <3>2. \A i \in 1 .. Count : i <= Done => i \in 1 .. Done
      BY <2>2
    <3> HIDE DEF Done
    <3> QED
      BY <3>1, <3>2, <2>3, <2>4
  <2>6. Cardinality(1 .. Done) = Done
    <3>1. Done \in Nat /\ 1 \in Int /\ Done \in Int
      BY <2>2
    <3>2. Cardinality(1 .. Done) = IF 1 > Done THEN 0 ELSE (Done - 1) + 1
      BY <3>1, FS_Interval
    <3> HIDE DEF Done
    <3> QED
      BY <3>1, <3>2
  <2> QED
    BY <2>2, <2>5, <2>6 DEF FramesIntact, complete
<1> QED
  BY <1>1, StreamInvariance, PTL

-----------------------------------------------------------------------------
(* The refinement of FrameChannel.                                         *)

Accepted == [i \in DOMAIN whole |-> FrameBytes(whole[i])]

\* The frames accepted are the first ones.
LEMMA AcceptedFrames ==
  ASSUME WireInv
  PROVE  Accepted = [i \in 1 .. Len(whole) |-> FrameBytes(i)] /\ Len(Accepted) = Len(whole)
<1>1. whole = [i \in 1 .. Len(whole) |-> i] /\ Len(whole) \in Nat
  <2>1. whole = [i \in 1 .. Len(whole) |-> i] /\ Len(whole) \in 0 .. Count
    BY Zenon DEF WireInv
  <2> QED
    BY <2>1, FrameTypes
<1>2. DOMAIN whole = 1 .. Len(whole) /\ \A i \in 1 .. Len(whole) : whole[i] = i
  BY <1>1
<1>3. Accepted = [i \in 1 .. Len(whole) |-> FrameBytes(i)]
  BY <1>2 DEF Accepted
<1> QED
  BY <1>1, <1>3

\* The first n frames, and one.
LEMMA OneMoreFrame ==
  ASSUME NEW n \in Nat
  PROVE  Append([i \in 1 .. n |-> FrameBytes(i)], FrameBytes(n + 1))
         = [i \in 1 .. n + 1 |-> FrameBytes(i)]
OBVIOUS

\* The step with which the kernel takes the last byte of a frame accepts it.
LEMMA TakingAccepts ==
  ASSUME StreamInv, KernelTakes
  PROVE  Channel!Accept \/ UNCHANGED <<Accepted, decoded>>
<1>1. WireInv /\ sender = "sending" /\ link = "up" /\ UNCHANGED decoded
  BY DEF StreamInv, KernelTakes, decoderVars
<1>2. Len(whole) = sent /\ sent + 1 \in DOMAIN Frames /\ sent \in Nat
  BY <1>1, FrameTypes DEF WireInv
<1>3. UNCHANGED whole \/ whole' = Append(whole, sent + 1)
  BY DEF KernelTakes
<1>4. CASE whole' = Append(whole, sent + 1)
  <2>1. WireInv' /\ Len(whole') = sent + 1
    <3>1. whole \in Seq(Nat)
      <4>1. whole = [i \in 1 .. sent |-> i]
        BY <1>1, <1>2 DEF WireInv
      <4> QED
        BY <4>1, <1>2
    <3> QED
      BY <3>1, <1>2, <1>4, KernelTakesKeeps DEF StreamInv
  <2>2. Accepted = [i \in 1 .. sent |-> FrameBytes(i)]
    BY <1>1, <1>2, AcceptedFrames
  <2>3. Accepted' = [i \in 1 .. sent + 1 |-> FrameBytes(i)]
    <3>1. /\ whole' = [i \in 1 .. sent + 1 |-> i]
      BY <2>1 DEF WireInv
    <3> QED
      BY <3>1, <1>2 DEF Accepted
  <2>4. Accepted' = Append(Accepted, FrameBytes(sent + 1))
    BY <1>2, <2>2, <2>3, OneMoreFrame
  <2>5. FrameBytes(sent + 1) \in {FrameBytes(i) : i \in DOMAIN Frames}
    BY <1>2
  <2> QED
    BY <1>1, <2>4, <2>5 DEF Channel!Accept, Accepted
<1>5. CASE UNCHANGED whole
  BY <1>1, <1>5 DEF Accepted
<1> QED
  BY <1>3, <1>4, <1>5

\* A frame that is decoded was accepted before, and is the next.
LEMMA DecodingArrives ==
  ASSUME StreamInv, DecodeFrame
  PROVE  Channel!Arrive
<1> DEFINE d == Len(decoded)
<1>1. /\ PieceInv /\ WireInv /\ at = "decode"
      /\ decoded' = Append(decoded, MessageBytes(buffer, ptr))
  BY DEF StreamInv, DecodeFrame
<1>2. d \in 0 .. Count - 1 /\ d < Done /\ MessageBytes(buffer, ptr) = FrameBytes(d + 1)
  BY <1>1, NextToDecode
<1>3. Done <= Len(whole)
  <2>1. Done \in 0 .. Count /\ Len(whole) \in 0 .. Count /\ Count \in Nat
    BY <1>1, PieceTypes DEF WireInv
  <2> SUFFICES ASSUME ~(Done <= Len(whole)) PROVE FALSE
    OBVIOUS
  <2>2. Len(whole) # Count /\ Len(whole) + 1 \in 0 .. Count /\ Len(whole) + 1 <= Done
    BY <2>1
  <2>3. Off[Len(whole) + 1] <= Off[Done]
    BY <2>1, <2>2, OffRises
  <2>4. got + Len(wire) < Off[Len(whole) + 1] /\ Off[Done] <= got
    BY <1>1, <2>2 DEF WireInv, PieceInv
  <2>5. Off[Len(whole) + 1] \in Nat /\ Off[Done] \in Nat /\ got \in Nat /\ Len(wire) \in Nat
    BY <1>1, <2>1, <2>2, OffTypes, WireTypes
  <2> QED
    BY <2>3, <2>4, <2>5
<1>4. /\ Accepted = [i \in 1 .. Len(whole) |-> FrameBytes(i)] /\ Len(Accepted) = Len(whole)
      /\ Len(whole) \in Nat
  <2>1. Len(whole) \in 0 .. Count
    BY <1>1, Zenon DEF WireInv
  <2>2. Len(whole) \in Nat
    BY <2>1, FrameTypes
  <2> QED
    BY <2>2, <1>1, AcceptedFrames
<1>5. d + 1 \in 1 .. Len(whole) /\ d < Len(whole)
  <2>1. d \in Nat /\ Done \in Nat
    BY <1>1, <1>2, PieceTypes
  <2> HIDE DEF d, Done
  <2> QED
    BY <2>1, <1>2, <1>3, <1>4
<1>6. Len(decoded) < Len(Accepted) /\ decoded' = Append(decoded, Accepted[Len(decoded) + 1])
  BY <1>1, <1>2, <1>4, <1>5
<1>7. UNCHANGED whole
  BY DEF DecodeFrame, senderVars
<1> QED
  BY <1>6, <1>7 DEF Channel!Arrive, Accepted

\* What is read through the pointer that recieve returned is what was sent, whole,
\* once and in order: sendBuffer, the socket, the reconstructor's buffer and the
\* receiver's pointer together are a FrameChannel.
THEOREM StreamIsAChannel == StreamSpec => ImplementsChannel
<1>1. StreamInit => Channel!ChannelInit
  BY DEF StreamInit, Channel!ChannelInit
<1>2. StreamInv /\ [StreamNext]_streamVars
      => [Channel!Accept \/ Channel!Arrive]_<<Accepted, decoded>>
  <2> SUFFICES ASSUME StreamInv, [StreamNext]_streamVars
               PROVE  Channel!Accept \/ Channel!Arrive \/ UNCHANGED <<Accepted, decoded>>
    OBVIOUS
  <2>1. CASE KernelTakes
    BY <2>1, TakingAccepts
  <2>2. CASE DecodeFrame
    BY <2>2, DecodingArrives
  <2>3. CASE ~KernelTakes /\ ~DecodeFrame
    <3>1. UNCHANGED <<whole, decoded>>
      BY <2>3 DEF StreamNext, BeginSend, SendReturnsShort, SendThrows, CloseSender,
                  LinkGoesDown, ReceiverStep, Receive, TakePiece, ReceiveEnd, ReceiverStops,
                  streamVars, senderVars, decoderVars
    <3> QED
      BY <3>1 DEF Accepted
  <2> QED
    BY <2>1, <2>2, <2>3
<1> QED
  BY <1>1, <1>2, StreamInvariance, PTL
     DEF StreamSpec, ImplementsChannel, Channel!ChannelSpec, Accepted
=============================================================================
