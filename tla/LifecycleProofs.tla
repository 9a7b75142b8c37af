---------------------------- MODULE LifecycleProofs ----------------------------
(***************************************************************************)
(* Proofs about Lifecycle, for every capacity of the queues and the socket *)
(* and every number of messages: types, and that no joined thread uses an  *)
(* object outside its lifetime.                                            *)
(*                                                                         *)
(* Plan is computed from Declarations with FlattenSeq.  The first part     *)
(* shows what FlattenSeq returns, the second what Plan says at each of its *)
(* 46 positions; the third is the invariant, which ties objects and        *)
(* threads to main's position.                                             *)
(***************************************************************************)
EXTENDS Lifecycle, NaturalsInduction, WellFoundedInduction, TLAPS

-----------------------------------------------------------------------------
(* FlattenSeq.                                                             *)

\* Every set of numbers has a least element.
LEMMA Least ==
  ASSUME NEW S, S \subseteq Nat, NEW x \in S
  PROVE  \E n \in S : \A m \in S : n <= m
<1> DEFINE R == OpToRel(<, Nat)
<1>1. IsWellFoundedOn(R, Nat)
  BY NatLessThanWellFounded
<1>2. PICK n \in S : \A m \in S : <<m, n>> \notin R
  BY <1>1, WFMin
<1>3. \A m \in S : ~(m < n)
  BY <1>2 DEF OpToRel
<1> QED
  BY <1>3

\* The running concatenation that FlattenSeq ends with.
Runs(f, seqs) ==
  f = [i \in 1 .. Len(seqs) |-> IF i = 1 THEN seqs[i] ELSE f[i - 1] \o seqs[i]]

\* By the least number for which there is none.
LEMMA RunsExist ==
  ASSUME NEW seqs, NEW n \in Nat
  PROVE  \E f : f = [i \in 1 .. n |-> IF i = 1 THEN seqs[i] ELSE f[i - 1] \o seqs[i]]
<1> DEFINE Has(m) ==
             \E f : f = [i \in 1 .. m |-> IF i = 1 THEN seqs[i] ELSE f[i - 1] \o seqs[i]]
           Lacks == {m \in Nat : ~Has(m)}
<1> SUFFICES ASSUME Lacks # {} PROVE FALSE
  OBVIOUS
<1>1. PICK m \in Lacks : \A k \in Lacks : m <= k
  BY Least
<1>2. Has(0)
  <2> DEFINE f == [i \in 1 .. 0 |-> IF i = 1 THEN seqs[i] ELSE seqs[i]]
  <2>1. f = [i \in 1 .. 0 |-> IF i = 1 THEN seqs[i] ELSE f[i - 1] \o seqs[i]]
    OBVIOUS
  <2> QED
    BY <2>1
<1>3. m # 0 /\ m \in Nat
  BY <1>2, <1>1
<1>4. Has(m - 1)
  <2>1. m - 1 \in Nat /\ ~(m <= m - 1)
    BY <1>3
  <2>2. m - 1 \notin Lacks
    BY <2>1, <1>1
  <2> HIDE DEF Has
  <2> QED
    BY <2>1, <2>2
<1>5. PICK f : f = [i \in 1 .. m - 1 |-> IF i = 1 THEN seqs[i] ELSE f[i - 1] \o seqs[i]]
  BY <1>4
<1> DEFINE g == [i \in 1 .. m |-> IF i < m THEN f[i]
                                  ELSE IF m = 1 THEN seqs[1] ELSE f[m - 1] \o seqs[m]]
<1>6. ASSUME NEW i \in 1 .. m
      PROVE g[i] = IF i = 1 THEN seqs[i] ELSE g[i - 1] \o seqs[i]
  <2>1. CASE i < m
    <3>1. i \in 1 .. m - 1 /\ g[i] = f[i] /\ (i # 1 => g[i - 1] = f[i - 1])
      BY <2>1, <1>3
    <3>2. f[i] = IF i = 1 THEN seqs[i] ELSE f[i - 1] \o seqs[i]
      BY <3>1, <1>5
    <3> QED
      BY <3>1, <3>2
  <2>2. CASE i = m
    BY <2>2, <1>3
  <2> QED
    BY <2>1, <2>2, <1>3
<1>7. g = [i \in 1 .. m |-> IF i = 1 THEN seqs[i] ELSE g[i - 1] \o seqs[i]]
  BY <1>6
<1>8. Has(m)
  BY <1>7
<1> QED
  BY <1>8, <1>1

\* FlattenSeq is the last of the running concatenations.
LEMMA FlattenIsRuns ==
  ASSUME NEW seqs, Len(seqs) \in Nat \ {0}
  PROVE  \E f : Runs(f, seqs) /\ FlattenSeq(seqs) = f[Len(seqs)]
<1> DEFINE flatten == CHOOSE f : f = [i \in 1 .. Len(seqs) |->
                                        IF i = 1 THEN seqs[i] ELSE f[i - 1] \o seqs[i]]
<1>1. FlattenSeq(seqs) = flatten[Len(seqs)]
  BY DEF FlattenSeq
<1>2. Runs(flatten, seqs)
  BY RunsExist DEF Runs
<1> QED
  BY <1>1, <1>2

\* The k-th step of a part is within the whole.
LEMMA StepWithin ==
  ASSUME NEW a \in Nat, NEW b \in Nat, NEW c \in Nat, NEW k \in Nat,
         1 <= k, k <= b, a + b <= c
  PROVE  a + k \in 1 .. c
OBVIOUS

\* off[i] is where the (i + 1)-st of seqs begins in their concatenation.
Offsets(off, seqs) ==
  /\ off \in [0 .. Len(seqs) -> Nat]
  /\ off[0] = 0
  /\ \A i \in 1 .. Len(seqs) : off[i] = off[i - 1] + Len(seqs[i])

\* s is the concatenation of the first m of seqs.
Joins(s, seqs, off, m) ==
  /\ Len(s) = off[m]
  /\ \A i \in 1 .. m : off[i] <= off[m]
  /\ \A i \in 1 .. m : \A k \in 1 .. Len(seqs[i]) : s[off[i - 1] + k] = seqs[i][k]

\* The next part goes to its offset and leaves the others at theirs.
LEMMA JoinOneMore ==
  ASSUME NEW T, NEW seqs \in Seq(Seq(T)), NEW off, Offsets(off, seqs),
         NEW m \in 1 .. Len(seqs) - 1, NEW s \in Seq(T), Joins(s, seqs, off, m)
  PROVE  Joins(s \o seqs[m + 1], seqs, off, m + 1)
<1> DEFINE z == s \o seqs[m + 1]
<1>1. m \in Nat /\ m + 1 \in 1 .. Len(seqs) /\ m \in 0 .. Len(seqs)
  OBVIOUS
<1>2. seqs[m + 1] \in Seq(T) /\ Len(seqs[m + 1]) \in Nat
  BY <1>1
<1>3. off[m] \in Nat /\ off[m + 1] = off[m] + Len(seqs[m + 1])
  <2>1. off[m + 1] = off[(m + 1) - 1] + Len(seqs[m + 1])
    BY <1>1 DEF Offsets
  <2>2. (m + 1) - 1 = m
    BY <1>1
  <2>3. off[m] \in Nat
    BY <1>1 DEF Offsets
  <2> QED
    BY <2>1, <2>2, <2>3
<1>4. Len(z) = off[m + 1]
  <2>1. Len(s) = off[m]
    BY DEF Joins
  <2>2. Len(z) = Len(s) + Len(seqs[m + 1])
    BY <1>2
  <2> QED
    BY <2>1, <2>2, <1>3
<1>5. ASSUME NEW i \in 1 .. m + 1 PROVE off[i] <= off[m + 1]
  <2>1. CASE i \in 1 .. m
    <3>1. i \in 0 .. Len(seqs)
      BY <2>1, <1>1
    <3>2. off[i] <= off[m] /\ off[i] \in Nat
      BY <2>1, <3>1 DEF Joins, Offsets
    <3> QED
      BY <3>2, <1>2, <1>3
  <2>2. CASE i = m + 1
    BY <2>2, <1>2, <1>3
  <2> QED
    BY <2>1, <2>2
<1>6. ASSUME NEW i \in 1 .. m + 1, NEW k \in 1 .. Len(seqs[i])
      PROVE  z[off[i - 1] + k] = seqs[i][k]
  <2>1. CASE i \in 1 .. m
    <3>1. i \in 1 .. Len(seqs) /\ i - 1 \in 0 .. Len(seqs) /\ Len(seqs[i]) \in Nat
      BY <2>1, <1>1
    <3>2. off[i - 1] \in Nat /\ off[i] = off[i - 1] + Len(seqs[i]) /\ off[i] <= off[m]
      BY <3>1, <2>1 DEF Offsets, Joins
    <3>3. off[i - 1] + k \in 1 .. Len(s)
      <4>1. Len(s) = off[m]
        BY DEF Joins
      <4>2. k \in Nat /\ 1 <= k /\ k <= Len(seqs[i])
        BY <3>1
      <4>3. off[i - 1] + Len(seqs[i]) <= Len(s)
        BY <3>2, <4>1
      <4>4. Len(seqs[i]) \in Nat /\ off[i - 1] \in Nat /\ Len(s) \in Nat
        BY <3>1, <3>2
      <4> QED
        BY <4>2, <4>3, <4>4, StepWithin
    <3>4. z[off[i - 1] + k] = s[off[i - 1] + k]
      BY <3>3, <1>2
    <3> QED
      BY <3>4, <2>1 DEF Joins
  <2>2. CASE i = m + 1
    <3>1. off[i - 1] = Len(s) /\ Len(s) \in Nat
      BY <2>2 DEF Joins
    <3>2. z[Len(s) + k] = seqs[m + 1][k]
      BY <3>1, <2>2, <1>2
    <3> QED
      BY <3>1, <3>2, <2>2
  <2>3. i \in 1 .. m \/ i = m + 1
    BY <1>1
  <2> HIDE DEF z
  <2> QED
    BY <2>1, <2>2, <2>3
<1> QED
  BY <1>4, <1>5, <1>6 DEF Joins

\* Every part stands in the concatenation at its offset.
LEMMA FlattenJoins ==
  ASSUME NEW T, NEW seqs \in Seq(Seq(T)), seqs # <<>>, NEW off, Offsets(off, seqs)
  PROVE  /\ FlattenSeq(seqs) \in Seq(T)
         /\ Joins(FlattenSeq(seqs), seqs, off, Len(seqs))
<1>1. Len(seqs) \in Nat \ {0}
  OBVIOUS
<1>2. PICK f : Runs(f, seqs) /\ FlattenSeq(seqs) = f[Len(seqs)]
  BY <1>1, FlattenIsRuns
<1> DEFINE P(m) == f[m] \in Seq(T) /\ Joins(f[m], seqs, off, m)
           Bad == {m \in 1 .. Len(seqs) : ~P(m)}
<1>3. SUFFICES ASSUME Bad # {} PROVE FALSE
  BY <1>1, <1>2
<1>4. PICK m \in Bad : \A k \in Bad : m <= k
  <2>1. Bad \subseteq Nat
    BY <1>1
  <2> HIDE DEF Bad
  <2> QED
    BY <2>1, <1>3, Least
<1>5. P(1)
  <2>1. f[1] = seqs[1]
    BY <1>1, <1>2 DEF Runs
  <2>2. seqs[1] \in Seq(T)
    BY <1>1
  <2>3. off[1] = Len(seqs[1])
    BY <1>1, <2>2 DEF Offsets
  <2>4. Joins(seqs[1], seqs, off, 1)
    <3>1. \A i \in 1 .. 1 : i = 1 /\ off[i - 1] = 0
      BY DEF Offsets
    <3>2. \A k \in 1 .. Len(seqs[1]) : 0 + k = k
      BY <2>2
    <3>3. \A i \in 1 .. 1 : off[i] <= off[1]
      BY <3>1, <2>2, <2>3
    <3>4. \A i \in 1 .. 1 : \A k \in 1 .. Len(seqs[i]) : seqs[1][off[i - 1] + k] = seqs[i][k]
      BY <3>1, <3>2
    <3> QED
      BY <3>3, <3>4, <2>3 DEF Joins
  <2> QED
    BY <2>1, <2>2, <2>4
<1>6. m \in 2 .. Len(seqs)
  BY <1>4, <1>5, <1>1
<1>7. P(m - 1)
  <2>1. m - 1 \in 1 .. Len(seqs) /\ ~(m <= m - 1)
    BY <1>6
  <2>2. m - 1 \notin Bad
    BY <2>1, <1>4
  <2> HIDE DEF P
  <2> QED
    BY <2>1, <2>2
<1>8. f[m] = f[m - 1] \o seqs[m]
  <2>1. m \in 1 .. Len(seqs) /\ m # 1
    BY <1>6
  <2>2. f[m] = IF m = 1 THEN seqs[m] ELSE f[m - 1] \o seqs[m]
    BY <2>1, <1>2 DEF Runs
  <2> QED
    BY <2>1, <2>2
<1>9. P(m)
  <2>1. m - 1 \in 1 .. Len(seqs) - 1 /\ (m - 1) + 1 = m
    BY <1>6, <1>1
  <2>2. Joins(f[m - 1] \o seqs[(m - 1) + 1], seqs, off, (m - 1) + 1)
    BY <2>1, <1>7, JoinOneMore
  <2>3. seqs[m] \in Seq(T)
    BY <1>6
  <2> QED
    BY <2>1, <2>2, <2>3, <1>7, <1>8
<1> QED
  BY <1>9, <1>4

-----------------------------------------------------------------------------
(* The plan, unrolled: the groups of steps that Plan is made of.           *)

Ops == {"construct", "accept", "start", "wait", "stop", "join", "destroy"}
Objects == {"mdListener", "oeListener", "mdClient", "oeClient", "signal", "engine", "sender",
            "handlers", "inbound", "mdMessageHandler", "mdReceiver", "oeMessageHandler",
            "oeReceiver", "demux", "session"}
Steps == [op : Ops, object : Objects]

Constructions == [i \in DOMAIN Declarations |-> ConstructionOf(Declarations[i])]
Destructions == [i \in DOMAIN Declarations |-> DestructionOf(Reverse(Declarations)[i])]

\* Where the steps of each object end.
ConstructionEnds == [i \in 0 .. 15 |->
  <<0, 1, 2, 3, 4, 5, 6, 8, 9, 10, 11, 13, 14, 16, 18, 20>>[i + 1]]
DestructionEnds == [i \in 0 .. 15 |->
  <<0, 1, 4, 7, 8, 11, 12, 13, 14, 17, 18, 19, 20, 21, 22, 23>>[i + 1]]

\* The first 23 steps of Plan are not among those.
Ends == [i \in 0 .. 15 |-> 23 + DestructionEnds[i]]

\* The groups are sequences of steps.
LEMMA GroupTypes ==
  ASSUME NEW o \in Objects
  PROVE  ConstructionOf(o) \in Seq(Steps) /\ DestructionOf(o) \in Seq(Steps)
<1>1. Step("start", o) \in Steps /\ Step("construct", o) \in Steps
      /\ Step("accept", o) \in Steps
  BY DEF Step, Steps, Ops
<1>2. Step("stop", o) \in Steps /\ Step("join", o) \in Steps
      /\ Step("destroy", o) \in Steps
  BY DEF Step, Steps, Ops
<1> QED
  BY <1>1, <1>2 DEF ConstructionOf, DestructionOf

\* main declares fifteen objects.
LEMMA DeclarationsType ==
  /\ DOMAIN Declarations = 1 .. 15 /\ Len(Declarations) = 15
  /\ \A i \in 1 .. 15 : Declarations[i] \in Objects
BY DEF Declarations, Objects

\* What main does for each object it constructs.
LEMMA ConstructionRows ==
  /\ Constructions[1] = <<Step("construct", "mdListener")>>
  /\ Constructions[2] = <<Step("construct", "oeListener")>>
  /\ Constructions[3] = <<Step("accept", "mdClient")>>
  /\ Constructions[4] = <<Step("accept", "oeClient")>>
  /\ Constructions[5] = <<Step("construct", "signal")>>
  /\ Constructions[6] = <<Step("construct", "engine")>>
  /\ Constructions[7] = <<Step("start", "sender"), Step("construct", "sender")>>
  /\ Constructions[8] = <<Step("construct", "handlers")>>
  /\ Constructions[9] = <<Step("construct", "inbound")>>
  /\ Constructions[10] = <<Step("construct", "mdMessageHandler")>>
  /\ Constructions[11] = <<Step("construct", "mdReceiver"),
                           Step("start", "mdReceiver")>>
  /\ Constructions[12] = <<Step("construct", "oeMessageHandler")>>
  /\ Constructions[13] = <<Step("construct", "oeReceiver"),
                           Step("start", "oeReceiver")>>
  /\ Constructions[14] = <<Step("construct", "demux"), Step("start", "demux")>>
  /\ Constructions[15] = <<Step("construct", "session"), Step("start", "session")>>
BY DeclarationsType, SMTT(60) DEF Constructions, Declarations, ConstructionOf, Receivers

\* The positions after each construction.
LEMMA ConstructionOffsets ==
  ASSUME NEW i \in 1 .. 15
  PROVE  ConstructionEnds[i] = ConstructionEnds[i - 1] + Len(Constructions[i])
<1>1. Len(Constructions[i]) = IF i \in {7, 11, 13, 14, 15} THEN 2 ELSE 1
  <2>1. Constructions[i] = ConstructionOf(Declarations[i])
    BY DeclarationsType DEF Constructions
  <2>2. Declarations[i] \in {"sender", "mdReceiver", "oeReceiver", "demux", "session"}
          <=> i \in {7, 11, 13, 14, 15}
    BY DEF Declarations
  <2>3. ASSUME NEW o
        PROVE Len(ConstructionOf(o)) =
          IF o \in {"sender", "mdReceiver", "oeReceiver", "demux", "session"} THEN 2 ELSE 1
    BY DEF ConstructionOf, Receivers
  <2> QED
    BY <2>1, <2>2, <2>3
<1> QED
  BY <1>1, SMTT(60) DEF ConstructionEnds

\* The constructions are sequences of steps that follow one another.
LEMMA ConstructionSteps ==
  /\ Constructions \in Seq(Seq(Steps)) /\ Len(Constructions) = 15
  /\ Offsets(ConstructionEnds, Constructions)
<1>1. Constructions \in Seq(Seq(Steps))
  <2>1. ASSUME NEW i \in 1 .. 15 PROVE Constructions[i] \in Seq(Steps)
    <3>1. Declarations[i] \in Objects
      BY DeclarationsType
    <3> QED
      BY <3>1, DeclarationsType, GroupTypes DEF Constructions
  <2>2. Constructions = [i \in 1 .. 15 |-> Constructions[i]]
    BY DeclarationsType DEF Constructions
  <2> QED
    BY <2>1, <2>2
<1>2. Len(Constructions) = 15
  BY DeclarationsType DEF Constructions
<1>3. ConstructionEnds \in [0 .. 15 -> Nat] /\ ConstructionEnds[0] = 0
  BY DEF ConstructionEnds
<1>4. Offsets(ConstructionEnds, Constructions)
  BY <1>2, <1>3, ConstructionOffsets DEF Offsets
<1> QED
  BY <1>1, <1>2, <1>4

\* What main does for each object it destroys.
LEMMA DestructionRows ==
  /\ Destructions[1] = <<Step("destroy", "session")>>
  /\ Destructions[2] = <<Step("stop", "demux"), Step("join", "demux"),
                         Step("destroy", "demux")>>
  /\ Destructions[3] = <<Step("stop", "oeReceiver"),
                         Step("join", "oeReceiver"), Step("destroy", "oeReceiver")>>
  /\ Destructions[4] = <<Step("destroy", "oeMessageHandler")>>
  /\ Destructions[5] = <<Step("stop", "mdReceiver"),
                         Step("join", "mdReceiver"), Step("destroy", "mdReceiver")>>
  /\ Destructions[6] = <<Step("destroy", "mdMessageHandler")>>
  /\ Destructions[7] = <<Step("destroy", "inbound")>>
  /\ Destructions[8] = <<Step("destroy", "handlers")>>
  /\ Destructions[9] = <<Step("stop", "sender"), Step("join", "sender"),
                         Step("destroy", "sender")>>
  /\ Destructions[10] = <<Step("destroy", "engine")>>
  /\ Destructions[11] = <<Step("destroy", "signal")>>
  /\ Destructions[12] = <<Step("destroy", "oeClient")>>
  /\ Destructions[13] = <<Step("destroy", "mdClient")>>
  /\ Destructions[14] = <<Step("destroy", "oeListener")>>
  /\ Destructions[15] = <<Step("destroy", "mdListener")>>
BY DeclarationsType, SMTT(60)
   DEF Destructions, Declarations, DestructionOf, Joined, Receivers, Reverse

\* The positions after each destruction.
LEMMA DestructionOffsets ==
  ASSUME NEW i \in 1 .. 15
  PROVE  DestructionEnds[i] = DestructionEnds[i - 1] + Len(Destructions[i])
<1>1. Len(Destructions[i]) = IF i \in {2, 3, 5, 9} THEN 3 ELSE 1
  <2>1. Destructions[i] = DestructionOf(Declarations[16 - i])
    BY DeclarationsType DEF Destructions, Reverse
  <2>2. Declarations[16 - i] \in Joined <=> i \in {2, 3, 5, 9}
    BY DEF Declarations, Joined, Receivers
  <2>3. ASSUME NEW o
        PROVE Len(DestructionOf(o)) = IF o \in Joined THEN 3 ELSE 1
    BY DEF DestructionOf
  <2> QED
    BY <2>1, <2>2, <2>3
<1> QED
  BY <1>1, SMTT(60) DEF DestructionEnds

\* The destructions are sequences of steps that follow one another.
LEMMA DestructionSteps ==
  /\ Destructions \in Seq(Seq(Steps)) /\ Len(Destructions) = 15
  /\ Offsets(DestructionEnds, Destructions)
<1>1. Destructions \in Seq(Seq(Steps))
  <2>1. ASSUME NEW i \in 1 .. 15 PROVE Destructions[i] \in Seq(Steps)
    <3>1. Declarations[16 - i] \in Objects
          /\ Reverse(Declarations)[i] = Declarations[16 - i]
      BY DeclarationsType DEF Reverse
    <3> QED
      BY <3>1, DeclarationsType, GroupTypes DEF Destructions
  <2>2. Destructions = [i \in 1 .. 15 |-> Destructions[i]]
    BY DeclarationsType DEF Destructions
  <2> QED
    BY <2>1, <2>2
<1>2. Len(Destructions) = 15
  BY DeclarationsType DEF Destructions
<1>3. DestructionEnds \in [0 .. 15 -> Nat] /\ DestructionEnds[0] = 0
  BY DEF DestructionEnds
<1>4. Offsets(DestructionEnds, Destructions)
  BY <1>2, <1>3, DestructionOffsets DEF Offsets
<1> QED
  BY <1>1, <1>2, <1>4

-----------------------------------------------------------------------------
(* Plan, step by step.                                                     *)

\* The three parts of Plan, one after the other.
LEMMA ThreeParts ==
  ASSUME NEW T, NEW a \in Seq(T), NEW b \in Seq(T), NEW c \in Seq(T),
         NEW s, s = (a \o b) \o c
  PROVE  /\ s \in Seq(T)
         /\ Len(s) = (Len(a) + Len(b)) + Len(c)
         /\ \A n \in 1 .. Len(a) : s[n] = a[n]
         /\ \A n \in 1 .. Len(b) : s[Len(a) + n] = b[n]
         /\ \A n \in 1 .. Len(c) : s[(Len(a) + Len(b)) + n] = c[n]
<1> DEFINE ab == a \o b
<1>1. ab \in Seq(T) /\ Len(ab) = Len(a) + Len(b)
  OBVIOUS
<1>2. \A n \in 1 .. Len(a) : n \in 1 .. Len(ab) /\ ab[n] = a[n]
  OBVIOUS
<1>3. \A n \in 1 .. Len(b) : Len(a) + n \in 1 .. Len(ab) /\ ab[Len(a) + n] = b[n]
  OBVIOUS
<1>4. s = ab \o c
  OBVIOUS
<1> HIDE DEF ab
<1>5. Len(s) = Len(ab) + Len(c)
  <2>1. ab \in Seq(T)
    BY <1>1
  <2> QED
    BY <2>1, <1>4
<1>6. \A n \in 1 .. Len(ab) : s[n] = ab[n]
  BY <1>1, <1>4
<1>7. \A n \in 1 .. Len(c) : s[Len(ab) + n] = c[n]
  BY <1>1, <1>4
<1> QED
  BY <1>1, <1>2, <1>3, <1>5, <1>7, <1>6

\* s is the concatenation of 15 groups of steps.
Grouped(s, seqs, off) ==
  /\ seqs \in Seq(Seq(Steps)) /\ Len(seqs) = 15
  /\ Offsets(off, seqs)
  /\ Joins(s, seqs, off, 15)

\* Every step of every group stands in s at its group's offset.
InPlace(s, seqs, off) ==
  \A i \in 1 .. 15 : \A k \in 1 .. Len(seqs[i]) :
    off[i - 1] + k \in 1 .. Len(s) /\ s[off[i - 1] + k] = seqs[i][k]

\* What stands in a group stands in its place.
LEMMA InGroup ==
  ASSUME NEW s, NEW seqs, NEW off, Grouped(s, seqs, off)
  PROVE  InPlace(s, seqs, off)
<1> SUFFICES ASSUME NEW i \in 1 .. 15, NEW k \in 1 .. Len(seqs[i])
             PROVE  off[i - 1] + k \in 1 .. Len(s) /\ s[off[i - 1] + k] = seqs[i][k]
  BY DEF InPlace
<1>1. /\ seqs \in Seq(Seq(Steps)) /\ Len(seqs) = 15
      /\ Offsets(off, seqs)
      /\ Joins(s, seqs, off, 15)
  BY DEF Grouped
<1>2. i \in 1 .. Len(seqs) /\ i - 1 \in 0 .. Len(seqs) /\ 15 \in 0 .. Len(seqs)
  BY <1>1
<1>3. off[i] = off[i - 1] + Len(seqs[i]) /\ off[i - 1] \in Nat /\ off[15] \in Nat
  BY <1>1, <1>2 DEF Offsets
<1>4. off[i] <= off[15] /\ Len(s) = off[15] /\ s[off[i - 1] + k] = seqs[i][k]
  BY <1>1 DEF Joins
<1>5. Len(seqs[i]) \in Nat
  BY <1>1, <1>2
<1> QED
  BY <1>3, <1>4, <1>5

\* The plan is the constructions, the wait and the two shutdowns, the destructions.
LEMMA PlanParts ==
  /\ Plan \in Seq(Steps) /\ Len(Plan) = 46
  /\ \A i \in 1 .. 15 : \A k \in 1 .. Len(Constructions[i]) :
       Plan[ConstructionEnds[i - 1] + k] = Constructions[i][k]
  /\ Plan[21] = Step("wait", "signal")
  /\ Plan[22] = Step("stop", "mdReceiver")
  /\ Plan[23] = Step("stop", "oeReceiver")
  /\ \A i \in 1 .. 15 : \A k \in 1 .. Len(Destructions[i]) :
       Plan[Ends[i - 1] + k] = Destructions[i][k]
<1> DEFINE c == FlattenSeq(Constructions)
           m == <<Step("wait", "signal"), Step("stop", "mdReceiver"),
                  Step("stop", "oeReceiver")>>
           d == FlattenSeq(Destructions)
<1>1. c \in Seq(Steps) /\ Joins(c, Constructions, ConstructionEnds, 15)
  <2>1. Constructions # <<>>
    <3>1. Len(Constructions) # Len(<<>>)
      BY ConstructionSteps
    <3> QED
      BY <3>1
  <2>2. c \in Seq(Steps)
      /\ Joins(c, Constructions, ConstructionEnds, Len(Constructions))
    BY <2>1, ConstructionSteps, FlattenJoins
  <2> QED
    BY <2>2, ConstructionSteps
<1>2. d \in Seq(Steps) /\ Joins(d, Destructions, DestructionEnds, 15)
  <2>1. Destructions # <<>>
    <3>1. Len(Destructions) # Len(<<>>)
      BY DestructionSteps
    <3> QED
      BY <3>1
  <2>2. d \in Seq(Steps) /\ Joins(d, Destructions, DestructionEnds, Len(Destructions))
    BY <2>1, DestructionSteps, FlattenJoins
  <2> QED
    BY <2>2, DestructionSteps
<1>3. ConstructionEnds[15] = 20 /\ DestructionEnds[15] = 23
  BY DEF ConstructionEnds, DestructionEnds
<1>4. Len(c) = 20 /\ Len(d) = 23
  BY <1>1, <1>2, <1>3 DEF Joins
<1>5. m \in Seq(Steps) /\ Len(m) = 3
  BY DEF Step, Steps, Ops, Objects
<1>6. Plan = (c \o m) \o d
  BY DEF Plan, Constructions, Destructions
<1>7. m[1] = Step("wait", "signal") /\ m[2] = Step("stop", "mdReceiver")
      /\ m[3] = Step("stop", "oeReceiver")
  OBVIOUS
<1> HIDE DEF c, d, m
<1>8. /\ Plan \in Seq(Steps) /\ Len(Plan) = 46
      /\ \A n \in 1 .. 20 : Plan[n] = c[n]
      /\ \A n \in 1 .. 3 : Plan[20 + n] = m[n]
      /\ \A n \in 1 .. 23 : Plan[23 + n] = d[n]
  <2>1. c \in Seq(Steps) /\ m \in Seq(Steps) /\ d \in Seq(Steps)
    BY <1>1, <1>2, <1>5
  <2>2. /\ Plan \in Seq(Steps)
        /\ Len(Plan) = (Len(c) + Len(m)) + Len(d)
        /\ \A n \in 1 .. Len(c) : Plan[n] = c[n]
        /\ \A n \in 1 .. Len(m) : Plan[Len(c) + n] = m[n]
        /\ \A n \in 1 .. Len(d) : Plan[(Len(c) + Len(m)) + n] = d[n]
    BY <2>1, <1>6, ThreeParts
  <2>3. (Len(c) + Len(m)) = 23
    BY <1>4, <1>5
  <2> QED
    BY <2>2, <2>3, <1>4, <1>5
<1>9. Grouped(c, Constructions, ConstructionEnds)
  BY <1>1, ConstructionSteps DEF Grouped
<1>10. InPlace(c, Constructions, ConstructionEnds)
  BY <1>9, InGroup
<1>11. Grouped(d, Destructions, DestructionEnds)
  BY <1>2, DestructionSteps DEF Grouped
<1>12. InPlace(d, Destructions, DestructionEnds)
  BY <1>11, InGroup
<1>13. ASSUME NEW i \in 1 .. 15, NEW k \in 1 .. Len(Constructions[i])
      PROVE  Plan[ConstructionEnds[i - 1] + k] = Constructions[i][k]
  <2>1. ConstructionEnds[i - 1] + k \in 1 .. 20
        /\ c[ConstructionEnds[i - 1] + k] = Constructions[i][k]
    <3>1. ConstructionEnds[i - 1] + k \in 1 .. Len(c)
          /\ c[ConstructionEnds[i - 1] + k] = Constructions[i][k]
      BY <1>10 DEF InPlace
    <3> QED
      BY <3>1, <1>4
  <2> QED
    BY <2>1, <1>8
<1>14. \A i \in 0 .. 15 : DestructionEnds[i] \in Nat
      /\ Ends[i] = 23 + DestructionEnds[i]
  BY DestructionSteps DEF Ends, Offsets
<1>15. ASSUME NEW i \in 1 .. 15, NEW k \in 1 .. Len(Destructions[i])
       PROVE  Plan[Ends[i - 1] + k] = Destructions[i][k]
  <2>1. DestructionEnds[i - 1] + k \in 1 .. 23
        /\ d[DestructionEnds[i - 1] + k] = Destructions[i][k]
    <3>1. DestructionEnds[i - 1] + k \in 1 .. Len(d)
          /\ d[DestructionEnds[i - 1] + k] = Destructions[i][k]
      BY <1>12 DEF InPlace
    <3> QED
      BY <3>1, <1>4
  <2>2. i - 1 \in 0 .. 15
    OBVIOUS
  <2>3. Ends[i - 1] = 23 + DestructionEnds[i - 1] /\ DestructionEnds[i - 1] \in Nat
    BY <2>2, <1>14
  <2>4. Ends[i - 1] + k = 23 + (DestructionEnds[i - 1] + k)
    BY <2>3
  <2>5. \A n \in 1 .. 23 : Plan[23 + n] = d[n]
    BY <1>8
  <2>6. Plan[23 + (DestructionEnds[i - 1] + k)] = d[DestructionEnds[i - 1] + k]
    BY <2>1, <2>5, Zenon
  <2> QED
    BY <2>1, <2>4, <2>6
<1>16. Plan[20 + 1] = m[1] /\ Plan[20 + 2] = m[2] /\ Plan[20 + 3] = m[3]
  BY <1>8
<1> QED
  BY <1>7, <1>8, <1>13, <1>15, <1>16

\* What main does, from its first declaration to the last destructor.
LEMMA Timetable ==
  /\ DOMAIN Plan = 1 .. 46 /\ Len(Plan) = 46
  /\ Plan[1] = Step("construct", "mdListener")
  /\ Plan[2] = Step("construct", "oeListener")
  /\ Plan[3] = Step("accept", "mdClient")
  /\ Plan[4] = Step("accept", "oeClient")
  /\ Plan[5] = Step("construct", "signal")
  /\ Plan[6] = Step("construct", "engine")
  /\ Plan[7] = Step("start", "sender")
  /\ Plan[8] = Step("construct", "sender")
  /\ Plan[9] = Step("construct", "handlers")
  /\ Plan[10] = Step("construct", "inbound")
  /\ Plan[11] = Step("construct", "mdMessageHandler")
  /\ Plan[12] = Step("construct", "mdReceiver")
  /\ Plan[13] = Step("start", "mdReceiver")
  /\ Plan[14] = Step("construct", "oeMessageHandler")
  /\ Plan[15] = Step("construct", "oeReceiver")
  /\ Plan[16] = Step("start", "oeReceiver")
  /\ Plan[17] = Step("construct", "demux")
  /\ Plan[18] = Step("start", "demux")
  /\ Plan[19] = Step("construct", "session")
  /\ Plan[20] = Step("start", "session")
  /\ Plan[21] = Step("wait", "signal")
  /\ Plan[22] = Step("stop", "mdReceiver")
  /\ Plan[23] = Step("stop", "oeReceiver")
  /\ Plan[24] = Step("destroy", "session")
  /\ Plan[25] = Step("stop", "demux")
  /\ Plan[26] = Step("join", "demux")
  /\ Plan[27] = Step("destroy", "demux")
  /\ Plan[28] = Step("stop", "oeReceiver")
  /\ Plan[29] = Step("join", "oeReceiver")
  /\ Plan[30] = Step("destroy", "oeReceiver")
  /\ Plan[31] = Step("destroy", "oeMessageHandler")
  /\ Plan[32] = Step("stop", "mdReceiver")
  /\ Plan[33] = Step("join", "mdReceiver")
  /\ Plan[34] = Step("destroy", "mdReceiver")
  /\ Plan[35] = Step("destroy", "mdMessageHandler")
  /\ Plan[36] = Step("destroy", "inbound")
  /\ Plan[37] = Step("destroy", "handlers")
  /\ Plan[38] = Step("stop", "sender")
  /\ Plan[39] = Step("join", "sender")
  /\ Plan[40] = Step("destroy", "sender")
  /\ Plan[41] = Step("destroy", "engine")
  /\ Plan[42] = Step("destroy", "signal")
  /\ Plan[43] = Step("destroy", "oeClient")
  /\ Plan[44] = Step("destroy", "mdClient")
  /\ Plan[45] = Step("destroy", "oeListener")
  /\ Plan[46] = Step("destroy", "mdListener")
<1>1. ASSUME NEW i \in 1 .. 15, NEW k \in 1 .. Len(Constructions[i])
      PROVE  Plan[ConstructionEnds[i - 1] + k] = Constructions[i][k]
  BY PlanParts
<1>2. ASSUME NEW i \in 1 .. 15, NEW k \in 1 .. Len(Destructions[i])
      PROVE  Plan[Ends[i - 1] + k] = Destructions[i][k]
  BY PlanParts
<1>3. DOMAIN Plan = 1 .. 46 /\ Len(Plan) = 46
  <2>1. Plan \in Seq(Steps) /\ Len(Plan) = 46
    BY PlanParts
  <2> QED
    BY <2>1
<1>4. Plan[21] = Step("wait", "signal") /\ Plan[22] = Step("stop", "mdReceiver")
      /\ Plan[23] = Step("stop", "oeReceiver")
  BY PlanParts
<1>c1. Plan[1] = Step("construct", "mdListener")
  <2>1. ConstructionEnds[1 - 1] = 0
  /\ Constructions[1] = <<Step("construct", "mdListener")>>
    BY ConstructionRows DEF ConstructionEnds
  <2>2. 1 \in 1 .. 15 /\ 1 \in 1 .. Len(Constructions[1])
    BY <2>1
  <2>3. Plan[ConstructionEnds[1 - 1] + 1] = Constructions[1][1]
    BY <2>2, <1>1, Zenon
  <2> QED
    BY <2>1, <2>3
<1>c2. Plan[2] = Step("construct", "oeListener")
  <2>1. ConstructionEnds[2 - 1] = 1
  /\ Constructions[2] = <<Step("construct", "oeListener")>>
    BY ConstructionRows DEF ConstructionEnds
  <2>2. 2 \in 1 .. 15 /\ 1 \in 1 .. Len(Constructions[2])
    BY <2>1
  <2>3. Plan[ConstructionEnds[2 - 1] + 1] = Constructions[2][1]
    BY <2>2, <1>1, Zenon
  <2> QED
    BY <2>1, <2>3
<1>c3. Plan[3] = Step("accept", "mdClient")
  <2>1. ConstructionEnds[3 - 1] = 2 /\ Constructions[3] = <<Step("accept", "mdClient")>>
    BY ConstructionRows DEF ConstructionEnds
  <2>2. 3 \in 1 .. 15 /\ 1 \in 1 .. Len(Constructions[3])
    BY <2>1
  <2>3. Plan[ConstructionEnds[3 - 1] + 1] = Constructions[3][1]
    BY <2>2, <1>1, Zenon
  <2> QED
    BY <2>1, <2>3
<1>c4. Plan[4] = Step("accept", "oeClient")
  <2>1. ConstructionEnds[4 - 1] = 3 /\ Constructions[4] = <<Step("accept", "oeClient")>>
    BY ConstructionRows DEF ConstructionEnds
  <2>2. 4 \in 1 .. 15 /\ 1 \in 1 .. Len(Constructions[4])
    BY <2>1
  <2>3. Plan[ConstructionEnds[4 - 1] + 1] = Constructions[4][1]
    BY <2>2, <1>1, Zenon
  <2> QED
    BY <2>1, <2>3
<1>c5. Plan[5] = Step("construct", "signal")
  <2>1. ConstructionEnds[5 - 1] = 4
  /\ Constructions[5] = <<Step("construct", "signal")>>
    BY ConstructionRows DEF ConstructionEnds
  <2>2. 5 \in 1 .. 15 /\ 1 \in 1 .. Len(Constructions[5])
    BY <2>1
  <2>3. Plan[ConstructionEnds[5 - 1] + 1] = Constructions[5][1]
    BY <2>2, <1>1, Zenon
  <2> QED
    BY <2>1, <2>3
<1>c6. Plan[6] = Step("construct", "engine")
  <2>1. ConstructionEnds[6 - 1] = 5
  /\ Constructions[6] = <<Step("construct", "engine")>>
    BY ConstructionRows DEF ConstructionEnds
  <2>2. 6 \in 1 .. 15 /\ 1 \in 1 .. Len(Constructions[6])
    BY <2>1
  <2>3. Plan[ConstructionEnds[6 - 1] + 1] = Constructions[6][1]
    BY <2>2, <1>1, Zenon
  <2> QED
    BY <2>1, <2>3
<1>c7. Plan[7] = Step("start", "sender") /\ Plan[8] = Step("construct", "sender")
  <2>1. ConstructionEnds[7 - 1] = 6
  /\ Constructions[7] = <<Step("start", "sender"), Step("construct", "sender")>>
    BY ConstructionRows DEF ConstructionEnds
  <2>2. 7 \in 1 .. 15 /\ 1 \in 1 .. Len(Constructions[7])
        /\ 2 \in 1 .. Len(Constructions[7])
    BY <2>1
  <2>3. Plan[ConstructionEnds[7 - 1] + 1] = Constructions[7][1]
        /\ Plan[ConstructionEnds[7 - 1] + 2] = Constructions[7][2]
    BY <2>2, <1>1, Zenon
  <2> QED
    BY <2>1, <2>3
<1>c8. Plan[9] = Step("construct", "handlers")
  <2>1. ConstructionEnds[8 - 1] = 8
  /\ Constructions[8] = <<Step("construct", "handlers")>>
    BY ConstructionRows DEF ConstructionEnds
  <2>2. 8 \in 1 .. 15 /\ 1 \in 1 .. Len(Constructions[8])
    BY <2>1
  <2>3. Plan[ConstructionEnds[8 - 1] + 1] = Constructions[8][1]
    BY <2>2, <1>1, Zenon
  <2> QED
    BY <2>1, <2>3
<1>c9. Plan[10] = Step("construct", "inbound")
  <2>1. ConstructionEnds[9 - 1] = 9
  /\ Constructions[9] = <<Step("construct", "inbound")>>
    BY ConstructionRows DEF ConstructionEnds
  <2>2. 9 \in 1 .. 15 /\ 1 \in 1 .. Len(Constructions[9])
    BY <2>1
  <2>3. Plan[ConstructionEnds[9 - 1] + 1] = Constructions[9][1]
    BY <2>2, <1>1, Zenon
  <2> QED
    BY <2>1, <2>3
<1>c10. Plan[11] = Step("construct", "mdMessageHandler")
  <2>1. ConstructionEnds[10 - 1] = 10
  /\ Constructions[10] = <<Step("construct", "mdMessageHandler")>>
    BY ConstructionRows DEF ConstructionEnds
  <2>2. 10 \in 1 .. 15 /\ 1 \in 1 .. Len(Constructions[10])
    BY <2>1
  <2>3. Plan[ConstructionEnds[10 - 1] + 1] = Constructions[10][1]
    BY <2>2, <1>1, Zenon
  <2> QED
    BY <2>1, <2>3
<1>c11. Plan[12] = Step("construct", "mdReceiver")
        /\ Plan[13] = Step("start", "mdReceiver")
  <2>1. ConstructionEnds[11 - 1] = 11
  /\ Constructions[11] = <<Step("construct", "mdReceiver"),
                           Step("start", "mdReceiver")>>
    BY ConstructionRows DEF ConstructionEnds
  <2>2. 11 \in 1 .. 15 /\ 1 \in 1 .. Len(Constructions[11])
        /\ 2 \in 1 .. Len(Constructions[11])
    BY <2>1
  <2>3. Plan[ConstructionEnds[11 - 1] + 1] = Constructions[11][1]
        /\ Plan[ConstructionEnds[11 - 1] + 2] = Constructions[11][2]
    BY <2>2, <1>1, Zenon
  <2> QED
    BY <2>1, <2>3
<1>c12. Plan[14] = Step("construct", "oeMessageHandler")
  <2>1. ConstructionEnds[12 - 1] = 13
  /\ Constructions[12] = <<Step("construct", "oeMessageHandler")>>
    BY ConstructionRows DEF ConstructionEnds
  <2>2. 12 \in 1 .. 15 /\ 1 \in 1 .. Len(Constructions[12])
    BY <2>1
  <2>3. Plan[ConstructionEnds[12 - 1] + 1] = Constructions[12][1]
    BY <2>2, <1>1, Zenon
  <2> QED
    BY <2>1, <2>3
<1>c13. Plan[15] = Step("construct", "oeReceiver")
        /\ Plan[16] = Step("start", "oeReceiver")
  <2>1. ConstructionEnds[13 - 1] = 14
  /\ Constructions[13] = <<Step("construct", "oeReceiver"),
                           Step("start", "oeReceiver")>>
    BY ConstructionRows DEF ConstructionEnds
  <2>2. 13 \in 1 .. 15 /\ 1 \in 1 .. Len(Constructions[13])
        /\ 2 \in 1 .. Len(Constructions[13])
    BY <2>1
  <2>3. Plan[ConstructionEnds[13 - 1] + 1] = Constructions[13][1]
        /\ Plan[ConstructionEnds[13 - 1] + 2] = Constructions[13][2]
    BY <2>2, <1>1, Zenon
  <2> QED
    BY <2>1, <2>3
<1>c14. Plan[17] = Step("construct", "demux") /\ Plan[18] = Step("start", "demux")
  <2>1. ConstructionEnds[14 - 1] = 16
  /\ Constructions[14] = <<Step("construct", "demux"), Step("start", "demux")>>
    BY ConstructionRows DEF ConstructionEnds
  <2>2. 14 \in 1 .. 15 /\ 1 \in 1 .. Len(Constructions[14])
        /\ 2 \in 1 .. Len(Constructions[14])
    BY <2>1
  <2>3. Plan[ConstructionEnds[14 - 1] + 1] = Constructions[14][1]
        /\ Plan[ConstructionEnds[14 - 1] + 2] = Constructions[14][2]
    BY <2>2, <1>1, Zenon
  <2> QED
    BY <2>1, <2>3
<1>c15. Plan[19] = Step("construct", "session") /\ Plan[20] = Step("start", "session")
  <2>1. ConstructionEnds[15 - 1] = 18
  /\ Constructions[15] = <<Step("construct", "session"),
                           Step("start", "session")>>
    BY ConstructionRows DEF ConstructionEnds
  <2>2. 15 \in 1 .. 15 /\ 1 \in 1 .. Len(Constructions[15])
        /\ 2 \in 1 .. Len(Constructions[15])
    BY <2>1
  <2>3. Plan[ConstructionEnds[15 - 1] + 1] = Constructions[15][1]
        /\ Plan[ConstructionEnds[15 - 1] + 2] = Constructions[15][2]
    BY <2>2, <1>1, Zenon
  <2> QED
    BY <2>1, <2>3
<1>d1. Plan[24] = Step("destroy", "session")
  <2>1. Ends[1 - 1] = 23 /\ Destructions[1] = <<Step("destroy", "session")>>
    BY DestructionRows DEF DestructionEnds, Ends
  <2>2. 1 \in 1 .. 15 /\ 1 \in 1 .. Len(Destructions[1])
    BY <2>1
  <2>3. Plan[Ends[1 - 1] + 1] = Destructions[1][1]
    BY <2>2, <1>2, Zenon
  <2> QED
    BY <2>1, <2>3
<1>d2. Plan[25] = Step("stop", "demux") /\ Plan[26] = Step("join", "demux")
       /\ Plan[27] = Step("destroy", "demux")
  <2>1. Ends[2 - 1] = 24
  /\ Destructions[2] = <<Step("stop", "demux"), Step("join", "demux"),
                         Step("destroy", "demux")>>
    BY DestructionRows DEF DestructionEnds, Ends
  <2>2. 2 \in 1 .. 15 /\ 1 \in 1 .. Len(Destructions[2])
        /\ 2 \in 1 .. Len(Destructions[2]) /\ 3 \in 1 .. Len(Destructions[2])
    BY <2>1
  <2>3. Plan[Ends[2 - 1] + 1] = Destructions[2][1]
        /\ Plan[Ends[2 - 1] + 2] = Destructions[2][2]
           /\ Plan[Ends[2 - 1] + 3] = Destructions[2][3]
    BY <2>2, <1>2, Zenon
  <2> QED
    BY <2>1, <2>3
<1>d3. Plan[28] = Step("stop", "oeReceiver")
       /\ Plan[29] = Step("join", "oeReceiver")
          /\ Plan[30] = Step("destroy", "oeReceiver")
  <2>1. Ends[3 - 1] = 27
  /\ Destructions[3] = <<Step("stop", "oeReceiver"),
                         Step("join", "oeReceiver"), Step("destroy", "oeReceiver")>>
    BY DestructionRows DEF DestructionEnds, Ends
  <2>2. 3 \in 1 .. 15 /\ 1 \in 1 .. Len(Destructions[3])
        /\ 2 \in 1 .. Len(Destructions[3]) /\ 3 \in 1 .. Len(Destructions[3])
    BY <2>1
  <2>3. Plan[Ends[3 - 1] + 1] = Destructions[3][1]
        /\ Plan[Ends[3 - 1] + 2] = Destructions[3][2]
           /\ Plan[Ends[3 - 1] + 3] = Destructions[3][3]
    BY <2>2, <1>2, Zenon
  <2> QED
    BY <2>1, <2>3
<1>d4. Plan[31] = Step("destroy", "oeMessageHandler")
  <2>1. Ends[4 - 1] = 30 /\ Destructions[4] = <<Step("destroy", "oeMessageHandler")>>
    BY DestructionRows DEF DestructionEnds, Ends
  <2>2. 4 \in 1 .. 15 /\ 1 \in 1 .. Len(Destructions[4])
    BY <2>1
  <2>3. Plan[Ends[4 - 1] + 1] = Destructions[4][1]
    BY <2>2, <1>2, Zenon
  <2> QED
    BY <2>1, <2>3
<1>d5. Plan[32] = Step("stop", "mdReceiver")
       /\ Plan[33] = Step("join", "mdReceiver")
          /\ Plan[34] = Step("destroy", "mdReceiver")
  <2>1. Ends[5 - 1] = 31
  /\ Destructions[5] = <<Step("stop", "mdReceiver"),
                         Step("join", "mdReceiver"), Step("destroy", "mdReceiver")>>
    BY DestructionRows DEF DestructionEnds, Ends
  <2>2. 5 \in 1 .. 15 /\ 1 \in 1 .. Len(Destructions[5])
        /\ 2 \in 1 .. Len(Destructions[5]) /\ 3 \in 1 .. Len(Destructions[5])
    BY <2>1
  <2>3. Plan[Ends[5 - 1] + 1] = Destructions[5][1]
        /\ Plan[Ends[5 - 1] + 2] = Destructions[5][2]
           /\ Plan[Ends[5 - 1] + 3] = Destructions[5][3]
    BY <2>2, <1>2, Zenon
  <2> QED
    BY <2>1, <2>3
<1>d6. Plan[35] = Step("destroy", "mdMessageHandler")
  <2>1. Ends[6 - 1] = 34 /\ Destructions[6] = <<Step("destroy", "mdMessageHandler")>>
    BY DestructionRows DEF DestructionEnds, Ends
  <2>2. 6 \in 1 .. 15 /\ 1 \in 1 .. Len(Destructions[6])
    BY <2>1
  <2>3. Plan[Ends[6 - 1] + 1] = Destructions[6][1]
    BY <2>2, <1>2, Zenon
  <2> QED
    BY <2>1, <2>3
<1>d7. Plan[36] = Step("destroy", "inbound")
  <2>1. Ends[7 - 1] = 35 /\ Destructions[7] = <<Step("destroy", "inbound")>>
    BY DestructionRows DEF DestructionEnds, Ends
  <2>2. 7 \in 1 .. 15 /\ 1 \in 1 .. Len(Destructions[7])
    BY <2>1
  <2>3. Plan[Ends[7 - 1] + 1] = Destructions[7][1]
    BY <2>2, <1>2, Zenon
  <2> QED
    BY <2>1, <2>3
<1>d8. Plan[37] = Step("destroy", "handlers")
  <2>1. Ends[8 - 1] = 36 /\ Destructions[8] = <<Step("destroy", "handlers")>>
    BY DestructionRows DEF DestructionEnds, Ends
  <2>2. 8 \in 1 .. 15 /\ 1 \in 1 .. Len(Destructions[8])
    BY <2>1
  <2>3. Plan[Ends[8 - 1] + 1] = Destructions[8][1]
    BY <2>2, <1>2, Zenon
  <2> QED
    BY <2>1, <2>3
<1>d9. Plan[38] = Step("stop", "sender") /\ Plan[39] = Step("join", "sender")
       /\ Plan[40] = Step("destroy", "sender")
  <2>1. Ends[9 - 1] = 37
  /\ Destructions[9] = <<Step("stop", "sender"), Step("join", "sender"),
                         Step("destroy", "sender")>>
    BY DestructionRows DEF DestructionEnds, Ends
  <2>2. 9 \in 1 .. 15 /\ 1 \in 1 .. Len(Destructions[9])
        /\ 2 \in 1 .. Len(Destructions[9]) /\ 3 \in 1 .. Len(Destructions[9])
    BY <2>1
  <2>3. Plan[Ends[9 - 1] + 1] = Destructions[9][1]
        /\ Plan[Ends[9 - 1] + 2] = Destructions[9][2]
           /\ Plan[Ends[9 - 1] + 3] = Destructions[9][3]
    BY <2>2, <1>2, Zenon
  <2> QED
    BY <2>1, <2>3
<1>d10. Plan[41] = Step("destroy", "engine")
  <2>1. Ends[10 - 1] = 40 /\ Destructions[10] = <<Step("destroy", "engine")>>
    BY DestructionRows DEF DestructionEnds, Ends
  <2>2. 10 \in 1 .. 15 /\ 1 \in 1 .. Len(Destructions[10])
    BY <2>1
  <2>3. Plan[Ends[10 - 1] + 1] = Destructions[10][1]
    BY <2>2, <1>2, Zenon
  <2> QED
    BY <2>1, <2>3
<1>d11. Plan[42] = Step("destroy", "signal")
  <2>1. Ends[11 - 1] = 41 /\ Destructions[11] = <<Step("destroy", "signal")>>
    BY DestructionRows DEF DestructionEnds, Ends
  <2>2. 11 \in 1 .. 15 /\ 1 \in 1 .. Len(Destructions[11])
    BY <2>1
  <2>3. Plan[Ends[11 - 1] + 1] = Destructions[11][1]
    BY <2>2, <1>2, Zenon
  <2> QED
    BY <2>1, <2>3
<1>d12. Plan[43] = Step("destroy", "oeClient")
  <2>1. Ends[12 - 1] = 42 /\ Destructions[12] = <<Step("destroy", "oeClient")>>
    BY DestructionRows DEF DestructionEnds, Ends
  <2>2. 12 \in 1 .. 15 /\ 1 \in 1 .. Len(Destructions[12])
    BY <2>1
  <2>3. Plan[Ends[12 - 1] + 1] = Destructions[12][1]
    BY <2>2, <1>2, Zenon
  <2> QED
    BY <2>1, <2>3
<1>d13. Plan[44] = Step("destroy", "mdClient")
  <2>1. Ends[13 - 1] = 43 /\ Destructions[13] = <<Step("destroy", "mdClient")>>
    BY DestructionRows DEF DestructionEnds, Ends
  <2>2. 13 \in 1 .. 15 /\ 1 \in 1 .. Len(Destructions[13])
    BY <2>1
  <2>3. Plan[Ends[13 - 1] + 1] = Destructions[13][1]
    BY <2>2, <1>2, Zenon
  <2> QED
    BY <2>1, <2>3
<1>d14. Plan[45] = Step("destroy", "oeListener")
  <2>1. Ends[14 - 1] = 44 /\ Destructions[14] = <<Step("destroy", "oeListener")>>
    BY DestructionRows DEF DestructionEnds, Ends
  <2>2. 14 \in 1 .. 15 /\ 1 \in 1 .. Len(Destructions[14])
    BY <2>1
  <2>3. Plan[Ends[14 - 1] + 1] = Destructions[14][1]
    BY <2>2, <1>2, Zenon
  <2> QED
    BY <2>1, <2>3
<1>d15. Plan[46] = Step("destroy", "mdListener")
  <2>1. Ends[15 - 1] = 45 /\ Destructions[15] = <<Step("destroy", "mdListener")>>
    BY DestructionRows DEF DestructionEnds, Ends
  <2>2. 15 \in 1 .. 15 /\ 1 \in 1 .. Len(Destructions[15])
    BY <2>1
  <2>3. Plan[Ends[15 - 1] + 1] = Destructions[15][1]
    BY <2>2, <1>2, Zenon
  <2> QED
    BY <2>1, <2>3
<1> QED
  BY <1>4, <1>3, <1>c1, <1>c2, <1>c3, <1>c4, <1>c5, <1>c6, <1>c7, <1>c8,
     <1>c9, <1>c10, <1>c11, <1>c12, <1>c13, <1>c14, <1>c15,
     <1>d1, <1>d2, <1>d3, <1>d4, <1>d5, <1>d6, <1>d7, <1>d8, <1>d9,
     <1>d10, <1>d11, <1>d12, <1>d13, <1>d14, <1>d15

-----------------------------------------------------------------------------
(* The inductive invariant: main's position decides which objects exist,   *)
(* which threads have not started and which have ended.                    *)

\* The positions at which each object is there, and gone; at which each thread is
\* started, and joined.
BornAt == [o \in Objects |->
  CASE o = "mdListener" -> 1 [] o = "oeListener" -> 2 [] o = "mdClient" -> 3
    [] o = "oeClient" -> 4 [] o = "signal" -> 5 [] o = "engine" -> 6
    [] o = "sender" -> 8 [] o = "handlers" -> 9 [] o = "inbound" -> 10
    [] o = "mdMessageHandler" -> 11 [] o = "mdReceiver" -> 12
    [] o = "oeMessageHandler" -> 14 [] o = "oeReceiver" -> 15
    [] o = "demux" -> 17 [] o = "session" -> 19]

DiesAt == [o \in Objects |->
  CASE o = "mdListener" -> 46 [] o = "oeListener" -> 45
    [] o = "mdClient" -> 44 [] o = "oeClient" -> 43 [] o = "signal" -> 42
    [] o = "engine" -> 41 [] o = "sender" -> 40 [] o = "handlers" -> 37
    [] o = "inbound" -> 36 [] o = "mdMessageHandler" -> 35
    [] o = "mdReceiver" -> 34 [] o = "oeMessageHandler" -> 31
    [] o = "oeReceiver" -> 30 [] o = "demux" -> 27 [] o = "session" -> 24]

StartsAt == [o \in Joined |->
  CASE o = "demux" -> 18 [] o = "oeReceiver" -> 16 [] o = "mdReceiver" -> 13
    [] o = "sender" -> 7]

EndsAt == [o \in Joined |->
  CASE o = "demux" -> 26 [] o = "oeReceiver" -> 29 [] o = "mdReceiver" -> 33
    [] o = "sender" -> 39]

\* Where a thread that main joins is.
ThreadAt(t) ==
  IF t \in Receivers THEN receiver[t] ELSE IF t = "demux" THEN demux ELSE sender

Ended == {"exited", "misled"}

ObjectsFollowMain == alive = {o \in Objects : BornAt[o] < main /\ main <= DiesAt[o]}

ThreadsFollowMain ==
  \A t \in Joined :
    /\ ThreadAt(t) = "unborn" <=> main <= StartsAt[t]
    /\ main > EndsAt[t] => ThreadAt(t) \in Ended

\* Until the demultiplexer is started nothing is sent, so the sender's thread has
\* nothing to write: it cannot bring the process down while main constructs its
\* object.
NothingSentBefore ==
  main <= StartsAt["demux"] => outbound = 0 /\ sender \notin {"write", "threw"}

RunsWhileStarting ==
  /\ process = "ended" => main > Len(Plan)
  /\ process = "aborted" => main <= BornAt["engine"] \/ sender = "threw"

LifeInv ==
  /\ LifeTypeOK
  /\ ObjectsFollowMain
  /\ ThreadsFollowMain
  /\ NothingSentBefore
  /\ RunsWhileStarting

-----------------------------------------------------------------------------
(* What the plan says at each position.                                    *)

\* A position of the plan is an operation on an object.
LEMMA StepTypes ==
  ASSUME NEW n \in 1 .. Len(Plan)
  PROVE  /\ Plan[n] = Step(Plan[n].op, Plan[n].object)
         /\ Plan[n].op \in Ops /\ Plan[n].object \in Objects
BY Timetable, SMTT(60) DEF Step, Ops, Objects

\* An object is constructed or accepted at its position only.
LEMMA BirthSteps ==
  ASSUME NEW n \in 1 .. Len(Plan)
  PROVE  /\ Plan[n].op \in {"construct", "accept"} => BornAt[Plan[n].object] = n
         /\ \A o \in Objects :
              BornAt[o] = n => Plan[n].op \in {"construct", "accept"} /\ Plan[n].object = o
BY Timetable, SMTT(60) DEF Step, BornAt, Objects

\* It is destroyed at its position only.
LEMMA DeathSteps ==
  ASSUME NEW n \in 1 .. Len(Plan)
  PROVE  /\ Plan[n].op = "destroy" => DiesAt[Plan[n].object] = n
         /\ \A o \in Objects : DiesAt[o] = n => Plan[n].op = "destroy" /\ Plan[n].object = o
BY Timetable, SMTT(60) DEF Step, DiesAt, Objects

\* A joined thread is started at its position only.
LEMMA StartSteps ==
  ASSUME NEW n \in 1 .. Len(Plan), NEW t \in Joined
  PROVE  StartsAt[t] = n <=> Plan[n].op = "start" /\ Plan[n].object = t
BY Timetable, SMTT(60) DEF Step, StartsAt, Joined, Receivers

\* It is joined at its position only.
LEMMA JoinSteps ==
  ASSUME NEW n \in 1 .. Len(Plan), NEW t \in Joined
  PROVE  EndsAt[t] = n <=> Plan[n].op = "join" /\ Plan[n].object = t
BY Timetable, SMTT(60) DEF Step, EndsAt, Joined, Receivers

\* Birth is before death, start before join.
LEMMA TableTypes ==
  /\ \A o \in Objects : BornAt[o] \in 1 .. 46 /\ DiesAt[o] \in 1 .. 46 /\ BornAt[o] < DiesAt[o]
  /\ \A t \in Joined : StartsAt[t] \in 1 .. 46 /\ EndsAt[t] \in 1 .. 46 /\ StartsAt[t] < EndsAt[t]
<1>1. ASSUME NEW o \in Objects
      PROVE  BornAt[o] \in 1 .. 46 /\ DiesAt[o] \in 1 .. 46 /\ BornAt[o] < DiesAt[o]
  <2>1. BornAt[o] \in 1 .. 46
    BY DEF Objects, BornAt
  <2>2. DiesAt[o] \in 1 .. 46
    BY DEF Objects, DiesAt
  <2>3. BornAt[o] < DiesAt[o]
    BY DEF Objects, BornAt, DiesAt
  <2> QED
    BY <2>1, <2>2, <2>3
<1>2. ASSUME NEW t \in Joined
      PROVE  StartsAt[t] \in 1 .. 46 /\ EndsAt[t] \in 1 .. 46 /\ StartsAt[t] < EndsAt[t]
  BY DEF Joined, Receivers, StartsAt, EndsAt
<1> QED
  BY <1>1, <1>2

\* Positions are natural numbers.
LEMMA NatRange == \A n : n \in 1 .. 46 => n \in Nat
OBVIOUS

\* The objects are those that main declares.
LEMMA ObjectsAreDeclared == Range(Declarations) = Objects
BY DEF Range, Declarations, Objects

\* What may fail at the start comes before the engine.
LEMMA AcceptsComeFirst ==
  ASSUME NEW n \in 1 .. Len(Plan),
         \/ Plan[n].op = "accept"
         \/ \E o \in {"mdListener", "oeListener", "engine"} : Plan[n] = Step("construct", o)
  PROVE  n <= BornAt["engine"]
<1>1. BornAt["engine"] = 6
  BY DEF BornAt, Objects
<1> QED
  BY <1>1, Timetable, SMTT(60) DEF Step

-----------------------------------------------------------------------------
(* Main's steps and the other threads'.                                    *)

\* A step of main leaves alive the objects that its new position calls for.
LEMMA ObjectsKeep ==
  ASSUME ObjectsFollowMain, main \in 1 .. Len(Plan), main' = main + 1,
         alive' = IF Plan[main].op \in {"construct", "accept"}
                  THEN alive \cup {Plan[main].object}
                  ELSE IF Plan[main].op = "destroy" THEN alive \ {Plan[main].object}
                  ELSE alive
  PROVE  ObjectsFollowMain'
<1>1. Plan[main].object \in Objects
  BY StepTypes
<1>2. ASSUME NEW o \in Objects
      PROVE  o \in alive' <=> BornAt[o] < main + 1 /\ main + 1 <= DiesAt[o]
  <2>1. o \in alive <=> BornAt[o] < main /\ main <= DiesAt[o]
    BY DEF ObjectsFollowMain
  <2>2. BornAt[o] \in Nat /\ DiesAt[o] \in Nat /\ BornAt[o] < DiesAt[o] /\ main \in Nat
    <3>1. BornAt[o] \in 1 .. 46 /\ DiesAt[o] \in 1 .. 46 /\ BornAt[o] < DiesAt[o]
      BY TableTypes
    <3>2. main \in 1 .. 46
      BY Timetable
    <3>3. main \in Nat
      BY <3>2
    <3> QED
      BY <3>1, <3>3, NatRange
  <2>3. BornAt[o] = main <=> Plan[main].op \in {"construct", "accept"} /\ Plan[main].object = o
    BY BirthSteps
  <2>4. DiesAt[o] = main <=> Plan[main].op = "destroy" /\ Plan[main].object = o
    BY DeathSteps
  <2>5. CASE BornAt[o] = main
    BY <2>2, <2>3, <2>5
  <2>6. CASE DiesAt[o] = main
    BY <2>2, <2>4, <2>6
  <2>7. CASE BornAt[o] # main /\ DiesAt[o] # main
    <3>1. o \in alive' <=> o \in alive
      BY <2>3, <2>4, <2>7
    <3> QED
      BY <3>1, <2>1, <2>2, <2>7
  <2> QED
    BY <2>5, <2>6, <2>7
<1>3. alive' \subseteq Objects
  BY <1>1 DEF ObjectsFollowMain
<1> QED
  BY <1>2, <1>3 DEF ObjectsFollowMain

\* A step of main that starts or joins as planned keeps the threads in line.
LEMMA ThreadsKeepWithMain ==
  ASSUME ThreadsFollowMain, main \in 1 .. Len(Plan), main' = main + 1,
         \A t \in Joined : IF Plan[main].op = "start" /\ Plan[main].object = t
                           THEN ThreadAt(t)' # "unborn" ELSE ThreadAt(t)' = ThreadAt(t),
         \A t \in Joined :
           Plan[main].op = "join" /\ Plan[main].object = t => ThreadAt(t) \in Ended
  PROVE  ThreadsFollowMain'
<1>1. ASSUME NEW t \in Joined
      PROVE  /\ ThreadAt(t)' = "unborn" <=> main + 1 <= StartsAt[t]
             /\ main + 1 > EndsAt[t] => ThreadAt(t)' \in Ended
  <2>1. /\ ThreadAt(t) = "unborn" <=> main <= StartsAt[t]
        /\ main > EndsAt[t] => ThreadAt(t) \in Ended
    BY DEF ThreadsFollowMain
  <2>2. StartsAt[t] \in Nat /\ EndsAt[t] \in Nat /\ StartsAt[t] < EndsAt[t] /\ main \in Nat
    <3>1. StartsAt[t] \in 1 .. 46 /\ EndsAt[t] \in 1 .. 46 /\ StartsAt[t] < EndsAt[t]
      BY TableTypes
    <3>2. main \in 1 .. 46
      BY Timetable
    <3>3. main \in Nat
      BY <3>2
    <3> QED
      BY <3>1, <3>3, NatRange
  <2>3. StartsAt[t] = main <=> Plan[main].op = "start" /\ Plan[main].object = t
    BY StartSteps
  <2>4. EndsAt[t] = main <=> Plan[main].op = "join" /\ Plan[main].object = t
    BY JoinSteps
  <2>5. CASE StartsAt[t] = main
    BY <2>2, <2>3, <2>5
  <2>6. CASE StartsAt[t] # main
    <3>1. ThreadAt(t)' = ThreadAt(t)
      BY <2>3, <2>6
    <3>2. EndsAt[t] = main => ThreadAt(t) \in Ended
      BY <2>4
    <3> QED
      BY <3>1, <3>2, <2>1, <2>2, <2>6
  <2> QED
    BY <2>5, <2>6
<1> QED
  BY <1>1 DEF ThreadsFollowMain

\* So does a thread that goes on by itself without being born or reborn.
LEMMA ThreadsKeepWithoutMain ==
  ASSUME ThreadsFollowMain, main' = main,
         \A t \in Joined : \/ ThreadAt(t)' = ThreadAt(t)
                           \/ ThreadAt(t) \notin Ended \cup {"unborn"} /\ ThreadAt(t)' # "unborn"
  PROVE  ThreadsFollowMain'
BY DEF ThreadsFollowMain

-----------------------------------------------------------------------------
(* Each action keeps the invariant.                                        *)

\* What Does says about main's position.
LEMMA DoesSaysWhere ==
  ASSUME LifeInv, NEW op, Does(op)
  PROVE  /\ process = "running" /\ main \in 1 .. Len(Plan) /\ Plan[main].op = op
         /\ MainObject = Plan[main].object /\ MainObject \in Objects
<1>1. main \in DOMAIN Plan /\ Plan[main].op = op /\ process = "running"
  BY DEF Does
<1>2. DOMAIN Plan = 1 .. Len(Plan)
  BY Timetable
<1> QED
  BY <1>1, <1>2, StepTypes DEF MainObject

\* The invariant holds when main begins.
LEMMA InitEstablishes == LifeInit => LifeInv
<1> SUFFICES ASSUME LifeInit PROVE LifeInv
  OBVIOUS
<1>1. LifeTypeOK
  BY Timetable, LifecycleAssumption DEF LifeInit, LifeTypeOK
<1>2. ObjectsFollowMain
  <2>1. \A o \in Objects : ~(BornAt[o] < 1)
    BY TableTypes
  <2> QED
    BY <2>1 DEF LifeInit, ObjectsFollowMain
<1>3. ThreadsFollowMain
  <2>1. ASSUME NEW t \in Joined
        PROVE  /\ ThreadAt(t) = "unborn" <=> 1 <= StartsAt[t]
               /\ 1 > EndsAt[t] => ThreadAt(t) \in Ended
    <3>1. StartsAt[t] \in 1 .. 46 /\ EndsAt[t] \in 1 .. 46
      BY TableTypes
    <3>2. ThreadAt(t) = "unborn"
      BY DEF LifeInit, ThreadAt
    <3> QED
      BY <3>1, <3>2
  <2> QED
    BY <2>1 DEF LifeInit, ThreadsFollowMain
<1>4. NothingSentBefore /\ RunsWhileStarting
  BY DEF LifeInit, NothingSentBefore, RunsWhileStarting
<1> QED
  BY <1>1, <1>2, <1>3, <1>4 DEF LifeInv

\* What the steps of main have in common.
MainGoesOn(op) ==
  /\ Does(op)
  /\ main' = main + 1
  /\ alive' = IF op \in {"construct", "accept"} THEN alive \cup {MainObject}
              ELSE IF op = "destroy" THEN alive \ {MainObject} ELSE alive
  /\ \A t \in Joined : IF op = "start" /\ MainObject = t
                       THEN ThreadAt(t)' \notin {"unborn", "write", "threw"}
                       ELSE ThreadAt(t)' = ThreadAt(t)
  /\ op = "join" => HasEnded(MainObject)
  /\ process' = IF op = "destroy" /\ main = Len(Plan) THEN "ended" ELSE process
  /\ UNCHANGED outbound

\* Each step of main is one of the plan's operations.
LEMMA MainGoes ==
  ASSUME LifeInv, MainStep \/ AcceptClient
  PROVE  \E op \in Ops : MainGoesOn(op)
<1>1. CASE ConstructObject
  <2>1. MainGoesOn("construct")
    BY <1>1 DEF ConstructObject, MainGoesOn, ThreadAt, threadVars, queueVars
  <2> QED
    BY <2>1 DEF Ops
<1>2. CASE AcceptClient
  <2>1. MainGoesOn("accept")
    BY <1>2 DEF AcceptClient, MainGoesOn, ThreadAt, threadVars, queueVars
  <2> QED
    BY <2>1 DEF Ops
<1>3. CASE StartThread
  <2>1. ASSUME NEW t \in Joined
        PROVE  IF MainObject = t THEN ThreadAt(t)' \notin {"unborn", "write", "threw"}
               ELSE ThreadAt(t)' = ThreadAt(t)
    BY <1>3 DEF StartThread, ThreadAt, Joined, Receivers, LifeInv, LifeTypeOK
  <2>2. MainGoesOn("start")
    BY <1>3, <2>1 DEF StartThread, MainGoesOn, queueVars
  <2> QED
    BY <2>2 DEF Ops
<1>4. CASE WakeUp
  <2>1. MainGoesOn("wait")
    BY <1>4 DEF WakeUp, MainGoesOn, ThreadAt, threadVars, queueVars
  <2> QED
    BY <2>1 DEF Ops
<1>5. CASE StopThread
  <2>1. MainGoesOn("stop")
    BY <1>5 DEF StopThread, MainGoesOn, ThreadAt, threadVars, queueVars
  <2> QED
    BY <2>1 DEF Ops
<1>6. CASE JoinThread
  <2>1. MainGoesOn("join")
    BY <1>6 DEF JoinThread, MainGoesOn, ThreadAt, threadVars, queueVars
  <2> QED
    BY <2>1 DEF Ops
<1>7. CASE DestroyObject
  <2>1. MainGoesOn("destroy")
    BY <1>7 DEF DestroyObject, MainGoesOn, ThreadAt, threadVars, queueVars
  <2> QED
    BY <2>1 DEF Ops
<1> QED
  BY <1>1, <1>2, <1>3, <1>4, <1>5, <1>6, <1>7 DEF MainStep

\* Steps of main keep the types.
LEMMA MainTypes ==
  ASSUME LifeInv, MainStep \/ AcceptClient
  PROVE  LifeTypeOK'
<1>1. PICK op \in Ops : MainGoesOn(op)
  BY MainGoes
<1>2. main \in 1 .. Len(Plan) /\ MainObject \in Objects /\ main' = main + 1
  BY <1>1, DoesSaysWhere DEF MainGoesOn
<1>3. main' \in 1 .. Len(Plan) + 1
  BY <1>2, Timetable
<1>4. alive' \subseteq Range(Declarations)
  BY <1>1, <1>2, ObjectsAreDeclared DEF MainGoesOn, LifeInv, LifeTypeOK
<1>5. process' \in {"running", "aborted", "ended"}
  BY <1>1 DEF MainGoesOn, LifeInv, LifeTypeOK
<1>6. UNCHANGED <<signalVars, queueVars>>
  BY DEF MainStep, ConstructObject, AcceptClient, StartThread, WakeUp, StopThread, JoinThread,
         DestroyObject
<1>7. CASE UNCHANGED threadVars
  BY <1>3, <1>4, <1>5, <1>6, <1>7 DEF LifeInv, LifeTypeOK, threadVars, signalVars, queueVars
<1>8. CASE StartThread
  <2>1. receiver' \in [Receivers -> {"unborn", "recv", "push", "leave", "exited"}]
    BY <1>8 DEF StartThread, LifeInv, LifeTypeOK
  <2>2. /\ demux' \in {"unborn", "test", "wait", "handle", "send", "exited"}
        /\ sender' \in {"unborn", "test", "pop", "write", "exited", "misled", "threw"}
        /\ session' \in {"unborn", "reading", "stopOe", "stopMd", "trigger", "ended"}
    BY <1>8 DEF StartThread, LifeInv, LifeTypeOK
  <2> QED
    BY <1>3, <1>4, <1>5, <1>6, <2>1, <2>2 DEF LifeInv, LifeTypeOK, signalVars, queueVars
<1> QED
  BY <1>7, <1>8 DEF MainStep, ConstructObject, AcceptClient, WakeUp, StopThread, JoinThread,
                    DestroyObject

\* Steps of main keep the invariant.
LEMMA MainKeeps ==
  ASSUME LifeInv, MainStep \/ AcceptClient
  PROVE  LifeInv'
<1>1. PICK op \in Ops : MainGoesOn(op)
  BY MainGoes
<1>2. /\ process = "running" /\ main \in 1 .. Len(Plan) /\ Plan[main].op = op
      /\ MainObject = Plan[main].object /\ MainObject \in Objects
  BY <1>1, DoesSaysWhere DEF MainGoesOn
<1>3. main \in Nat /\ main' = main + 1
  BY <1>1, <1>2, Timetable, NatRange DEF MainGoesOn
<1>4. ObjectsFollowMain'
  BY <1>1, <1>2, <1>3, ObjectsKeep DEF LifeInv, MainGoesOn
<1>5. ThreadsFollowMain'
  <2>1. \A t \in Joined : IF Plan[main].op = "start" /\ Plan[main].object = t
                          THEN ThreadAt(t)' # "unborn" ELSE ThreadAt(t)' = ThreadAt(t)
    BY <1>1, <1>2 DEF MainGoesOn
  <2>2. ASSUME NEW t \in Joined, Plan[main].op = "join" /\ Plan[main].object = t
        PROVE  ThreadAt(t) \in Ended
    BY <1>1, <1>2, <2>2 DEF MainGoesOn, HasEnded, ThreadAt, Ended, Joined, Receivers
  <2> QED
    BY <1>2, <1>3, <2>1, <2>2, ThreadsKeepWithMain DEF LifeInv
<1>6. NothingSentBefore'
  <2>1. StartsAt["demux"] \in Nat
    BY TableTypes, NatRange DEF Joined
  <2>2. main' <= StartsAt["demux"] => main <= StartsAt["demux"]
    BY <1>3, <2>1
  <2>3. sender' = sender \/ sender' \notin {"write", "threw"}
    <3>1. ThreadAt("sender")' = ThreadAt("sender") \/ ThreadAt("sender")' \notin {"write", "threw"}
      BY <1>1 DEF MainGoesOn, Joined
    <3> QED
      BY <3>1 DEF ThreadAt, Receivers
  <2> QED
    BY <1>1, <2>2, <2>3 DEF NothingSentBefore, LifeInv, MainGoesOn
<1>7. RunsWhileStarting'
  <2>1. process' \in {"running", "ended"} /\ (process' = "ended" => main = Len(Plan))
    BY <1>1, <1>2 DEF MainGoesOn
  <2>2. Len(Plan) \in Nat
    BY Timetable
  <2> QED
    BY <2>1, <2>2, <1>3 DEF RunsWhileStarting
<1> QED
  BY <1>4, <1>5, <1>6, <1>7, MainTypes DEF LifeInv

\* So does a failure at the start.
LEMMA StartUpFailureKeeps ==
  ASSUME LifeInv, StartUpFails
  PROVE  LifeInv'
<1>1. /\ process' = "aborted" /\ UNCHANGED <<main, alive, signalVars, threadVars, queueVars>>
      /\ \/ Does("accept")
         \/ Does("construct") /\ MainObject \in {"mdListener", "oeListener", "engine"}
  BY DEF StartUpFails
<1>2. main <= BornAt["engine"]
  <2>1. CASE Does("accept")
    BY <2>1, DoesSaysWhere, AcceptsComeFirst
  <2>2. CASE Does("construct") /\ MainObject \in {"mdListener", "oeListener", "engine"}
    <3>1. /\ main \in 1 .. Len(Plan) /\ Plan[main].op = "construct"
          /\ Plan[main].object \in {"mdListener", "oeListener", "engine"}
      BY <2>2, DoesSaysWhere
    <3>2. Plan[main] = Step("construct", Plan[main].object)
      BY <3>1, StepTypes
    <3> QED
      BY <3>1, <3>2, AcceptsComeFirst
  <2> QED
    BY <1>1, <2>1, <2>2
<1>3. LifeTypeOK' /\ ObjectsFollowMain' /\ NothingSentBefore'
  BY <1>1 DEF LifeInv, LifeTypeOK, ObjectsFollowMain, NothingSentBefore, signalVars, threadVars,
              queueVars
<1>4. ThreadsFollowMain'
  BY <1>1, ThreadsKeepWithoutMain DEF LifeInv, ThreadAt, threadVars
<1>5. RunsWhileStarting'
  BY <1>1, <1>2 DEF RunsWhileStarting
<1> QED
  BY <1>3, <1>4, <1>5 DEF LifeInv

\* What the steps of the other threads and of the peer have in common: a thread
\* that has not started does nothing, nor does one that has ended.
OthersGoOn ==
  /\ UNCHANGED <<main, alive>>
  /\ \A t \in Joined : \/ ThreadAt(t)' = ThreadAt(t)
                       \/ ThreadAt(t) \notin Ended \cup {"unborn"} /\ ThreadAt(t)' # "unborn"
  /\ process' = process \/ (process' = "aborted" /\ sender' = "threw")
  /\ sender = "threw" => sender' = "threw"
  /\ outbound' > 0 => outbound > 0 \/ demux = "send"
  /\ sender' \in {"write", "threw"} => sender \in {"write", "threw"} \/ outbound > 0

\* So does whatever leaves main where it is, if it keeps the types.
LEMMA OthersKeep ==
  ASSUME LifeInv, OthersGoOn, LifeTypeOK'
  PROVE  LifeInv'
<1>1. ObjectsFollowMain'
  BY DEF LifeInv, ObjectsFollowMain, OthersGoOn
<1>2. ThreadsFollowMain'
  BY ThreadsKeepWithoutMain DEF LifeInv, OthersGoOn
<1>3. NothingSentBefore'
  <2> SUFFICES ASSUME main' <= StartsAt["demux"]
               PROVE  outbound' = 0 /\ sender' \notin {"write", "threw"}
    BY DEF NothingSentBefore
  <2>1. main <= StartsAt["demux"]
    BY DEF OthersGoOn
  <2>2. outbound = 0 /\ sender \notin {"write", "threw"}
    BY <2>1 DEF LifeInv, NothingSentBefore
  <2>3. ThreadAt("demux") = "unborn"
    BY <2>1 DEF LifeInv, ThreadsFollowMain, Joined
  <2>4. demux # "send"
    BY <2>3 DEF ThreadAt, Receivers
  <2>5. outbound' \in Nat
    BY LifecycleAssumption DEF LifeTypeOK
  <2> QED
    BY <2>2, <2>4, <2>5 DEF OthersGoOn
<1>4. RunsWhileStarting'
  BY DEF LifeInv, RunsWhileStarting, OthersGoOn
<1> QED
  BY <1>1, <1>2, <1>3, <1>4 DEF LifeInv

\* The steps of a receiver.
LEMMA ReceiverKeeps ==
  ASSUME LifeInv, NEW r \in Receivers,
         ReceiveMessage(r) \/ PushMessage(r) \/ ReceiveEnds(r) \/ HeartbeatStale(r) \/ Leave(r)
  PROVE  LifeInv'
<1>1. PICK from \in {"recv", "push", "leave"}, to \in {"recv", "push", "leave", "exited"} :
        ReceiverMoves(r, from, to)
  BY DEF ReceiveMessage, PushMessage, ReceiveEnds, HeartbeatStale, Leave
<1>2. OthersGoOn
  BY <1>1 DEF ReceiverMoves, OthersGoOn, ThreadAt, mainVars, Ended, LifeInv, LifeTypeOK
<1>3. receiver' \in [Receivers -> {"unborn", "recv", "push", "leave", "exited"}]
  BY <1>1 DEF ReceiverMoves, LifeInv, LifeTypeOK
<1>4. latch' \in {0, 1} /\ (signalled' <=> latch' = 0)
  <2>1. CASE Leave(r)
    BY <2>1 DEF Leave, Trigger, LifeInv, LifeTypeOK
  <2>2. CASE UNCHANGED signalVars
    BY <2>2 DEF signalVars, LifeInv, LifeTypeOK
  <2> QED
    BY <2>1, <2>2 DEF ReceiveMessage, PushMessage, ReceiveEnds, HeartbeatStale
<1>5. inbound' \in 0 .. InboundCapacity
  BY LifecycleAssumption
     DEF ReceiveMessage, PushMessage, ReceiveEnds, HeartbeatStale, Leave, LifeInv, LifeTypeOK
<1>6. LifeTypeOK'
  BY <1>1, <1>3, <1>4, <1>5 DEF ReceiverMoves, mainVars, LifeInv, LifeTypeOK
<1> QED
  BY <1>2, <1>6, OthersKeep

\* The steps of the demultiplexer.
LEMMA DemuxKeeps ==
  ASSUME LifeInv, DemuxStep
  PROVE  LifeInv'
<1>1. PICK from \in {"test", "wait", "handle", "send"},
           to \in {"test", "wait", "handle", "send", "exited"} : DemuxMoves(from, to)
  BY DEF DemuxStep, DemuxTest, DemuxPop, DemuxHandle, DemuxSend
<1>2. outbound' > 0 => outbound > 0 \/ demux = "send"
  BY DEF DemuxStep, DemuxTest, DemuxPop, DemuxHandle, DemuxSend, DemuxMoves
<1>3. OthersGoOn
  BY <1>1, <1>2 DEF DemuxMoves, OthersGoOn, ThreadAt, mainVars, Ended
<1>4. inbound' \in 0 .. InboundCapacity /\ outbound' \in 0 .. OutboundCapacity
  BY LifecycleAssumption
     DEF DemuxStep, DemuxTest, DemuxPop, DemuxHandle, DemuxSend, LifeInv, LifeTypeOK
<1>5. LifeTypeOK'
  BY <1>1, <1>4 DEF DemuxMoves, mainVars, signalVars, LifeInv, LifeTypeOK
<1> QED
  BY <1>3, <1>5, OthersKeep

\* The steps of the sender.
LEMMA SenderKeeps ==
  ASSUME LifeInv, SenderStep \/ SenderWriteCut \/ SenderWriteFails
  PROVE  LifeInv'
<1>1. PICK from \in {"test", "pop", "write"},
           to \in {"test", "pop", "write", "exited", "misled", "threw"} :
        SenderMoves(from, to)
  BY DEF SenderStep, SenderTest, SenderPop, SenderWrite, SenderWriteCut, SenderWriteFails
<1>2. /\ outbound' \in 0 .. OutboundCapacity
      /\ outbound' > 0 => outbound > 0
      /\ sender' \in {"write", "threw"} => sender = "write" \/ outbound > 0
  BY LifecycleAssumption
     DEF SenderStep, SenderTest, SenderPop, SenderWrite, SenderWriteCut, SenderWriteFails,
         SenderMoves, LifeInv, LifeTypeOK
<1>3. process' = process \/ (process' = "aborted" /\ sender' = "threw")
  BY DEF SenderStep, SenderTest, SenderPop, SenderWrite, SenderWriteCut, SenderWriteFails,
         SenderMoves
<1>4. OthersGoOn
  BY <1>1, <1>2, <1>3 DEF SenderMoves, OthersGoOn, ThreadAt, Ended
<1>5. unread' \in 0 .. SocketCapacity
  BY LifecycleAssumption
     DEF SenderStep, SenderTest, SenderPop, SenderWrite, SenderWriteCut, SenderWriteFails,
         LifeInv, LifeTypeOK
<1>6. LifeTypeOK'
  BY <1>1, <1>2, <1>3, <1>5 DEF SenderMoves, signalVars, LifeInv, LifeTypeOK
<1> QED
  BY <1>4, <1>6, OthersKeep

\* The steps of the session.
LEMMA SessionKeeps ==
  ASSUME LifeInv, CloseSession \/ SessionStep
  PROVE  LifeInv'
<1>1. PICK from \in {"reading", "stopOe", "stopMd", "trigger"},
           to \in {"stopOe", "stopMd", "trigger", "ended"} : SessionMoves(from, to)
  BY DEF CloseSession, SessionStep, SessionStops, SessionTriggers
<1>2. OthersGoOn
  BY <1>1 DEF SessionMoves, OthersGoOn, ThreadAt, mainVars, queueVars
<1>3. latch' \in {0, 1} /\ (signalled' <=> latch' = 0)
  <2>1. CASE SessionTriggers
    BY <2>1 DEF SessionTriggers, Trigger, LifeInv, LifeTypeOK
  <2>2. CASE UNCHANGED signalVars
    BY <2>2 DEF signalVars, LifeInv, LifeTypeOK
  <2> QED
    BY <2>1, <2>2 DEF CloseSession, SessionStep, SessionStops
<1>4. LifeTypeOK'
  BY <1>1, <1>3 DEF SessionMoves, mainVars, queueVars, LifeInv, LifeTypeOK
<1> QED
  BY <1>2, <1>4, OthersKeep

\* The steps of the peer.
LEMMA PeerKeeps ==
  ASSUME LifeInv, PeerReads \/ UNCHANGED lifeVars
  PROVE  LifeInv'
<1>1. UNCHANGED <<mainVars, signalVars, threadVars, inbound, outbound>>
  BY DEF PeerReads, lifeVars, queueVars
<1>2. OthersGoOn
  BY <1>1 DEF OthersGoOn, ThreadAt, mainVars, threadVars
<1>3. unread' \in 0 .. SocketCapacity
  BY LifecycleAssumption DEF PeerReads, lifeVars, queueVars, LifeInv, LifeTypeOK
<1>4. LifeTypeOK'
  BY <1>1, <1>3 DEF mainVars, signalVars, threadVars, LifeInv, LifeTypeOK
<1> QED
  BY <1>2, <1>4, OthersKeep

\* Every reachable state satisfies the invariant.
THEOREM LifeInvariance == LifeSpec => []LifeInv
<1>1. LifeInv /\ [LifeNext]_lifeVars => LifeInv'
  <2> SUFFICES ASSUME LifeInv, [LifeNext]_lifeVars PROVE LifeInv'
    OBVIOUS
  <2> QED
    BY MainKeeps, StartUpFailureKeeps, ReceiverKeeps, DemuxKeeps, SenderKeeps, SessionKeeps,
       PeerKeeps DEF LifeNext
<1> QED
  BY <1>1, InitEstablishes, PTL DEF LifeSpec

-----------------------------------------------------------------------------
(* The theorems.                                                           *)

\* Every variable keeps its type; the latch is counted down once, whoever
\* triggers, and how often: by the two receivers and by CLOSE.
THEOREM LifeTypes == LifeSpec => []LifeTypeOK
<1>1. LifeInv => LifeTypeOK
  BY DEF LifeInv
<1> QED
  BY <1>1, LifeInvariance, PTL

\* A thread that is running was started and is not joined.
LEMMA RunningIsBetween ==
  ASSUME LifeInv, NEW t \in Joined, ThreadAt(t) \notin Ended \cup {"unborn"}
  PROVE  main > StartsAt[t] /\ main <= EndsAt[t]
<1>1. ~(main <= StartsAt[t]) /\ ~(main > EndsAt[t])
  BY DEF LifeInv, ThreadsFollowMain
<1>2. StartsAt[t] \in Nat /\ EndsAt[t] \in Nat
  BY TableTypes, NatRange
<1>3. main \in Nat
  BY Timetable DEF LifeInv, LifeTypeOK
<1> QED
  BY <1>1, <1>2, <1>3

\* What is constructed before a thread starts and destroyed after it is joined
\* is there as long as the thread runs.
LEMMA AliveWhile ==
  ASSUME LifeInv, NEW t \in Joined, NEW o \in Objects,
         ThreadAt(t) \notin Ended \cup {"unborn"},
         BornAt[o] < StartsAt[t] \/ BornAt[o] < main, EndsAt[t] < DiesAt[o]
  PROVE  o \in alive
<1>1. main > StartsAt[t] /\ main <= EndsAt[t]
  BY RunningIsBetween
<1>2. BornAt[o] \in Nat /\ DiesAt[o] \in Nat /\ StartsAt[t] \in Nat /\ EndsAt[t] \in Nat
  BY TableTypes, NatRange
<1>3. main \in Nat
  BY Timetable DEF LifeInv, LifeTypeOK
<1>4. BornAt[o] < main /\ main <= DiesAt[o]
  BY <1>1, <1>2, <1>3
<1> QED
  BY <1>4 DEF LifeInv, ObjectsFollowMain

\* The lifetimes, as positions of the plan.
LEMMA Lifetimes ==
  /\ BornAt["inbound"] = 10 /\ DiesAt["inbound"] = 36
  /\ BornAt["handlers"] = 9 /\ DiesAt["handlers"] = 37
  /\ BornAt["engine"] = 6 /\ DiesAt["engine"] = 41
  /\ BornAt["sender"] = 8 /\ DiesAt["sender"] = 40
  /\ BornAt["demux"] = 17 /\ DiesAt["demux"] = 27
  /\ BornAt["signal"] = 5 /\ DiesAt["signal"] = 42
  /\ BornAt["mdMessageHandler"] = 11 /\ DiesAt["mdMessageHandler"] = 35
  /\ BornAt["mdReceiver"] = 12 /\ DiesAt["mdReceiver"] = 34
  /\ BornAt["mdClient"] = 3 /\ DiesAt["mdClient"] = 44
  /\ BornAt["oeMessageHandler"] = 14 /\ DiesAt["oeMessageHandler"] = 31
  /\ BornAt["oeReceiver"] = 15 /\ DiesAt["oeReceiver"] = 30
  /\ BornAt["oeClient"] = 4 /\ DiesAt["oeClient"] = 43
BY DEF BornAt, DiesAt, Objects

\* No joined thread uses an object before its constructor has run or after its
\* destructor has, for any capacities and any number of messages: the order in
\* which main declares them is safe.
THEOREM NobodyUsesTheDead == LifeSpec => []NoUseOutsideLifetime
<1>1. ASSUME LifeInv PROVE NoUseOutsideLifetime
  <2>1. UsedByDemux \subseteq alive
    <3> SUFFICES ASSUME demux \notin {"unborn", "exited"}
                 PROVE  {"demux", "inbound", "handlers", "engine", "sender"} \subseteq alive
      BY DEF UsedByDemux
    <3>1. ThreadAt("demux") \notin Ended \cup {"unborn"} /\ "demux" \in Joined
      BY <1>1 DEF LifeInv, LifeTypeOK, ThreadAt, Ended, Joined, Receivers
    <3>2. ASSUME NEW o \in {"demux", "inbound", "handlers", "engine", "sender"}
          PROVE  o \in Objects /\ BornAt[o] < StartsAt["demux"] /\ EndsAt["demux"] < DiesAt[o]
      <4>1. StartsAt["demux"] = 18 /\ EndsAt["demux"] = 26
        BY DEF StartsAt, EndsAt, Joined
      <4>2. o \in Objects
        BY DEF Objects
      <4>3. BornAt[o] \in Nat /\ BornAt[o] <= 17
        BY Lifetimes
      <4>4. DiesAt[o] \in Nat /\ DiesAt[o] >= 27
        BY Lifetimes
      <4> QED
        BY <4>1, <4>2, <4>3, <4>4
    <3> QED
      BY <1>1, <3>1, <3>2, AliveWhile
  <2>2. ASSUME NEW r \in Receivers PROVE UsedByReceiver(r) \subseteq alive
    <3> SUFFICES ASSUME receiver[r] \notin {"unborn", "exited"}, NEW o \in UsedByReceiver(r)
                 PROVE  o \in alive
      BY DEF UsedByReceiver
    <3>1. ThreadAt(r) \notin Ended \cup {"unborn"} /\ r \in Joined
      BY <1>1 DEF LifeInv, LifeTypeOK, ThreadAt, Ended, Joined
    <3>2. CASE r = "mdReceiver"
      <4>1. o \in {r, "inbound", "signal", "mdMessageHandler", "mdClient"}
        BY <3>2 DEF UsedByReceiver
      <4>2. o \in Objects /\ BornAt[o] < StartsAt[r] /\ EndsAt[r] < DiesAt[o]
        <5>1. StartsAt[r] = 13 /\ EndsAt[r] = 33
          BY <3>2 DEF StartsAt, EndsAt, Joined, Receivers
        <5>2. o \in Objects
          BY <3>2, <4>1 DEF Objects
        <5>3. BornAt[o] \in Nat /\ BornAt[o] <= 12
          BY <3>2, <4>1, Lifetimes
        <5>4. DiesAt[o] \in Nat /\ DiesAt[o] >= 34
          BY <3>2, <4>1, Lifetimes
        <5> QED
          BY <5>1, <5>2, <5>3, <5>4
      <4> QED
        BY <1>1, <3>1, <4>2, AliveWhile
    <3>3. CASE r = "oeReceiver"
      <4>1. o \in {r, "inbound", "signal", "oeMessageHandler", "oeClient"}
        BY <3>3 DEF UsedByReceiver
      <4>2. o \in Objects /\ BornAt[o] < StartsAt[r] /\ EndsAt[r] < DiesAt[o]
        <5>1. StartsAt[r] = 16 /\ EndsAt[r] = 29
          BY <3>3 DEF StartsAt, EndsAt, Joined, Receivers
        <5>2. o \in Objects
          BY <3>3, <4>1 DEF Objects
        <5>3. BornAt[o] \in Nat /\ BornAt[o] <= 15
          BY <3>3, <4>1, Lifetimes
        <5>4. DiesAt[o] \in Nat /\ DiesAt[o] >= 30
          BY <3>3, <4>1, Lifetimes
        <5> QED
          BY <5>1, <5>2, <5>3, <5>4
      <4> QED
        BY <1>1, <3>1, <4>2, AliveWhile
    <3> QED
      BY <3>2, <3>3 DEF Receivers
  <2>3. UsedBySender \subseteq alive
    <3> SUFFICES ASSUME sender \notin {"unborn", "exited", "misled"}, NEW o \in UsedBySender
                 PROVE  o \in alive
      BY DEF UsedBySender
    <3>1. ThreadAt("sender") \notin Ended \cup {"unborn"} /\ "sender" \in Joined
      BY DEF ThreadAt, Ended, Joined, Receivers
    <3>2. CASE o = "oeClient"
      <4>1. o \in Objects /\ BornAt[o] < StartsAt["sender"] /\ EndsAt["sender"] < DiesAt[o]
        BY <3>2 DEF Objects, BornAt, DiesAt, StartsAt, EndsAt, Joined
      <4> QED
        BY <1>1, <3>1, <4>1, AliveWhile
    <3>3. CASE o = "sender" /\ ~(Does("construct") /\ MainObject = "sender")
      <4>1. /\ o \in Objects /\ EndsAt["sender"] < DiesAt[o]
            /\ StartsAt["sender"] = 7 /\ BornAt[o] = 8 /\ StartsAt["demux"] = 18
            /\ BornAt["engine"] = 6
        BY <3>3 DEF Objects, BornAt, DiesAt, StartsAt, EndsAt, Joined
      <4>2. main > 7
        BY <1>1, <3>1, <4>1, RunningIsBetween
      <4>3. ASSUME main = 8 PROVE FALSE
        <5>1. process = "running"
          BY <1>1, <4>1, <4>3, Timetable
             DEF LifeInv, LifeTypeOK, RunsWhileStarting, NothingSentBefore
        <5>2. Does("construct") /\ MainObject = "sender"
          BY <4>3, <5>1, Timetable DEF Does, MainObject, Step
        <5> QED
          BY <5>2, <3>3
      <4>4. main \in Nat
        BY <1>1, Timetable DEF LifeInv, LifeTypeOK
      <4>5. BornAt[o] < main
        BY <4>1, <4>2, <4>3, <4>4
      <4> QED
        BY <1>1, <3>1, <4>1, <4>5, AliveWhile
    <3> QED
      BY <3>2, <3>3 DEF UsedBySender
  <2> QED
    BY <2>1, <2>2, <2>3 DEF NoUseOutsideLifetime
<1> QED
  BY <1>1, LifeInvariance, PTL
=============================================================================
