-------------------------- MODULE VWAPServiceProofs --------------------------
(***************************************************************************)
(* Proofs about VWAPService, for every size of the ring and of the window, *)
(* and for any trades with any stamps: types (no unsigned total wraps),    *)
(* the totals are the sums over what the ring holds, what it holds is a    *)
(* suffix of the feed, and a read is exact while stamps are in order and   *)
(* the ring has not been full.                                             *)
(*                                                                         *)
(* The totals are sums of arbitrarily many trades.  MapThenSumSet takes    *)
(* its elements in the order of CHOOSE; the first part shows, by taking a  *)
(* smallest counterexample among the subsets of a finite set, that it is   *)
(* the sum in whatever order, and how sums of slices fit together.         *)
(***************************************************************************)
EXTENDS VWAPService, FiniteSetTheorems, SequenceTheorems, TLAPS

-----------------------------------------------------------------------------
(* Sums.                                                                   *)

\* The least number of a set.
LEMMA LeastNumber ==
  ASSUME NEW T \in SUBSET Nat, T # {}
  PROVE  \E m \in T : \A n \in T : m <= n
<1>1. \E m \in T : \A n \in T : <<n, m>> \notin OpToRel(<, Nat)
  BY NatLessThanWellFounded, WFMin
<1>2. \A n, m \in Nat : n < m => <<n, m>> \in OpToRel(<, Nat)
  BY DEF OpToRel
<1>3. \A n, m \in Nat : ~(n < m) => m <= n
  OBVIOUS
<1> QED
  BY <1>1, <1>2, <1>3

\* A smallest of a collection of subsets of a finite set.
LEMMA LeastSubset ==
  ASSUME NEW S, IsFiniteSet(S), NEW T \in SUBSET SUBSET S, T # {}
  PROVE  \E m \in T : \A s \in T : s \subseteq m => s = m
<1> DEFINE R == StrictSubsetOrdering(S)
<1>1. IsWellFoundedOn(R, SUBSET S)
  BY FS_StrictSubsetOrderingWellFounded, FS_FiniteSubsetsOfFinite
<1> HIDE DEF R
<1>2. \E m \in T : \A s \in T : <<s, m>> \notin R
  BY <1>1, WFMin
<1> QED
  BY <1>2 DEF R, StrictSubsetOrdering

\* F gives every subset of S the sum of g over it.
Sums(F, g, S) ==
  /\ F \in [SUBSET S -> Int]
  /\ F[{}] = 0
  /\ \A s \in SUBSET S : \A x \in s : F[s] = g[x] + F[s \ {x}]

\* Every finite set of integers has its sums.
LEMMA SumsExist ==
  ASSUME NEW S, IsFiniteSet(S), NEW g, \A x \in S : g[x] \in Int
  PROVE  \E F : Sums(F, g, S)
<1> DEFINE T == {s \in SUBSET S : ~ \E F : Sums(F, g, s)}
<1>1. SUFFICES ASSUME T # {} PROVE FALSE
  OBVIOUS
<1>2. PICK m \in T : \A s \in T : s \subseteq m => s = m
  <2>1. T \in SUBSET SUBSET S
    OBVIOUS
  <2> HIDE DEF T
  <2> QED
    BY <1>1, <2>1, LeastSubset
<1>3. m # {}
  <2>1. Sums([s \in SUBSET {} |-> 0], g, {})
    BY DEF Sums
  <2> QED
    BY <2>1
<1>4. PICK y \in m : TRUE
  BY <1>3
<1> DEFINE n == m \ {y}
<1>5. PICK F : Sums(F, g, n)
  <2>1. n \in SUBSET S /\ n \subseteq m /\ n # m
    BY <1>4
  <2>2. n \notin T
    BY <1>2, <2>1
  <2> QED
    BY <2>1, <2>2
<1> DEFINE H == [s \in SUBSET m |-> IF y \in s THEN g[y] + F[s \ {y}] ELSE F[s]]
<1>6. Sums(H, g, m)
  <2>1. g[y] \in Int /\ \A s \in SUBSET n : F[s] \in Int
    BY <1>4, <1>5 DEF Sums
  <2>2. \A s \in SUBSET m : s \ {y} \in SUBSET n /\ (y \notin s => s \in SUBSET n)
    OBVIOUS
  <2>3. H \in [SUBSET m -> Int]
    BY <2>1, <2>2
  <2>4. H[{}] = 0
    BY <1>5 DEF Sums
  <2>5. ASSUME NEW s \in SUBSET m, NEW x \in s PROVE H[s] = g[x] + H[s \ {x}]
    <3>1. CASE x = y
      BY <3>1
    <3>2. CASE x # y /\ y \notin s
      <4>1. s \in SUBSET n /\ y \notin s \ {x} /\ s \ {x} \in SUBSET m
        BY <2>2, <3>2
      <4> QED
        BY <1>5, <3>2, <4>1 DEF Sums
    <3>3. CASE x # y /\ y \in s
      <4> DEFINE u == s \ {y}
      <4>1. u \in SUBSET n /\ x \in u /\ (s \ {x}) \ {y} = u \ {x} /\ y \in s \ {x}
            /\ s \ {x} \in SUBSET m /\ u \ {x} \in SUBSET n
        BY <2>2, <3>3
      <4>2. F[u] = g[x] + F[u \ {x}]
        BY <1>5, <4>1 DEF Sums
      <4>3. H[s] = g[y] + F[u] /\ H[s \ {x}] = g[y] + F[u \ {x}]
        BY <3>3, <4>1
      <4>4. g[x] \in Int /\ F[u] \in Int /\ F[u \ {x}] \in Int
        BY <2>1, <4>1
      <4> HIDE DEF H, u
      <4> QED
        BY <2>1, <4>2, <4>3, <4>4
    <3> QED
      BY <3>1, <3>2, <3>3
  <2> HIDE DEF H
  <2> QED
    BY <2>3, <2>4, <2>5 DEF Sums
<1> QED
  BY <1>2, <1>6

\* it[s] takes the elements of s in the order in which CHOOSE does.
TakesOneByOne(it, g, S) ==
  it = [s \in SUBSET S |->
          IF s = {} THEN 0
          ELSE g[CHOOSE x \in s : TRUE] + it[s \ {CHOOSE x \in s : TRUE}]]

\* They are among the sums that take the elements one by one.
LEMMA SumsTakeOneByOne ==
  ASSUME NEW S, NEW g, NEW F, Sums(F, g, S)
  PROVE  TakesOneByOne(F, g, S)
<1>1. ASSUME NEW s \in SUBSET S, s # {}
      PROVE  F[s] = g[CHOOSE x \in s : TRUE] + F[s \ {CHOOSE x \in s : TRUE}]
  <2> DEFINE x == CHOOSE x \in s : TRUE
  <2>1. x \in s
    BY <1>1
  <2> HIDE DEF x
  <2>2. F[s] = g[x] + F[s \ {x}]
    BY <2>1 DEF Sums
  <2> QED
    BY <2>2 DEF x
<1>2. F[{}] = 0 /\ F \in [SUBSET S -> Int]
  BY DEF Sums
<1> QED
  BY <1>1, <1>2 DEF TakesOneByOne

\* A sum that takes the elements one by one, in any order, is that sum.
LEMMA SumsAreUnique ==
  ASSUME NEW S, IsFiniteSet(S), NEW g, NEW F, Sums(F, g, S), NEW it,
         TakesOneByOne(it, g, S)
  PROVE  it[S] = F[S]
<1> USE DEF TakesOneByOne
<1> DEFINE T == {s \in SUBSET S : it[s] # F[s]}
<1>1. SUFFICES ASSUME T # {} PROVE FALSE
  OBVIOUS
<1>2. PICK m \in T : \A s \in T : s \subseteq m => s = m
  <2>1. T \in SUBSET SUBSET S
    OBVIOUS
  <2> HIDE DEF T
  <2> QED
    BY <1>1, <2>1, LeastSubset
<1>3. m # {}
  BY DEF Sums
<1> DEFINE y == CHOOSE x \in m : TRUE
<1>4. y \in m
  BY <1>3
<1>5. it[m] = g[y] + it[m \ {y}]
  BY <1>3
<1> HIDE DEF y
<1>6. m \ {y} \notin T /\ m \ {y} \in SUBSET S
  BY <1>2, <1>4
<1>7. F[m] = g[y] + F[m \ {y}]
  BY <1>4 DEF Sums
<1> QED
  BY <1>5, <1>6, <1>7

\* The sum of g over S, as QuantityOf and PricedQuantityOf take theirs.
SumOver(g, S) == MapThenSumSet(LAMBDA i : g[i], S)

\* SumOver, which takes one by one, gives that sum.
LEMMA SumIsSums ==
  ASSUME NEW S, IsFiniteSet(S), NEW g, NEW F, Sums(F, g, S)
  PROVE  SumOver(g, S) = F[S]
<1> DEFINE iter == CHOOSE it : TakesOneByOne(it, g, S)
<1>1. TakesOneByOne(F, g, S)
  BY SumsTakeOneByOne
<1>2. TakesOneByOne(iter, g, S)
  BY <1>1
<1>3. SumOver(g, S) = iter[S]
  BY DEF SumOver, MapThenSumSet, MapThenFoldSet, TakesOneByOne
<1> HIDE DEF iter
<1> QED
  BY <1>2, <1>3, SumsAreUnique

\* QuantityOf is such a sum of the quantities g of f.
LEMMA QuantityIsSum ==
  ASSUME NEW S, IsFiniteSet(S), NEW f, NEW g, \A i \in S : g[i] = f[i].quantity /\ g[i] \in Int
  PROVE  QuantityOf(f, S) = SumOver(g, S)
<1> DEFINE Takes(it) ==
             it = [s \in SUBSET S |->
                     IF s = {} THEN 0
                     ELSE f[CHOOSE x \in s : TRUE].quantity + it[s \ {CHOOSE x \in s : TRUE}]]
           iter == CHOOSE it : Takes(it)
<1>1. PICK F : Sums(F, g, S)
  BY SumsExist
<1>2. ASSUME NEW it PROVE Takes(it) <=> TakesOneByOne(it, g, S)
  <2>1. \A s \in SUBSET S : s # {} => (CHOOSE x \in s : TRUE) \in S
    OBVIOUS
  <2>2. \A s \in SUBSET S :
          s # {} => f[CHOOSE x \in s : TRUE].quantity = g[CHOOSE x \in s : TRUE]
    BY <2>1
  <2>3. [s \in SUBSET S |->
           IF s = {} THEN 0
           ELSE f[CHOOSE x \in s : TRUE].quantity + it[s \ {CHOOSE x \in s : TRUE}]]
        = [s \in SUBSET S |->
             IF s = {} THEN 0
             ELSE g[CHOOSE x \in s : TRUE] + it[s \ {CHOOSE x \in s : TRUE}]]
    BY <2>2
  <2> QED
    BY <2>3 DEF TakesOneByOne
<1>3. QuantityOf(f, S) = iter[S]
  BY DEF QuantityOf, MapThenSumSet, MapThenFoldSet
<1> HIDE DEF Takes
<1>4. Takes(iter)
  BY <1>1, <1>2, SumsTakeOneByOne
<1> HIDE DEF iter
<1> QED
  BY <1>1, <1>2, <1>3, <1>4, SumsAreUnique, SumIsSums

\* PricedQuantityOf is such a sum of the prices times quantities of f.
LEMMA PricedQuantityIsSum ==
  ASSUME NEW S, IsFiniteSet(S), NEW f, NEW g,
         \A i \in S : g[i] = f[i].quantity * f[i].price /\ g[i] \in Int
  PROVE  PricedQuantityOf(f, S) = SumOver(g, S)
<1> DEFINE Takes(it) ==
             it = [s \in SUBSET S |->
                     IF s = {} THEN 0
                     ELSE f[CHOOSE x \in s : TRUE].quantity * f[CHOOSE x \in s : TRUE].price
                            + it[s \ {CHOOSE x \in s : TRUE}]]
           iter == CHOOSE it : Takes(it)
<1>1. PICK F : Sums(F, g, S)
  BY SumsExist
<1>2. ASSUME NEW it PROVE Takes(it) <=> TakesOneByOne(it, g, S)
  <2>1. \A s \in SUBSET S : s # {} => (CHOOSE x \in s : TRUE) \in S
    OBVIOUS
  <2>2. \A s \in SUBSET S :
          s # {} => f[CHOOSE x \in s : TRUE].quantity * f[CHOOSE x \in s : TRUE].price
                      = g[CHOOSE x \in s : TRUE]
    BY <2>1
  <2>3. [s \in SUBSET S |->
           IF s = {} THEN 0
           ELSE f[CHOOSE x \in s : TRUE].quantity * f[CHOOSE x \in s : TRUE].price
                  + it[s \ {CHOOSE x \in s : TRUE}]]
        = [s \in SUBSET S |->
             IF s = {} THEN 0
             ELSE g[CHOOSE x \in s : TRUE] + it[s \ {CHOOSE x \in s : TRUE}]]
    BY <2>2
  <2> QED
    BY <2>3 DEF TakesOneByOne
<1>3. PricedQuantityOf(f, S) = iter[S]
  BY DEF PricedQuantityOf, MapThenSumSet, MapThenFoldSet
<1> HIDE DEF Takes
<1>4. Takes(iter)
  BY <1>1, <1>2, SumsTakeOneByOne
<1> HIDE DEF iter
<1> QED
  BY <1>1, <1>2, <1>3, <1>4, SumsAreUnique, SumIsSums

\* The sum of nothing, which an empty ring's totals are.
LEMMA SumOfNone ==
  ASSUME NEW g
  PROVE  SumOver(g, {}) = 0
<1>1. Sums([s \in SUBSET {} |-> 0], g, {})
  BY DEF Sums
<1> QED
  BY <1>1, SumIsSums, FS_EmptySet

\* One function gives the sums of all the subsets.
LEMMA SumsOfSubsets ==
  ASSUME NEW S, IsFiniteSet(S), NEW g, \A x \in S : g[x] \in Int
  PROVE  \E F : Sums(F, g, S) /\ \A s \in SUBSET S : SumOver(g, s) = F[s]
<1> PICK F : Sums(F, g, S)
  BY SumsExist
<1>1. ASSUME NEW s \in SUBSET S PROVE SumOver(g, s) = F[s]
  <2> DEFINE H == [u \in SUBSET s |-> F[u]]
  <2>1. Sums(H, g, s)
    BY DEF Sums
  <2>2. IsFiniteSet(s)
    BY FS_Subset
  <2>3. H[s] = F[s]
    OBVIOUS
  <2> HIDE DEF H
  <2> QED
    BY <2>1, <2>2, <2>3, SumIsSums
<1> QED
  BY <1>1

\* A sum is an integer, and any element of it can be taken out.
LEMMA SumWithOne ==
  ASSUME NEW S, IsFiniteSet(S), NEW g, \A x \in S : g[x] \in Int
  PROVE  /\ SumOver(g, S) \in Int
         /\ \A y \in S : SumOver(g, S) = g[y] + SumOver(g, S \ {y})
<1> PICK F : Sums(F, g, S) /\ \A s \in SUBSET S : SumOver(g, s) = F[s]
  BY SumsOfSubsets
<1> QED
  BY DEF Sums

\* A sum depends on the values in its set only.
LEMMA SumsAgree ==
  ASSUME NEW S, IsFiniteSet(S), NEW g, NEW h, \A x \in S : g[x] = h[x] /\ h[x] \in Int
  PROVE  SumOver(g, S) = SumOver(h, S)
<1> PICK F : Sums(F, g, S)
  BY SumsExist
<1>1. Sums(F, h, S)
  BY DEF Sums
<1> QED
  BY <1>1, SumIsSums

\* No natural number exceeds a sum of such that it is part of.
LEMMA SumOfNaturals ==
  ASSUME NEW S, IsFiniteSet(S), NEW g, \A x \in S : g[x] \in Nat
  PROVE  SumOver(g, S) \in Nat /\ \A x \in S : g[x] <= SumOver(g, S)
<1> PICK F : Sums(F, g, S) /\ \A s \in SUBSET S : SumOver(g, s) = F[s]
  BY SumsOfSubsets
<1> DEFINE T == {s \in SUBSET S : F[s] \notin Nat}
<1>1. \A s \in SUBSET S : F[s] \in Nat
  <2> SUFFICES ASSUME T # {} PROVE FALSE
    OBVIOUS
  <2>1. PICK m \in T : \A s \in T : s \subseteq m => s = m
    <3>1. T \in SUBSET SUBSET S
      OBVIOUS
    <3> HIDE DEF T
    <3> QED
      BY <3>1, LeastSubset
  <2>2. PICK y \in m : TRUE
    <3>1. {} \notin T
      BY DEF Sums
    <3> QED
      BY <3>1
  <2>3. F[m] = g[y] + F[m \ {y}] /\ F[m \ {y}] \in Nat /\ g[y] \in Nat
    BY <2>1, <2>2 DEF Sums
  <2> QED
    BY <2>3
<1>2. ASSUME NEW x \in S PROVE g[x] <= F[S]
  <2>1. F[S] = g[x] + F[S \ {x}] /\ F[S \ {x}] \in Nat /\ g[x] \in Nat
    BY <1>1 DEF Sums
  <2> QED
    BY <2>1
<1> QED
  BY <1>1, <1>2

\* A sum of zeroes.
LEMMA SumOfZeroes ==
  ASSUME NEW S, IsFiniteSet(S)
  PROVE  SumOver([x \in S |-> 0], S) = 0
<1> DEFINE F == [s \in SUBSET S |-> 0]
           zero == [x \in S |-> 0]
<1>1. Sums(F, zero, S)
  BY DEF Sums
<1>2. F[S] = 0
  OBVIOUS
<1> HIDE DEF F, zero
<1>3. SumOver(zero, S) = 0
  BY <1>1, <1>2, SumIsSums
<1> QED
  BY <1>3 DEF zero

\* The sum over two disjoint sets is the sum of theirs.
LEMMA SumOfUnion ==
  ASSUME NEW A, NEW B, IsFiniteSet(A), IsFiniteSet(B), A \cap B = {},
         NEW g, \A x \in A \cup B : g[x] \in Int
  PROVE  SumOver(g, A \cup B) = SumOver(g, A) + SumOver(g, B)
<1> DEFINE S == A \cup B
<1>1. IsFiniteSet(S)
  BY FS_Union
<1> HIDE DEF S
<1>2. PICK F : Sums(F, g, S) /\ \A s \in SUBSET S : SumOver(g, s) = F[s]
  BY <1>1, SumsOfSubsets DEF S
<1> DEFINE T == {s \in SUBSET A : F[s \cup B] # F[s] + F[B]}
<1>3. SUFFICES ASSUME T # {} PROVE FALSE
  <2>1. A \notin T => F[A \cup B] = F[A] + F[B]
    OBVIOUS
  <2>2. A \in SUBSET S /\ B \in SUBSET S /\ A \cup B \in SUBSET S
    BY DEF S
  <2>3. SumOver(g, A) = F[A] /\ SumOver(g, B) = F[B] /\ SumOver(g, A \cup B) = F[A \cup B]
    BY <1>2, <2>2
  <2> HIDE DEF T
  <2> QED
    BY <2>1, <2>3
<1>4. PICK m \in T : \A s \in T : s \subseteq m => s = m
  <2>1. T \in SUBSET SUBSET A
    OBVIOUS
  <2> HIDE DEF T
  <2> QED
    BY <1>3, <2>1, LeastSubset
<1>5. F[B] \in Int /\ F[{}] = 0 /\ {} \cup B = B
  BY <1>2 DEF Sums, S
<1>6. PICK y \in m : TRUE
  <2>1. {} \notin T
    BY <1>5
  <2> QED
    BY <2>1
<1>7. /\ m \cup B \in SUBSET S /\ m \in SUBSET S /\ y \in m \cup B
      /\ (m \cup B) \ {y} = (m \ {y}) \cup B /\ m \ {y} \in SUBSET A
  BY <1>6 DEF S
<1>8. F[m] = g[y] + F[m \ {y}] /\ F[m \cup B] = g[y] + F[(m \ {y}) \cup B]
  BY <1>2, <1>6, <1>7 DEF Sums
<1>9. F[(m \ {y}) \cup B] = F[m \ {y}] + F[B]
  BY <1>4, <1>6, <1>7
<1>10. g[y] \in Int /\ F[m \ {y}] \in Int
  BY <1>2, <1>6, <1>7 DEF Sums, S
<1>11. F[m \cup B] # F[m] + F[B]
  BY <1>4
<1> HIDE DEF T
<1> QED
  BY <1>5, <1>8, <1>9, <1>10, <1>11

\* The first n places of p.
Places(p, n) == {p[i] : i \in 1 .. n}

\* The values of h in the order 1 .. n, found in other places of g.
Reindexes(p, n, g, h) ==
  /\ \A i, j \in 1 .. n : p[i] = p[j] => i = j
  /\ \A i \in 1 .. n : g[p[i]] = h[i] /\ h[i] \in Int

\* The order of the places does not matter to a sum.
LEMMA SumReindexed ==
  ASSUME NEW n \in Nat, NEW g, NEW h, NEW p, Reindexes(p, n, g, h)
  PROVE  SumOver(g, Places(p, n)) = SumOver(h, 1 .. n)
<1> USE DEF Places, Reindexes
<1> DEFINE I(k) == Places(p, k)
           T == {k \in 0 .. n : ~(IsFiniteSet(I(k)) /\ SumOver(g, I(k)) = SumOver(h, 1 .. k))}
<1>1. SUFFICES ASSUME T # {} PROVE FALSE
  <2>1. n \notin T => SumOver(g, I(n)) = SumOver(h, 1 .. n)
    OBVIOUS
  <2> QED
    BY <2>1
<1>2. PICK k \in T : \A j \in T : k <= j
  <2>1. T \in SUBSET Nat
    OBVIOUS
  <2> HIDE DEF T
  <2> QED
    BY <1>1, <2>1, LeastNumber
<1>3. k # 0
  <2>1. I(0) = {} /\ 1 .. 0 = {}
    OBVIOUS
  <2>2. 0 \notin T
    BY <2>1, SumOfNone, FS_EmptySet
  <2> QED
    BY <2>2
<1>4. k \in 1 .. n /\ k - 1 \in 0 .. n /\ k - 1 \in Nat
  BY <1>3
<1>5. IsFiniteSet(I(k - 1)) /\ SumOver(g, I(k - 1)) = SumOver(h, 1 .. k - 1)
  <2>1. k - 1 \notin T
    <3>1. \A j \in T : k <= j
      BY <1>2
    <3> HIDE DEF T
    <3> QED
      BY <1>4, <3>1
  <2> QED
    BY <1>4, <2>1
<1>6. /\ I(k) = I(k - 1) \cup {p[k]} /\ p[k] \notin I(k - 1) /\ I(k) \ {p[k]} = I(k - 1)
      /\ p[k] \in I(k) /\ \A x \in I(k) : g[x] \in Int
  BY <1>4
<1>7. (1 .. k) \ {k} = 1 .. k - 1 /\ k \in 1 .. k /\ IsFiniteSet(1 .. k)
  <2>1. (1 .. k) \ {k} = 1 .. k - 1 /\ k \in 1 .. k
    BY <1>4
  <2>2. IsFiniteSet(1 .. k)
    BY <1>4, FS_Interval
  <2> QED
    BY <2>1, <2>2
<1>8. \A i \in 1 .. k : h[i] \in Int
  BY <1>4
<1>9. k \in T
  OBVIOUS
<1> HIDE DEF I, Places
<1>10. IsFiniteSet(I(k))
  BY <1>5, <1>6, FS_AddElement
<1>11. SumOver(g, I(k)) = g[p[k]] + SumOver(g, I(k - 1))
  BY <1>6, <1>10, SumWithOne
<1>12. SumOver(h, 1 .. k) = h[k] + SumOver(h, 1 .. k - 1)
  BY <1>7, <1>8, SumWithOne
<1> QED
  BY <1>4, <1>5, <1>9, <1>10, <1>11, <1>12

\* The values of h, in the order 1 .. n, are those of g past m.
IsSlice(m, n, g, h) == \A i \in 1 .. n : g[m + i] = h[i] /\ h[i] \in Int

\* A slice of g.
LEMMA SumOfSlice ==
  ASSUME NEW m \in Nat, NEW n \in Nat, NEW g, NEW h, IsSlice(m, n, g, h)
  PROVE  SumOver(g, m + 1 .. m + n) = SumOver(h, 1 .. n)
<1> DEFINE p == [i \in 1 .. n |-> m + i]
<1>1. Places(p, n) = m + 1 .. m + n
  <2>1. ASSUME NEW x \in m + 1 .. m + n PROVE x \in Places(p, n)
    <3>1. x - m \in 1 .. n /\ p[x - m] = x
      OBVIOUS
    <3> QED
      BY <3>1 DEF Places
  <2> QED
    BY <2>1 DEF Places
<1>2. Reindexes(p, n, g, h)
  BY DEF Reindexes, IsSlice
<1> HIDE DEF p
<1>3. SumOver(g, Places(p, n)) = SumOver(h, 1 .. n)
  BY <1>2, SumReindexed
<1> QED
  BY <1>1, <1>3

\* Neighbouring slices of g.
LEMMA SumOfSlices ==
  ASSUME NEW a \in Nat, NEW b \in Nat, NEW c \in Nat, a <= b, b <= c,
         NEW g, \A i \in a + 1 .. c : g[i] \in Int
  PROVE  /\ SumOver(g, a + 1 .. c) = SumOver(g, a + 1 .. b) + SumOver(g, b + 1 .. c)
         /\ SumOver(g, a + 1 .. b) \in Int
         /\ SumOver(g, b + 1 .. c) \in Int
<1>1. /\ a + 1 .. c = (a + 1 .. b) \cup (b + 1 .. c)
      /\ (a + 1 .. b) \cap (b + 1 .. c) = {}
  OBVIOUS
<1>2. IsFiniteSet(a + 1 .. b) /\ IsFiniteSet(b + 1 .. c)
  BY FS_Interval
<1> DEFINE A == a + 1 .. b
           B == b + 1 .. c
<1>3. \A x \in A \cup B : g[x] \in Int
  BY <1>1
<1> HIDE DEF A, B
<1>4. SumOver(g, A \cup B) = SumOver(g, A) + SumOver(g, B) /\ SumOver(g, A) \in Int /\ SumOver(g, B) \in Int
  <2>1. IsFiniteSet(A) /\ IsFiniteSet(B) /\ A \cap B = {}
    BY <1>1, <1>2 DEF A, B
  <2>2. (\A x \in A : g[x] \in Int) /\ \A x \in B : g[x] \in Int
    BY <1>3
  <2>3. SumOver(g, A \cup B) = SumOver(g, A) + SumOver(g, B)
    BY <1>3, <2>1, SumOfUnion
  <2> QED
    BY <2>1, <2>2, <2>3, SumWithOne
<1> QED
  BY <1>1, <1>4 DEF A, B

\* One more item in the slice.
LEMMA SumOfLonger ==
  ASSUME NEW m \in Nat, NEW L \in Nat, m <= L, NEW g, NEW h,
         \A i \in 1 .. L : h[i] = g[i], \A i \in 1 .. L + 1 : h[i] \in Int
  PROVE  SumOver(h, m + 1 .. L + 1) = h[L + 1] + SumOver(g, m + 1 .. L)
<1>1. /\ L + 1 \in m + 1 .. L + 1 /\ (m + 1 .. L + 1) \ {L + 1} = m + 1 .. L
      /\ (\A i \in m + 1 .. L + 1 : h[i] \in Int)
      /\ \A i \in m + 1 .. L : h[i] = g[i] /\ g[i] \in Int
  OBVIOUS
<1>2. IsFiniteSet(m + 1 .. L + 1) /\ IsFiniteSet(m + 1 .. L)
  BY FS_Interval
<1> DEFINE A == m + 1 .. L + 1
           B == m + 1 .. L
<1> HIDE DEF A, B
<1>3. SumOver(h, A) = h[L + 1] + SumOver(h, B)
  <2>1. L + 1 \in A /\ A \ {L + 1} = B /\ IsFiniteSet(A) /\ \A i \in A : h[i] \in Int
    BY <1>1, <1>2 DEF A, B
  <2>2. SumOver(h, A) = h[L + 1] + SumOver(h, A \ {L + 1})
    BY <2>1, SumWithOne
  <2> QED
    BY <2>1, <2>2
<1>4. SumOver(h, B) = SumOver(g, B)
  <2>1. IsFiniteSet(B) /\ \A i \in B : h[i] = g[i] /\ g[i] \in Int
    BY <1>1, <1>2 DEF B
  <2> QED
    BY <2>1, SumsAgree
<1> QED
  BY <1>3, <1>4 DEF A, B

\* Two sets that differ in zeroes have the same sum.
LEMMA SumsDifferByZeroes ==
  ASSUME NEW A, NEW B, IsFiniteSet(A), IsFiniteSet(B),
         NEW g, \A x \in A \cup B : g[x] \in Int,
         \A x \in (A \ B) \cup (B \ A) : g[x] = 0
  PROVE  SumOver(g, A) = SumOver(g, B)
<1>1. ASSUME NEW C, IsFiniteSet(C), C \subseteq A \cup B, NEW D, D \subseteq C,
             \A x \in C \ D : g[x] = 0
      PROVE  SumOver(g, C) = SumOver(g, D)
  <2> DEFINE E == C \ D
             zero == [x \in E |-> 0]
  <2>1. IsFiniteSet(E) /\ IsFiniteSet(D) /\ D \cap E = {} /\ D \cup E = C
    BY <1>1, FS_Subset
  <2>2. \A x \in D \cup E : g[x] \in Int
    BY <1>1, <2>1
  <2>3. \A x \in E : g[x] = zero[x] /\ zero[x] \in Int
    BY <1>1
  <2>4. SumOver(zero, E) = 0
    BY <2>1, SumOfZeroes
  <2> HIDE DEF E, zero
  <2>5. SumOver(g, E) = SumOver(zero, E)
    BY <2>1, <2>3, SumsAgree
  <2>6. SumOver(g, D \cup E) = SumOver(g, D) + SumOver(g, E)
    BY <2>1, <2>2, SumOfUnion
  <2>7. SumOver(g, D) \in Int
    BY <2>1, <2>2, SumWithOne
  <2>8. SumOver(g, C) = SumOver(g, D \cup E)
    <3>1. D \cup E = C
      BY <2>1
    <3> QED
      BY <3>1
  <2> QED
    BY <2>4, <2>5, <2>6, <2>7, <2>8
<1> DEFINE D == A \cap B
<1>2. D \subseteq A /\ D \subseteq B /\ A \ D = A \ B /\ B \ D = B \ A
      /\ A \subseteq A \cup B /\ B \subseteq A \cup B
  OBVIOUS
<1> HIDE DEF D
<1>3. SumOver(g, A) = SumOver(g, D)
  BY <1>1, <1>2
<1>4. SumOver(g, B) = SumOver(g, D)
  BY <1>1, <1>2
<1> QED
  BY <1>3, <1>4

-----------------------------------------------------------------------------
(* The ring.                                                               *)

StampedTrade == [ts : Stamp, quantity : Nat, price : Nat]

Ring ==
  [trades : [Slot -> StampedTrade], head : Slot, tail : Slot,
   totalQuantity : Nat, totalPricedQuantity : Nat]

\* What the trades of a history carry.
Quantities(f) == [i \in DOMAIN f |-> f[i].quantity]
PricedQuantities(f) == [i \in DOMAIN f |-> f[i].quantity * f[i].price]

\* The position in f before the first of its trades that r holds.
Before(r, f) == Len(f) - Occupied(r)

\* r holds the latest trades of f, and its totals are their sums.
Follows(r, f) ==
  /\ r \in Ring
  /\ f \in Seq(StampedTrade)
  /\ Before(r, f) \in Nat
  /\ \A k \in 1 .. Occupied(r) : Live(r, k) = f[Before(r, f) + k]
  /\ r.totalQuantity = SumOver(Quantities(f), Before(r, f) + 1 .. Len(f))
  /\ r.totalPricedQuantity = SumOver(PricedQuantities(f), Before(r, f) + 1 .. Len(f))

\* The remainders that the ring takes.
LEMMA Wraps ==
  /\ BufferSize \in Nat \ {0}
  /\ \A x \in 0 .. 2 * BufferSize - 1 :
       x % BufferSize = IF x < BufferSize THEN x ELSE x - BufferSize
  /\ \A x \in -BufferSize + 1 .. BufferSize - 1 :
       x % BufferSize = IF x < 0 THEN x + BufferSize ELSE x
<1>1. BufferSize \in Nat \ {0}
  BY VWAPAssumption DEF VWAPAssumption
<1> DEFINE N == BufferSize
<1> HIDE DEF N
<1>2. N \in Nat \ {0}
  BY <1>1 DEF N
<1>3. ASSUME NEW x \in 0 .. 2 * N - 1 PROVE x % N = IF x < N THEN x ELSE x - N
  BY <1>2
<1>4. ASSUME NEW x \in -N + 1 .. N - 1 PROVE x % N = IF x < 0 THEN x + N ELSE x
  BY <1>2
<1> QED
  BY <1>2, <1>3, <1>4 DEF N

\* A ring of N slots uses n of them from t up to h.
Uses(N, h, t, n) ==
  \/ n = IF h >= t THEN h - t ELSE h - t + N
  \/ n = N /\ h = t

\* x, once or not yet around.
Around(x, N) == IF x < N THEN x ELSE x - N

\* Where the tail goes when k of them are given up.
TailMoved(N, h, t, n, k, u) ==
  /\ u \in 0 .. N - 1
  /\ k = 0 => u = t
  /\ k = n => u = h
  /\ k # 0 /\ k # n => u # h /\ (IF h >= u THEN h - u ELSE h - u + N) = n - k
  /\ \A j \in 1 .. n - k :
       /\ u + j - 1 \in 0 .. 2 * N - 1
       /\ t + (k + j) - 1 \in 0 .. 2 * N - 1
       /\ Around(u + j - 1, N) = Around(t + (k + j) - 1, N)

\* What % BufferSize does to a place at most once around.
LEMMA WrapsAround ==
  ASSUME NEW x \in 0 .. 2 * BufferSize - 1
  PROVE  x % BufferSize = Around(x, BufferSize)
BY Wraps DEF Around

\* How many trades a ring holds, without remainders.
LEMMA OccupiedIs ==
  ASSUME NEW r \in Ring
  PROVE  /\ Occupied(r) =
              IF IsFull(r) THEN BufferSize
              ELSE IF r.head >= r.tail THEN r.head - r.tail ELSE r.head - r.tail + BufferSize
         /\ Occupied(r) \in 0 .. BufferSize
<1>1. r.head \in 0 .. BufferSize - 1 /\ r.tail \in 0 .. BufferSize - 1
  BY DEF Ring, Slot
<1>2. r.head - r.tail \in -BufferSize + 1 .. BufferSize - 1
  BY <1>1, Wraps
<1>3. (r.head - r.tail) % BufferSize
        = IF r.head - r.tail < 0 THEN r.head - r.tail + BufferSize ELSE r.head - r.tail
  BY <1>2, Wraps
<1> QED
  BY <1>1, <1>3, Wraps DEF Occupied

\* A priced quantity is a natural number.
LEMMA ProductOfNaturals ==
  ASSUME NEW a \in Nat, NEW b \in Nat
  PROVE  a * b \in Nat
OBVIOUS

\* What the proofs use of a ring that follows a history.
LEMMA Followed ==
  ASSUME NEW r, NEW f, Follows(r, f)
  PROVE  /\ r \in Ring
         /\ Occupied(r) \in 0 .. BufferSize
         /\ Len(f) \in Nat
         /\ DOMAIN f = 1 .. Len(f)
         /\ Before(r, f) \in Nat
         /\ Before(r, f) = Len(f) - Occupied(r)
         /\ \A i \in 1 .. Len(f) :
              /\ f[i] \in StampedTrade
              /\ Quantities(f)[i] = f[i].quantity
              /\ Quantities(f)[i] \in Nat
              /\ PricedQuantities(f)[i] = f[i].quantity * f[i].price
              /\ PricedQuantities(f)[i] \in Nat
<1>1. r \in Ring /\ f \in Seq(StampedTrade) /\ Before(r, f) \in Nat
  BY DEF Follows
<1>2. Len(f) \in Nat /\ DOMAIN f = 1 .. Len(f)
  BY <1>1, LenProperties
<1>3. ASSUME NEW i \in 1 .. Len(f)
      PROVE  /\ f[i] \in StampedTrade
             /\ f[i].quantity \in Nat
             /\ f[i].quantity * f[i].price \in Nat
  <2>1. f[i] \in StampedTrade
    BY <1>1, <1>2, ElementOfSeq
  <2>2. f[i].quantity \in Nat /\ f[i].price \in Nat
    BY <2>1 DEF StampedTrade
  <2> QED
    BY <2>1, <2>2, ProductOfNaturals
<1> QED
  BY <1>1, <1>2, <1>3, OccupiedIs DEF Before, Quantities, PricedQuantities

\* The places of the oldest trades, in their order.
OldestInOrder(r, k) == [i \in 1 .. k |-> (r.tail + i - 1) % BufferSize]

\* The k oldest slots are k different slots.
LEMMA OldestPlaces ==
  ASSUME NEW r \in Ring, NEW k \in 0 .. BufferSize
  PROVE  /\ Places(OldestInOrder(r, k), k) = OldestSlots(r, k)
         /\ \A i, j \in 1 .. k : OldestInOrder(r, k)[i] = OldestInOrder(r, k)[j] => i = j
         /\ \A i \in 1 .. k : OldestInOrder(r, k)[i] \in Slot
         /\ IsFiniteSet(OldestSlots(r, k))
         /\ OldestSlots(r, k) \subseteq Slot
<1>1. r.tail \in 0 .. BufferSize - 1 /\ BufferSize \in Nat \ {0}
  BY Wraps DEF Ring, Slot
<1>2. ASSUME NEW i \in 1 .. k
      PROVE  /\ (r.tail + i - 1) % BufferSize
                   = IF r.tail + i - 1 < BufferSize THEN r.tail + i - 1
                     ELSE r.tail + i - 1 - BufferSize
             /\ (r.tail + i - 1) % BufferSize \in Slot
  <2>1. r.tail + i - 1 \in 0 .. 2 * BufferSize - 1
    BY <1>1
  <2> QED
    BY <1>1, <2>1, Wraps DEF Slot
<1>3. \A i, j \in 1 .. k : OldestInOrder(r, k)[i] = OldestInOrder(r, k)[j] => i = j
  BY <1>1, <1>2 DEF OldestInOrder
<1>4. Places(OldestInOrder(r, k), k) = OldestSlots(r, k)
  <2>1. ASSUME NEW i \in 0 .. k - 1
        PROVE  /\ (r.tail + i) % BufferSize = OldestInOrder(r, k)[i + 1]
               /\ i + 1 \in 1 .. k
    <3>1. i + 1 \in 1 .. k /\ r.tail + (i + 1) - 1 = r.tail + i
      BY <1>1
    <3> QED
      BY <3>1 DEF OldestInOrder
  <2>2. ASSUME NEW i \in 1 .. k
        PROVE  OldestInOrder(r, k)[i] = (r.tail + (i - 1)) % BufferSize /\ i - 1 \in 0 .. k - 1
    <3>1. r.tail + i - 1 = r.tail + (i - 1) /\ i - 1 \in 0 .. k - 1
      BY <1>1
    <3> QED
      BY <3>1 DEF OldestInOrder
  <2> QED
    BY <2>1, <2>2 DEF Places, OldestSlots
<1>5. OldestSlots(r, k) \subseteq Slot
  BY <1>2, <1>4 DEF Places, OldestInOrder
<1>6. IsFiniteSet(Slot)
  BY <1>1, FS_Interval DEF Slot
<1> QED
  BY <1>2, <1>3, <1>4, <1>5, <1>6, FS_Subset DEF OldestInOrder

\* What removeOldTrades takes off the totals for the k oldest trades.
LEMMA OldestQuantities ==
  ASSUME NEW r, NEW f, Follows(r, f), NEW k \in 0 .. Occupied(r)
  PROVE  /\ QuantityOf(r.trades, OldestSlots(r, k))
              = SumOver(Quantities(f), Before(r, f) + 1 .. Before(r, f) + k)
         /\ PricedQuantityOf(r.trades, OldestSlots(r, k))
              = SumOver(PricedQuantities(f), Before(r, f) + 1 .. Before(r, f) + k)
<1> DEFINE p == OldestInOrder(r, k)
           m == Before(r, f)
           S == OldestSlots(r, k)
           q == [s \in Slot |-> r.trades[s].quantity]
           pq == [s \in Slot |-> r.trades[s].quantity * r.trades[s].price]
           h == [i \in 1 .. k |-> f[m + i].quantity]
           ph == [i \in 1 .. k |-> f[m + i].quantity * f[m + i].price]
<1>1. /\ r \in Ring /\ k \in Nat /\ k \in 0 .. BufferSize /\ m \in Nat
      /\ \A i \in 1 .. k : m + i \in 1 .. Len(f)
  BY Followed, Wraps
<1>2. /\ Places(p, k) = S /\ IsFiniteSet(S) /\ S \subseteq Slot
      /\ \A i, j \in 1 .. k : p[i] = p[j] => i = j
      /\ \A i \in 1 .. k : p[i] \in Slot
  BY <1>1, OldestPlaces
<1>3. ASSUME NEW i \in 1 .. k
      PROVE  r.trades[p[i]] = f[m + i]
  <2>1. Live(r, i) = f[m + i]
    <3>1. i \in 1 .. Occupied(r)
      BY <1>1, Followed
    <3> QED
      BY <3>1 DEF Follows
  <2>2. p[i] = (r.tail + i - 1) % BufferSize
    BY DEF OldestInOrder
  <2> QED
    BY <2>1, <2>2 DEF Live
<1>4. ASSUME NEW s \in Slot
      PROVE  q[s] = r.trades[s].quantity /\ q[s] \in Nat
             /\ pq[s] = r.trades[s].quantity * r.trades[s].price /\ pq[s] \in Nat
  <2>1. r.trades[s] \in StampedTrade
    BY <1>1 DEF Ring
  <2>2. r.trades[s].quantity \in Nat /\ r.trades[s].price \in Nat
    BY <2>1 DEF StampedTrade
  <2> QED
    BY <2>2, ProductOfNaturals
<1>5. ASSUME NEW i \in 1 .. k
      PROVE  /\ h[i] = q[p[i]] /\ h[i] = Quantities(f)[m + i] /\ h[i] \in Nat
             /\ ph[i] = pq[p[i]] /\ ph[i] = PricedQuantities(f)[m + i] /\ ph[i] \in Nat
  <2>1. /\ Quantities(f)[m + i] = f[m + i].quantity /\ Quantities(f)[m + i] \in Nat
        /\ PricedQuantities(f)[m + i] = f[m + i].quantity * f[m + i].price
        /\ PricedQuantities(f)[m + i] \in Nat
    BY <1>1, Followed
  <2> QED
    BY <1>2, <1>3, <2>1
<1> HIDE DEF p, m, S, q, pq, h, ph
<1>6. QuantityOf(r.trades, S) = SumOver(q, S)
  BY <1>2, <1>4, QuantityIsSum
<1>7. PricedQuantityOf(r.trades, S) = SumOver(pq, S)
  BY <1>2, <1>4, PricedQuantityIsSum
<1>8. Reindexes(p, k, q, h) /\ Reindexes(p, k, pq, ph)
  BY <1>2, <1>5 DEF Reindexes
<1>9. SumOver(q, S) = SumOver(h, 1 .. k) /\ SumOver(pq, S) = SumOver(ph, 1 .. k)
  BY <1>1, <1>2, <1>8, SumReindexed
<1>10. SumOver(Quantities(f), m + 1 .. m + k) = SumOver(h, 1 .. k)
  <2>1. IsSlice(m, k, Quantities(f), h)
    BY <1>5 DEF IsSlice
  <2> QED
    BY <1>1, <2>1, SumOfSlice
<1>11. SumOver(PricedQuantities(f), m + 1 .. m + k) = SumOver(ph, 1 .. k)
  <2>1. IsSlice(m, k, PricedQuantities(f), ph)
    BY <1>5 DEF IsSlice
  <2> QED
    BY <1>1, <2>1, SumOfSlice
<1> QED
  BY <1>6, <1>7, <1>9, <1>10, <1>11 DEF m, S

\* The arithmetic of the tail (VWAPService.cpp:36 and 50), k steps at once.
LEMMA TailMoves ==
  ASSUME NEW N \in Nat \ {0}, NEW h \in 0 .. N - 1, NEW t \in 0 .. N - 1, NEW n \in 0 .. N,
         Uses(N, h, t, n), NEW k \in 0 .. n
  PROVE  TailMoved(N, h, t, n, k, Around(t + k, N))
BY DEF Uses, Around, TailMoved

\* Dropping the k oldest trades leaves the others.
LEMMA DropFollows ==
  ASSUME NEW r, NEW f, Follows(r, f), NEW k \in 0 .. Occupied(r)
  PROVE  /\ Follows(DropOldest(r, k), f)
         /\ Occupied(DropOldest(r, k)) = Occupied(r) - k
         /\ DropOldest(r, k).head = r.head
         /\ k = Occupied(r) => DropOldest(r, k).head = DropOldest(r, k).tail
         /\ k = Occupied(r) => DropOldest(r, k).totalQuantity = 0
         /\ k # 0 => ~IsFull(DropOldest(r, k))
<1> DEFINE d == DropOldest(r, k)
           n == Occupied(r)
           m == Before(r, f)
           L == Len(f)
           q == Quantities(f)
           pq == PricedQuantities(f)
           out == SumOver(q, m + 1 .. m + k)
           pout == SumOver(pq, m + 1 .. m + k)
           u == (r.tail + k) % BufferSize
<1>1. /\ r \in Ring /\ n \in 0 .. BufferSize /\ L \in Nat /\ m \in Nat /\ m = L - n
      /\ k \in 0 .. n /\ k \in Nat /\ BufferSize \in Nat \ {0}
      /\ \A i \in 1 .. L : q[i] \in Nat /\ pq[i] \in Nat
  BY Followed, Wraps
<1>2. /\ r.head \in 0 .. BufferSize - 1 /\ r.tail \in 0 .. BufferSize - 1
      /\ r.totalQuantity \in Nat /\ r.totalPricedQuantity \in Nat
      /\ r.trades \in [Slot -> StampedTrade]
  BY <1>1 DEF Ring, Slot
<1>3. /\ r.totalQuantity = SumOver(q, m + 1 .. L)
      /\ r.totalPricedQuantity = SumOver(pq, m + 1 .. L)
  BY DEF Follows
<1>4. QuantityOf(r.trades, OldestSlots(r, k)) = out /\ PricedQuantityOf(r.trades, OldestSlots(r, k)) = pout
  BY OldestQuantities
<1> HIDE DEF out, pout, u
<1>5. d = [r EXCEPT !.totalQuantity = @ - out, !.totalPricedQuantity = @ - pout, !.tail = u]
  BY <1>4 DEF DropOldest, u
<1> HIDE DEF d, m, L, q, pq
<1>6. /\ SumOver(q, m + 1 .. L) = out + SumOver(q, (m + k) + 1 .. L)
      /\ SumOver(pq, m + 1 .. L) = pout + SumOver(pq, (m + k) + 1 .. L)
      /\ out \in Int /\ pout \in Int
  <2>1. /\ m + k \in Nat /\ m <= m + k /\ m + k <= L
    BY <1>1
  <2>2. (\A i \in m + 1 .. L : q[i] \in Int) /\ \A i \in m + 1 .. L : pq[i] \in Int
    BY <1>1
  <2> DEFINE b == m + k
  <2>3. b \in Nat /\ m <= b /\ b <= L /\ m \in Nat /\ L \in Nat
    BY <1>1, <2>1
  <2>4. out = SumOver(q, m + 1 .. b) /\ pout = SumOver(pq, m + 1 .. b)
    BY DEF out, pout
  <2> HIDE DEF b
  <2>5. /\ SumOver(q, m + 1 .. L) = SumOver(q, m + 1 .. b) + SumOver(q, b + 1 .. L)
        /\ SumOver(q, m + 1 .. b) \in Int
    BY <2>2, <2>3, SumOfSlices
  <2>6. /\ SumOver(pq, m + 1 .. L) = SumOver(pq, m + 1 .. b) + SumOver(pq, b + 1 .. L)
        /\ SumOver(pq, m + 1 .. b) \in Int
    BY <2>2, <2>3, SumOfSlices
  <2> QED
    BY <2>4, <2>5, <2>6 DEF b
<1>7. SumOver(q, (m + k) + 1 .. L) \in Nat /\ SumOver(pq, (m + k) + 1 .. L) \in Nat
  <2>1. \A i \in (m + k) + 1 .. L : q[i] \in Nat /\ pq[i] \in Nat
    BY <1>1
  <2>2. IsFiniteSet((m + k) + 1 .. L)
    BY <1>1, FS_Interval
  <2> QED
    BY <2>1, <2>2, SumOfNaturals
<1>8. u = Around(r.tail + k, BufferSize)
  <2>1. r.tail + k \in 0 .. 2 * BufferSize - 1
    BY <1>1, <1>2
  <2> QED
    BY <2>1, WrapsAround DEF u
<1>9. Uses(BufferSize, r.head, r.tail, n)
  BY <1>1, OccupiedIs DEF IsFull, Uses
<1> HIDE DEF n
<1>10. TailMoved(BufferSize, r.head, r.tail, n, k, u)
  BY <1>1, <1>2, <1>8, <1>9, TailMoves
<1>11. /\ d \in Ring /\ d.head = r.head /\ d.trades = r.trades /\ d.tail = u
       /\ d.totalQuantity = SumOver(q, (m + k) + 1 .. L)
       /\ d.totalPricedQuantity = SumOver(pq, (m + k) + 1 .. L)
  <2>1. /\ r.totalQuantity - out = SumOver(q, (m + k) + 1 .. L)
        /\ r.totalPricedQuantity - pout = SumOver(pq, (m + k) + 1 .. L)
    BY <1>3, <1>6, <1>7
  <2>2. u \in Slot
    BY <1>10 DEF Slot, TailMoved
  <2> QED
    BY <1>1, <1>5, <1>7, <2>1, <2>2 DEF Ring
<1>12. k = n => d.totalQuantity = 0
  <2>1. k = n => (m + k) + 1 .. L = {}
    BY <1>1
  <2> QED
    BY <1>11, <2>1, SumOfNone
<1>13. /\ Occupied(d) = n - k
       /\ k # 0 => ~IsFull(d)
  <2>1. Occupied(d) = IF IsFull(d) THEN BufferSize
            ELSE IF d.head >= d.tail THEN d.head - d.tail ELSE d.head - d.tail + BufferSize
    BY <1>11, OccupiedIs
  <2>2. CASE k = 0
    <3>1. (m + k) + 1 .. L = m + 1 .. L
      BY <1>1, <2>2
    <3>2. /\ d.totalQuantity = r.totalQuantity /\ d.tail = r.tail
      BY <1>3, <1>10, <1>11, <2>2, <3>1 DEF TailMoved
    <3>3. Occupied(d) = n
      BY <1>11, <3>2 DEF Occupied, IsFull, n
    <3> QED
      BY <1>1, <2>2, <3>3
  <2>3. CASE k # 0 /\ k = n
    <3>1. ~IsFull(d)
      BY <1>12, <2>3 DEF IsFull
    <3> QED
      BY <1>1, <1>2, <1>10, <1>11, <2>1, <2>3, <3>1 DEF TailMoved
  <2>4. CASE k # 0 /\ k # n
    <3>1. ~IsFull(d)
      BY <1>10, <1>11, <2>4 DEF IsFull, TailMoved
    <3> QED
      BY <1>10, <1>11, <2>1, <2>4, <3>1 DEF TailMoved
  <2> QED
    BY <2>2, <2>3, <2>4
<1>14. Before(d, f) = m + k
  BY <1>1, <1>13 DEF Before, L
<1>15. ASSUME NEW j \in 1 .. n - k PROVE Live(d, j) = f[(m + k) + j]
  <2>1. k + j \in 1 .. n /\ m + (k + j) = (m + k) + j
    BY <1>1
  <2>2. Live(r, k + j) = f[m + (k + j)]
    BY <2>1 DEF Follows, m, n
  <2>3. (u + j - 1) % BufferSize = (r.tail + (k + j) - 1) % BufferSize
    <3>1. /\ u + j - 1 \in 0 .. 2 * BufferSize - 1
          /\ r.tail + (k + j) - 1 \in 0 .. 2 * BufferSize - 1
          /\ Around(u + j - 1, BufferSize) = Around(r.tail + (k + j) - 1, BufferSize)
      BY <1>10 DEF TailMoved
    <3> QED
      BY <3>1, WrapsAround
  <2> QED
    BY <1>11, <2>1, <2>2, <2>3 DEF Live
<1>16. Follows(d, f)
  <2>1. f \in Seq(StampedTrade) /\ m + k \in Nat
    BY <1>1 DEF Follows
  <2> QED
    BY <1>11, <1>13, <1>14, <1>15, <2>1 DEF Follows, L, q, pq
<1> QED
  BY <1>10, <1>11, <1>12, <1>13, <1>16 DEF d, n, TailMoved

\* removeOldTrades drops as many of the oldest trades as are expired one after
\* the other, and never more than the ring holds.
LEMMA ExpiryDrops ==
  ASSUME NEW r, NEW f, Follows(r, f), NEW cur
  PROVE  \E k \in 0 .. Occupied(r) :
           /\ RemoveOldTrades(r, cur) = DropOldest(r, k)
           /\ ~OldestExpired(DropOldest(r, k), cur)
           /\ \A j \in 0 .. k - 1 : OldestExpired(DropOldest(r, j), cur)
<1> DEFINE E(k) == OldestExpired(DropOldest(r, k), cur)
           T == {k \in 0 .. BufferSize : ~E(k)}
           n == Occupied(r)
           Stops(k) == ~E(k) /\ \A j \in 0 .. k - 1 : E(j)
           expired == CHOOSE k \in 0 .. BufferSize : Stops(k)
<1>1. n \in 0 .. BufferSize /\ BufferSize \in Nat
  BY Followed, Wraps
<1>2. ~E(n)
  <2>1. n \in 0 .. Occupied(r)
    BY <1>1
  <2>2. DropOldest(r, n).head = DropOldest(r, n).tail
    BY <2>1, DropFollows
  <2> QED
    BY <2>2 DEF OldestExpired
<1>3. RemoveOldTrades(r, cur) = DropOldest(r, expired)
  BY DEF RemoveOldTrades
<1> HIDE DEF E, n
<1>4. \E k \in T : \A j \in T : k <= j
  <2>1. T \in SUBSET Nat /\ T # {}
    BY <1>1, <1>2
  <2> HIDE DEF T
  <2> QED
    BY <2>1, LeastNumber
<1>5. \E k \in 0 .. BufferSize : Stops(k)
  BY <1>1, <1>4
<1>6. expired \in 0 .. BufferSize /\ Stops(expired)
  BY <1>5
<1> HIDE DEF expired
<1>7. expired \in 0 .. n
  BY <1>1, <1>2, <1>6
<1> QED
  BY <1>3, <1>6, <1>7 DEF E, n

\* Where the head goes when one more of the N slots is used.
HeadMoved(N, h, t, n, u) ==
  /\ u \in 0 .. N - 1
  /\ n + 1 = N => u = t
  /\ n + 1 < N => u # t /\ (IF u >= t THEN u - t ELSE u - t + N) = n + 1
  /\ \A j \in 1 .. n : t + j - 1 \in 0 .. 2 * N - 1 /\ Around(t + j - 1, N) # h
  /\ t + n \in 0 .. 2 * N - 1
  /\ Around(t + n, N) = h

\* The arithmetic of the head (VWAPService.cpp:18).
LEMMA HeadMoves ==
  ASSUME NEW N \in Nat \ {0}, NEW h \in 0 .. N - 1, NEW t \in 0 .. N - 1,
         NEW n \in 0 .. N - 1, n = IF h >= t THEN h - t ELSE h - t + N
  PROVE  HeadMoved(N, h, t, n, Around(h + 1, N))
BY DEF Around, HeadMoved

\* A trade is added to a ring that is not full, or not seen to be.  If it fills
\* the ring and all in it carry nothing, the ring counts as empty.
LEMMA AddFollows ==
  ASSUME NEW r, NEW f, Follows(r, f), ~IsFull(r), NEW t \in StampedTrade
  PROVE  /\ Follows(AddTrade(r, t), Append(f, t))
         /\ \/ Occupied(AddTrade(r, t)) = Occupied(r) + 1
            \/ /\ Occupied(AddTrade(r, t)) = 0
               /\ \A i \in Before(r, f) + 1 .. Len(f) + 1 : Append(f, t)[i].quantity = 0
<1> DEFINE a == AddTrade(r, t)
           e == Append(f, t)
           n == Occupied(r)
           m == Before(r, f)
           L == Len(f)
           q == Quantities(f)
           pq == PricedQuantities(f)
           q2 == Quantities(e)
           pq2 == PricedQuantities(e)
           u == NextSlot(r.head)
<1>1. /\ r \in Ring /\ n \in 0 .. BufferSize /\ L \in Nat /\ m \in Nat /\ m = L - n
      /\ BufferSize \in Nat \ {0} /\ f \in Seq(StampedTrade)
      /\ \A i \in 1 .. L : /\ q[i] \in Nat /\ pq[i] \in Nat
                           /\ q[i] = f[i].quantity /\ pq[i] = f[i].quantity * f[i].price
  BY Followed, Wraps DEF Follows
<1>2. /\ r.head \in 0 .. BufferSize - 1 /\ r.tail \in 0 .. BufferSize - 1
      /\ r.totalQuantity \in Nat /\ r.totalPricedQuantity \in Nat
      /\ r.trades \in [Slot -> StampedTrade]
  BY <1>1 DEF Ring, Slot
<1>3. /\ r.totalQuantity = SumOver(q, m + 1 .. L)
      /\ r.totalPricedQuantity = SumOver(pq, m + 1 .. L)
  BY DEF Follows
<1>4. t.quantity \in Nat /\ t.price \in Nat /\ t.quantity * t.price \in Nat
  <2>1. t.quantity \in Nat /\ t.price \in Nat
    BY DEF StampedTrade
  <2> QED
    BY <2>1, ProductOfNaturals
<1>5. /\ e \in Seq(StampedTrade) /\ Len(e) = L + 1 /\ DOMAIN e = 1 .. L + 1
      /\ e[L + 1] = t /\ \A i \in 1 .. L : e[i] = f[i]
  BY <1>1, AppendProperties, LenProperties
<1> HIDE DEF e, m, L
<1>6. /\ q2[L + 1] = t.quantity /\ pq2[L + 1] = t.quantity * t.price
      /\ \A i \in 1 .. L : q2[i] = q[i] /\ pq2[i] = pq[i]
      /\ \A i \in 1 .. L + 1 : q2[i] \in Nat /\ pq2[i] \in Nat
      /\ \A i \in 1 .. L + 1 : q2[i] = e[i].quantity /\ pq2[i] = e[i].quantity * e[i].price
  <2>1. ASSUME NEW i \in 1 .. L + 1
        PROVE  q2[i] = e[i].quantity /\ pq2[i] = e[i].quantity * e[i].price
    BY <1>5 DEF Quantities, PricedQuantities
  <2> HIDE DEF q, pq, q2, pq2
  <2>2. L + 1 \in 1 .. L + 1 /\ \A i \in 1 .. L : i \in 1 .. L + 1
    BY <1>1
  <2>3. q2[L + 1] = t.quantity /\ pq2[L + 1] = t.quantity * t.price
    BY <1>5, <2>1, <2>2
  <2>4. \A i \in 1 .. L : q2[i] = q[i] /\ pq2[i] = pq[i]
    BY <1>1, <1>5, <2>1, <2>2
  <2>5. \A i \in 1 .. L + 1 : i = L + 1 \/ i \in 1 .. L
    BY <1>1
  <2>6. \A i \in 1 .. L + 1 : q2[i] \in Nat /\ pq2[i] \in Nat
    BY <1>1, <1>4, <2>3, <2>4, <2>5
  <2> QED
    BY <2>1, <2>3, <2>4, <2>6
<1> HIDE DEF q, pq, q2, pq2
<1>7. /\ SumOver(q2, m + 1 .. L + 1) = t.quantity + SumOver(q, m + 1 .. L)
      /\ SumOver(pq2, m + 1 .. L + 1) = t.quantity * t.price + SumOver(pq, m + 1 .. L)
  <2>1. /\ m <= L
        /\ \A i \in 1 .. L : q2[i] = q[i]
        /\ \A i \in 1 .. L : pq2[i] = pq[i]
        /\ \A i \in 1 .. L + 1 : q2[i] \in Int
        /\ \A i \in 1 .. L + 1 : pq2[i] \in Int
    BY <1>1, <1>6
  <2>2. SumOver(q2, m + 1 .. L + 1) = q2[L + 1] + SumOver(q, m + 1 .. L)
    BY <1>1, <2>1, SumOfLonger
  <2>3. SumOver(pq2, m + 1 .. L + 1) = pq2[L + 1] + SumOver(pq, m + 1 .. L)
    BY <1>1, <2>1, SumOfLonger
  <2> QED
    BY <1>6, <2>2, <2>3
<1>8. n \in 0 .. BufferSize - 1
      /\ n = IF r.head >= r.tail THEN r.head - r.tail ELSE r.head - r.tail + BufferSize
  BY <1>1, <1>2, OccupiedIs
<1>9. u = Around(r.head + 1, BufferSize)
  <2>1. r.head + 1 \in 0 .. 2 * BufferSize - 1
    BY <1>1, <1>2
  <2> QED
    BY <2>1, WrapsAround DEF NextSlot
<1> HIDE DEF n, u
<1>18. /\ n \in Nat /\ m \in Nat /\ L \in Nat /\ m + n = L /\ BufferSize \in Nat
       /\ r.head \in Nat /\ r.tail \in Nat /\ r.tail < BufferSize
       /\ n < BufferSize
  BY <1>1, <1>2, <1>8
<1>10. HeadMoved(BufferSize, r.head, r.tail, n, u)
  BY <1>1, <1>2, <1>8, <1>9, HeadMoves
<1>11. a = [r EXCEPT !.trades = [@ EXCEPT ![r.head] = t], !.head = u,
                    !.totalQuantity = @ + t.quantity,
                    !.totalPricedQuantity = @ + t.quantity * t.price]
  BY DEF AddTrade, u
<1> HIDE DEF a
<1>12. /\ a \in Ring /\ a.head = u /\ a.tail = r.tail
       /\ a.trades = [r.trades EXCEPT ![r.head] = t]
       /\ a.totalQuantity = SumOver(q2, m + 1 .. L + 1)
       /\ a.totalPricedQuantity = SumOver(pq2, m + 1 .. L + 1)
  <2> DEFINE w == [r.trades EXCEPT ![r.head] = t]
             tq == r.totalQuantity + t.quantity
             tpq == r.totalPricedQuantity + t.quantity * t.price
  <2>1. w \in [Slot -> StampedTrade] /\ u \in Slot
    BY <1>2, <1>10 DEF Slot, HeadMoved
  <2>2. tq = SumOver(q2, m + 1 .. L + 1) /\ tpq = SumOver(pq2, m + 1 .. L + 1)
    <3> DEFINE x == t.quantity * t.price
    <3>1. x \in Nat
      BY <1>4
    <3> HIDE DEF x
    <3>2. /\ r.totalQuantity \in Nat /\ r.totalPricedQuantity \in Nat
          /\ SumOver(pq2, m + 1 .. L + 1) = x + r.totalPricedQuantity
          /\ SumOver(q2, m + 1 .. L + 1) = t.quantity + r.totalQuantity
      BY <1>2, <1>3, <1>7 DEF x
    <3> QED
      BY <1>4, <3>1, <3>2 DEF x
  <2>3. tq \in Nat /\ tpq \in Nat
    BY <1>2, <1>4
  <2>4. a = [r EXCEPT !.trades = w, !.head = u, !.totalQuantity = tq, !.totalPricedQuantity = tpq]
    BY <1>11
  <2> HIDE DEF w, tq, tpq
  <2>5. /\ a \in Ring /\ a.head = u /\ a.tail = r.tail /\ a.trades = w
        /\ a.totalQuantity = tq /\ a.totalPricedQuantity = tpq
    BY <1>1, <2>1, <2>3, <2>4 DEF Ring
  <2> QED
    BY <2>2, <2>5 DEF w
<1>13. Occupied(a) = IF IsFull(a) THEN BufferSize
            ELSE IF a.head >= a.tail THEN a.head - a.tail ELSE a.head - a.tail + BufferSize
  BY <1>12, OccupiedIs
<1>14. CASE n + 1 < BufferSize \/ a.totalQuantity > 0
  <2>1. Occupied(a) = n + 1
    <3>1. CASE n + 1 < BufferSize
      BY <1>10, <1>12, <1>13, <3>1 DEF HeadMoved, IsFull
    <3>2. CASE n + 1 = BufferSize /\ a.totalQuantity > 0
      BY <1>10, <1>12, <1>13, <3>2 DEF HeadMoved, IsFull
    <3>3. n + 1 < BufferSize \/ n + 1 = BufferSize
      BY <1>18
    <3> QED
      BY <1>14, <3>1, <3>2, <3>3
  <2>2. Before(a, e) = m
    BY <1>5, <1>18, <2>1 DEF Before
  <2>3. ASSUME NEW j \in 1 .. n + 1 PROVE Live(a, j) = e[m + j]
    <3>1. CASE j = n + 1
      <4>1. r.tail + j - 1 = r.tail + n /\ m + j = L + 1
        BY <1>18, <3>1
      <4>2. (r.tail + n) % BufferSize = r.head
        BY <1>10, WrapsAround DEF HeadMoved
      <4>3. a.trades[r.head] = t
        BY <1>2, <1>12 DEF Slot
      <4> QED
        BY <1>5, <1>12, <4>1, <4>2, <4>3 DEF Live
    <3>2. CASE j # n + 1
      <4>1. j \in 1 .. n /\ m + j \in 1 .. L
        BY <1>18, <3>2
      <4> DEFINE x == (r.tail + j - 1) % BufferSize
      <4>2. x # r.head /\ x \in Slot
        <5>1. r.tail + j - 1 \in 0 .. 2 * BufferSize - 1
              /\ Around(r.tail + j - 1, BufferSize) # r.head
          BY <1>10, <4>1 DEF HeadMoved
        <5>2. x = Around(r.tail + j - 1, BufferSize)
          BY <5>1, WrapsAround
        <5> HIDE DEF x
        <5>3. x \in 0 .. BufferSize - 1
          BY <1>1, <5>1, <5>2 DEF Around
        <5> QED
          BY <5>1, <5>2, <5>3 DEF Slot
      <4>3. Live(r, j) = f[m + j]
        BY <1>8, <4>1 DEF Follows, n, m
      <4>4. Live(r, j) = r.trades[x] /\ Live(a, j) = a.trades[x]
        BY <1>12 DEF Live
      <4> HIDE DEF x
      <4> QED
        BY <1>2, <1>5, <1>12, <4>1, <4>2, <4>3, <4>4
    <3> QED
      BY <3>1, <3>2
  <2> QED
    BY <1>1, <1>5, <1>12, <2>1, <2>2, <2>3 DEF Follows, a, e, n, q2, pq2
<1>15. CASE n + 1 = BufferSize /\ a.totalQuantity = 0
  <2>1. Occupied(a) = 0
    BY <1>10, <1>12, <1>13, <1>15 DEF HeadMoved, IsFull
  <2>2. Before(a, e) = L + 1
    BY <1>5, <1>18, <2>1 DEF Before
  <2>3. IsFiniteSet(m + 1 .. L + 1)
    <3>1. m + 1 \in Int /\ L + 1 \in Int
      BY <1>18
    <3> QED
      BY <3>1, FS_Interval
  <2>4. ASSUME NEW i \in m + 1 .. L + 1
        PROVE  q2[i] \in Nat /\ pq2[i] = 0 /\ e[i].quantity = 0
    <3>1. i \in 1 .. L + 1
      BY <1>1
    <3>2. \A k \in m + 1 .. L + 1 : q2[k] \in Nat
      BY <1>1, <1>6
    <3>3. q2[i] <= SumOver(q2, m + 1 .. L + 1)
      BY <2>3, <3>2, SumOfNaturals
    <3>4. q2[i] = 0
      BY <1>6, <1>12, <1>15, <3>1, <3>3
    <3>5. e[i].quantity = 0 /\ pq2[i] = e[i].quantity * e[i].price /\ e[i].price \in Nat
      <4>1. e[i] \in StampedTrade
        BY <1>5, <3>1, ElementOfSeq
      <4> QED
        BY <1>6, <3>1, <3>4, <4>1 DEF StampedTrade
    <3> QED
      BY <3>4, <3>5
  <2>5. a.totalPricedQuantity = 0
    <3> DEFINE zero == [i \in m + 1 .. L + 1 |-> 0]
    <3>1. SumOver(zero, m + 1 .. L + 1) = 0
      BY <2>3, SumOfZeroes
    <3>2. \A i \in m + 1 .. L + 1 : pq2[i] = zero[i] /\ zero[i] \in Int
      BY <2>4
    <3> HIDE DEF zero
    <3>3. SumOver(pq2, m + 1 .. L + 1) = SumOver(zero, m + 1 .. L + 1)
      BY <2>3, <3>2, SumsAgree
    <3> QED
      BY <1>12, <3>1, <3>3
  <2>6. (L + 1) + 1 .. L + 1 = {}
    BY <1>1
  <2> QED
    BY <1>1, <1>5, <1>12, <1>15, <2>1, <2>2, <2>4, <2>5, <2>6, SumOfNone
    DEF Follows, a, e, n, m, L
<1>16. (n + 1 < BufferSize \/ a.totalQuantity > 0) \/ (n + 1 = BufferSize /\ a.totalQuantity = 0)
  <2>1. a.totalQuantity \in Nat
    BY <1>12 DEF Ring
  <2> QED
    BY <1>18, <2>1
<1> QED
  BY <1>14, <1>15, <1>16
\* handleTrade: the trade joins the history, and those that the ring gives up
\* for it are its oldest.
LEMMA HandledFollows ==
  ASSUME NEW r, NEW f, Follows(r, f), NEW t \in StampedTrade
  PROVE  Follows(HandledTrade(r, t), Append(f, t))
<1> DEFINE fresh == RemoveOldTrades(r, t.ts)
           room == IF IsFull(fresh) THEN RemoveOldestTrade(fresh) ELSE fresh
<1>1. Follows(fresh, f)
  <2>1. PICK k \in 0 .. Occupied(r) : fresh = DropOldest(r, k)
    BY ExpiryDrops
  <2> QED
    BY <2>1, DropFollows
<1>2. HandledTrade(r, t) = AddTrade(room, t)
  BY DEF HandledTrade
<1> HIDE DEF fresh
<1>3. Follows(room, f) /\ ~IsFull(room)
  <2>1. CASE IsFull(fresh)
    <3>1. room = DropOldest(fresh, 1)
      <4>1. fresh.totalQuantity \in Nat /\ fresh.totalQuantity > 0
        BY <1>1, <2>1, Followed DEF Ring, IsFull
      <4> QED
        BY <2>1, <4>1 DEF RemoveOldestTrade
    <3>2. 1 \in 0 .. Occupied(fresh)
      BY <2>1, Wraps DEF Occupied
    <3> QED
      BY <1>1, <3>1, <3>2, DropFollows
  <2>2. CASE ~IsFull(fresh)
    BY <1>1, <2>2
  <2> QED
    BY <2>1, <2>2
<1> HIDE DEF room
<1> QED
  BY <1>2, <1>3, AddFollows

\* The slot at the tail holds the oldest live trade.
LEMMA TailIsOldest ==
  ASSUME NEW r, NEW f, Follows(r, f), Occupied(r) # 0
  PROVE  r.trades[r.tail] = f[Before(r, f) + 1]
<1>1. 1 \in 1 .. Occupied(r)
  BY Followed
<1>2. Live(r, 1) = f[Before(r, f) + 1]
  BY <1>1 DEF Follows
<1>3. r.tail \in 0 .. BufferSize - 1
  BY Followed DEF Ring, Slot
<1>4. r.tail + 1 - 1 = r.tail /\ r.tail \in 0 .. 2 * BufferSize - 1 /\ r.tail < BufferSize
  BY <1>3, Wraps
<1>5. (r.tail + 1 - 1) % BufferSize = r.tail
  BY <1>4, WrapsAround DEF Around
<1> QED
  BY <1>2, <1>5 DEF Live

\* What a ring holds, oldest first.
LiveTrades(r) == [k \in 1 .. Occupied(r) |-> Live(r, k)]

\* The totals of a ring that follows a history are the sums over what it holds.
LEMMA TotalsOfLive ==
  ASSUME NEW r, NEW f, Follows(r, f)
  PROVE  /\ DOMAIN LiveTrades(r) = 1 .. Occupied(r)
         /\ r.totalQuantity = QuantityOf(LiveTrades(r), 1 .. Occupied(r))
         /\ r.totalPricedQuantity = PricedQuantityOf(LiveTrades(r), 1 .. Occupied(r))
<1> DEFINE n == Occupied(r)
           m == Before(r, f)
           live == LiveTrades(r)
           h == [k \in 1 .. n |-> f[m + k].quantity]
           ph == [k \in 1 .. n |-> f[m + k].quantity * f[m + k].price]
<1>1. /\ n \in Nat /\ m \in Nat /\ m + n = Len(f)
      /\ \A k \in 1 .. n : m + k \in 1 .. Len(f)
  BY Followed
<1>2. ASSUME NEW k \in 1 .. n
      PROVE  /\ live[k] = f[m + k]
             /\ Quantities(f)[m + k] = h[k] /\ h[k] \in Nat
             /\ PricedQuantities(f)[m + k] = ph[k] /\ ph[k] \in Nat
             /\ h[k] = f[m + k].quantity
             /\ ph[k] = f[m + k].quantity * f[m + k].price
  <2>1. live[k] = f[m + k]
    BY DEF Follows, LiveTrades
  <2> QED
    BY <1>1, <2>1, Followed
<1>3. /\ r.totalQuantity = SumOver(Quantities(f), m + 1 .. m + n)
      /\ r.totalPricedQuantity = SumOver(PricedQuantities(f), m + 1 .. m + n)
  BY <1>1 DEF Follows
<1>4. DOMAIN live = 1 .. n /\ IsFiniteSet(1 .. n)
  BY <1>1, FS_Interval DEF LiveTrades
<1> HIDE DEF n, m, live, h, ph
<1>5. QuantityOf(live, 1 .. n) = SumOver(h, 1 .. n)
  <2>1. \A k \in 1 .. n : h[k] = live[k].quantity /\ h[k] \in Int
    BY <1>2
  <2> QED
    BY <1>4, <2>1, QuantityIsSum
<1>6. PricedQuantityOf(live, 1 .. n) = SumOver(ph, 1 .. n)
  <2>1. \A k \in 1 .. n : ph[k] = live[k].quantity * live[k].price /\ ph[k] \in Int
    BY <1>2
  <2> QED
    BY <1>4, <2>1, PricedQuantityIsSum
<1>7. n \in Nat /\ m \in Nat
  BY <1>1
<1>8. SumOver(Quantities(f), m + 1 .. m + n) = SumOver(h, 1 .. n)
  <2>1. IsSlice(m, n, Quantities(f), h)
    BY <1>2 DEF IsSlice
  <2> QED
    BY <1>7, <2>1, SumOfSlice
<1>9. SumOver(PricedQuantities(f), m + 1 .. m + n) = SumOver(ph, 1 .. n)
  <2>1. IsSlice(m, n, PricedQuantities(f), ph)
    BY <1>2 DEF IsSlice
  <2> QED
    BY <1>7, <2>1, SumOfSlice
<1> QED
  BY <1>3, <1>4, <1>5, <1>6, <1>8, <1>9 DEF live, n

-----------------------------------------------------------------------------
(* What a read gives.                                                      *)

\* Stamps that do not go back, nor ahead of the clock.
InOrder(f, cur) ==
  \A i \in 1 .. Len(f) :
    /\ f[i].ts <= cur
    /\ \A j \in i .. Len(f) : f[i].ts <= f[j].ts

\* The first n trades of a history say nothing of the window that ends at cur.
OutOfWindow(f, n, cur) ==
  \A i \in 1 .. n : f[i].quantity = 0 \/ cur - f[i].ts > VwapWindowMs

\* What the proofs use of the assumptions on times.
LEMMA WindowTypes ==
  /\ VwapWindowMs \in Nat /\ MaxTime \in Nat /\ Word \in Nat /\ VwapWindowMs + MaxTime < Word
  /\ Stamp = 0 .. MaxTime
BY VWAPAssumption DEF VWAPAssumption, Stamp

\* Ages of trades that do not come from the future.
LEMMA AgeIsDifference ==
  ASSUME NEW cur \in Stamp, NEW ts \in Stamp, ts <= cur
  PROVE  Age(cur, ts) = cur - ts /\ cur \in Nat /\ ts \in Nat
BY WindowTypes DEF Age

\* The expiry leaves a ring that is not full as it is or emptier, and drops
\* what the window has left behind.
LEMMA ExpiryIsDue ==
  ASSUME NEW r, NEW f, Follows(r, f), NEW old \in Stamp, NEW cur \in Stamp, cur <= old,
         InOrder(f, cur), ~IsFull(r), OutOfWindow(f, Before(r, f), old)
  PROVE  LET d == RemoveOldTrades(r, cur)
         IN  /\ Follows(d, f)
             /\ ~IsFull(d)
             /\ ~OldestExpired(d, cur)
             /\ OutOfWindow(f, Before(d, f), old)
<1> DEFINE d == RemoveOldTrades(r, cur)
           n == Occupied(r)
           m == Before(r, f)
<1>1. PICK k \in 0 .. n :
           /\ d = DropOldest(r, k)
           /\ ~OldestExpired(d, cur)
           /\ \A j \in 0 .. k - 1 : OldestExpired(DropOldest(r, j), cur)
  BY ExpiryDrops
<1> HIDE DEF d
<1>2. Follows(d, f) /\ Occupied(d) = n - k
  BY <1>1, DropFollows
<1>3. /\ n \in Nat /\ m \in Nat /\ Len(f) \in Nat /\ m = Len(f) - n /\ k \in Nat /\ k <= n
      /\ Before(d, f) = m + k
  BY <1>2, Followed DEF Before
<1>4. ~IsFull(d)
  <2>1. n < BufferSize
    <3>1. n = IF r.head >= r.tail THEN r.head - r.tail ELSE r.head - r.tail + BufferSize
      BY Followed, OccupiedIs
    <3>2. r.head \in 0 .. BufferSize - 1 /\ r.tail \in 0 .. BufferSize - 1
      BY Followed DEF Ring, Slot
    <3> HIDE DEF n
    <3> QED
      BY <3>1, <3>2, Wraps
  <2>2. IsFull(d) => Occupied(d) = BufferSize
    BY DEF Occupied
  <2> QED
    BY <1>2, <1>3, <2>1, <2>2, Wraps
<1>5. ASSUME NEW i \in m + 1 .. m + k PROVE old - f[i].ts > VwapWindowMs
  <2> DEFINE j == (i - m) - 1
             c == DropOldest(r, j)
  <2>1. j \in 0 .. k - 1 /\ j \in 0 .. n /\ n - j # 0 /\ i = (m + j) + 1 /\ i \in 1 .. Len(f)
    BY <1>3
  <2> HIDE DEF j
  <2>2. Follows(c, f) /\ Occupied(c) = n - j
    BY <2>1, DropFollows
  <2>3. Before(c, f) = m + j
    BY <1>3, <2>1, <2>2 DEF Before
  <2>4. Age(cur, c.trades[c.tail].ts) > VwapWindowMs
    BY <1>1, <2>1 DEF OldestExpired
  <2> HIDE DEF c
  <2>5. c.trades[c.tail] = f[i]
    BY <2>1, <2>2, <2>3, TailIsOldest
  <2>6. f[i].ts \in Stamp /\ f[i].ts <= cur
    <3>1. f[i] \in StampedTrade
      BY <2>1, Followed
    <3> QED
      BY <2>1, <3>1 DEF StampedTrade, InOrder
  <2>7. Age(cur, f[i].ts) = cur - f[i].ts /\ cur \in Nat /\ f[i].ts \in Nat
    BY <2>6, AgeIsDifference
  <2> QED
    BY <2>4, <2>5, <2>7, WindowTypes
<1>6. OutOfWindow(f, m + k, old)
  <2>1. \A i \in 1 .. m + k : i \in 1 .. m \/ i \in m + 1 .. m + k
    BY <1>3
  <2> QED
    BY <1>5, <2>1 DEF OutOfWindow
<1> QED
  BY <1>1, <1>2, <1>3, <1>4, <1>6 DEF d

\* A ring that the expiry has just seen to gives the VWAP of the window.
LEMMA ReadIsWindow ==
  ASSUME NEW d, NEW f, Follows(d, f), NEW cur \in Stamp, InOrder(f, cur), ~IsFull(d),
         ~OldestExpired(d, cur), OutOfWindow(f, Before(d, f), cur)
  PROVE  VWAPOf(d) = WindowVWAP(f, cur)
<1> DEFINE q == Quantities(f)
           pq == PricedQuantities(f)
           m == Before(d, f)
           L == Len(f)
           S == m + 1 .. L
           W == WindowOf(f, cur)
<1>1. /\ m \in Nat /\ L \in Nat /\ DOMAIN f = 1 .. L /\ Occupied(d) \in Nat
      /\ m = L - Occupied(d)
      /\ \A i \in 1 .. L : /\ f[i] \in StampedTrade /\ q[i] \in Nat /\ pq[i] \in Nat
                           /\ q[i] = f[i].quantity /\ pq[i] = f[i].quantity * f[i].price
  BY Followed
<1>2. d.totalQuantity = SumOver(q, S) /\ d.totalPricedQuantity = SumOver(pq, S)
  BY DEF Follows
<1>3. S \subseteq 1 .. L /\ IsFiniteSet(S)
  <2>1. m + 1 \in Int /\ S \subseteq 1 .. L
    BY <1>1
  <2> QED
    BY <1>1, <2>1, FS_Interval
<1>4. W \subseteq 1 .. L /\ IsFiniteSet(W)
  <2>1. IsFiniteSet(1 .. L)
    BY <1>1, FS_Interval
  <2>2. W \subseteq 1 .. L
    BY <1>1 DEF WindowOf
  <2> QED
    BY <2>1, <2>2, FS_Subset
<1>5. \A i \in 1 .. L : i \in W <=> ~(cur - f[i].ts > VwapWindowMs)
  <2>1. ASSUME NEW i \in 1 .. L PROVE cur \in Int /\ f[i].ts \in Int
    BY <1>1, WindowTypes DEF StampedTrade
  <2> QED
    BY <1>1, <2>1, WindowTypes DEF WindowOf
<1>6. \A i \in 1 .. L : i \in S \/ i \in 1 .. m
  BY <1>1
<1>7. ASSUME NEW i \in W \ S PROVE f[i].quantity = 0
  BY <1>4, <1>5, <1>6 DEF OutOfWindow
<1>8. ASSUME NEW i \in S \ W PROVE f[i].quantity = 0
  <2>1. CASE d.head # d.tail /\ d.totalQuantity > 0
    <3>1. ~(Age(cur, d.trades[d.tail].ts) > VwapWindowMs)
      BY <2>1 DEF OldestExpired
    <3>2. d.trades[d.tail] = f[m + 1]
      <4>1. Occupied(d) # 0
        BY <1>1, <1>8
      <4> QED
        BY <4>1, TailIsOldest
    <3>3. m + 1 \in 1 .. L /\ i \in m + 1 .. L /\ i \in 1 .. L
      BY <1>1, <1>8
    <3>4. f[m + 1].ts \in Stamp /\ f[i].ts \in Stamp
      BY <1>1, <3>3 DEF StampedTrade
    <3>5. f[m + 1].ts <= cur /\ f[m + 1].ts <= f[i].ts
      BY <3>3 DEF InOrder
    <3>6. Age(cur, f[m + 1].ts) = cur - f[m + 1].ts
      BY <3>4, <3>5, AgeIsDifference
    <3>7. cur - f[i].ts > VwapWindowMs
      BY <1>5, <1>8, <3>3
    <3> QED
      BY <3>1, <3>2, <3>4, <3>5, <3>6, <3>7, WindowTypes
  <2>2. CASE d.totalQuantity = 0
    <3>1. \A j \in S : q[j] \in Nat
      BY <1>1, <1>3
    <3> HIDE DEF q, S
    <3>2. q[i] <= SumOver(q, S)
      BY <1>3, <1>8, <3>1, SumOfNaturals
    <3>3. i \in 1 .. L /\ q[i] \in Nat
      BY <1>1, <1>3, <1>8
    <3> QED
      BY <1>1, <1>2, <2>2, <3>2, <3>3
  <2>3. d.totalQuantity \in Nat /\ (d.head = d.tail => ~(d.totalQuantity > 0))
    BY Followed DEF Ring, IsFull
  <2> QED
    BY <2>1, <2>2, <2>3
<1>9. \A x \in W \cup S : q[x] \in Int /\ pq[x] \in Int
  BY <1>1, <1>3, <1>4
<1>10. \A x \in (W \ S) \cup (S \ W) : q[x] = 0 /\ pq[x] = 0
  <2>1. ASSUME NEW x \in (W \ S) \cup (S \ W) PROVE q[x] = 0 /\ pq[x] = 0
    <3>1. f[x].quantity = 0 /\ x \in 1 .. L
      BY <1>3, <1>4, <1>7, <1>8
    <3>2. f[x].price \in Nat
      BY <1>1, <3>1 DEF StampedTrade
    <3> QED
      BY <1>1, <3>1, <3>2
  <2> QED
    BY <2>1
<1>11. ASSUME NEW i \in W
       PROVE  q[i] = f[i].quantity /\ pq[i] = f[i].quantity * f[i].price
  BY <1>1, <1>4
<1> HIDE DEF q, pq, S, W
<1>12. QuantityOf(f, W) = SumOver(q, W)
  BY <1>4, <1>9, <1>11, QuantityIsSum
<1>13. PricedQuantityOf(f, W) = SumOver(pq, W)
  BY <1>4, <1>9, <1>11, PricedQuantityIsSum
<1>14. SumOver(q, W) = SumOver(q, S)
  BY <1>3, <1>4, <1>9, <1>10, SumsDifferByZeroes
<1>15. SumOver(pq, W) = SumOver(pq, S)
  BY <1>3, <1>4, <1>9, <1>10, SumsDifferByZeroes
<1> QED
  BY <1>2, <1>12, <1>13, <1>14, <1>15 DEF VWAPOf, WindowVWAP, W
-----------------------------------------------------------------------------
(* The inductive invariant.                                                *)

\* The ring r follows the history f.  As long as stamps are in order and the
\* ring has never been full, all that it has given up is outside the window;
\* zero-quantity trades may be given up early (a ring of nothing but these
\* counts as empty) but change no VWAP.
RingOK(r, cur, f, full, skew) ==
  /\ Follows(r, f)
  /\ cur \in Stamp
  /\ full \in BOOLEAN
  /\ skew \in BOOLEAN
  /\ ~skew => InOrder(f, cur)
  /\ ~skew /\ ~full => ~IsFull(r) /\ OutOfWindow(f, Before(r, f), cur)

RingInv == RingOK(ring, now, feed, everFull, skewed)

\* An empty ring follows the empty history.
LEMMA RingInitInv ==
  RingInit => RingInv
<1> SUFFICES ASSUME RingInit PROVE RingInv
  OBVIOUS
<1>1. /\ ring.head = 0 /\ ring.tail = 0 /\ ring.totalQuantity = 0
      /\ ring.totalPricedQuantity = 0 /\ feed = <<>> /\ now = 0
      /\ everFull = FALSE /\ skewed = FALSE
  BY DEF RingInit
<1>2. 0 \in Slot /\ 0 \in Stamp
  BY Wraps, WindowTypes DEF Slot
<1>3. [ts |-> 0, quantity |-> 0, price |-> 0] \in StampedTrade
  BY <1>2 DEF StampedTrade
<1>4. ring \in Ring
  BY <1>2, <1>3 DEF RingInit, Ring
<1>5. ~IsFull(ring) /\ Occupied(ring) = 0
  <2>1. ~IsFull(ring)
    BY <1>1 DEF IsFull
  <2> QED
    BY <1>1, <1>4, <2>1, OccupiedIs
<1>6. feed \in Seq(StampedTrade) /\ Len(feed) = 0
  BY <1>1, EmptySeq
<1>7. Before(ring, feed) = 0
  BY <1>5, <1>6 DEF Before
<1>8. Before(ring, feed) + 1 .. Len(feed) = {}
  BY <1>6, <1>7
<1>9. Follows(ring, feed)
  BY <1>1, <1>4, <1>5, <1>6, <1>7, <1>8, SumOfNone DEF Follows
<1>10. InOrder(feed, now) /\ OutOfWindow(feed, Before(ring, feed), now)
  BY <1>6, <1>7 DEF InOrder, OutOfWindow
<1> QED
  BY <1>1, <1>2, <1>5, <1>9, <1>10 DEF RingInv, RingOK

\* A stamped trade.
LEMMA StampedTypes ==
  ASSUME NEW t \in Trades, NEW ts \in Stamp
  PROVE  Stamped(t, ts) \in StampedTrade
BY VWAPAssumption DEF VWAPAssumption, Stamped, StampedTrade

\* handleTrade keeps the invariant, whatever stamp the trade carries.
LEMMA HandledOK ==
  ASSUME NEW r, NEW cur, NEW f, NEW full, NEW skew, RingOK(r, cur, f, full, skew),
         NEW t \in StampedTrade
  PROVE  RingOK(HandledTrade(r, t), cur, Append(f, t), full \/ IsFull(HandledTrade(r, t)),
                skew \/ t.ts > cur \/ (f # <<>> /\ t.ts < Last(f).ts))
<1> DEFINE fresh == RemoveOldTrades(r, t.ts)
           a == HandledTrade(r, t)
           g == Append(f, t)
           L == Len(f)
           full2 == full \/ IsFull(a)
           skew2 == skew \/ t.ts > cur \/ (f # <<>> /\ t.ts < Last(f).ts)
<1>1. Follows(r, f) /\ cur \in Stamp /\ cur \in Nat /\ t.ts \in Stamp /\ t.ts \in Nat
  BY WindowTypes DEF RingOK, StampedTrade
<1>2. Follows(a, g)
  BY <1>1, HandledFollows
<1>3. /\ L \in Nat /\ Len(g) = L + 1 /\ g[L + 1] = t /\ \A i \in 1 .. L : g[i] = f[i]
      /\ \A i \in 1 .. L : f[i].ts \in Nat
  <2>1. f \in Seq(StampedTrade) /\ L \in Nat /\ \A i \in 1 .. L : f[i] \in StampedTrade
    BY <1>1, Followed DEF Follows
  <2> QED
    BY <2>1, AppendProperties, WindowTypes DEF StampedTrade
<1>4. ~skew2 => ~skew /\ t.ts <= cur /\ \A i \in 1 .. L : f[i].ts <= t.ts
  <2> SUFFICES ASSUME ~skew2
               PROVE  ~skew /\ t.ts <= cur /\ \A i \in 1 .. L : f[i].ts <= t.ts
    OBVIOUS
  <2>1. ~skew /\ ~(t.ts > cur) /\ ~(f # <<>> /\ t.ts < Last(f).ts)
    OBVIOUS
  <2>2. ASSUME NEW i \in 1 .. L PROVE f[i].ts <= t.ts
    <3>1. L \in 1 .. L /\ L \in i .. L /\ L # 0
      BY <1>3
    <3>2. f # <<>>
      BY <1>3, <3>1
    <3>3. ~(t.ts < f[L].ts)
      BY <2>1, <3>2 DEF Last
    <3>4. f[i].ts <= f[L].ts
      BY <2>1, <3>1 DEF RingOK, InOrder
    <3> QED
      BY <1>1, <1>3, <3>1, <3>3, <3>4
  <2> QED
    BY <1>1, <2>1, <2>2
<1>5. ~skew2 => InOrder(g, cur)
  <2> SUFFICES ASSUME ~skew2 PROVE InOrder(g, cur)
    OBVIOUS
  <2>1. InOrder(f, cur) /\ t.ts <= cur /\ \A i \in 1 .. L : f[i].ts <= t.ts
    BY <1>4 DEF RingOK
  <2> HIDE DEF g, L
  <2>2. \A i \in 1 .. L + 1 : i = L + 1 \/ i \in 1 .. L
    BY <1>3
  <2>3. ASSUME NEW i \in 1 .. L + 1 PROVE g[i].ts <= cur
    BY <1>3, <2>1, <2>2 DEF InOrder, L
  <2>4. ASSUME NEW i \in 1 .. L + 1, NEW j \in i .. L + 1 PROVE g[i].ts <= g[j].ts
    <3>1. j \in 1 .. L + 1 /\ ((i \in 1 .. L /\ j \in i .. L) \/ j = L + 1)
      BY <1>3
    <3>2. CASE i \in 1 .. L /\ j \in i .. L
      <4>1. f[i].ts <= f[j].ts /\ j \in 1 .. L
        BY <1>3, <2>1, <3>2 DEF InOrder, L
      <4> QED
        BY <1>3, <3>2, <4>1
    <3>3. CASE j = L + 1
      BY <1>1, <1>3, <2>1, <2>2, <3>3
    <3> QED
      BY <3>1, <3>2, <3>3
  <2> QED
    BY <1>3, <2>3, <2>4 DEF InOrder
<1>6. ~skew2 /\ ~full2 => ~IsFull(a) /\ OutOfWindow(g, Before(a, g), cur)
  <2> SUFFICES ASSUME ~skew2, ~full2
               PROVE  ~IsFull(a) /\ OutOfWindow(g, Before(a, g), cur)
    OBVIOUS
  <2>1. ~full /\ ~IsFull(a)
    OBVIOUS
  <2>2. /\ InOrder(f, t.ts) /\ t.ts <= cur
        /\ ~IsFull(r) /\ OutOfWindow(f, Before(r, f), cur)
    BY <1>4, <2>1 DEF RingOK, InOrder
  <2>3. Follows(fresh, f) /\ ~IsFull(fresh) /\ OutOfWindow(f, Before(fresh, f), cur)
    BY <1>1, <2>2, ExpiryIsDue
  <2>4. a = AddTrade(fresh, t)
    BY <2>3 DEF HandledTrade
  <2> HIDE DEF fresh
  <2>5. /\ Before(fresh, f) \in Nat /\ Before(fresh, f) = L - Occupied(fresh)
        /\ Occupied(fresh) \in Nat
    BY <2>3, Followed
  <2>6. \A i \in 1 .. Before(fresh, f) : i \in 1 .. L
    BY <1>3, <2>5
  <2>7. OutOfWindow(g, Before(fresh, f), cur)
    BY <1>3, <2>3, <2>6 DEF OutOfWindow
  <2>8. \/ Occupied(a) = Occupied(fresh) + 1
        \/ /\ Occupied(a) = 0
           /\ \A i \in Before(fresh, f) + 1 .. L + 1 : g[i].quantity = 0
    BY <2>3, <2>4, AddFollows
  <2>9. Before(a, g) = (L + 1) - Occupied(a)
    <3>1. Before(a, g) = Len(g) - Occupied(a)
      BY DEF Before
    <3>2. Len(g) = L + 1
      BY <1>3
    <3> HIDE DEF L
    <3> QED
      BY <3>1, <3>2
  <2>10. CASE Occupied(a) = Occupied(fresh) + 1
    <3>1. Before(a, g) = Before(fresh, f)
      BY <1>3, <2>5, <2>9, <2>10
    <3> QED
      BY <2>1, <2>7, <3>1
  <2>11. CASE /\ Occupied(a) = 0
              /\ \A i \in Before(fresh, f) + 1 .. L + 1 : g[i].quantity = 0
    <3>1. Before(a, g) = L + 1
      BY <1>3, <2>9, <2>11
    <3>2. \A i \in 1 .. L + 1 : i \in 1 .. Before(fresh, f) \/ i \in Before(fresh, f) + 1 .. L + 1
      BY <1>3, <2>5
    <3> QED
      BY <2>1, <2>7, <2>11, <3>1, <3>2 DEF OutOfWindow
  <2> QED
    BY <2>8, <2>10, <2>11
<1>7. full2 \in BOOLEAN /\ skew2 \in BOOLEAN
  BY DEF RingOK
<1> QED
  BY <1>1, <1>2, <1>5, <1>6, <1>7 DEF RingOK

\* handleTrade as a step.
LEMMA HandleTradeInv ==
  ASSUME RingInv, NEW t \in StampedTrade, HandleTrade(t)
  PROVE  RingInv'
BY HandledOK DEF RingInv, HandleTrade, Recorded

\* getVWAP keeps the invariant and gives the VWAP of the window.
LEMMA ReadOK ==
  ASSUME NEW r, NEW cur, NEW f, NEW full, NEW skew, RingOK(r, cur, f, full, skew)
  PROVE  /\ RingOK(RemoveOldTrades(r, cur), cur, f, full, skew)
         /\ ~skew /\ ~full => VWAPOf(RemoveOldTrades(r, cur)) = WindowVWAP(f, cur)
<1> DEFINE d == RemoveOldTrades(r, cur)
<1>1. Follows(d, f)
  <2>1. PICK k \in 0 .. Occupied(r) : d = DropOldest(r, k)
    BY ExpiryDrops DEF RingOK
  <2> QED
    BY <2>1, DropFollows DEF RingOK
<1>2. ASSUME ~skew, ~full
      PROVE  /\ ~IsFull(d) /\ OutOfWindow(f, Before(d, f), cur)
             /\ VWAPOf(d) = WindowVWAP(f, cur)
  <2>1. /\ Follows(r, f) /\ cur \in Stamp /\ InOrder(f, cur)
        /\ ~IsFull(r) /\ OutOfWindow(f, Before(r, f), cur)
    BY <1>2 DEF RingOK
  <2>2. cur <= cur
    BY <2>1, WindowTypes
  <2>3. ~IsFull(d) /\ ~OldestExpired(d, cur) /\ OutOfWindow(f, Before(d, f), cur)
    BY <2>1, <2>2, ExpiryIsDue
  <2> HIDE DEF d
  <2> QED
    BY <1>1, <2>1, <2>3, ReadIsWindow
<1> QED
  BY <1>1, <1>2 DEF RingOK

\* getVWAP as a step.
LEMMA GetVWAPInv ==
  ASSUME RingInv, GetVWAP
  PROVE  RingInv'
BY ReadOK DEF RingInv, GetVWAP

\* Time that passes keeps what has expired outside the window.
LEMMA TickInv ==
  ASSUME RingInv, Tick
  PROVE  RingInv'
<1>1. /\ now \in Stamp /\ now < MaxTime /\ now' = now + 1 /\ ring' = ring /\ feed' = feed
      /\ everFull' = everFull /\ skewed' = skewed /\ Follows(ring, feed)
  BY DEF Tick, RingInv, RingOK
<1>2. now \in Nat /\ now' \in Stamp
  BY <1>1, WindowTypes
<1>3. \A i \in 1 .. Len(feed) : feed[i].ts \in Nat
  <2>1. \A i \in 1 .. Len(feed) : feed[i] \in StampedTrade
    BY <1>1, Followed
  <2> QED
    BY <2>1, WindowTypes DEF StampedTrade
<1>4. InOrder(feed, now) => InOrder(feed, now + 1)
  BY <1>2, <1>3 DEF InOrder
<1>5. ASSUME OutOfWindow(feed, Before(ring, feed), now)
      PROVE  OutOfWindow(feed, Before(ring, feed), now + 1)
  <2>1. \A i \in 1 .. Before(ring, feed) : i \in 1 .. Len(feed)
    BY <1>1, Followed
  <2>2. ASSUME NEW i \in 1 .. Before(ring, feed), now - feed[i].ts > VwapWindowMs
        PROVE  (now + 1) - feed[i].ts > VwapWindowMs
    BY <1>2, <1>3, <2>1, <2>2, WindowTypes
  <2>3. ASSUME NEW i \in 1 .. Before(ring, feed)
        PROVE  feed[i].quantity = 0 \/ (now + 1) - feed[i].ts > VwapWindowMs
    <3>1. feed[i].quantity = 0 \/ now - feed[i].ts > VwapWindowMs
      BY <1>5 DEF OutOfWindow
    <3> QED
      BY <2>2, <3>1
  <2> QED
    BY <2>3 DEF OutOfWindow
<1> QED
  BY <1>1, <1>2, <1>4, <1>5 DEF RingInv, RingOK

\* Every step of the component keeps the invariant.
THEOREM RingInvariance == RingSpec => []RingInv
<1>1. RingInv /\ [RingNext]_ringVars => RingInv'
  <2> SUFFICES ASSUME RingInv, [RingNext]_ringVars PROVE RingInv'
    OBVIOUS
  <2>1. ASSUME NEW t \in Trades, NEW ts \in StampsNow, HandleTrade(Stamped(t, ts))
        PROVE  RingInv'
    <3>1. Stamped(t, ts) \in StampedTrade
      BY StampedTypes DEF StampsNow
    <3> QED
      BY <2>1, <3>1, HandleTradeInv
  <2>2. CASE GetVWAP
    BY <2>2, GetVWAPInv
  <2>3. CASE Tick
    BY <2>3, TickInv
  <2>4. CASE UNCHANGED ringVars
    BY <2>4 DEF ringVars, RingInv
  <2> QED
    BY <2>1, <2>2, <2>3, <2>4 DEF RingNext
<1> QED
  BY <1>1, RingInitInv, PTL DEF RingSpec

\* Heads and tails stay in the ring, and no total ever falls below zero: the
\* unsigned subtractions of removeOldTrades and removeOldestTrade do not wrap.
THEOREM RingTypes == RingSpec => []RingTypeOK
<1>1. RingInv => RingTypeOK
  BY DEF RingInv, RingOK, Follows, Ring, RingTypeOK
<1> QED
  BY <1>1, RingInvariance, PTL

\* The live slots are the latest trades, in the order in which they came.
THEOREM RingIsSuffix == RingSpec => []RingIsSuffixOfFeed
<1>1. RingInv => RingIsSuffixOfFeed
  <2> SUFFICES ASSUME RingInv PROVE RingIsSuffixOfFeed
    OBVIOUS
  <2>1. Follows(ring, feed)
    BY DEF RingInv, RingOK
  <2>2. /\ Occupied(ring) \in Nat /\ Len(feed) \in Nat
        /\ Len(feed) - Occupied(ring) \in Nat /\ Before(ring, feed) = Len(feed) - Occupied(ring)
    BY <2>1, Followed
  <2>3. \A k \in 1 .. Occupied(ring) : Live(ring, k) = feed[Before(ring, feed) + k]
    BY <2>1 DEF Follows
  <2> QED
    BY <2>2, <2>3 DEF RingIsSuffixOfFeed
<1> QED
  BY <1>1, RingInvariance, PTL

\* The running totals are the sums over the live slots.
THEOREM TotalsMatch == RingSpec => []TotalsMatchRing
<1>1. RingInv => TotalsMatchRing
  BY TotalsOfLive DEF RingInv, RingOK, TotalsMatchRing, LiveTrades
<1> QED
  BY <1>1, RingInvariance, PTL

\* With stamps in order and a ring that has never been full, a read gives the
\* VWAP of the trailing window.
THEOREM ReadsAreExact == RingSpec => []ReadIsExact
<1>1. RingInv => ReadIsExact
  BY ReadOK DEF RingInv, ReadIsExact
<1> QED
  BY <1>1, RingInvariance, PTL
=============================================================================
