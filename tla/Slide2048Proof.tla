--------------------------- MODULE Slide2048Proof ---------------------------
(***************************************************************************)
(* Proofs about Slide2048: the loop that slides a line in place does what  *)
(* the rules of the game say of its tiles as a whole, for any tiles.       *)
(*                                                                         *)
(* The rules merge equal neighbours in pairs, read from the front; the     *)
(* loop takes one tile after the other and adds it behind what the others  *)
(* have become.  That this is the same (MergedMore) is an induction over   *)
(* the tiles from the last to the first.  The loop's invariant Going then  *)
(* says that the line is these merged tiles, a gap, and the cells not yet  *)
(* looked at, and that stop tells whether the last tile has been merged.   *)
(***************************************************************************)
EXTENDS Slide2048, TLAPS, FiniteSetTheorems, SequenceTheorems,
        WellFoundedInduction

-----------------------------------------------------------------------------
(* Numbers and sums *)

\* Every set of naturals that is not empty has a least element, by which the
\* proofs by induction go.
LEMMA Least ==
  ASSUME NEW T \in SUBSET Nat, T # {}
  PROVE  \E n \in T : \A m \in T : n <= m
<1>1. PICK n \in T : \A m \in T : ~(<<m, n>> \in OpToRel(<, Nat))
  BY WFMin, NatLessThanWellFounded, Zenon
<1>2. \A m \in T : ~(m < n)
  BY <1>1 DEF OpToRel
<1>3. \A m \in T : m \in Nat /\ n \in Nat
  OBVIOUS
<1>4. QED
  BY <1>2, <1>3

-----------------------------------------------------------------------------
(* What the recursions define *)

\* Tiles double: a set with one element more has twice as many subsets.
LEMMA Powers == ASSUME NEW n \in Nat PROVE 2^n \in Nat /\ 2^(n + 1) = 2 * 2^n
<1> DEFINE small == SUBSET (1..n)
           large == SUBSET (1..n + 1)
           withit == large \ small
           put == [s \in small |-> s \cup {n + 1}]
<1>1. /\ IsFiniteSet(1..n) /\ Cardinality(1..n) = n
      /\ IsFiniteSet(1..n + 1) /\ Cardinality(1..n + 1) = n + 1
  BY FS_Interval
<1>2. /\ IsFiniteSet(small) /\ Cardinality(small) = 2^n
      /\ IsFiniteSet(large) /\ Cardinality(large) = 2^(n + 1)
  BY <1>1, FS_SUBSET
<1>3. 1..n + 1 = (1..n) \cup {n + 1} /\ n + 1 \notin 1..n
  OBVIOUS
<1>4. put \in Bijection(small, withit)
  <2>1. ASSUME NEW s \in small PROVE put[s] \in withit /\ put[s] \ {n + 1} = s
    BY <1>3
  <2>2. put \in [small -> withit] /\ \A s, t \in small : put[s] = put[t] => s = t
    <3>1. put \in [small -> withit]
      BY <2>1
    <3>2. ASSUME NEW s \in small, NEW t \in small, put[s] = put[t] PROVE s = t
      BY <2>1, <3>2, Zenon
    <3>3. QED
      BY <3>1, <3>2
  <2>3. ASSUME NEW t \in withit PROVE t \ {n + 1} \in small /\ put[t \ {n + 1}] = t
    BY <1>3
  <2>4. put \in Surjection(small, withit)
    BY <2>2, <2>3 DEF Surjection
  <2>5. put \in Injection(small, withit)
    BY <2>2 DEF Injection, IsInjective
  <2>6. QED
    BY <2>4, <2>5 DEF Bijection
<1>5. IsFiniteSet(withit) /\ Cardinality(withit) = Cardinality(small)
  BY <1>2, <1>4, FS_Bijection DEF ExistsBijection
<1>6. large = small \cup withit /\ small \cap withit = {}
  BY <1>3
<1> HIDE DEF small, large, withit, put
<1>7. Cardinality(large) = Cardinality(small) + Cardinality(withit)
  <2>1. Cardinality(small \cup withit)
          = Cardinality(small) + Cardinality(withit) - Cardinality(small \cap withit)
    BY <1>2, <1>5, FS_Union, Zenon
  <2>2. Cardinality(small \cap withit) = 0
    BY <1>6, FS_EmptySet
  <2>3. Cardinality(small) \in Nat /\ Cardinality(withit) \in Nat
    BY <1>2, <1>5, FS_CardinalityType
  <2>4. QED
    BY <1>6, <2>1, <2>2, <2>3
<1>8. QED
  BY <1>2, <1>5, <1>7, FS_CardinalityType


\* The sizes that a line may have.
LEMMA PositionsAre ==
  \/ SIZE = 2 /\ Positions = {0, 1}
  \/ SIZE = 3 /\ Positions = {0, 1, 2}
  \/ SIZE = 4 /\ Positions = {0, 1, 2, 3}
<1>1. 0..1 = {0, 1} /\ 0..2 = {0, 1, 2} /\ 0..3 = {0, 1, 2, 3}
  OBVIOUS
<1>2. SIZE = 2 \/ SIZE = 3 \/ SIZE = 4
  BY SizeAssumption
<1>3. QED
  BY <1>1, <1>2 DEF Positions

\* What a sum is, written out.
LEMMA SumIs ==
  ASSUME NEW f
  PROVE  LineSum(f) = (IF SIZE = 2 THEN 0 + f[0] + f[1]
                       ELSE IF SIZE = 3 THEN 0 + f[0] + f[1] + f[2]
                       ELSE 0 + f[0] + f[1] + f[2] + f[3])
<1> DEFINE Is(to) == to = [n \in 0..SIZE |-> IF n = 0 THEN 0 ELSE to[n - 1] + f[n - 1]]
           sums == [n \in 0..SIZE |->
                      IF n = 0 THEN 0 ELSE IF n = 1 THEN 0 + f[0]
                      ELSE IF n = 2 THEN 0 + f[0] + f[1] ELSE IF n = 3 THEN 0 + f[0] + f[1] + f[2]
                      ELSE 0 + f[0] + f[1] + f[2] + f[3]]
<1>1. ASSUME NEW n \in 0..SIZE
      PROVE  sums[n] = IF n = 0 THEN 0 ELSE sums[n - 1] + f[n - 1]
  <2>1. n = 0 \/ n = 1 \/ n = 2 \/ n = 3 \/ n = 4
    BY SizeAssumption
  <2>2. \A i \in 0..SIZE : i - 1 \in 0..SIZE \/ i = 0
    BY SizeAssumption
  <2>3. QED
    BY <2>1, <2>2
<1>2. Is(sums)
  BY <1>1, Zenon
<1>3. SumsTo(f) = CHOOSE to : Is(to)
  BY Zenon DEF SumsTo
<1> HIDE DEF sums
<1>4. Is(SumsTo(f))
  BY <1>2, <1>3, Zenon
<1> DEFINE to == SumsTo(f)
<1>5. \A n \in 0..SIZE : to[n] = IF n = 0 THEN 0 ELSE to[n - 1] + f[n - 1]
  BY <1>4, Zenon
<1> HIDE DEF to, Is
<1>6. LineSum(f) = to[SIZE]
  BY DEF LineSum, to
<1>7. to[0] = 0 /\ to[1] = 0 + f[0] /\ to[2] = 0 + f[0] + f[1]
  BY <1>5, SizeAssumption
<1>8. CASE SIZE = 2
  BY <1>6, <1>7, <1>8
<1>9. CASE SIZE = 3
  <2>1. to[3] = 0 + f[0] + f[1] + f[2]
    BY <1>5, <1>7, <1>9
  <2>2. QED
    BY <1>6, <1>9, <2>1
<1>10. CASE SIZE = 4
  <2>1. to[3] = 0 + f[0] + f[1] + f[2]
    BY <1>5, <1>7, <1>10
  <2>2. to[4] = 0 + f[0] + f[1] + f[2] + f[3]
    BY <1>5, <1>10, <2>1
  <2>3. QED
    BY <1>6, <1>10, <2>2
<1>11. QED
  BY <1>8, <1>9, <1>10, SizeAssumption

\* A sum changes by what one of its cells changes by.
LEMMA SumChanges ==
  ASSUME NEW f \in [Positions -> Int], NEW g \in [Positions -> Int], NEW t \in Positions,
         \A i \in Positions : i # t => f[i] = g[i]
  PROVE  LineSum(f) \in Int /\ LineSum(g) = LineSum(f) + g[t] - f[t]
<1>1. /\ LineSum(f) = (IF SIZE = 2 THEN 0 + f[0] + f[1]
                       ELSE IF SIZE = 3 THEN 0 + f[0] + f[1] + f[2]
                       ELSE 0 + f[0] + f[1] + f[2] + f[3])
      /\ LineSum(g) = (IF SIZE = 2 THEN 0 + g[0] + g[1]
                       ELSE IF SIZE = 3 THEN 0 + g[0] + g[1] + g[2]
                       ELSE 0 + g[0] + g[1] + g[2] + g[3])
  BY SumIs
<1>2. CASE SIZE = 2 /\ Positions = {0, 1}
  <2>1. f[0] \in Int /\ f[1] \in Int /\ g[0] \in Int /\ g[1] \in Int
    BY <1>2
  <2>2. QED
    BY <1>1, <1>2, <2>1
<1>3. CASE SIZE = 3 /\ Positions = {0, 1, 2}
  <2>1. /\ f[0] \in Int /\ f[1] \in Int /\ f[2] \in Int
        /\ g[0] \in Int /\ g[1] \in Int /\ g[2] \in Int
    BY <1>3
  <2>2. QED
    BY <1>1, <1>3, <2>1
<1>4. CASE SIZE = 4 /\ Positions = {0, 1, 2, 3}
  <2>1. /\ f[0] \in Int /\ f[1] \in Int /\ f[2] \in Int /\ f[3] \in Int
        /\ g[0] \in Int /\ g[1] \in Int /\ g[2] \in Int /\ g[3] \in Int
    BY <1>4
  <2>2. /\ t # 0 => f[0] = g[0]
        /\ t # 1 => f[1] = g[1]
        /\ t # 2 => f[2] = g[2]
        /\ t # 3 => f[3] = g[3]
        /\ t = 0 \/ t = 1 \/ t = 2 \/ t = 3
    BY <1>4
  <2>3. /\ LineSum(f) = 0 + f[0] + f[1] + f[2] + f[3]
        /\ LineSum(g) = 0 + g[0] + g[1] + g[2] + g[3]
    BY <1>1, <1>4
  <2>4. QED
    BY <2>1, <2>2, <2>3
<1>5. QED
  BY <1>2, <1>3, <1>4, PositionsAre

-----------------------------------------------------------------------------
(* The recursions have solutions: what each of them is, one step on. *)

\* The loop, one cell on.
LEMMA SlidingIs ==
  ASSUME NEW a
  PROVE  /\ Sliding(a)[0] = Start(a)
         /\ \A x \in Positions : Sliding(a)[x + 1] = SlideStep(Sliding(a)[x], x)
<1> DEFINE Is(f) == f = [x \in 0..SIZE |-> IF x = 0 THEN Start(a) ELSE SlideStep(f[x - 1], x - 1)]
           s1 == SlideStep(Start(a), 0)
           s2 == SlideStep(s1, 1)
           s3 == SlideStep(s2, 2)
           s4 == SlideStep(s3, 3)
           states == [x \in 0..SIZE |-> IF x = 0 THEN Start(a) ELSE IF x = 1 THEN s1
                                        ELSE IF x = 2 THEN s2 ELSE IF x = 3 THEN s3 ELSE s4]
<1>1. ASSUME NEW x \in 0..SIZE
      PROVE  states[x] = IF x = 0 THEN Start(a) ELSE SlideStep(states[x - 1], x - 1)
  <2>1. x = 0 \/ x = 1 \/ x = 2 \/ x = 3 \/ x = 4
    BY SizeAssumption
  <2>2. \A i \in 0..SIZE : i - 1 \in 0..SIZE \/ i = 0
    BY SizeAssumption
  <2>3. QED
    BY <2>1, <2>2
<1>2. Is(states)
  BY <1>1, Zenon
<1>3. Sliding(a) = CHOOSE f : Is(f)
  BY Zenon DEF Sliding
<1> HIDE DEF states
<1>4. Is(Sliding(a))
  BY <1>2, <1>3, Zenon
<1>5. \A x \in 0..SIZE :
        Sliding(a)[x] = IF x = 0 THEN Start(a) ELSE SlideStep(Sliding(a)[x - 1], x - 1)
  BY <1>4, Zenon
<1> HIDE DEF Is
<1>6. ASSUME NEW x \in Positions PROVE Sliding(a)[x + 1] = SlideStep(Sliding(a)[x], x)
  <2>1. x + 1 \in 0..SIZE /\ x + 1 # 0 /\ (x + 1) - 1 = x
    BY SizeAssumption DEF Positions
  <2>2. QED
    BY <1>5, <2>1
<1>7. 0 \in 0..SIZE
  BY SizeAssumption
<1>8. QED
  BY <1>5, <1>6, <1>7

\* The tiles of a line, one cell on.
LEMMA TilesAre ==
  ASSUME NEW a
  PROVE  /\ TilesTo(a)[0] = <<>>
         /\ \A x \in Positions :
              TilesTo(a)[x + 1] = IF a[x] = 0 THEN TilesTo(a)[x] ELSE Append(TilesTo(a)[x], a[x])
<1> DEFINE More(s, x) == IF a[x] = 0 THEN s ELSE Append(s, a[x])
           Is(f) == f = [x \in 0..SIZE |-> IF x = 0 THEN <<>> ELSE More(f[x - 1], x - 1)]
           s1 == More(<<>>, 0)
           s2 == More(s1, 1)
           s3 == More(s2, 2)
           s4 == More(s3, 3)
           states == [x \in 0..SIZE |-> IF x = 0 THEN <<>> ELSE IF x = 1 THEN s1
                                        ELSE IF x = 2 THEN s2 ELSE IF x = 3 THEN s3 ELSE s4]
<1>0. TilesTo(a) = CHOOSE f : Is(f)
  BY Zenon DEF TilesTo
<1> HIDE DEF More
<1>1. ASSUME NEW x \in 0..SIZE
      PROVE  states[x] = IF x = 0 THEN <<>> ELSE More(states[x - 1], x - 1)
  <2>1. x = 0 \/ x = 1 \/ x = 2 \/ x = 3 \/ x = 4
    BY SizeAssumption
  <2>2. \A i \in 0..SIZE : i - 1 \in 0..SIZE \/ i = 0
    BY SizeAssumption
  <2>3. QED
    BY <2>1, <2>2
<1>2. Is(states)
  BY <1>1, Zenon
<1> HIDE DEF states
<1>4. Is(TilesTo(a))
  BY <1>0, <1>2, Zenon
<1>5. \A x \in 0..SIZE :
        TilesTo(a)[x] = IF x = 0 THEN <<>> ELSE More(TilesTo(a)[x - 1], x - 1)
  BY <1>4, Zenon
<1> HIDE DEF Is
<1>6. ASSUME NEW x \in Positions PROVE TilesTo(a)[x + 1] = More(TilesTo(a)[x], x)
  <2>1. x + 1 \in 0..SIZE /\ x + 1 # 0 /\ (x + 1) - 1 = x
    BY SizeAssumption DEF Positions
  <2>2. QED
    BY <1>5, <2>1
<1>7. 0 \in 0..SIZE
  BY SizeAssumption
<1>8. QED
  BY <1>5, <1>6, <1>7 DEF More

\* What the tiles of s from the i-th on become, where f tells it for those
\* behind.
MergeStep(f, s, i) ==
  IF i > Len(s) THEN <<>>
  ELSE IF i < Len(s) /\ s[i] = s[i + 1] THEN <<s[i] + 1>> \o f[i + 2]
  ELSE <<s[i]>> \o f[i + 1]

\* The merging of tiles, one tile further to the front.
LEMMA MergedIs ==
  ASSUME NEW s, Len(s) \in Nat
  PROVE  \A i \in 1..Len(s) + 1 : MergedFrom(s)[i] = MergeStep(MergedFrom(s), s, i)
<1> DEFINE L == Len(s)
           Is(f, k) == f = [i \in k..L + 1 |-> MergeStep(f, s, i)]
           Bad == {n \in 0..L : ~\E f : Is(f, L + 1 - n)}
<1>1. ASSUME Bad # {} PROVE FALSE
  <2>1. PICK m \in Bad : \A n \in Bad : m <= n
    <3>1. Bad \in SUBSET Nat
      OBVIOUS
    <3> HIDE DEF Bad
    <3>2. QED
      BY <1>1, <3>1, Least
  <2> DEFINE k == L + 1 - m
  <2>2. CASE m = 0
    <3>1. k = L + 1 /\ \A i \in k..L + 1 : i > L /\ i = L + 1
      BY <2>2
    <3>2. [i \in k..L + 1 |-> <<>>] = [i \in k..L + 1 |-> MergeStep([j \in k..L + 1 |-> <<>>], s, i)]
      BY <3>1 DEF MergeStep
    <3>3. QED
      BY <2>1, <3>2
  <2>3. CASE m # 0
    <3>1. m \in 1..L /\ L + 1 - (m - 1) = k + 1 /\ k \in 1..L
      BY <2>1, <2>3
    <3>2. m - 1 \notin Bad /\ m - 1 \in 0..L
      <4>1. m \in Nat /\ m - 1 \in Nat /\ ~(m <= m - 1) /\ m - 1 \in 0..L
        BY <3>1
      <4> HIDE DEF Bad
      <4>2. QED
        BY <2>1, <4>1
    <3>7. PICK f : Is(f, k + 1)
      <4>1. \E f : Is(f, L + 1 - (m - 1))
        BY <3>2
      <4>2. QED
        BY <3>1, <4>1
    <3> HIDE DEF k, Bad
    <3> DEFINE g == [i \in k..L + 1 |-> IF i = k THEN MergeStep(f, s, k) ELSE f[i]]
    <3>3. \A i \in k + 1..L + 1 : g[i] = f[i] /\ f[i] = MergeStep(f, s, i)
      <4>1. \A i \in k + 1..L + 1 : f[i] = MergeStep(f, s, i)
        BY <3>7, Zenon
      <4>2. \A i \in k + 1..L + 1 : i # k /\ i \in k..L + 1
        BY <3>1
      <4>3. QED
        BY <4>1, <4>2, Zenon
    <3>4. ASSUME NEW i \in k..L + 1 PROVE g[i] = MergeStep(g, s, i)
      <4>1. i <= L => g[i + 1] = f[i + 1]
        BY <3>1, <3>3
      <4>2. i < L => g[i + 2] = f[i + 2]
        BY <3>1, <3>3
      <4>3. MergeStep(g, s, i) = MergeStep(f, s, i)
        <5> HIDE DEF g
        <5>1. i \in Int /\ L \in Nat
          BY <3>1
        <5>2. QED
          BY <4>1, <4>2, <5>1 DEF MergeStep
      <4>4. g[i] = MergeStep(f, s, i)
        <5>1. i = k \/ i \in k + 1..L + 1
          BY <3>1
        <5>2. QED
          BY <3>3, <5>1, Zenon
      <4>5. QED
        BY <4>3, <4>4
    <3>5. Is(g, k)
      <4> HIDE DEF k
      <4>1. QED
        BY <3>4, Zenon
    <3>6. QED
      BY <2>1, <3>5 DEF k, Bad
  <2>4. QED
    BY <2>2, <2>3
<1>2. \E f : Is(f, 1)
  <2>1. L \in 0..L /\ L \notin Bad /\ L + 1 - L = 1
    BY <1>1
  <2>2. QED
    BY <2>1
<1>3. MergedFrom(s) = CHOOSE f : Is(f, 1)
  BY Zenon DEF MergedFrom, MergeStep
<1>4. Is(MergedFrom(s), 1)
  BY <1>2, <1>3, Zenon
<1>5. QED
  BY <1>4, Zenon

-----------------------------------------------------------------------------
(* One more tile at the end of a line *)

\* How a tile v is added behind others that became m, the first n of which
\* rest: it merges with the last of them, if that does not rest, or goes
\* behind it.
Added(m, n, v) ==
  IF n < Len(m) /\ m[Len(m)] = v THEN [m EXCEPT ![Len(m)] = v + 1] ELSE Append(m, v)

\* q is m with a tile h before it.
HasHead(q, h, m) ==
  /\ q \in Seq(Nat) /\ Len(q) = Len(m) + 1 /\ q # <<>> /\ q[1] = h
  /\ \A i \in 1..Len(m) : q[i + 1] = m[i]

\* A tile h put before others.
LEMMA Headed ==
  ASSUME NEW h \in Nat, NEW m \in Seq(Nat)
  PROVE  HasHead(<<h>> \o m, h, m)
<1>1. <<h>> \in Seq(Nat) /\ Len(<<h>>) = 1 /\ <<h>>[1] = h
  OBVIOUS
<1> DEFINE one == <<h>>
           q == one \o m
<1>2. one \in Seq(Nat) /\ Len(one) = 1 /\ one[1] = h
  BY <1>1
<1> HIDE DEF one
<1>3. /\ q \in Seq(Nat) /\ Len(q) = 1 + Len(m) /\ Len(m) \in Nat
      /\ \A i \in 1..Len(q) : q[i] = IF i <= 1 THEN one[i] ELSE m[i - 1]
  <2>1. /\ q \in Seq(Nat) /\ Len(q) = Len(one) + Len(m)
        /\ \A i \in 1..Len(one) + Len(m) :
             q[i] = IF i <= Len(one) THEN one[i] ELSE m[i - Len(one)]
    BY <1>2, ConcatProperties, Zenon
  <2>2. Len(m) \in Nat
    BY LenProperties
  <2> HIDE DEF q
  <2>3. QED
    BY <1>2, <2>1, <2>2
<1> HIDE DEF q
<1>4. q[1] = h /\ q # <<>>
  BY <1>2, <1>3, EmptySeq
<1>5. \A i \in 1..Len(m) : q[i + 1] = m[i]
  BY <1>3
<1>6. QED
  BY <1>3, <1>4, <1>5 DEF q, one, HasHead

\* What adding a tile behind changes.
LEMMA AddedIs ==
  ASSUME NEW m \in Seq(Nat), NEW n \in Nat, NEW v \in Nat
  PROVE  LET r == Added(m, n, v)
             L == Len(m)
         IN  /\ r \in Seq(Nat)
             /\ n < L /\ m[L] = v =>
                  Len(r) = L /\ r[L] = v + 1 /\ \A i \in 1..L : i # L => r[i] = m[i]
             /\ ~(n < L /\ m[L] = v) =>
                  Len(r) = L + 1 /\ r[L + 1] = v /\ \A i \in 1..L : r[i] = m[i]
<1> DEFINE r == Added(m, n, v)
           L == Len(m)
<1>0. L \in Nat
  BY LenProperties
<1>1. CASE n < L /\ m[L] = v
  <2>1. L \in 1..Len(m) /\ v + 1 \in Nat
    BY <1>1
  <2>2. r = [m EXCEPT ![L] = v + 1]
    BY <1>1 DEF Added
  <2>3. /\ [m EXCEPT ![L] = v + 1] \in Seq(Nat)
        /\ Len([m EXCEPT ![L] = v + 1]) = Len(m)
        /\ \A i \in 1..Len(m) : [m EXCEPT ![L] = v + 1][i] = IF i = L THEN v + 1 ELSE m[i]
    BY <2>1, ExceptSeq
  <2> HIDE DEF r
  <2>4. QED
    BY <1>1, <2>1, <2>2, <2>3 DEF r
<1>2. CASE ~(n < L /\ m[L] = v)
  <2>1. r = Append(m, v)
    BY <1>2 DEF Added
  <2>2. /\ r \in Seq(Nat) /\ Len(r) = Len(m) + 1 /\ r[Len(m) + 1] = v
        /\ \A i \in 1..Len(m) : r[i] = m[i]
    BY <2>1, AppendProperties
  <2> HIDE DEF r
  <2>3. QED
    BY <1>2, <2>2 DEF r
<1>3. QED
  BY <1>1, <1>2

\* A tile is added behind in the same way whatever is put before.
LEMMA HeadAdded ==
  ASSUME NEW h \in Nat, NEW m \in Seq(Nat), NEW n \in Nat, NEW v \in Nat, m # <<>>,
         NEW q, HasHead(q, h, m), NEW right, HasHead(right, h, Added(m, n, v))
  PROVE  Added(q, n + 1, v) = right
<1> DEFINE L == Len(m)
<1>1. L \in Nat /\ L >= 1 /\ n + 1 \in Nat /\ L + 1 \in Nat
  BY LenProperties, EmptySeq
<1>3. q \in Seq(Nat) /\ Len(q) = L + 1 /\ q[1] = h /\ \A i \in 1..L : q[i + 1] = m[i]
  BY DEF HasHead
<1> DEFINE left == Added(q, n + 1, v)
           more == Added(m, n, v)
<1>6. q[L + 1] = m[L] /\ (n + 1 < L + 1 <=> n < L)
  <2> HIDE DEF L
  <2>1. L \in 1..L
    BY <1>1
  <2>2. QED
    BY <1>1, <1>3, <2>1
<1>7. /\ left \in Seq(Nat)
      /\ n < L /\ m[L] = v =>
           Len(left) = L + 1 /\ left[L + 1] = v + 1
             /\ \A i \in 1..L + 1 : i # L + 1 => left[i] = q[i]
      /\ ~(n < L /\ m[L] = v) =>
           Len(left) = L + 2 /\ left[L + 2] = v /\ \A i \in 1..L + 1 : left[i] = q[i]
  <2>1. /\ left \in Seq(Nat)
        /\ n + 1 < L + 1 /\ q[L + 1] = v =>
             Len(left) = L + 1 /\ left[L + 1] = v + 1
               /\ \A i \in 1..L + 1 : i # L + 1 => left[i] = q[i]
        /\ ~(n + 1 < L + 1 /\ q[L + 1] = v) =>
             Len(left) = (L + 1) + 1 /\ left[(L + 1) + 1] = v
               /\ \A i \in 1..L + 1 : left[i] = q[i]
    <3> DEFINE K == Len(q)
    <3>1. /\ left \in Seq(Nat)
          /\ n + 1 < K /\ q[K] = v =>
               Len(left) = K /\ left[K] = v + 1 /\ \A i \in 1..K : i # K => left[i] = q[i]
          /\ ~(n + 1 < K /\ q[K] = v) =>
               Len(left) = K + 1 /\ left[K + 1] = v /\ \A i \in 1..K : left[i] = q[i]
      <4>1. q \in Seq(Nat) /\ n + 1 \in Nat
        BY <1>1, <1>3
      <4>2. QED
        BY <4>1, AddedIs
    <3>2. K = L + 1
      BY <1>3
    <3> HIDE DEF K, left
    <3>3. QED
      BY <3>1, <3>2
  <2>2. (L + 1) + 1 = L + 2
    BY <1>1
  <2> HIDE DEF left
  <2>3. QED
    BY <1>6, <2>1, <2>2
<1>8. /\ more \in Seq(Nat)
      /\ n < L /\ m[L] = v =>
           Len(more) = L /\ more[L] = v + 1 /\ \A i \in 1..L : i # L => more[i] = m[i]
      /\ ~(n < L /\ m[L] = v) =>
           Len(more) = L + 1 /\ more[L + 1] = v /\ \A i \in 1..L : more[i] = m[i]
  BY AddedIs
<1>10. /\ right \in Seq(Nat) /\ Len(right) = Len(more) + 1 /\ right[1] = h
       /\ \A i \in 1..Len(more) : right[i + 1] = more[i]
  BY DEF HasHead
<1> HIDE DEF left, more
<1>11. CASE n < L /\ m[L] = v
  <2>1. Len(left) = L + 1 /\ Len(right) = L + 1
    BY <1>7, <1>8, <1>10, <1>11
  <2>2. ASSUME NEW i \in 1..L + 1 PROVE left[i] = right[i]
    <3>1. CASE i = 1
      <4>1. 1 \in 1..L + 1 /\ 1 # L + 1
        BY <1>1
      <4>2. left[1] = q[1]
        BY <1>7, <1>11, <4>1
      <4>3. QED
        BY <1>3, <1>10, <3>1, <4>2
    <3>2. CASE i # 1
      <4>1. PICK k \in 1..L : i = k + 1
        <5>1. i - 1 \in 1..L /\ i = (i - 1) + 1
          BY <1>1, <3>2
        <5>2. QED
          BY <5>1
      <4>2. right[i] = more[k] /\ q[i] = m[k]
        BY <1>3, <1>8, <1>10, <1>11, <4>1
      <4>3. CASE k = L
        BY <1>7, <1>8, <1>11, <4>1, <4>2, <4>3
      <4>4. CASE k # L
        <5>1. i \in 1..L + 1 /\ i # L + 1
          BY <1>1, <4>1, <4>4
        <5>2. left[i] = q[i] /\ more[k] = m[k]
          BY <1>7, <1>8, <1>11, <4>1, <4>4, <5>1
        <5>3. QED
          BY <4>2, <5>2
      <4>5. QED
        BY <4>3, <4>4
    <3>3. QED
      BY <3>1, <3>2
  <2>3. left = right
    BY <1>7, <1>10, <2>1, <2>2, SeqEqual
  <2>4. QED
    BY <2>3 DEF left
<1>12. CASE ~(n < L /\ m[L] = v)
  <2>1. Len(left) = L + 2 /\ Len(right) = L + 2
    BY <1>1, <1>7, <1>8, <1>10, <1>12
  <2>2. ASSUME NEW i \in 1..L + 2 PROVE left[i] = right[i]
    <3>1. CASE i = 1
      <4>1. 1 \in 1..L + 1
        BY <1>1
      <4>2. left[1] = q[1]
        BY <1>7, <1>12, <4>1
      <4>3. QED
        BY <1>3, <1>10, <3>1, <4>2
    <3>2. CASE i # 1
      <4>1. PICK k \in 1..L + 1 : i = k + 1
        <5>1. i - 1 \in 1..L + 1 /\ i = (i - 1) + 1
          BY <1>1, <3>2
        <5>2. QED
          BY <5>1
      <4>2. right[i] = more[k]
        BY <1>8, <1>10, <1>12, <4>1
      <4>3. CASE k = L + 1
        <5>1. i = L + 2
          BY <1>1, <4>1, <4>3
        <5>2. left[L + 2] = v /\ more[L + 1] = v
          BY <1>7, <1>8, <1>12
        <5>3. QED
          BY <4>2, <4>3, <5>1, <5>2
      <4>4. CASE k # L + 1
        <5>1. k \in 1..L /\ i \in 1..L + 1
          BY <1>1, <4>1, <4>4
        <5>2. q[i] = m[k] /\ more[k] = m[k] /\ left[i] = q[i]
          BY <1>3, <1>7, <1>8, <1>12, <4>1, <5>1
        <5>3. QED
          BY <4>2, <5>2
      <4>5. QED
        BY <4>3, <4>4
    <3>3. QED
      BY <3>1, <3>2
  <2>3. left = right
    BY <1>7, <1>10, <2>1, <2>2, SeqEqual
  <2>4. QED
    BY <2>3 DEF left
<1>13. QED
  BY <1>11, <1>12

\* A set of naturals with a bound has a greatest element.
LEMMA Greatest ==
  ASSUME NEW n \in Nat, NEW T \in SUBSET (0..n), T # {}
  PROVE  \E k \in T : \A i \in T : i <= k
<1> DEFINE left == {n - i : i \in T}
<1>1. left \in SUBSET Nat /\ left # {}
  <2>1. ASSUME NEW i \in T PROVE n - i \in Nat
    <3>1. i \in 0..n
      OBVIOUS
    <3>2. QED
      BY <3>1
  <2>2. QED
    BY <2>1
<1>2. PICK m \in left : \A l \in left : m <= l
  <2> HIDE DEF left
  <2>1. QED
    BY <1>1, Least
<1>3. PICK k \in T : m = n - k
  BY <1>2
<1>4. ASSUME NEW i \in T PROVE i <= k
  <2>1. n - i \in left /\ i \in 0..n /\ k \in 0..n
    OBVIOUS
  <2> HIDE DEF left
  <2>2. n - k <= n - i
    BY <1>2, <1>3, <2>1
  <2>3. QED
    BY <2>1, <2>2
<1>5. QED
  BY <1>3, <1>4

\* What the tiles from the i-th on become, by those behind it.
LEMMA MergeCases ==
  ASSUME NEW s, NEW L \in Nat, Len(s) = L
  PROVE  LET f == MergedFrom(s) IN
         /\ f[L + 1] = <<>>
         /\ L # 0 => f[L] = <<s[L]>> \o f[L + 1]
         /\ \A i \in 1..L : i # L =>
              f[i] = IF s[i] = s[i + 1] THEN <<s[i] + 1>> \o f[i + 2] ELSE <<s[i]>> \o f[i + 1]
<1> DEFINE f == MergedFrom(s)
<1>1. \A i \in 1..L + 1 : f[i] = MergeStep(f, s, i)
  BY MergedIs
<1> HIDE DEF f
<1>2. f[L + 1] = <<>>
  <2>1. L + 1 \in 1..L + 1 /\ L + 1 > L
    OBVIOUS
  <2>2. f[L + 1] = MergeStep(f, s, L + 1)
    BY <1>1, <2>1
  <2>3. QED
    BY <2>1, <2>2 DEF MergeStep
<1>3. ASSUME L # 0 PROVE f[L] = <<s[L]>> \o f[L + 1]
  <2>1. L \in 1..L + 1 /\ ~(L > L) /\ ~(L < L)
    BY <1>3
  <2>2. f[L] = MergeStep(f, s, L)
    BY <1>1, <2>1
  <2>3. QED
    BY <2>1, <2>2 DEF MergeStep
<1>4. ASSUME NEW i \in 1..L, i # L
      PROVE  f[i] = IF s[i] = s[i + 1] THEN <<s[i] + 1>> \o f[i + 2] ELSE <<s[i]>> \o f[i + 1]
  <2>1. i \in 1..L + 1 /\ ~(i > L) /\ i < L
    BY <1>4
  <2>2. f[i] = MergeStep(f, s, i)
    BY <1>1, <2>1
  <2>3. QED
    BY <2>1, <2>2 DEF MergeStep
<1>5. QED
  BY <1>2, <1>3, <1>4 DEF f

\* Tiles become tiles, and some become some.
LEMMA MergedSeq ==
  ASSUME NEW s \in Seq(Nat)
  PROVE  \A i \in 1..Len(s) + 1 :
           MergedFrom(s)[i] \in Seq(Nat) /\ (i <= Len(s) => MergedFrom(s)[i] # <<>>)
<1> DEFINE L == Len(s)
           f == MergedFrom(s)
           Right(i) == f[i] \in Seq(Nat) /\ (i <= L => f[i] # <<>>)
           Bad == {i \in 1..L + 1 : ~Right(i)}
<1>1. L \in Nat /\ \A i \in 1..L : s[i] \in Nat
  BY LenProperties, ElementOfSeq
<1>2. /\ f[L + 1] = <<>>
      /\ L # 0 => f[L] = <<s[L]>> \o f[L + 1]
      /\ \A i \in 1..L : i # L =>
           f[i] = IF s[i] = s[i + 1] THEN <<s[i] + 1>> \o f[i + 2] ELSE <<s[i]>> \o f[i + 1]
  BY <1>1, MergeCases
<1> HIDE DEF f
<1>3. SUFFICES Bad = {}
  <2>1. \A i \in 1..L + 1 : Right(i)
    BY <1>3
  <2>2. QED
    BY <2>1 DEF f
<1>10. SUFFICES ASSUME Bad # {} PROVE FALSE
  OBVIOUS
<1>4. PICK k \in Bad : \A i \in Bad : i <= k
  <2>1. Bad \in SUBSET (0..L + 1) /\ L + 1 \in Nat
    BY <1>1
  <2> HIDE DEF Bad
  <2>2. QED
    BY <1>10, <2>1, Greatest
<1>5. k \in 1..L + 1 /\ k \in Int /\ ~Right(k)
  BY <1>4
<1>6. ASSUME NEW i \in 1..L + 1, i > k PROVE f[i] \in Seq(Nat)
  BY <1>4, <1>5, <1>6
<1> HIDE DEF Bad
<1>7. CASE k = L + 1
  <2>1. f[k] \in Seq(Nat) /\ ~(k <= L)
    <3>1. ~(L + 1 <= L) /\ <<>> \in Seq(Nat)
      BY <1>1, EmptySeq
    <3>2. f[L + 1] = <<>>
      BY <1>2
    <3>3. QED
      BY <1>7, <3>1, <3>2
  <2>2. QED
    BY <1>5, <2>1
<1>8. CASE k # L + 1
  <2>1. k \in 1..L /\ s[k] \in Nat /\ s[k] + 1 \in Nat /\ k + 1 \in 1..L + 1 /\ k + 1 > k
    BY <1>1, <1>5, <1>8
  <2>2. f[k + 1] \in Seq(Nat)
    BY <1>6, <2>1
  <2>3. k # L => k + 2 \in 1..L + 1 /\ k + 2 > k
    BY <1>1, <2>1
  <2>4. k # L => f[k + 2] \in Seq(Nat)
    BY <1>6, <2>3
  <2>5. \/ f[k] = <<s[k]>> \o f[k + 1]
        \/ k # L /\ f[k] = <<s[k] + 1>> \o f[k + 2]
    <3>1. CASE k = L
      <4>1. L # 0
        BY <1>1, <2>1, <3>1
      <4>2. f[L] = <<s[L]>> \o f[L + 1]
        BY <1>2, <4>1
      <4>3. QED
        BY <3>1, <4>2
    <3>2. CASE k # L
      <4>1. f[k] = IF s[k] = s[k + 1] THEN <<s[k] + 1>> \o f[k + 2] ELSE <<s[k]>> \o f[k + 1]
        BY <1>2, <2>1, <3>2
      <4>2. QED
        BY <3>2, <4>1
    <3>3. QED
      BY <3>1, <3>2
  <2>6. CASE f[k] = <<s[k]>> \o f[k + 1]
    BY <1>5, <2>1, <2>2, <2>6, Headed DEF HasHead
  <2>7. CASE k # L /\ f[k] = <<s[k] + 1>> \o f[k + 2]
    BY <1>5, <2>1, <2>4, <2>7, Headed DEF HasHead
  <2>8. QED
    BY <2>5, <2>6, <2>7
<1>9. QED
  BY <1>7, <1>8

\* A single tile, and one added to it.
LEMMA OneTile ==
  ASSUME NEW h \in Nat, NEW w \in Nat
  PROVE  /\ <<h>> \in Seq(Nat) /\ <<h>> # <<>> /\ <<h>> \o <<>> = <<h>> /\ Len(<<h>>) = 1
         /\ \A q : q = <<h>> =>
              /\ Added(q, 1, w) = <<h>> \o <<w>>
              /\ Added(q, 0, w) = IF h = w THEN <<h + 1>> ELSE <<h>> \o <<w>>
<1>1. <<h>> \in Seq(Nat) /\ <<h>> # <<>> /\ Len(<<h>>) = 1 /\ <<h>>[1] = h
  OBVIOUS
<1>2. <<h>> \o <<>> = <<h>> /\ Append(<<h>>, w) = <<h>> \o <<w>>
  BY <1>1, ConcatEmptySeq, AppendIsConcat
<1>3. h = w => [<<h>> EXCEPT ![1] = w + 1] = <<h + 1>>
  OBVIOUS
<1>4. ASSUME NEW q, q = <<h>>
      PROVE  /\ Added(q, 1, w) = <<h>> \o <<w>>
             /\ Added(q, 0, w) = IF h = w THEN <<h + 1>> ELSE <<h>> \o <<w>>
  <2>1. /\ Len(q) = 1 /\ q[1] = h /\ Append(q, w) = <<h>> \o <<w>>
        /\ h = w => [q EXCEPT ![1] = w + 1] = <<h + 1>>
    BY <1>1, <1>2, <1>3, <1>4, Zenon
  <2>2. ~(1 < 1) /\ 0 < 1
    OBVIOUS
  <2>3. Added(q, 1, w) = Append(q, w)
    BY <2>1, <2>2, Zenon DEF Added
  <2>4. Added(q, 0, w) = IF h = w THEN [q EXCEPT ![1] = w + 1] ELSE Append(q, w)
    BY <2>1, <2>2, Zenon DEF Added
  <2>5. QED
    BY <2>1, <2>3, <2>4, Zenon
<1>5. QED
  BY <1>1, <1>2, <1>4

\* What a tile more behind two others, or behind none, comes to.
LEMMA MergedMore ==
  ASSUME NEW s \in Seq(Nat), NEW v \in Nat, NEW w \in Nat
  PROVE  LET one == MergedFrom(s)
             two == MergedFrom(Append(s, v))
             all == MergedFrom(Append(Append(s, v), w))
         IN  \A i \in 1..Len(s) + 1 : all[i] = Added(two[i], Len(one[i]), w)
<1> DEFINE L == Len(s)
           sv == Append(s, v)
           svw == Append(sv, w)
           one == MergedFrom(s)
           two == MergedFrom(sv)
           all == MergedFrom(svw)
           Right(i) == all[i] = Added(two[i], Len(one[i]), w)
           Bad == {i \in 1..L + 1 : ~Right(i)}
<1>1. /\ L \in Nat /\ \A i \in 1..L : s[i] \in Nat
      /\ sv \in Seq(Nat) /\ Len(sv) = L + 1 /\ sv[L + 1] = v /\ \A i \in 1..L : sv[i] = s[i]
  BY LenProperties, ElementOfSeq, AppendProperties
<1>2. /\ svw \in Seq(Nat) /\ Len(svw) = L + 2 /\ svw[L + 2] = w /\ svw[L + 1] = v
      /\ \A i \in 1..L : svw[i] = s[i]
  <2> HIDE DEF sv
  <2>1. /\ svw \in Seq(Nat) /\ Len(svw) = Len(sv) + 1 /\ svw[Len(sv) + 1] = w
        /\ \A i \in 1..Len(sv) : svw[i] = sv[i]
    BY <1>1, AppendProperties
  <2>2. Len(sv) + 1 = L + 2 /\ L + 1 \in 1..Len(sv) /\ \A i \in 1..L : i \in 1..Len(sv)
    BY <1>1
  <2>3. QED
    BY <1>1, <2>1, <2>2
<1> HIDE DEF sv, svw
<1>3. /\ one[L + 1] = <<>>
      /\ L # 0 => one[L] = <<s[L]>> \o one[L + 1]
      /\ \A i \in 1..L : i # L =>
           one[i] = IF s[i] = s[i + 1] THEN <<s[i] + 1>> \o one[i + 2] ELSE <<s[i]>> \o one[i + 1]
  BY <1>1, MergeCases
<1>11. /\ two[L + 2] = <<>>
       /\ two[L + 1] = <<v>> \o two[L + 2]
       /\ \A i \in 1..L + 1 : i # L + 1 =>
            two[i] = IF sv[i] = sv[i + 1] THEN <<sv[i] + 1>> \o two[i + 2]
                                          ELSE <<sv[i]>> \o two[i + 1]
  <2>1. L + 1 \in Nat /\ L + 1 # 0 /\ (L + 1) + 1 = L + 2
    BY <1>1
  <2>2. /\ two[(L + 1) + 1] = <<>>
        /\ L + 1 # 0 => two[L + 1] = <<sv[L + 1]>> \o two[(L + 1) + 1]
        /\ \A i \in 1..L + 1 : i # L + 1 =>
             two[i] = IF sv[i] = sv[i + 1] THEN <<sv[i] + 1>> \o two[i + 2]
                                           ELSE <<sv[i]>> \o two[i + 1]
    BY <1>1, <2>1, MergeCases
  <2> HIDE DEF two
  <2>3. QED
    BY <1>1, <2>1, <2>2
<1>12. /\ all[L + 3] = <<>>
       /\ all[L + 2] = <<w>> \o all[L + 3]
       /\ \A i \in 1..L + 2 : i # L + 2 =>
            all[i] = IF svw[i] = svw[i + 1] THEN <<svw[i] + 1>> \o all[i + 2]
                                            ELSE <<svw[i]>> \o all[i + 1]
  <2>1. L + 2 \in Nat /\ L + 2 # 0 /\ (L + 2) + 1 = L + 3
    BY <1>1
  <2>2. /\ all[(L + 2) + 1] = <<>>
        /\ L + 2 # 0 => all[L + 2] = <<svw[L + 2]>> \o all[(L + 2) + 1]
        /\ \A i \in 1..L + 2 : i # L + 2 =>
             all[i] = IF svw[i] = svw[i + 1] THEN <<svw[i] + 1>> \o all[i + 2]
                                             ELSE <<svw[i]>> \o all[i + 1]
    BY <1>2, <2>1, MergeCases
  <2> HIDE DEF all
  <2>3. QED
    BY <1>2, <2>1, <2>2
<1>4. /\ \A i \in 1..L + 1 : one[i] \in Seq(Nat)
      /\ \A i \in 1..L + 1 : two[i] \in Seq(Nat) /\ two[i] # <<>>
  <2>1. \A i \in 1..L + 1 : one[i] \in Seq(Nat)
    BY MergedSeq
  <2>2. \A i \in 1..Len(sv) + 1 : two[i] \in Seq(Nat) /\ (i <= Len(sv) => two[i] # <<>>)
    BY <1>1, MergedSeq
  <2>3. \A i \in 1..L + 1 : i \in 1..Len(sv) + 1 /\ i <= Len(sv)
    BY <1>1
  <2>4. QED
    BY <2>1, <2>2, <2>3
<1> HIDE DEF one, two, all
\* Behind the end of s.
<1>6. two[L + 1] = <<v>> /\ all[L + 2] = <<w>>
  BY <1>11, <1>12, OneTile
<1>7. Right(L + 1)
  <2>1. all[L + 1] = IF v = w THEN <<v + 1>> \o all[L + 3] ELSE <<v>> \o all[L + 2]
    <3>1. L + 1 \in 1..L + 2 /\ L + 1 # L + 2 /\ (L + 1) + 1 = L + 2 /\ (L + 1) + 2 = L + 3
      BY <1>1
    <3>2. all[L + 1] = IF svw[L + 1] = svw[(L + 1) + 1] THEN <<svw[L + 1] + 1>> \o all[(L + 1) + 2]
                                                      ELSE <<svw[L + 1]>> \o all[(L + 1) + 1]
      BY <1>12, <3>1
    <3>3. QED
      BY <1>2, <3>1, <3>2
  <2>2. all[L + 1] = IF v = w THEN <<v + 1>> ELSE <<v>> \o <<w>>
    BY <1>6, <1>12, <2>1, OneTile
  <2>3. Len(one[L + 1]) = 0
    BY <1>3, EmptySeq
  <2>4. Added(two[L + 1], 0, w) = IF v = w THEN <<v + 1>> ELSE <<v>> \o <<w>>
    BY <1>6, OneTile, Zenon
  <2>5. QED
    BY <2>2, <2>3, <2>4, Zenon
\* At its last tile.
<1>8. ASSUME L # 0 PROVE Right(L)
  <2> DEFINE a == s[L]
  <2>1. a \in Nat /\ a + 1 \in Nat /\ L \in 1..L
    BY <1>1, <1>8
  <2>2. /\ one[L] = <<a>> \o one[L + 1]
        /\ two[L] = IF a = v THEN <<a + 1>> \o two[L + 2] ELSE <<a>> \o two[L + 1]
        /\ all[L] = IF a = v THEN <<a + 1>> \o all[L + 2] ELSE <<a>> \o all[L + 1]
    <3>1. /\ L \in 1..L + 1 /\ L # L + 1 /\ L \in 1..L + 2 /\ L # L + 2
          /\ L + 1 \in 1..L + 1
      BY <1>1, <2>1
    <3>2. sv[L] = a /\ svw[L] = a /\ sv[L + 1] = v /\ svw[L + 1] = v
      BY <1>1, <1>2, <2>1
    <3>3. two[L] = IF a = v THEN <<a + 1>> \o two[L + 2] ELSE <<a>> \o two[L + 1]
      BY <1>11, <3>1, <3>2
    <3>4. all[L] = IF a = v THEN <<a + 1>> \o all[L + 2] ELSE <<a>> \o all[L + 1]
      BY <1>12, <3>1, <3>2
    <3>5. QED
      BY <1>3, <1>8, <3>3, <3>4
  <2> HIDE DEF a
  <2>3. one[L] = <<a>> /\ Len(one[L]) = 1
    BY <1>3, <2>1, <2>2, OneTile
  <2>4. CASE a = v
    <3>1. two[L] = <<a + 1>> /\ Len(two[L]) = 1 /\ all[L] = <<a + 1>> \o <<w>>
      BY <1>6, <1>11, <2>1, <2>2, <2>4, OneTile
    <3>2. Added(two[L], 1, w) = <<a + 1>> \o <<w>>
      BY <2>1, <3>1, OneTile
    <3>3. QED
      BY <2>3, <3>1, <3>2
  <2>5. CASE a # v
    <3>1. /\ two[L + 1] \in Seq(Nat) /\ two[L + 1] # <<>> /\ Len(one[L + 1]) = 0
      BY <1>3, <1>6, OneTile, EmptySeq
    <3>2. all[L + 1] = Added(two[L + 1], 0, w)
      BY <1>7, <3>1
    <3>3. Added(two[L], 0 + 1, w) = all[L]
      <4>1. two[L] = <<a>> \o two[L + 1] /\ all[L] = <<a>> \o all[L + 1]
        BY <2>2, <2>5
      <4>2. HasHead(two[L], a, two[L + 1])
        BY <2>1, <3>1, <4>1, Headed, Zenon
      <4>3. all[L + 1] \in Seq(Nat) /\ 0 \in Nat
        BY <3>1, <3>2, AddedIs
      <4>4. HasHead(all[L], a, Added(two[L + 1], 0, w))
        BY <2>1, <3>2, <4>1, <4>3, Headed, Zenon
      <4>5. QED
        BY <2>1, <3>1, <4>2, <4>3, <4>4, HeadAdded, Zenon
    <3>4. 0 + 1 = 1
      OBVIOUS
    <3>5. QED
      BY <2>2, <2>3, <2>5, <3>2, <3>3, <3>4
  <2>6. QED
    BY <2>4, <2>5
\* Before it, what goes first is the same for all three.
<1>9. ASSUME Bad # {} PROVE FALSE
  <2>1. PICK k \in Bad : \A i \in Bad : i <= k
    <3>1. Bad \in SUBSET (0..L + 1) /\ L + 1 \in Nat
      BY <1>1
    <3> HIDE DEF Bad
    <3>2. QED
      BY <1>9, <3>1, Greatest
  <2>2. k \in 1..L + 1 /\ k \in Int /\ ~Right(k)
    BY <2>1
  <2>3. ASSUME NEW i \in 1..L + 1, i > k PROVE Right(i)
    <3>1. i \notin Bad
      <4> HIDE DEF Bad
      <4>1. QED
        BY <2>1, <2>2, <2>3
    <3>2. QED
      BY <3>1
  <2> HIDE DEF Bad
  <2>4. k \in 1..L - 1
    <3> HIDE DEF Right
    <3>1. k # L + 1 /\ k # L
      BY <1>1, <1>7, <1>8, <2>2
    <3>2. QED
      BY <1>1, <2>2, <3>1
  <2>5. PICK h \in Nat, j \in {k + 1, k + 2} :
          /\ one[k] = <<h>> \o one[j]
          /\ two[k] = <<h>> \o two[j]
          /\ all[k] = <<h>> \o all[j]
    <3>1. /\ k \in 1..L + 1 /\ k \in 1..L + 2 /\ k \in 1..L /\ k + 1 \in 1..L
          /\ k # L /\ k # L + 1 /\ k # L + 2
      BY <1>1, <2>4
    <3>2. /\ s[k] \in Nat /\ s[k] + 1 \in Nat
          /\ sv[k] = s[k] /\ svw[k] = s[k] /\ sv[k + 1] = s[k + 1] /\ svw[k + 1] = s[k + 1]
      <4>1. s[k] \in Nat /\ s[k] + 1 \in Nat
        BY <1>1, <3>1
      <4>2. sv[k] = s[k] /\ sv[k + 1] = s[k + 1]
        BY <1>1, <3>1
      <4>3. svw[k] = s[k] /\ svw[k + 1] = s[k + 1]
        BY <1>2, <3>1
      <4>4. QED
        BY <4>1, <4>2, <4>3
    <3>3. one[k] = IF s[k] = s[k + 1] THEN <<s[k] + 1>> \o one[k + 2] ELSE <<s[k]>> \o one[k + 1]
      BY <1>3, <3>1
    <3>4. two[k] = IF s[k] = s[k + 1] THEN <<s[k] + 1>> \o two[k + 2] ELSE <<s[k]>> \o two[k + 1]
      BY <1>11, <3>1, <3>2
    <3>5. all[k] = IF s[k] = s[k + 1] THEN <<s[k] + 1>> \o all[k + 2] ELSE <<s[k]>> \o all[k + 1]
      BY <1>12, <3>1, <3>2
    <3>6. CASE s[k] = s[k + 1]
      BY <3>2, <3>3, <3>4, <3>5, <3>6
    <3>7. CASE s[k] # s[k + 1]
      BY <3>2, <3>3, <3>4, <3>5, <3>7
    <3>8. QED
      BY <3>6, <3>7
  <2>6. j \in 1..L + 1 /\ j > k
    <3>1. j = k + 1 \/ j = k + 2
      BY <2>5
    <3>2. QED
      BY <1>1, <2>4, <3>1
  <2>7. Right(j)
    BY <2>3, <2>6
  <2>8. /\ one[j] \in Seq(Nat) /\ two[j] \in Seq(Nat) /\ two[j] # <<>>
        /\ Len(one[j]) \in Nat /\ Len(two[j]) \in Nat
    BY <1>4, <2>6, LenProperties
  <2>9. Len(one[k]) = Len(one[j]) + 1 /\ Len(two[k]) = Len(two[j]) + 1
    BY <2>5, <2>8, Headed DEF HasHead
  <2>10. all[j] = Added(two[j], Len(one[j]), w)
    BY <2>7
  <2>11. Added(two[k], Len(one[j]) + 1, w) = all[k]
    <3>1. h \in Nat /\ HasHead(two[k], h, two[j])
      BY <2>5, <2>8, Headed, Zenon
    <3>2. all[j] \in Seq(Nat)
      <4>1. \A m \in Seq(Nat), n \in Nat : Added(m, n, w) \in Seq(Nat)
        BY AddedIs
      <4>2. QED
        BY <2>8, <2>10, <4>1, Zenon
    <3>3. HasHead(all[k], h, Added(two[j], Len(one[j]), w))
      BY <2>5, <2>10, <3>2, Headed, Zenon
    <3>4. QED
      BY <2>8, <3>1, <3>3, HeadAdded, Zenon
  <2>12. QED
    BY <2>2, <2>9, <2>11
<1>10. \A i \in 1..L + 1 : Right(i)
  BY <1>9
<1>13. QED
  BY <1>10 DEF one, two, all, sv, svw

-----------------------------------------------------------------------------
(* Where a tile goes *)

\* What the tiles t become.
Whole(t) == MergedFrom(t)[1]

\* The line A after the first x cells of a: the tiles m that the tiles among
\* them have become, the gap they left, and the cells of a behind.
Halfway(a, x, A, m) ==
  /\ A \in [Positions -> Nat] /\ m \in Seq(Nat) /\ Len(m) <= x
  /\ \A i \in 1..Len(m) : m[i] # 0
  /\ \A i \in Positions : i < Len(m) => A[i] = m[i + 1]
  /\ \A i \in Positions : Len(m) <= i /\ i < x => A[i] = 0
  /\ \A i \in Positions : x <= i => A[i] = a[i]

\* The greatest element is the one that Max chooses.
LEMMA MaxIs ==
  ASSUME NEW S \in SUBSET Int, NEW k \in S, \A i \in S : i <= k
  PROVE  Max(S) = k
<1>1. Max(S) \in S /\ \A y \in S : Max(S) >= y
  <2>1. k \in S /\ \A y \in S : k >= y
    OBVIOUS
  <2>2. QED
    BY <2>1, Zenon DEF Max
<1>2. Max(S) >= k /\ Max(S) <= k /\ Max(S) \in Int
  BY <1>1
<1>3. QED
  BY <1>2

\* Where find_target sends the tile at x.
LEMMA TargetIs ==
  ASSUME NEW a \in [Positions -> Nat], NEW x \in Positions, NEW A, NEW m,
         NEW stop \in Nat, Halfway(a, x, A, m), stop <= Len(m), stop # 0 => Len(m) < x,
         a[x] # 0
  PROVE  find_target(A, x, stop)
           = IF stop < Len(m) /\ m[Len(m)] = a[x] THEN Len(m) - 1 ELSE Len(m)
<1> DEFINE L == Len(m)
           ends == {t \in 0..x - 1 : A[t] # 0 \/ t = stop}
           end == Max(ends)
<1>1. L \in Nat /\ L <= x /\ x \in Nat /\ x < SIZE /\ SIZE \in Nat
  BY LenProperties, SizeAssumption DEF Halfway, Positions
<1>2. /\ A \in [Positions -> Nat] /\ \A i \in 1..L : m[i] # 0 /\ m[i] \in Nat
      /\ \A i \in Positions : i < L => A[i] = m[i + 1]
      /\ \A i \in Positions : L <= i /\ i < x => A[i] = 0
      /\ A[x] = a[x]
  BY ElementOfSeq, <1>1 DEF Halfway
<1>3. \A i \in 0..x - 1 : i \in Positions
  BY <1>1 DEF Positions
<1>4. find_target(A, x, stop)
        = IF x = 0 THEN 0 ELSE IF A[end] = 0 \/ A[end] = A[x] THEN end ELSE end + 1
  BY DEF find_target
<1>5. ends \in SUBSET Int
  OBVIOUS
<1>6. \A i \in ends : i \in 0..x - 1 /\ (A[i] # 0 \/ i = stop)
  OBVIOUS
<1>7. \A i \in 0..x - 1 : A[i] # 0 \/ i = stop => i \in ends
  OBVIOUS
<1> HIDE DEF ends, L
<1>8. CASE x = 0
  <2>1. L = 0
    BY <1>1, <1>8
  <2>2. QED
    BY <1>4, <1>8, <2>1 DEF L
<1>9. CASE x # 0 /\ stop = L
  <2>1. L < x
    <3>1. L = 0 \/ L # 0
      OBVIOUS
    <3>2. QED
      BY <1>1, <1>9, <3>1 DEF L
  <2>2. L \in 0..x - 1 /\ L \in ends /\ A[L] = 0
    <3>1. L \in 0..x - 1
      BY <1>1, <2>1
    <3>2. QED
      BY <1>1, <1>2, <1>3, <1>7, <1>9, <2>1, <3>1
  <2>3. ASSUME NEW i \in ends PROVE i <= L
    <3>1. i \in 0..x - 1 /\ (A[i] # 0 \/ i = L)
      BY <1>6, <1>9
    <3>2. ~(L <= i /\ i < x) \/ i = L
      BY <1>2, <1>3, <3>1
    <3>3. QED
      BY <1>1, <3>1, <3>2
  <2>4. end = L
    BY <1>5, <2>2, <2>3, MaxIs
  <2> HIDE DEF end
  <2>5. ~(stop < L)
    BY <1>1, <1>9
  <2>6. QED
    BY <1>4, <1>9, <2>2, <2>4, <2>5 DEF L
<1>10. CASE x # 0 /\ stop # L
  <2>1. stop < L /\ L - 1 \in 0..x - 1 /\ L \in 1..L
    BY <1>1, <1>10 DEF L
  <2>2. A[L - 1] = m[L] /\ m[L] # 0
    <3>1. L - 1 \in Positions /\ L - 1 < L /\ (L - 1) + 1 = L
      BY <1>1, <1>3, <2>1
    <3>2. QED
      BY <1>2, <2>1, <3>1
  <2>3. L - 1 \in ends
    BY <1>7, <2>1, <2>2
  <2>4. ASSUME NEW i \in ends PROVE i <= L - 1
    <3>1. i \in 0..x - 1 /\ (A[i] # 0 \/ i = stop)
      BY <1>6
    <3>2. ~(L <= i /\ i < x) \/ i = stop
      BY <1>2, <1>3, <3>1
    <3>3. QED
      BY <1>1, <2>1, <3>1, <3>2
  <2>5. end = L - 1
    BY <1>5, <2>3, <2>4, MaxIs
  <2> HIDE DEF end
  <2>6. (L - 1) + 1 = L
    BY <1>1
  <2>7. QED
    BY <1>2, <1>4, <1>10, <2>1, <2>2, <2>5, <2>6 DEF L
<1>11. QED
  BY <1>8, <1>9, <1>10

-----------------------------------------------------------------------------
(* What it brings *)

\* What a tile of exponent e has brought when it was merged.
WorthOf(e) == IF e = 0 THEN 0 ELSE (e - 1) * 2^e

\* A tile comes from x to t and leaves p there.
Shifted(A, B, t, p, x) ==
  /\ A \in [Positions -> Nat] /\ B \in [Positions -> Nat]
  /\ t \in Positions /\ x \in Positions /\ p \in Nat
  /\ B[t] = p /\ (t # x => B[x] = 0)
  /\ \A i \in Positions : i # t /\ i # x => B[i] = A[i]

\* What a tile has brought is a number.
LEMMA WorthOfType == ASSUME NEW e \in Nat PROVE WorthOf(e) \in Int
<1> DEFINE q == 2^e
<1>1. q \in Nat
  BY Powers
<1> HIDE DEF q
<1>2. (e - 1) * q \in Int
  BY <1>1
<1>3. QED
  BY <1>2 DEF q, WorthOf

\* What a line has brought, when a tile goes from x to t.
LEMMA WorthChanges ==
  ASSUME NEW A, NEW B, NEW t, NEW p, NEW x, t # x, Shifted(A, B, t, p, x)
  PROVE  /\ Worth(A) \in Int /\ Worth(B) \in Int
         /\ WorthOf(A[t]) \in Int /\ WorthOf(A[x]) \in Int /\ WorthOf(p) \in Int
         /\ Worth(B) = Worth(A) + WorthOf(p) - WorthOf(A[t]) - WorthOf(A[x])
<1> DEFINE C == [A EXCEPT ![t] = p]
           f(D) == [i \in Positions |-> WorthOf(D[i])]
<1>1. /\ A \in [Positions -> Nat] /\ B \in [Positions -> Nat] /\ p \in Nat
      /\ t \in Positions /\ x \in Positions /\ B[t] = p /\ B[x] = 0
      /\ \A i \in Positions : i # t /\ i # x => B[i] = A[i]
  BY DEF Shifted
<1>2. /\ C \in [Positions -> Nat] /\ C[t] = p
      /\ \A i \in Positions : i # t => C[i] = A[i]
      /\ \A i \in Positions : i # x => C[i] = B[i]
      /\ C[x] = A[x]
  BY <1>1
<1>3. \A e \in Nat : WorthOf(e) \in Int
  BY WorthOfType
<1>4. ASSUME NEW D \in [Positions -> Nat]
      PROVE  f(D) \in [Positions -> Int] /\ Worth(D) = LineSum(f(D))
  <2>1. f(D) = [i \in Positions |-> IF D[i] = 0 THEN 0 ELSE (D[i] - 1) * 2^D[i]]
    BY DEF WorthOf
  <2>2. QED
    BY <1>3, <2>1, Zenon DEF Worth
<1> HIDE DEF C
<1>5. Worth(A) \in Int /\ Worth(C) = Worth(A) + WorthOf(p) - WorthOf(A[t])
  <2> DEFINE g == f(A)
             h == f(C)
  <2>1. /\ g \in [Positions -> Int] /\ h \in [Positions -> Int]
        /\ Worth(A) = LineSum(g) /\ Worth(C) = LineSum(h)
    BY <1>1, <1>2, <1>4
  <2>2. g[t] = WorthOf(A[t]) /\ h[t] = WorthOf(p) /\ \A i \in Positions : i # t => g[i] = h[i]
    BY <1>1, <1>2
  <2> HIDE DEF g, h
  <2>3. LineSum(g) \in Int /\ LineSum(h) = LineSum(g) + h[t] - g[t]
    BY <1>1, <2>1, <2>2, SumChanges
  <2>4. QED
    BY <2>1, <2>2, <2>3
<1>6. Worth(B) = Worth(C) + WorthOf(0) - WorthOf(A[x])
  <2> DEFINE g == f(C)
             h == f(B)
  <2>1. /\ g \in [Positions -> Int] /\ h \in [Positions -> Int]
        /\ Worth(C) = LineSum(g) /\ Worth(B) = LineSum(h)
    BY <1>1, <1>2, <1>4
  <2>2. g[x] = WorthOf(A[x]) /\ h[x] = WorthOf(0) /\ \A i \in Positions : i # x => g[i] = h[i]
    BY <1>1, <1>2
  <2> HIDE DEF g, h
  <2>3. LineSum(g) \in Int /\ LineSum(h) = LineSum(g) + h[x] - g[x]
    BY <1>1, <2>1, <2>2, SumChanges
  <2>4. QED
    BY <2>1, <2>2, <2>3
<1>7. WorthOf(A[t]) \in Int /\ WorthOf(A[x]) \in Int /\ WorthOf(p) \in Int /\ WorthOf(0) = 0
  BY <1>1, <1>3 DEF WorthOf
<1>8. QED
  <2>1. Worth(B) = Worth(A) + WorthOf(p) - WorthOf(A[t]) - WorthOf(A[x])
    <3> HIDE DEF f
    <3>1. QED
      BY <1>5, <1>6, <1>7
  <2>2. Worth(B) \in Int
    <3> HIDE DEF f
    <3>1. QED
      BY <1>5, <1>7, <2>1
  <2>3. QED
    BY <1>5, <1>7, <2>1, <2>2

\* What a line has brought is a number.
LEMMA WorthType == ASSUME NEW A \in [Positions -> Nat] PROVE Worth(A) \in Int
<1>1. /\ 0 \in Positions /\ 1 \in Positions /\ 0 # 1 /\ 0 \in Nat
  BY PositionsAre
<1> DEFINE B == [A EXCEPT ![0] = 0, ![1] = 0]
<1>2. Shifted(A, B, 0, 0, 1)
  BY <1>1 DEF Shifted
<1> HIDE DEF B
<1>3. QED
  BY <1>1, <1>2, WorthChanges

\* What two tiles of exponent v bring when they merge.
LEMMA MergeWorth ==
  ASSUME NEW v \in Nat, v # 0
  PROVE  2^(v + 1) \in Int /\ WorthOf(v + 1) - WorthOf(v) - WorthOf(v) = 2^(v + 1)
<1>1. 2^v \in Nat /\ 2^(v + 1) = 2 * 2^v
  BY Powers
<1> DEFINE p == 2^v
           q == 2^(v + 1)
<1>2. WorthOf(v + 1) = v * q /\ WorthOf(v) = (v - 1) * p
  <2>1. v + 1 # 0 /\ (v + 1) - 1 = v
    OBVIOUS
  <2>2. QED
    BY <2>1 DEF WorthOf
<1>3. p \in Nat /\ q = 2 * p
  BY <1>1
<1> HIDE DEF p, q
<1>4. v * (2 * p) - (v - 1) * p - (v - 1) * p = 2 * p /\ q \in Int
  <2>1. v * (2 * p) = 2 * (v * p) /\ (v - 1) * p = v * p - p /\ v * p \in Int
    BY <1>3
  <2>2. QED
    BY <1>3, <2>1
<1>5. QED
  BY <1>2, <1>3, <1>4 DEF q

-----------------------------------------------------------------------------
(* The loop *)

\* The tile at x merges with the last one, moves behind it, or is there.
LEMMA HalfwayMerge ==
  ASSUME NEW a \in [Positions -> Nat], NEW x \in Positions, NEW A, NEW B, NEW m,
         NEW n \in Nat, NEW v \in Nat, Halfway(a, x, A, m), v = a[x],
         n < Len(m) /\ m[Len(m)] = v, Shifted(A, B, Len(m) - 1, v + 1, x)
  PROVE  Halfway(a, x + 1, B, Added(m, n, v)) /\ Len(Added(m, n, v)) = Len(m)
<1> DEFINE L == Len(m)
           r == Added(m, n, v)
<1>1. L \in Nat /\ L <= x /\ x \in Nat /\ x < SIZE /\ SIZE \in Nat /\ L # 0 /\ m \in Seq(Nat)
  BY LenProperties, SizeAssumption DEF Halfway, Positions
<1>2. /\ A \in [Positions -> Nat] /\ \A i \in 1..L : m[i] # 0
      /\ \A i \in Positions : i < L => A[i] = m[i + 1]
      /\ \A i \in Positions : L <= i /\ i < x => A[i] = 0
      /\ \A i \in Positions : x <= i => A[i] = a[i]
  BY DEF Halfway
<1>3. r \in Seq(Nat) /\ Len(r) = L /\ r[L] = v + 1 /\ \A i \in 1..L : i # L => r[i] = m[i]
  BY <1>1, AddedIs
<1> HIDE DEF r
<1>4. L - 1 \in Positions /\ L - 1 # x /\ L \in 1..L /\ (L - 1) + 1 = L
  BY <1>1 DEF Positions
<1>5. /\ B \in [Positions -> Nat] /\ B[L - 1] = v + 1 /\ B[x] = 0
      /\ \A i \in Positions : i # L - 1 /\ i # x => B[i] = A[i]
  BY <1>4 DEF Shifted
<1> HIDE DEF L
<1>6. ASSUME NEW i \in 1..L PROVE r[i] # 0
  BY <1>2, <1>3
<1>7. ASSUME NEW i \in Positions, i < L PROVE B[i] = r[i + 1]
  <2>1. i \in Nat /\ i + 1 \in 1..L
    BY <1>1, <1>7 DEF Positions
  <2>2. CASE i = L - 1
    BY <1>3, <1>4, <1>5, <2>2
  <2>3. CASE i # L - 1
    <3>1. i + 1 # L /\ i # x
      BY <1>1, <1>7, <2>1, <2>3
    <3>2. B[i] = A[i] /\ A[i] = m[i + 1] /\ r[i + 1] = m[i + 1]
      BY <1>2, <1>3, <1>5, <1>7, <2>1, <2>3, <3>1
    <3>3. QED
      BY <3>2
  <2>4. QED
    BY <2>2, <2>3
<1>8. ASSUME NEW i \in Positions, L <= i, i < x + 1 PROVE B[i] = 0
  <2>1. i \in Nat /\ i # L - 1
    BY <1>1, <1>8 DEF Positions
  <2>2. CASE i = x
    BY <1>5, <2>2
  <2>3. CASE i # x
    <3>1. i < x
      BY <1>1, <1>8, <2>1, <2>3
    <3>2. QED
      BY <1>2, <1>5, <1>8, <2>1, <2>3, <3>1
  <2>4. QED
    BY <2>2, <2>3
<1>9. ASSUME NEW i \in Positions, x + 1 <= i PROVE B[i] = a[i]
  <2>1. i \in Nat /\ i # L - 1 /\ i # x /\ x <= i
    BY <1>1, <1>9 DEF Positions
  <2>2. QED
    BY <1>2, <1>5, <2>1
<1>10. L <= x + 1
  BY <1>1
<1>11. QED
  <2>1. Halfway(a, x + 1, B, r)
    BY <1>3, <1>5, <1>6, <1>7, <1>8, <1>9, <1>10 DEF Halfway
  <2>2. QED
    BY <1>3, <2>1 DEF L, r

LEMMA HalfwayMove ==
  ASSUME NEW a \in [Positions -> Nat], NEW x \in Positions, NEW A, NEW B, NEW m,
         NEW n \in Nat, NEW v \in Nat, Halfway(a, x, A, m), v = a[x], v # 0,
         ~(n < Len(m) /\ m[Len(m)] = v), Shifted(A, B, Len(m), v, x)
  PROVE  Halfway(a, x + 1, B, Added(m, n, v)) /\ Len(Added(m, n, v)) = Len(m) + 1
<1> DEFINE L == Len(m)
           r == Added(m, n, v)
<1>1. L \in Nat /\ L <= x /\ x \in Nat /\ x < SIZE /\ SIZE \in Nat /\ m \in Seq(Nat)
  BY LenProperties, SizeAssumption DEF Halfway, Positions
<1>2. /\ A \in [Positions -> Nat] /\ \A i \in 1..L : m[i] # 0
      /\ \A i \in Positions : i < L => A[i] = m[i + 1]
      /\ \A i \in Positions : L <= i /\ i < x => A[i] = 0
      /\ \A i \in Positions : x <= i => A[i] = a[i]
  BY DEF Halfway
<1>3. r \in Seq(Nat) /\ Len(r) = L + 1 /\ r[L + 1] = v /\ \A i \in 1..L : r[i] = m[i]
  BY <1>1, AddedIs
<1> HIDE DEF r
<1>4. L \in Positions
  BY <1>1 DEF Positions
<1>5. /\ B \in [Positions -> Nat] /\ B[L] = v /\ (L # x => B[x] = 0)
      /\ \A i \in Positions : i # L /\ i # x => B[i] = A[i]
  BY <1>4 DEF Shifted
<1> HIDE DEF L
<1>6. ASSUME NEW i \in 1..L + 1 PROVE r[i] # 0
  BY <1>1, <1>2, <1>3
<1>7. ASSUME NEW i \in Positions, i < L + 1 PROVE B[i] = r[i + 1]
  <2>1. i \in Nat /\ i + 1 \in 1..L + 1
    BY <1>1, <1>7 DEF Positions
  <2>2. CASE i = L
    BY <1>3, <1>5, <2>2
  <2>3. CASE i # L
    <3>1. i + 1 \in 1..L /\ i # x /\ i < L
      BY <1>1, <1>7, <2>1, <2>3
    <3>2. B[i] = A[i] /\ A[i] = m[i + 1] /\ r[i + 1] = m[i + 1]
      BY <1>2, <1>3, <1>5, <2>3, <3>1
    <3>3. QED
      BY <3>2
  <2>4. QED
    BY <2>2, <2>3
<1>8. ASSUME NEW i \in Positions, L + 1 <= i, i < x + 1 PROVE B[i] = 0
  <2>1. i \in Nat /\ i # L /\ L <= i
    BY <1>1, <1>8 DEF Positions
  <2>2. CASE i = x
    BY <1>5, <2>1, <2>2
  <2>3. CASE i # x
    <3>1. i < x
      BY <1>1, <1>8, <2>1, <2>3
    <3>2. QED
      BY <1>2, <1>5, <2>1, <2>3, <3>1
  <2>4. QED
    BY <2>2, <2>3
<1>9. ASSUME NEW i \in Positions, x + 1 <= i PROVE B[i] = a[i]
  <2>1. i \in Nat /\ i # L /\ i # x /\ x <= i
    BY <1>1, <1>9 DEF Positions
  <2>2. QED
    BY <1>2, <1>5, <2>1
<1>10. L + 1 <= x + 1
  BY <1>1
<1>11. QED
  <2>1. Halfway(a, x + 1, B, r)
    BY <1>3, <1>5, <1>6, <1>7, <1>8, <1>9, <1>10 DEF Halfway
  <2>2. QED
    BY <1>3, <2>1 DEF L, r

\* What the loop of slide_array has done after x cells, whose tiles are t.
Going(a, x, s, t) ==
  LET m == Whole(t) IN
  /\ t \in Seq(Nat)
  /\ s \in [array : [Positions -> Nat], stop : Nat, score : Int, success : BOOLEAN]
  /\ Halfway(a, x, s.array, m)
  \* The last tile rests if stop is behind it, and then there is a gap.
  /\ s.stop <= Len(m) /\ (s.stop # 0 => Len(m) < x)
  /\ \A w \in Nat : Whole(Append(t, w)) = Added(m, s.stop, w)
  /\ IF s.success THEN \E i \in Positions : i < x /\ s.array[i] > a[i] ELSE s.array = a
  /\ s.score = Worth(s.array) - Worth(a)

\* An empty cell changes nothing.
LEMMA GoingSkips ==
  ASSUME NEW a \in [Positions -> Nat], NEW x \in Positions, NEW s, NEW t, Going(a, x, s, t),
         a[x] = 0
  PROVE  SlideStep(s, x) = s /\ Going(a, x + 1, s, t)
<1> DEFINE A == s.array
           m == Whole(t)
<1>1. /\ t \in Seq(Nat)
      /\ s \in [array : [Positions -> Nat], stop : Nat, score : Int, success : BOOLEAN]
      /\ Halfway(a, x, A, m)
      /\ s.stop <= Len(m) /\ (s.stop # 0 => Len(m) < x)
      /\ \A w \in Nat : Whole(Append(t, w)) = Added(m, s.stop, w)
      /\ IF s.success THEN \E i \in Positions : i < x /\ A[i] > a[i] ELSE A = a
      /\ s.score = Worth(A) - Worth(a)
  BY DEF Going
<1> HIDE DEF m
<1>2. /\ Len(m) \in Nat /\ x \in Nat /\ SIZE \in Nat /\ m \in Seq(Nat) /\ Len(m) <= x
      /\ \A i \in Positions : i \in Int
  BY <1>1, LenProperties, SizeAssumption DEF Halfway, Positions
<1>3. A[x] = 0
  BY <1>1, <1>2 DEF Halfway
<1>4. SlideStep(s, x) = s
  BY <1>3, Zenon DEF SlideStep
<1>5. Halfway(a, x + 1, A, m)
  <2>1. /\ A \in [Positions -> Nat] /\ \A i \in 1..Len(m) : m[i] # 0
        /\ \A i \in Positions : i < Len(m) => A[i] = m[i + 1]
        /\ \A i \in Positions : Len(m) <= i /\ i < x => A[i] = 0
        /\ \A i \in Positions : x <= i => A[i] = a[i]
    BY <1>1 DEF Halfway
  <2>2. \A i \in Positions : Len(m) <= i /\ i < x + 1 => A[i] = 0
    <3>1. \A i \in Positions : i < x + 1 => i < x \/ i = x
      BY <1>2
    <3>2. QED
      BY <1>3, <2>1, <3>1
  <2>3. \A i \in Positions : x + 1 <= i => A[i] = a[i]
    BY <1>2, <2>1
  <2>4. Len(m) <= x + 1
    BY <1>2
  <2>5. QED
    BY <1>2, <2>1, <2>2, <2>3, <2>4, Zenon DEF Halfway
<1>6. s.stop # 0 => Len(m) < x + 1
  BY <1>1, <1>2
<1>7. IF s.success THEN \E i \in Positions : i < x + 1 /\ A[i] > a[i] ELSE A = a
  BY <1>1, <1>2
<1>8. QED
  BY <1>1, <1>4, <1>5, <1>6, <1>7, Zenon DEF Going, m

\* Equal neighbours merge from the front, so a tile added behind meets the last
\* of those that the others became, unless this one has just been merged.
LEMMA WholeMore ==
  ASSUME NEW s \in Seq(Nat), NEW v \in Nat, NEW w \in Nat
  PROVE  Whole(Append(Append(s, v), w)) = Added(Whole(Append(s, v)), Len(Whole(s)), w)
<1>1. 1 \in 1..Len(s) + 1
  BY LenProperties
<1>2. QED
  BY <1>1, MergedMore, Zenon DEF Whole

\* A tile that find_target sends onto an equal one merges with it.
LEMMA GoingMerges ==
  ASSUME NEW a \in [Positions -> Nat], NEW x \in Positions, NEW s, NEW t, Going(a, x, s, t),
         a[x] # 0, s.stop < Len(Whole(t)), Whole(t)[Len(Whole(t))] = a[x]
  PROVE  Going(a, x + 1, SlideStep(s, x), Append(t, a[x]))
<1>0. PICK A, stop : A = s.array /\ stop = s.stop
  OBVIOUS
<1> DEFINE m == Whole(t)
           L == Len(m)
           v == a[x]
           more == Append(t, v)
           r == Whole(more)
           B == [A EXCEPT ![L - 1] = v + 1, ![x] = 0]
           d == SlideStep(s, x)
<1>1. /\ t \in Seq(Nat)
      /\ s \in [array : [Positions -> Nat], stop : Nat, score : Int, success : BOOLEAN]
      /\ Halfway(a, x, A, m)
      /\ stop <= L /\ (stop # 0 => L < x)
      /\ \A w \in Nat : Whole(Append(t, w)) = Added(m, stop, w)
      /\ IF s.success THEN \E i \in Positions : i < x /\ A[i] > a[i] ELSE A = a
      /\ s.score = Worth(A) - Worth(a)
  BY <1>0 DEF Going
<1>2. v \in Nat /\ v # 0 /\ stop < L /\ m[L] = v /\ stop \in Nat /\ v + 1 \in Nat
  BY <1>0, <1>1
<1>3. more \in Seq(Nat) /\ r = Added(m, stop, v)
  <2>1. more \in Seq(Nat)
    BY <1>1, <1>2, AppendProperties
  <2>2. QED
    BY <1>1, <1>2, <2>1
<1>4. \A w \in Nat : Whole(Append(more, w)) = Added(r, L, w)
  BY <1>1, <1>2, WholeMore, Zenon
<1>6. /\ L \in Nat /\ L # 0 /\ L <= x /\ x \in Nat /\ SIZE \in Nat /\ x < SIZE
      /\ \A i \in Positions : i \in Int
  <2>1. m \in Seq(Nat) /\ L <= x
    BY <1>1 DEF Halfway
  <2>2. L \in Nat
    BY <2>1, LenProperties
  <2>3. L # 0
    BY <1>2, <2>2
  <2>4. QED
    BY <2>1, <2>2, <2>3, SizeAssumption DEF Positions
<1>7. /\ A \in [Positions -> Nat] /\ L - 1 \in Positions /\ L - 1 # x /\ L - 1 < x
      /\ A[x] = v /\ A[L - 1] = v
  <2>1. /\ A \in [Positions -> Nat]
        /\ \A i \in Positions : i < L => A[i] = m[i + 1]
        /\ \A i \in Positions : x <= i => A[i] = a[i]
    BY <1>1 DEF Halfway
  <2> HIDE DEF L, m
  <2>2. L - 1 \in Positions /\ L - 1 # x /\ L - 1 < L /\ (L - 1) + 1 = L /\ x <= x /\ L - 1 < x
    BY <1>6 DEF Positions
  <2>3. QED
    BY <1>2, <2>1, <2>2
<1>5. Shifted(A, B, L - 1, v + 1, x)
  <2> HIDE DEF L, v
  <2>1. QED
    BY <1>2, <1>7 DEF Shifted
<1> HIDE DEF m, r, more, v, B, d
<1>16. Halfway(a, x + 1, B, r) /\ Len(r) = L
  <2>1. v = a[x] /\ stop < Len(m) /\ m[Len(m)] = v
    BY <1>2 DEF v
  <2>2. QED
    <3>1. Halfway(a, x + 1, B, Added(m, stop, v)) /\ Len(Added(m, stop, v)) = Len(m)
      <4>1. Shifted(A, B, Len(m) - 1, v + 1, x) /\ Halfway(a, x, A, m) /\ stop \in Nat /\ v \in Nat
        BY <1>1, <1>2, <1>5
      <4> HIDE DEF L
      <4>2. QED
        BY <4>1, <2>1, HalfwayMerge
    <3>2. QED
      BY <1>3, <3>1
<1>8. find_target(A, x, stop) = L - 1
  <2>1. a[x] # 0 /\ a[x] = v
    BY <1>2 DEF v
  <2>2. find_target(A, x, stop)
           = IF stop < Len(m) /\ m[Len(m)] = a[x] THEN Len(m) - 1 ELSE Len(m)
    <3>1. Halfway(a, x, A, m) /\ stop \in Nat /\ stop <= Len(m) /\ (stop # 0 => Len(m) < x)
      BY <1>1, <1>2
    <3>2. QED
      BY <2>1, <3>1, TargetIs
  <2>3. QED
    BY <1>2, <2>1, <2>2
<1>9. d = [array |-> B, stop |-> L, score |-> s.score + 2^(v + 1), success |-> TRUE]
  <2>1. d = [array |-> [A EXCEPT ![L - 1] = A[x] + 1, ![x] = 0], stop |-> (L - 1) + 1,
             score |-> s.score + 2^(A[x] + 1), success |-> TRUE]
    BY <1>0, <1>2, <1>7, <1>8, Zenon DEF SlideStep, d
  <2>2. (L - 1) + 1 = L
    BY <1>6
  <2>3. QED
    BY <1>7, <2>1, <2>2, Zenon DEF B
<1> HIDE DEF L
<1>10. /\ B \in [Positions -> Nat] /\ B[L - 1] = v + 1
       /\ \A i \in Positions : i # L - 1 /\ i # x => B[i] = A[i]
       /\ Worth(A) \in Int /\ WorthOf(v) \in Int /\ WorthOf(v + 1) \in Int
       /\ Worth(B) = Worth(A) + WorthOf(v + 1) - WorthOf(v) - WorthOf(v)
  <2>1. /\ B \in [Positions -> Nat] /\ B[L - 1] = v + 1
        /\ \A i \in Positions : i # L - 1 /\ i # x => B[i] = A[i]
    BY <1>5, <1>7 DEF Shifted
  <2>2. QED
    BY <1>5, <1>7, <2>1, WorthChanges
<1>11. \E i \in Positions : i < x + 1 /\ B[i] > a[i]
  <2>1. \A i \in Positions : A[i] \in Nat /\ a[i] \in Nat
    BY <1>7
  <2>2. CASE s.success
    <3>1. PICK i \in Positions : i < x /\ A[i] > a[i]
      BY <1>1, <2>2
    <3>2. CASE i = L - 1
      <4>1. B[i] > a[i] /\ i < x + 1
        BY <1>2, <1>6, <1>7, <1>10, <2>1, <3>1, <3>2
      <4>2. QED
        BY <4>1
    <3>3. CASE i # L - 1
      <4>1. B[i] = A[i]
        BY <1>6, <1>10, <3>1, <3>3
      <4>2. i < x + 1
        BY <1>6, <3>1
      <4>3. QED
        BY <3>1, <4>1, <4>2
    <3>4. QED
      BY <3>2, <3>3
  <2>3. CASE ~s.success
    <3>1. A = a
      BY <1>1, <2>3
    <3>2. B[L - 1] > a[L - 1] /\ L - 1 < x + 1
      BY <1>2, <1>6, <1>7, <1>10, <3>1
    <3>3. QED
      BY <1>7, <3>2
  <2>4. QED
    BY <2>2, <2>3
<1>12. s.score + 2^(v + 1) = Worth(B) - Worth(a) /\ s.score + 2^(v + 1) \in Int
  <2>1. 2^(v + 1) \in Int /\ WorthOf(v + 1) - WorthOf(v) - WorthOf(v) = 2^(v + 1)
    BY <1>2, MergeWorth
  <2>2. Worth(a) \in Int /\ s.score \in Int
    BY <1>1, WorthType
  <2> DEFINE e == 2^(v + 1)
  <2>3. e \in Int /\ WorthOf(v + 1) - WorthOf(v) - WorthOf(v) = e
    BY <2>1
  <2> HIDE DEF e
  <2>4. s.score + e = Worth(B) - Worth(a) /\ s.score + e \in Int
    <3>1. s.score = Worth(A) - Worth(a)
      BY <1>1
    <3>2. QED
      BY <1>10, <2>2, <2>3, <3>1
  <2>5. QED
    BY <2>4 DEF e
<1>13. d \in [array : [Positions -> Nat], stop : Nat, score : Int, success : BOOLEAN]
  BY <1>6, <1>9, <1>10, <1>12
<1>14. d.array = B /\ d.stop = L /\ d.score = s.score + 2^(v + 1) /\ d.success = TRUE
  BY <1>9, Zenon
<1>15. d.stop <= Len(r) /\ (d.stop # 0 => Len(r) < x + 1)
  BY <1>6, <1>14, <1>16
<1>17. Going(a, x + 1, d, more)
  BY <1>3, <1>4, <1>16, <1>11, <1>12, <1>13, <1>14, <1>15, Zenon DEF Going, r
<1>18. QED
  BY <1>17 DEF d, more, v

\* Any other tile goes behind the last one, or is there already.
LEMMA GoingMoves ==
  ASSUME NEW a \in [Positions -> Nat], NEW x \in Positions, NEW s, NEW t, Going(a, x, s, t),
         a[x] # 0, ~(s.stop < Len(Whole(t)) /\ Whole(t)[Len(Whole(t))] = a[x])
  PROVE  Going(a, x + 1, SlideStep(s, x), Append(t, a[x]))
<1>0. PICK A, stop : A = s.array /\ stop = s.stop
  OBVIOUS
<1> DEFINE m == Whole(t)
           L == Len(m)
           v == a[x]
           more == Append(t, v)
           r == Whole(more)
           B == IF L = x THEN A ELSE [A EXCEPT ![L] = v, ![x] = 0]
           d == SlideStep(s, x)
<1>1. /\ t \in Seq(Nat)
      /\ s \in [array : [Positions -> Nat], stop : Nat, score : Int, success : BOOLEAN]
      /\ Halfway(a, x, A, m)
      /\ stop <= L /\ (stop # 0 => L < x)
      /\ \A w \in Nat : Whole(Append(t, w)) = Added(m, stop, w)
      /\ IF s.success THEN \E i \in Positions : i < x /\ A[i] > a[i] ELSE A = a
      /\ s.score = Worth(A) - Worth(a)
  BY <1>0 DEF Going
<1>2. v \in Nat /\ v # 0 /\ ~(stop < L /\ m[L] = v) /\ stop \in Nat
  BY <1>0, <1>1
<1>3. more \in Seq(Nat) /\ r = Added(m, stop, v)
  <2>1. more \in Seq(Nat)
    BY <1>1, <1>2, AppendProperties
  <2>2. QED
    BY <1>1, <1>2, <2>1
<1>4. \A w \in Nat : Whole(Append(more, w)) = Added(r, L, w)
  BY <1>1, <1>2, WholeMore, Zenon
<1>5. /\ L \in Nat /\ L <= x /\ x \in Nat /\ SIZE \in Nat /\ x < SIZE
      /\ \A i \in Positions : i \in Int
  <2>1. m \in Seq(Nat) /\ L <= x
    BY <1>1 DEF Halfway
  <2>2. L \in Nat
    BY <2>1, LenProperties
  <2>3. QED
    BY <2>1, <2>2, SizeAssumption DEF Positions
<1>6. /\ A \in [Positions -> Nat] /\ L \in Positions /\ A[x] = v /\ (L # x => A[L] = 0)
      /\ \A i \in Positions : A[i] \in Nat /\ a[i] \in Nat
  <2>1. /\ A \in [Positions -> Nat]
        /\ \A i \in Positions : L <= i /\ i < x => A[i] = 0
        /\ \A i \in Positions : x <= i => A[i] = a[i]
    BY <1>1 DEF Halfway
  <2> HIDE DEF L, m
  <2>2. L \in Positions /\ L <= L /\ (L # x => L < x) /\ x <= x
    BY <1>5 DEF Positions
  <2>3. QED
    BY <2>1, <2>2
<1>7. Shifted(A, B, L, v, x)
  <2> HIDE DEF L, v
  <2>1. CASE L = x
    BY <1>2, <1>6, <2>1 DEF Shifted
  <2>2. CASE L # x
    BY <1>2, <1>6, <2>2 DEF Shifted
  <2>3. QED
    BY <2>1, <2>2
<1> HIDE DEF m, r, more, v, B, d
<1>8. Halfway(a, x + 1, B, r) /\ Len(r) = L + 1
  <2>1. v = a[x] /\ ~(stop < Len(m) /\ m[Len(m)] = v)
    BY <1>2 DEF v
  <2>2. Halfway(a, x + 1, B, Added(m, stop, v)) /\ Len(Added(m, stop, v)) = Len(m) + 1
    <3>1. Shifted(A, B, Len(m), v, x) /\ Halfway(a, x, A, m) /\ stop \in Nat /\ v \in Nat
      BY <1>1, <1>2, <1>7
    <3> HIDE DEF L
    <3>2. QED
      BY <1>2, <2>1, <3>1, HalfwayMove
  <2>3. QED
    BY <1>3, <2>2
<1>9. find_target(A, x, stop) = L
  <2>1. a[x] # 0 /\ a[x] = v
    BY <1>2 DEF v
  <2>2. find_target(A, x, stop)
           = IF stop < Len(m) /\ m[Len(m)] = a[x] THEN Len(m) - 1 ELSE Len(m)
    <3>1. Halfway(a, x, A, m) /\ stop \in Nat /\ stop <= Len(m) /\ (stop # 0 => Len(m) < x)
      BY <1>1, <1>2
    <3>2. QED
      BY <2>1, <3>1, TargetIs
  <2>3. QED
    BY <1>2, <2>1, <2>2
<1> HIDE DEF L
<1>10. /\ d.array = B /\ d.stop = stop /\ d.score = s.score
       /\ d.success = IF L = x THEN s.success ELSE TRUE
       /\ d \in [array : [Positions -> Nat], stop : Nat, score : Int, success : BOOLEAN]
  <2>1. B \in [Positions -> Nat]
    BY <1>7 DEF Shifted
  <2>2. CASE L = x
    <3>1. d = s
      BY <1>0, <1>9, <2>2, Zenon DEF SlideStep, d
    <3>2. QED
      BY <1>0, <1>1, <2>2, <3>1 DEF B
  <2>3. CASE L # x
    <3>1. d = [s EXCEPT !.array = [A EXCEPT ![L] = A[x], ![x] = 0], !.success = TRUE]
      BY <1>0, <1>2, <1>6, <1>9, <2>3, Zenon DEF SlideStep, d
    <3>2. [A EXCEPT ![L] = A[x], ![x] = 0] = B
      BY <1>6, <2>3, Zenon DEF B
    <3>3. d = [s EXCEPT !.array = B, !.success = TRUE]
      BY <3>1, <3>2, Zenon
    <3>4. QED
      BY <1>0, <1>1, <2>1, <2>3, <3>3
  <2>4. QED
    BY <2>2, <2>3
<1>11. IF d.success THEN \E i \in Positions : i < x + 1 /\ B[i] > a[i] ELSE B = a
  <2>1. CASE L = x
    <3>1. B = A /\ d.success = s.success
      BY <1>10, <2>1 DEF B
    <3>2. QED
      BY <1>1, <1>5, <3>1
  <2>2. CASE L # x
    <3>1. /\ B \in [Positions -> Nat] /\ B[L] = v
          /\ \A i \in Positions : i # L /\ i # x => B[i] = A[i]
      BY <1>7 DEF Shifted
    <3>2. d.success
      BY <1>10, <2>2
    <3>3. CASE s.success
      <4>1. PICK i \in Positions : i < x /\ A[i] > a[i]
        BY <1>1, <3>3
      <4>2. i # L /\ i # x /\ i < x + 1
        BY <1>5, <1>6, <2>2, <4>1
      <4>3. QED
        BY <3>1, <3>2, <4>1, <4>2
    <3>4. CASE ~s.success
      <4>1. A = a
        BY <1>1, <3>4
      <4>2. B[L] > a[L] /\ L < x + 1
        BY <1>2, <1>5, <1>6, <2>2, <3>1, <4>1
      <4>3. QED
        BY <1>6, <3>2, <4>2
    <3>5. QED
      BY <3>3, <3>4
  <2>3. QED
    BY <2>1, <2>2
<1>12. s.score = Worth(B) - Worth(a)
  <2>1. CASE L = x
    BY <1>1, <2>1 DEF B
  <2>2. CASE L # x
    <3>1. /\ Worth(A) \in Int /\ WorthOf(A[L]) \in Int /\ WorthOf(v) \in Int
          /\ Worth(B) = Worth(A) + WorthOf(v) - WorthOf(A[L]) - WorthOf(A[x])
      BY <1>7, <2>2, WorthChanges
    <3>2. WorthOf(A[L]) = 0 /\ A[x] = v
      BY <1>6, <2>2 DEF WorthOf
    <3>3. Worth(a) \in Int /\ s.score = Worth(A) - Worth(a)
      BY <1>1, WorthType
    <3>4. QED
      BY <3>1, <3>2, <3>3
  <2>3. QED
    BY <2>1, <2>2
\* The last tile does not rest, however stop tells it.
<1>13. \A w \in Nat : Added(r, L, w) = Added(r, stop, w)
  <2>1. L < Len(r) /\ stop < Len(r)
    BY <1>1, <1>2, <1>5, <1>8
  <2>2. QED
    BY <2>1, Zenon DEF Added
<1>14. \A w \in Nat : Whole(Append(more, w)) = Added(r, d.stop, w)
  BY <1>4, <1>10, <1>13
<1>15. d.stop <= Len(r) /\ (d.stop # 0 => Len(r) < x + 1)
  BY <1>1, <1>2, <1>5, <1>8, <1>10
<1>16. Going(a, x + 1, d, more)
  <2>1. d.score = Worth(d.array) - Worth(a)
    BY <1>10, <1>12
  <2>2. IF d.success THEN \E i \in Positions : i < x + 1 /\ d.array[i] > a[i] ELSE d.array = a
    BY <1>10, <1>11
  <2>3. Halfway(a, x + 1, d.array, r)
    BY <1>8, <1>10
  <2>4. QED
    BY <1>3, <1>10, <1>14, <1>15, <2>1, <2>2, <2>3, Zenon DEF Going, r
<1>17. QED
  BY <1>16 DEF d, more, v

\* Before the loop there are no tiles.
LEMMA GoingStarts ==
  ASSUME NEW a \in [Positions -> Nat] PROVE Going(a, 0, Start(a), <<>>)
<1> DEFINE none == <<>>
<1>1. none \in Seq(Nat) /\ Len(none) = 0 /\ Whole(none) = none
  <2>1. none \in Seq(Nat) /\ Len(none) = 0
    BY EmptySeq
  <2>2. MergedFrom(none)[0 + 1] = <<>>
    BY <2>1, MergeCases
  <2>3. QED
    BY <2>1, <2>2 DEF Whole
<1>2. ASSUME NEW w \in Nat PROVE Whole(Append(none, w)) = Added(none, 0, w)
  <2> DEFINE one == <<w>>
  <2>1. Append(none, w) = one /\ Len(one) = 1 /\ one[1] = w
    OBVIOUS
  <2>2. one \o <<>> = one
    BY OneTile
  <2> HIDE DEF one
  <2>3. /\ MergedFrom(one)[1 + 1] = <<>>
        /\ MergedFrom(one)[1] = <<one[1]>> \o MergedFrom(one)[1 + 1]
    <3>1. PICK L \in Nat : L = 1
      OBVIOUS
    <3>2. /\ MergedFrom(one)[L + 1] = <<>>
          /\ L # 0 => MergedFrom(one)[L] = <<one[L]>> \o MergedFrom(one)[L + 1]
      <4>1. Len(one) = L
        BY <2>1, <3>1
      <4>2. QED
        BY <4>1, MergeCases
    <3>3. QED
      BY <3>1, <3>2
  <2>4. <<one[1]>> = one
    BY <2>1 DEF one
  <2>5. MergedFrom(one)[1] = one
    BY <2>2, <2>3, <2>4, Zenon
  <2>6. Added(none, 0, w) = Append(none, w)
    <3>1. ~(0 < Len(none))
      BY <1>1
    <3>2. QED
      BY <3>1, Zenon DEF Added
  <2>7. QED
    BY <2>1, <2>5, <2>6, Zenon DEF Whole
<1> HIDE DEF none
<1>3. Halfway(a, 0, a, none)
  <2>1. \A i \in Positions : i \in Nat /\ i >= 0 /\ ~(i < 0)
    BY SizeAssumption DEF Positions
  <2>2. QED
    BY <1>1, <2>1 DEF Halfway
<1>4. Start(a) \in [array : [Positions -> Nat], stop : Nat, score : Int, success : BOOLEAN]
  BY DEF Start
<1>5. /\ Start(a).array = a /\ Start(a).stop = 0 /\ Start(a).score = 0
      /\ Start(a).success = FALSE
  BY DEF Start
<1>6. Worth(a) - Worth(a) = 0
  BY WorthType
<1>7. 0 <= Len(none)
  BY <1>1
<1>8. Going(a, 0, Start(a), none)
  BY <1>1, <1>2, <1>3, <1>4, <1>5, <1>6, <1>7, Zenon DEF Going
<1>9. QED
  BY <1>8 DEF none

\* One iteration, whatever is at x.
LEMMA GoingSteps ==
  ASSUME NEW a \in [Positions -> Nat], NEW x \in Positions,
         Going(a, x, Sliding(a)[x], TilesTo(a)[x])
  PROVE  Going(a, x + 1, Sliding(a)[x + 1], TilesTo(a)[x + 1])
<1>1. PICK s, t : s = Sliding(a)[x] /\ t = TilesTo(a)[x]
  OBVIOUS
<1>2. /\ Sliding(a)[x + 1] = SlideStep(s, x)
      /\ TilesTo(a)[x + 1] = IF a[x] = 0 THEN t ELSE Append(t, a[x])
  BY <1>1, SlidingIs, TilesAre
<1>3. Going(a, x, s, t)
  BY <1>1
<1>4. CASE a[x] = 0
  BY <1>2, <1>3, <1>4, GoingSkips
<1>5. CASE a[x] # 0 /\ s.stop < Len(Whole(t)) /\ Whole(t)[Len(Whole(t))] = a[x]
  BY <1>2, <1>3, <1>5, GoingMerges
<1>6. CASE a[x] # 0 /\ ~(s.stop < Len(Whole(t)) /\ Whole(t)[Len(Whole(t))] = a[x])
  BY <1>2, <1>3, <1>6, GoingMoves
<1>7. QED
  BY <1>4, <1>5, <1>6

\* Whatever tiles and gaps a line has, the loop of lv_f_game_2048_slide_array
\* ends with the line that the rules ask for, success tells whether it changed,
\* and the score is what the merges were worth (l.473-506).
THEOREM SlidesRight ==
  ASSUME NEW a \in [Positions -> Nat]
  PROVE  /\ slide_array(a).array \in [Positions -> Nat] /\ slide_array(a).score \in Int
         /\ slide_array(a).success \in BOOLEAN
         /\ slide_array(a).array = Slid(a)
         /\ slide_array(a).success <=> slide_array(a).array # a
         /\ slide_array(a).score = Worth(slide_array(a).array) - Worth(a)
<1> DEFINE At(x) == Going(a, x, Sliding(a)[x], TilesTo(a)[x])
<1>1. At(0)
  <2>1. Going(a, 0, Start(a), <<>>)
    BY GoingStarts
  <2>2. Sliding(a)[0] = Start(a) /\ TilesTo(a)[0] = <<>>
    BY SlidingIs, TilesAre
  <2>3. QED
    BY <2>1, <2>2
<1>2. \A x \in Positions : At(x) => At(x + 1)
  BY GoingSteps
<1> HIDE DEF At
<1>3. At(SIZE)
  <2>1. CASE SIZE = 2 /\ Positions = {0, 1}
    <3>1. 0 \in Positions /\ 1 \in Positions /\ 0 + 1 = 1 /\ 1 + 1 = 2
      BY <2>1
    <3>2. QED
      BY <1>1, <1>2, <2>1, <3>1
  <2>2. CASE SIZE = 3 /\ Positions = {0, 1, 2}
    <3>1. 0 \in Positions /\ 1 \in Positions /\ 2 \in Positions /\ 0 + 1 = 1 /\ 1 + 1 = 2 /\ 2 + 1 = 3
      BY <2>2
    <3>2. QED
      BY <1>1, <1>2, <2>2, <3>1
  <2>3. CASE SIZE = 4 /\ Positions = {0, 1, 2, 3}
    <3>1. /\ 0 \in Positions /\ 1 \in Positions /\ 2 \in Positions /\ 3 \in Positions
          /\ 0 + 1 = 1 /\ 1 + 1 = 2 /\ 2 + 1 = 3 /\ 3 + 1 = 4
      BY <2>3
    <3>2. QED
      BY <1>1, <1>2, <2>3, <3>1
  <2>4. QED
    BY <2>1, <2>2, <2>3, PositionsAre
<1>4. PICK s, t : s = slide_array(a) /\ t = TilesTo(a)[SIZE]
  OBVIOUS
<1>5. Going(a, SIZE, s, t)
  BY <1>3, <1>4 DEF At, slide_array
<1>6. PICK A, m : A = s.array /\ m = Whole(t)
  OBVIOUS
<1>7. /\ s \in [array : [Positions -> Nat], stop : Nat, score : Int, success : BOOLEAN]
      /\ Halfway(a, SIZE, A, m)
      /\ IF s.success THEN \E i \in Positions : i < SIZE /\ A[i] > a[i] ELSE A = a
      /\ s.score = Worth(A) - Worth(a)
  BY <1>5, <1>6 DEF Going
<1>8. A = Slid(a)
  <2>1. Slid(a) = [i \in Positions |-> IF i < Len(m) THEN m[i + 1] ELSE 0]
    BY <1>4, <1>6 DEF Slid, Whole
  <2>2. /\ A \in [Positions -> Nat] /\ m \in Seq(Nat)
        /\ \A i \in Positions : i < Len(m) => A[i] = m[i + 1]
        /\ \A i \in Positions : Len(m) <= i /\ i < SIZE => A[i] = 0
    BY <1>7 DEF Halfway
  <2>3. \A i \in Positions : i < Len(m) \/ (Len(m) <= i /\ i < SIZE)
    <3>1. Len(m) \in Nat
      BY <2>2, LenProperties
    <3>2. QED
      BY <3>1, SizeAssumption DEF Positions
  <2>4. \A i \in Positions : A[i] = IF i < Len(m) THEN m[i + 1] ELSE 0
    <3>1. Len(m) \in Nat /\ \A i \in Positions : i \in Int
      BY <2>2, LenProperties, SizeAssumption DEF Positions
    <3>2. QED
      BY <2>2, <2>3, <3>1
  <2>5. QED
    BY <2>1, <2>2, <2>4
<1>9. s.success <=> A # a
  <2>1. ASSUME s.success PROVE A # a
    <3>1. PICK i \in Positions : A[i] > a[i]
      BY <1>7, <2>1
    <3>2. a[i] \in Nat
      OBVIOUS
    <3>3. QED
      BY <3>1, <3>2
  <2>2. ASSUME ~s.success PROVE A = a
    BY <1>7, <2>2
  <2>3. QED
    BY <2>1, <2>2
<1>10. QED
  BY <1>4, <1>6, <1>7, <1>8, <1>9

\* A cell from which slide_array moves a tile, when it has moved none before.
Loose(a, x) == x # 0 /\ a[x] # 0 /\ (a[x - 1] = 0 \/ a[x - 1] = a[x])

\* success is set by the first tile that finds an empty cell or an equal tile
\* before it.
LEMMA FirstMove ==
  ASSUME NEW a \in [Positions -> Nat], NEW x \in Positions, NEW s,
         s \in [array : [Positions -> Nat], stop : Nat, score : Int, success : BOOLEAN],
         s.success \/ (s.array = a /\ s.stop = 0)
  PROVE  LET d == SlideStep(s, x) IN
         /\ d.success <=> s.success \/ Loose(a, x)
         /\ d.success \/ d = s
<1> DEFINE d == SlideStep(s, x)
<1>0. /\ x \in Nat /\ x < SIZE /\ SIZE \in Nat /\ \A i \in 0..x - 1 : i \in Positions
      /\ x # 0 => x - 1 \in Positions
  BY SizeAssumption DEF Positions
<1>1. CASE s.success
  <2>1. d = s \/ d.success = TRUE
    <3>1. PICK tt : tt = find_target(s.array, x, s.stop)
      OBVIOUS
    <3>2. d = IF s.array[x] = 0 \/ tt = x THEN s
              ELSE IF s.array[tt] = 0
                THEN [s EXCEPT !.array = [s.array EXCEPT ![tt] = s.array[x], ![x] = 0],
                               !.success = TRUE]
                ELSE [array |-> [s.array EXCEPT ![tt] = s.array[x] + 1, ![x] = 0],
                      stop |-> tt + 1, score |-> s.score + 2^(s.array[x] + 1), success |-> TRUE]
      BY <3>1, Zenon DEF SlideStep
    <3>3. CASE s.array[x] = 0 \/ tt = x
      BY <3>2, <3>3
    <3>4. CASE ~(s.array[x] = 0 \/ tt = x) /\ s.array[tt] = 0
      <4> DEFINE C == [s.array EXCEPT ![tt] = s.array[x], ![x] = 0]
      <4>1. d = [s EXCEPT !.array = C, !.success = TRUE]
        BY <3>2, <3>4
      <4> HIDE DEF C, d
      <4>2. QED
        BY <4>1
    <3>5. CASE ~(s.array[x] = 0 \/ tt = x) /\ s.array[tt] # 0
      <4> DEFINE C == [s.array EXCEPT ![tt] = s.array[x] + 1, ![x] = 0]
                 D == s.score + 2^(s.array[x] + 1)
      <4>1. d = [array |-> C, stop |-> tt + 1, score |-> D, success |-> TRUE]
        BY <3>2, <3>5
      <4> HIDE DEF C, D, d
      <4>2. QED
        BY <4>1
    <3>6. QED
      BY <3>3, <3>4, <3>5
  <2>2. QED
    BY <1>1, <2>1
<1>2. CASE ~s.success
  <2>1. s.array = a /\ s.stop = 0
    BY <1>2
  <2>2. PICK tt : tt = find_target(a, x, 0)
    OBVIOUS
  <2>3. d = IF a[x] = 0 \/ tt = x THEN s
            ELSE IF a[tt] = 0
              THEN [s EXCEPT !.array = [a EXCEPT ![tt] = a[x], ![x] = 0], !.success = TRUE]
              ELSE [array |-> [a EXCEPT ![tt] = a[x] + 1, ![x] = 0],
                    stop |-> tt + 1, score |-> s.score + 2^(a[x] + 1), success |-> TRUE]
    BY <2>1, <2>2, Zenon DEF SlideStep
  <2>4. IF a[x] = 0 \/ tt = x THEN d = s ELSE d.success = TRUE
    <3>1. CASE a[x] = 0 \/ tt = x
      BY <2>3, <3>1
    <3>2. CASE ~(a[x] = 0 \/ tt = x) /\ a[tt] = 0
      <4> DEFINE C == [a EXCEPT ![tt] = a[x], ![x] = 0]
      <4>1. d = [s EXCEPT !.array = C, !.success = TRUE]
        BY <2>3, <3>2
      <4> HIDE DEF C, d
      <4>2. QED
        BY <3>2, <4>1
    <3>3. CASE ~(a[x] = 0 \/ tt = x) /\ a[tt] # 0
      <4> DEFINE C == [a EXCEPT ![tt] = a[x] + 1, ![x] = 0]
                 D == s.score + 2^(a[x] + 1)
      <4>1. d = [array |-> C, stop |-> tt + 1, score |-> D, success |-> TRUE]
        BY <2>3, <3>3
      <4> HIDE DEF C, D, d
      <4>2. QED
        BY <3>3, <4>1
    <3>4. QED
      BY <3>1, <3>2, <3>3
  <2>5. a[x] # 0 => (tt # x <=> Loose(a, x))
    <3> SUFFICES ASSUME a[x] # 0 PROVE tt # x <=> Loose(a, x)
      OBVIOUS
    <3> DEFINE ends == {i \in 0..x - 1 : a[i] # 0 \/ i = 0}
               end == Max(ends)
    <3>1. tt = IF x = 0 THEN 0 ELSE IF a[end] = 0 \/ a[end] = a[x] THEN end ELSE end + 1
      BY <2>2 DEF find_target
    <3>2. CASE x = 0
      BY <3>1, <3>2 DEF Loose
    <3>3. CASE x # 0
      <4>1. ends \in SUBSET Int /\ \A i \in ends : i <= x - 1 /\ i \in 0..x - 1
        BY <1>0
      <4>2. CASE a[x - 1] # 0
        <5>1. x - 1 \in ends
          BY <1>0, <3>3, <4>2
        <5> HIDE DEF ends
        <5>2. end = x - 1
          BY <1>0, <4>1, <5>1, MaxIs
        <5> HIDE DEF end
        <5>3. x - 1 # x /\ (x - 1) + 1 = x
          BY <1>0
        <5>4. QED
          BY <3>1, <3>3, <4>2, <5>2, <5>3 DEF Loose
      <4>3. CASE a[x - 1] = 0
        <5>1. Loose(a, x)
          BY <3>3, <4>3 DEF Loose
        <5>2. 0 \in ends
          BY <1>0, <3>3
        <5>3. end \in ends
          <6>1. ends \in SUBSET (0..x) /\ x \in Nat /\ ends # {}
            BY <1>0, <5>2
          <6> HIDE DEF ends, end
          <6>2. PICK k \in ends : \A i \in ends : i <= k
            BY <6>1, Greatest
          <6>3. Max(ends) = k
            BY <4>1, <6>2, MaxIs
          <6>4. QED
            BY <6>2, <6>3 DEF end
        <5>4. end \in 0..x - 1 /\ (a[end] # 0 \/ end = 0)
          <6> HIDE DEF end
          <6>1. QED
            BY <5>3
        <5> HIDE DEF end, ends
        <5>5. tt # x
          <6>1. CASE a[end] = 0
            BY <1>0, <3>1, <3>3, <5>4, <6>1
          <6>2. CASE a[end] # 0
            <7>1. end # x - 1
              BY <4>3, <6>2
            <7>2. QED
              BY <1>0, <3>1, <3>3, <5>4, <7>1
          <6>3. QED
            BY <6>1, <6>2
        <5>6. QED
          BY <5>1, <5>5
      <4>4. QED
        BY <4>2, <4>3
    <3>4. QED
      BY <3>2, <3>3
  <2>6. a[x] = 0 => ~Loose(a, x)
    BY DEF Loose
  <2> HIDE DEF d
  <2>7. d.success <=> Loose(a, x)
    BY <1>2, <2>4, <2>5, <2>6
  <2>8. QED
    BY <1>2, <2>4, <2>7 DEF d
<1>3. QED
  BY <1>1, <1>2

\* A line is as it should be when no tile of it is loose.
LEMMA SlidesLoose ==
  ASSUME NEW a \in [Positions -> Nat]
  PROVE  Slid(a) = a <=> \A x \in Positions : ~Loose(a, x)
<1> DEFINE s(x) == Sliding(a)[x]
           Kind(x) == /\ s(x) \in [array : [Positions -> Nat], stop : Nat, score : Int,
                                   success : BOOLEAN]
                      /\ s(x).success \/ (s(x).array = a /\ s(x).stop = 0)
           At(x) == Going(a, x, s(x), TilesTo(a)[x])
<1>1. At(0) /\ Kind(0) /\ ~s(0).success
  <2>1. s(0) = Start(a) /\ TilesTo(a)[0] = <<>>
    BY SlidingIs, TilesAre
  <2>2. Going(a, 0, Start(a), <<>>)
    BY GoingStarts
  <2>3. Kind(0) /\ ~s(0).success
    BY <2>1 DEF Start
  <2>4. QED
    BY <2>1, <2>2, <2>3
<1>2. ASSUME NEW x \in Positions, At(x), Kind(x)
      PROVE  At(x + 1) /\ Kind(x + 1) /\ (s(x + 1).success <=> s(x).success \/ Loose(a, x))
  <2>1. At(x + 1)
    BY <1>2, GoingSteps
  <2>2. s(x + 1) \in [array : [Positions -> Nat], stop : Nat, score : Int, success : BOOLEAN]
    BY <2>1 DEF Going
  <2>3. PICK d : d = SlideStep(s(x), x)
    OBVIOUS
  <2>4. s(x + 1) = d
    BY <2>3, SlidingIs
  <2>5. (d.success <=> s(x).success \/ Loose(a, x)) /\ (d.success \/ d = s(x))
    <3> DEFINE q == s(x)
    <3>1. /\ q \in [array : [Positions -> Nat], stop : Nat, score : Int, success : BOOLEAN]
          /\ q.success \/ (q.array = a /\ q.stop = 0)
          /\ d = SlideStep(q, x)
      BY <1>2, <2>3
    <3> HIDE DEF q
    <3>2. (d.success <=> q.success \/ Loose(a, x)) /\ (d.success \/ d = q)
      BY <3>1, FirstMove
    <3>3. QED
      BY <3>2 DEF q
  <2> HIDE DEF At, s
  <2>6. QED
    BY <1>2, <2>1, <2>2, <2>4, <2>5
<1>3. s(SIZE).success <=> \E x \in Positions : Loose(a, x)
  <2> HIDE DEF At, Kind, s
  <2>1. CASE SIZE = 2 /\ Positions = {0, 1}
    <3>1. 0 \in Positions /\ 1 \in Positions /\ 0 + 1 = 1 /\ 1 + 1 = 2
      BY <2>1
    <3>2. At(1) /\ Kind(1) /\ (s(1).success <=> Loose(a, 0))
      BY <1>1, <1>2, <3>1
    <3>3. s(2).success <=> Loose(a, 0) \/ Loose(a, 1)
      BY <1>2, <3>1, <3>2
    <3>4. QED
      BY <2>1, <3>3
  <2>2. CASE SIZE = 3 /\ Positions = {0, 1, 2}
    <3>1. 0 \in Positions /\ 1 \in Positions /\ 2 \in Positions /\ 0 + 1 = 1 /\ 1 + 1 = 2 /\ 2 + 1 = 3
      BY <2>2
    <3>2. At(1) /\ Kind(1) /\ (s(1).success <=> Loose(a, 0))
      BY <1>1, <1>2, <3>1
    <3>3. At(2) /\ Kind(2) /\ (s(2).success <=> Loose(a, 0) \/ Loose(a, 1))
      BY <1>2, <3>1, <3>2
    <3>4. s(3).success <=> Loose(a, 0) \/ Loose(a, 1) \/ Loose(a, 2)
      BY <1>2, <3>1, <3>3
    <3>5. QED
      BY <2>2, <3>4
  <2>3. CASE SIZE = 4 /\ Positions = {0, 1, 2, 3}
    <3>1. /\ 0 \in Positions /\ 1 \in Positions /\ 2 \in Positions /\ 3 \in Positions
          /\ 0 + 1 = 1 /\ 1 + 1 = 2 /\ 2 + 1 = 3 /\ 3 + 1 = 4
      BY <2>3
    <3>2. At(1) /\ Kind(1) /\ (s(1).success <=> Loose(a, 0))
      BY <1>1, <1>2, <3>1
    <3>3. At(2) /\ Kind(2) /\ (s(2).success <=> Loose(a, 0) \/ Loose(a, 1))
      BY <1>2, <3>1, <3>2
    <3>4. At(3) /\ Kind(3) /\ (s(3).success <=> Loose(a, 0) \/ Loose(a, 1) \/ Loose(a, 2))
      BY <1>2, <3>1, <3>3
    <3>5. s(4).success <=> Loose(a, 0) \/ Loose(a, 1) \/ Loose(a, 2) \/ Loose(a, 3)
      BY <1>2, <3>1, <3>4
    <3>6. QED
      BY <2>3, <3>5
  <2>4. QED
    BY <2>1, <2>2, <2>3, PositionsAre
<1>4. s(SIZE).success <=> Slid(a) # a
  BY SlidesRight DEF slide_array
<1>5. QED
  BY <1>3, <1>4
=============================================================================
