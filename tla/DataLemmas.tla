------------------------------ MODULE DataLemmas ------------------------------
(***************************************************************************)
(* Facts about data that the proofs of the other modules share: least and  *)
(* greatest naturals, induction over an interval and functions defined by  *)
(* recursion on one, positions in order, and sequences joined to one.      *)
(***************************************************************************)
EXTENDS Integers, SequencesExt, Positions, FiniteSetTheorems, SequenceTheorems,
        WellFoundedInduction, TLAPS

-----------------------------------------------------------------------------
(* Least and greatest *)

Less == {pair \in Nat \X Nat : pair[1] < pair[2]}

LEMMA LessWellFounded == IsWellFoundedOn(Less, Nat)
  <1>1. Less = OpToRel(<, Nat)
    BY DEF Less, OpToRel
  <1> QED
    BY <1>1, NatLessThanWellFounded

LEMMA LeastNatural ==
  ASSUME NEW S \in SUBSET Nat, S # {}
  PROVE  \E x \in S : \A y \in S : x <= y
  <1>1. PICK x \in S : \A y \in S : ~(<<y, x>> \in Less)
    BY LessWellFounded, WFMin
  <1>2. ASSUME NEW y \in S PROVE x <= y
    <2>1. ~(y < x)
      BY <1>1 DEF Less
    <2> QED
      BY <2>1
  <1> QED
    BY <1>2

LEMMA GreatestBelow ==
  ASSUME NEW n \in Nat, NEW S \in SUBSET (0..n), S # {}
  PROVE  \E x \in S : \A y \in S : x >= y
  <1> DEFINE T == {n - i : i \in S}
  <1>1. T \in SUBSET Nat /\ T # {}
    <2>1. \A i \in S : n - i \in Nat
      OBVIOUS
    <2>2. T \subseteq Nat
      BY <2>1
    <2>3. PICK i \in S : TRUE
      OBVIOUS
    <2>4. n - i \in T
      BY <2>3
    <2> QED
      BY <2>2, <2>4
  <1>2. PICK z \in T : \A y \in T : z <= y
    BY <1>1, LeastNatural
  <1>3. PICK x \in S : z = n - x
    BY <1>2
  <1>4. ASSUME NEW y \in S PROVE x >= y
    <2>1. n - x <= n - y
      BY <1>2, <1>3
    <2> QED
      BY <2>1
  <1> QED
    BY <1>4

\* Max of a nonempty set of positions is one of them, and the last.
LEMMA MaxBelow ==
  ASSUME NEW n \in Nat, NEW S \in SUBSET (0..n), S # {}
  PROVE  Max(S) \in S /\ \A y \in S : Max(S) >= y
  BY GreatestBelow DEF Max

\* Min of a nonempty set of naturals is one of them, and the first.
LEMMA MinNatural ==
  ASSUME NEW S \in SUBSET Nat, S # {}
  PROVE  Min(S) \in S /\ \A y \in S : Min(S) <= y
  BY LeastNatural DEF Min

-----------------------------------------------------------------------------
(* Induction and recursion *)

\* A set of naturals that holds 0, and with each number below n the next, holds
\* all of them up to n.
LEMMA UpTo ==
  ASSUME NEW n \in Nat, NEW S, 0 \in S,
         \A k \in 0..(n - 1) : k \in S => k + 1 \in S
  PROVE  \A k \in 0..n : k \in S
  <1> SUFFICES ASSUME NEW z \in 0..n, z \notin S PROVE FALSE
    OBVIOUS
  <1> DEFINE Out == {k \in 0..n : k \notin S}
  <1>1. Out \in SUBSET Nat /\ Out # {}
    OBVIOUS
  <1>2. PICK x \in Out : \A y \in Out : x <= y
    BY <1>1, LeastNatural
  <1>3. x # 0 /\ x \in 0..n /\ x \notin S
    BY <1>2
  <1>4. x - 1 \in 0..(n - 1) /\ x - 1 \in 0..n /\ (x - 1) + 1 = x /\ ~(x <= x - 1)
    BY <1>3
  <1>5. x - 1 \in S
    BY <1>2, <1>4
  <1> QED
    BY <1>3, <1>4, <1>5

LEMMA DownFrom ==
  ASSUME NEW n \in Nat, NEW S, n \in S,
         \A k \in 0..(n - 1) : k + 1 \in S => k \in S
  PROVE  \A k \in 0..n : k \in S
  <1> DEFINE T == {m \in 0..n : n - m \in S}
  <1>1. 0 \in T
    OBVIOUS
  <1>2. ASSUME NEW m \in 0..(n - 1), m \in T PROVE m + 1 \in T
    <2>1. PICK k : k = n - (m + 1)
      OBVIOUS
    <2>2. k \in 0..(n - 1) /\ k + 1 = n - m /\ m + 1 \in 0..n
      BY <2>1
    <2>3. k \in S
      BY <1>2, <2>2
    <2> QED
      BY <2>1, <2>2, <2>3
  <1> HIDE DEF T
  <1>3. \A m \in 0..n : m \in T
    BY <1>1, <1>2, UpTo
  <1>4. ASSUME NEW k \in 0..n PROVE k \in S
    <2>1. n - k \in 0..n /\ n - (n - k) = k
      OBVIOUS
    <2>2. n - k \in T
      BY <1>3, <2>1
    <2> QED
      BY <2>1, <2>2 DEF T
  <1> QED
    BY <1>4

Follows(g, T, n, base, step) ==
    /\ g \in [0..n -> T]
    /\ g[0] = base /\ \A i \in 1..n : g[i] = step[<<i, g[i - 1]>>]

\* A value for 0 and a step from each value to the next make a function.
LEMMA Recursion ==
  ASSUME NEW T, NEW n \in Nat, NEW base \in T, NEW step \in [(1..n) \X T -> T]
  PROVE  \E g : Follows(g, T, n, base, step)
  <1> DEFINE Good(m, g) == g[0] = base /\ \A i \in 1..m : g[i] = step[<<i, g[i - 1]>>]
             S == {m \in 0..n : \E g \in [0..m -> T] : Good(m, g)}
  <1>1. 0 \in S
    <2> DEFINE h == [i \in 0..0 |-> base]
    <2>1. h \in [0..0 -> T] /\ h[0] = base /\ 1..0 = {}
      OBVIOUS
    <2> HIDE DEF h
    <2>2. Good(0, h) /\ 0 \in 0..n
      BY <2>1
    <2> QED
      BY <2>1, <2>2
  <1>2. ASSUME NEW k \in 0..(n - 1), k \in S PROVE k + 1 \in S
    <2>1. PICK g \in [0..k -> T] : Good(k, g)
      BY <1>2
    <2>2. k \in Nat /\ k + 1 \in 1..n /\ k + 1 \in 0..n
      OBVIOUS
    <2>3. PICK v \in T : v = step[<<k + 1, g[k]>>]
      <3>1. g[k] \in T
        BY <2>2
      <3>2. <<k + 1, g[k]>> \in (1..n) \X T
        BY <2>2, <3>1
      <3> QED
        BY <3>2
    <2> DEFINE h == [i \in 0..(k + 1) |-> IF i = k + 1 THEN v ELSE g[i]]
    <2>4. h \in [0..(k + 1) -> T]
      <3>1. ASSUME NEW i \in 0..(k + 1) PROVE h[i] \in T
        <4>1. CASE i = k + 1
          BY <4>1, <2>3
        <4>2. CASE i # k + 1
          <5>1. i \in 0..k
            BY <4>2, <2>2
          <5> QED
            BY <5>1, <4>2
        <4> QED
          BY <4>1, <4>2
      <3> QED
        BY <3>1
    <2>5. h[k + 1] = v /\ \A i \in 0..k : h[i] = g[i]
      BY <2>2
    <2> HIDE DEF h
    <2>6. h[0] = base
      BY <2>1, <2>2, <2>5
    <2>7. ASSUME NEW i \in 1..(k + 1) PROVE h[i] = step[<<i, h[i - 1]>>]
      <3>1. CASE i = k + 1
        <4>1. i - 1 = k /\ k \in 0..k
          BY <3>1, <2>2
        <4> QED
          BY <3>1, <4>1, <2>3, <2>5
      <3>2. CASE i # k + 1
        <4>1. i \in 1..k /\ i \in 0..k /\ i - 1 \in 0..k
          BY <3>2, <2>2
        <4> QED
          BY <4>1, <2>1, <2>5
      <3> QED
        BY <3>1, <3>2
    <2>8. Good(k + 1, h)
      BY <2>6, <2>7
    <2> QED
      BY <2>2, <2>4, <2>8
  <1> HIDE DEF S
  <1>3. n \in S
    <2>1. \A k \in 0..n : k \in S
      BY <1>1, <1>2, UpTo
    <2> QED
      BY <2>1
  <1> QED
    BY <1>3 DEF S, Follows

\* A sequence of numbers that grows at each step grows altogether.
LEMMA Growing ==
  ASSUME NEW n \in Nat, NEW f \in [0..n -> Nat], \A i \in 1..n : f[i - 1] <= f[i]
  PROVE  \A i, j \in 0..n : i <= j => f[i] <= f[j]
  <1> SUFFICES ASSUME NEW i \in 0..n PROVE \A j \in 0..n : i <= j => f[i] <= f[j]
    OBVIOUS
  <1> DEFINE S == {j \in 0..n : i <= j => f[i] <= f[j]}
  <1>1. 0 \in S
    OBVIOUS
  <1>2. ASSUME NEW k \in 0..(n - 1), k \in S PROVE k + 1 \in S
    <2>1. k + 1 \in 1..n /\ k + 1 \in 0..n /\ k \in 0..n /\ (k + 1) - 1 = k
      OBVIOUS
    <2>2. f[k] <= f[k + 1] /\ f[k] \in Nat /\ f[k + 1] \in Nat /\ f[i] \in Nat
      BY <2>1
    <2>3. i <= k => f[i] <= f[k]
      BY <1>2
    <2>4. i <= k + 1 => i <= k \/ i = k + 1
      BY <2>1
    <2> QED
      BY <2>1, <2>2, <2>3, <2>4
  <1>3. \A k \in 0..n : k \in S
    <2> HIDE DEF S
    <2> QED
      BY <1>1, <1>2, UpTo
  <1> QED
    BY <1>3

-----------------------------------------------------------------------------
(* Positions in order *)

\* A function that lists a set of naturals upwards is the list of the set.
LEMMA Listing ==
  ASSUME NEW n \in Nat, NEW S \in SUBSET Nat, NEW f \in [1..n -> S],
         \A i, j \in 1..n : i < j => f[i] < f[j],
         \A x \in S : \E i \in 1..n : f[i] = x
  PROVE  IsFiniteSet(S) /\ Cardinality(S) = n /\ InOrder(S) = f
  <1>0. ASSUME NEW i \in 1..n, NEW j \in 1..n PROVE f[i] = f[j] => i = j
    <2>1. f[i] \in Nat /\ f[j] \in Nat
      OBVIOUS
    <2>2. (i < j => f[i] < f[j]) /\ (j < i => f[j] < f[i])
      OBVIOUS
    <2> QED
      BY <2>1, <2>2
  <1>1. IsFiniteSet(S) /\ Cardinality(S) = n
    <2>1. f \in Bijection(1..n, S)
      BY <1>0 DEF Bijection, Injection, Surjection, IsInjective
    <2>2. ExistsBijection(1..n, S)
      BY <2>1 DEF ExistsBijection
    <2> QED
      BY <2>2, FS_NatBijection, FS_CountingElements
  <1>2. ASSUME NEW k \in 1..n PROVE Cardinality({j \in S : j <= f[k]}) = k
    <2> DEFINE T == {j \in S : j <= f[k]}
               g == [i \in 1..k |-> f[i]]
    <2>1. k \in Nat /\ \A i \in 1..k : i \in 1..n
      OBVIOUS
    <2>2. ASSUME NEW i \in 1..k PROVE f[i] \in T
      <3>1. i \in 1..n /\ f[i] \in Nat /\ f[k] \in Nat /\ f[i] \in S
        BY <2>1
      <3>2. i < k \/ i = k
        BY <2>1
      <3>3. f[i] <= f[k]
        BY <3>1, <3>2
      <3> QED
        BY <3>1, <3>3
    <2>3. ASSUME NEW x \in T PROVE \E i \in 1..k : g[i] = x
      <3>1. PICK i \in 1..n : f[i] = x
        OBVIOUS
      <3>2. f[i] <= f[k] /\ f[i] \in Nat /\ f[k] \in Nat
        BY <3>1
      <3>3. ~(k < i)
        BY <3>2
      <3>4. i \in 1..k
        BY <3>3
      <3> QED
        BY <3>1, <3>4
    <2>4. g \in [1..k -> T]
      <3> HIDE DEF T
      <3> QED
        BY <2>2
    <2>5. \A i, j \in 1..k : g[i] = g[j] => i = j
      BY <1>0, <2>1
    <2> HIDE DEF T, g
    <2>6. g \in Bijection(1..k, T)
      BY <2>3, <2>4, <2>5 DEF Bijection, Injection, Surjection, IsInjective
    <2>7. ExistsBijection(1..k, T)
      BY <2>6 DEF ExistsBijection
    <2>8. Cardinality(T) = k
      BY <2>1, <2>7, FS_CountingElements
    <2> QED
      BY <2>8 DEF T
  <1>3. ASSUME NEW k \in 1..n
        PROVE  (CHOOSE i \in S : Cardinality({j \in S : j <= i}) = k) = f[k]
    <2>1. f[k] \in S /\ Cardinality({j \in S : j <= f[k]}) = k
      BY <1>2
    <2>2. ASSUME NEW i \in S, Cardinality({j \in S : j <= i}) = k PROVE i = f[k]
      <3>1. PICK h \in 1..n : f[h] = i
        OBVIOUS
      <3>2. h = k
        BY <3>1, <2>2, <1>2
      <3> QED
        BY <3>1, <3>2
    <2> QED
      BY <2>1, <2>2
  <1> QED
    BY <1>1, <1>3 DEF InOrder

\* Every set of positions has such a list.
LEMMA Listed ==
  ASSUME NEW n \in Nat, NEW S \in SUBSET (1..n)
  PROVE  /\ Cardinality(S) \in Nat
         /\ InOrder(S) \in [1..Cardinality(S) -> S]
         /\ \A i, j \in 1..Cardinality(S) : i < j => InOrder(S)[i] < InOrder(S)[j]
         /\ \A x \in S : \E i \in 1..Cardinality(S) : InOrder(S)[i] = x
  <1> DEFINE Lists(m, l, f) ==
                /\ f \in [1..l -> S \cap (1..m)]
                /\ \A i, j \in 1..l : i < j => f[i] < f[j]
                /\ \A x \in S \cap (1..m) : \E i \in 1..l : f[i] = x
             M == {m \in 0..n : \E l \in Nat : \E f : Lists(m, l, f)}
  <1>1. 0 \in M
    <2> DEFINE f == [i \in 1..0 |-> i]
    <2>1. 1..0 = {} /\ S \cap (1..0) = {}
      OBVIOUS
    <2>2. Lists(0, 0, f)
      BY <2>1
    <2> HIDE DEF f
    <2>3. 0 \in 0..n /\ 0 \in Nat
      OBVIOUS
    <2> QED
      BY <2>2, <2>3
  <1>2. ASSUME NEW m \in 0..(n - 1), m \in M PROVE m + 1 \in M
    <2>0. PICK l \in Nat : \E f : Lists(m, l, f)
      BY <1>2
    <2>1. PICK f : Lists(m, l, f)
      BY <2>0
    <2>2. m \in Nat /\ m + 1 \in 0..n /\ m + 1 \in 1..n
      OBVIOUS
    <2>3. 1..(m + 1) = (1..m) \cup {m + 1}
      BY <2>2
    <2>4. CASE m + 1 \notin S
      <3>1. S \cap (1..(m + 1)) = S \cap (1..m)
        BY <2>3, <2>4
      <3>2. Lists(m + 1, l, f)
        BY <2>1, <3>1
      <3> QED
        BY <2>2, <3>2
    <2>5. CASE m + 1 \in S
      <3> DEFINE h == [i \in 1..(l + 1) |-> IF i = l + 1 THEN m + 1 ELSE f[i]]
      <3>1. h[l + 1] = m + 1 /\ \A i \in 1..l : h[i] = f[i]
        OBVIOUS
      <3>2. \A i \in 1..(l + 1) : i \in 1..l \/ i = l + 1
        OBVIOUS
      <3>3. \A i \in 1..l : f[i] \in S /\ f[i] \in 1..m
        BY <2>1
      <3>4. ASSUME NEW i \in 1..(l + 1) PROVE h[i] \in S \cap (1..(m + 1))
        <4> HIDE DEF h
        <4>1. CASE i \in 1..l
          BY <4>1, <3>1, <3>3, <2>3
        <4>2. CASE i = l + 1
          BY <4>2, <3>1, <2>5, <2>3
        <4> QED
          BY <4>1, <4>2, <3>2
      <3>5. h \in [1..(l + 1) -> S \cap (1..(m + 1))]
        BY <3>4
      <3> HIDE DEF h
      <3>6. ASSUME NEW i \in 1..(l + 1), NEW j \in 1..(l + 1), i < j PROVE h[i] < h[j]
        <4>1. i \in 1..l
          BY <3>6
        <4>2. CASE j \in 1..l
          BY <4>1, <4>2, <3>6, <3>1, <2>1
        <4>3. CASE j = l + 1
          <5>1. f[i] \in 1..m
            BY <4>1, <3>3
          <5> QED
            BY <5>1, <4>1, <4>3, <3>1, <2>2
        <4> QED
          BY <4>2, <4>3, <3>2
      <3>7. ASSUME NEW x \in S \cap (1..(m + 1)) PROVE \E i \in 1..(l + 1) : h[i] = x
        <4>1. CASE x = m + 1
          <5>1. l + 1 \in 1..(l + 1)
            OBVIOUS
          <5> QED
            BY <5>1, <4>1, <3>1
        <4>2. CASE x \in 1..m
          <5>1. PICK i \in 1..l : f[i] = x
            BY <4>2, <2>1
          <5>2. i \in 1..(l + 1)
            OBVIOUS
          <5> QED
            BY <5>1, <5>2, <3>1
        <4> QED
          BY <4>1, <4>2, <2>3
      <3>8. Lists(m + 1, l + 1, h)
        BY <3>5, <3>6, <3>7
      <3>9. l + 1 \in Nat
        OBVIOUS
      <3> QED
        BY <2>2, <3>8, <3>9
    <2> QED
      BY <2>4, <2>5
  <1>3. n \in M
    <2> HIDE DEF M
    <2>1. \A k \in 0..n : k \in M
      BY <1>1, <1>2, UpTo
    <2> QED
      BY <2>1
  <1>4. PICK l \in Nat : \E f : Lists(n, l, f)
    BY <1>3
  <1>5. PICK f : Lists(n, l, f)
    BY <1>4
  <1>6. S \cap (1..n) = S /\ S \in SUBSET Nat
    <2>1. \A x \in S : x \in 1..n /\ x \in Nat
      OBVIOUS
    <2> QED
      BY <2>1
  <1>7. /\ f \in [1..l -> S]
        /\ \A i, j \in 1..l : i < j => f[i] < f[j]
        /\ \A x \in S : \E i \in 1..l : f[i] = x
    BY <1>5, <1>6
  <1>8. IsFiniteSet(S) /\ Cardinality(S) = l /\ InOrder(S) = f
    BY <1>6, <1>7, Listing
  <1> QED
    BY <1>7, <1>8

-----------------------------------------------------------------------------
(* Sequences joined to one *)

\* What the recursion inside FlattenSeq computes: the first k parts, joined.
LEMMA Joining ==
  ASSUME NEW X, NEW s \in Seq(Seq(X)), s # <<>>
  PROVE  \E g \in [1..Len(s) -> Seq(X)] :
            /\ g[1] = s[1]
            /\ \A k \in 1..(Len(s) - 1) : g[k + 1] = g[k] \o s[k + 1]
            /\ FlattenSeq(s) = g[Len(s)]
  <1> DEFINE n == Len(s)
             step == [pair \in (1..n) \X Seq(X) |->
                        IF pair[1] = 1 THEN s[1] ELSE pair[2] \o s[pair[1]]]
  <1>1. n \in Nat /\ n >= 1 /\ \A k \in 1..n : s[k] \in Seq(X)
    OBVIOUS
  <1>2. step \in [(1..n) \X Seq(X) -> Seq(X)]
    <2>1. ASSUME NEW pair \in (1..n) \X Seq(X) PROVE step[pair] \in Seq(X)
      <3>1. PICK i \in 1..n, t \in Seq(X) : pair = <<i, t>>
        OBVIOUS
      <3>2. s[i] \in Seq(X) /\ s[1] \in Seq(X) /\ t \o s[i] \in Seq(X)
        BY <1>1, ConcatProperties
      <3> QED
        BY <3>1, <3>2
    <2> QED
      BY <2>1
  <1>3. PICK h \in [0..n -> Seq(X)] :
          h[0] = <<>> /\ \A i \in 1..n : h[i] = step[<<i, h[i - 1]>>]
    <2> HIDE DEF step, n
    <2>1. <<>> \in Seq(X)
      OBVIOUS
    <2>2. PICK h : Follows(h, Seq(X), n, <<>>, step)
      BY <1>1, <1>2, <2>1, Recursion
    <2> QED
      BY <2>2 DEF Follows
  <1>4. \A i \in 1..n : i \in 0..n /\ i - 1 \in 0..n /\ h[i - 1] \in Seq(X)
    <2>1. \A i \in 1..n : i \in 0..n /\ i - 1 \in 0..n
      BY <1>1
    <2> QED
      BY <2>1
  <1>5. \A i \in 1..n : h[i] = IF i = 1 THEN s[1] ELSE h[i - 1] \o s[i]
    BY <1>3, <1>4
  <1> HIDE DEF step, n
  <1> DEFINE rule(g) == g = [i \in 1..n |-> IF i = 1 THEN s[i] ELSE g[i - 1] \o s[i]]
             f == [i \in 1..n |-> h[i]]
  <1>6. rule(f)
    <2>1. ASSUME NEW i \in 1..n PROVE f[i] = IF i = 1 THEN s[i] ELSE f[i - 1] \o s[i]
      <3>1. CASE i = 1
        BY <3>1, <1>5
      <3>2. CASE i # 1
        <4>1. i - 1 \in 1..n
          BY <3>2, <1>1
        <4> QED
          BY <3>2, <4>1, <1>5
      <3> QED
        BY <3>1, <3>2
    <2> QED
      BY <2>1
  <1> HIDE DEF f
  <1>7. PICK g : g = (CHOOSE x : rule(x)) /\ rule(g)
    <2> HIDE DEF rule
    <2>1. rule(CHOOSE x : rule(x))
      BY <1>6
    <2> QED
      BY <2>1
  <1>8. FlattenSeq(s) = g[n]
    <2>1. Len(s) # 0
      BY <1>1 DEF n
    <2> QED
      BY <1>7, <2>1 DEF FlattenSeq, n
  <1>9. \A i \in 1..n : g[i] = IF i = 1 THEN s[i] ELSE g[i - 1] \o s[i]
    BY <1>7
  <1>10. \A i \in 1..n : g[i] \in Seq(X)
    <2> DEFINE S == {i \in 0..n : i = 0 \/ g[i] \in Seq(X)}
    <2>1. 0 \in S
      BY <1>1
    <2>2. ASSUME NEW k \in 0..(n - 1), k \in S PROVE k + 1 \in S
      <3>1. k + 1 \in 1..n /\ k + 1 \in 0..n /\ (k + 1) - 1 = k /\ s[k + 1] \in Seq(X)
        BY <1>1
      <3>2. CASE k = 0
        BY <3>1, <3>2, <1>9
      <3>3. CASE k # 0
        <4>1. g[k] \in Seq(X) /\ k + 1 # 1
          BY <2>2, <3>3
        <4>2. g[k + 1] = g[k] \o s[k + 1]
          BY <1>9, <3>1, <4>1
        <4>3. g[k] \o s[k + 1] \in Seq(X)
          BY <3>1, <4>1, ConcatProperties
        <4> QED
          BY <3>1, <4>2, <4>3
      <3> QED
        BY <3>2, <3>3
    <2>3. \A k \in 0..n : k \in S
      <3> HIDE DEF S
      <3> QED
        BY <1>1, <2>1, <2>2, UpTo
    <2> QED
      BY <1>1, <2>3
  <1>11. DOMAIN g = 1..n
    BY <1>7
  <1>12. g \in [1..n -> Seq(X)]
    <2>1. g = [i \in 1..n |-> g[i]]
      BY <1>7, <1>11
    <2> QED
      BY <1>10, <2>1
  <1>13. g[1] = s[1] /\ \A k \in 1..(n - 1) : g[k + 1] = g[k] \o s[k + 1]
    <2>1. 1 \in 1..n
      BY <1>1
    <2>2. ASSUME NEW k \in 1..(n - 1) PROVE g[k + 1] = g[k] \o s[k + 1]
      <3>1. k + 1 \in 1..n /\ k + 1 # 1 /\ (k + 1) - 1 = k
        BY <1>1
      <3> QED
        BY <1>9, <3>1
    <2> QED
      BY <1>9, <2>1, <2>2
  <1> QED
    BY <1>8, <1>12, <1>13 DEF n

\* Sequences made of others, element by element.
LEMMA Joined ==
  ASSUME NEW X, NEW a \in Seq(X), NEW b \in Seq(X), NEW m, m = Len(a), NEW n, n = Len(b),
         NEW t, t = a \o b
  PROVE  /\ t \in Seq(X) /\ m \in Nat /\ n \in Nat /\ Len(t) = m + n
         /\ \A i \in 1..(m + n) : t[i] = IF i <= m THEN a[i] ELSE b[i - m]
  BY ConcatProperties

LEMMA Appended ==
  ASSUME NEW X, NEW s \in Seq(X), NEW x \in X, NEW m, m = Len(s), NEW t, t = Append(s, x)
  PROVE  /\ t \in Seq(X) /\ m \in Nat /\ Len(t) = m + 1 /\ t[m + 1] = x
         /\ \A i \in 1..m : t[i] = s[i]
  OBVIOUS

LEMMA Rest ==
  ASSUME NEW X, NEW r \in Seq(X), NEW m \in Nat, m <= Len(r), NEW k, k = Len(r)
  PROVE  /\ SubSeq(r, m + 1, k) \in Seq(X) /\ Len(SubSeq(r, m + 1, k)) = k - m
         /\ \A i \in 1..(k - m) : SubSeq(r, m + 1, k)[i] = r[m + i]
  OBVIOUS

\* The l elements of r after the first m, cut out of it, and element by element.
Segment(X, s, r, m, l) == /\ r \in Seq(X) /\ m \in Nat /\ l \in Nat /\ m + l <= Len(r)
                          /\ s = SubSeq(r, m + 1, m + l)
Elements(X, s, r, m, l) == s \in Seq(X) /\ Len(s) = l /\ \A i \in 1..l : s[i] = r[m + i]

LEMMA Middle ==
  ASSUME NEW X, NEW r, NEW m, NEW l, NEW s, Segment(X, s, r, m, l)
  PROVE  Elements(X, s, r, m, l)
  BY DEF Segment, Elements

LEMMA Copied ==
  ASSUME NEW X, NEW r \in Seq(X), NEW m \in Nat, NEW y \in Seq(X), NEW l \in Nat, l = Len(y),
         m + l <= Len(r), \A i \in 1..l : r[m + i] = y[i]
  PROVE  SubSeq(r, m + 1, m + l) = y
  <1>1. PICK s : s = SubSeq(r, m + 1, m + l)
    OBVIOUS
  <1>2. s \in Seq(X) /\ Len(s) = l /\ \A i \in 1..l : s[i] = r[m + i]
    <2>1. Segment(X, s, r, m, l)
      BY <1>1 DEF Segment
    <2>2. Elements(X, s, r, m, l)
      BY <2>1, Middle
    <2> QED
      BY <2>2 DEF Elements
  <1>3. \A i \in 1..l : s[i] = y[i]
    BY <1>2
  <1>4. s = y
    BY <1>2, <1>3, SeqEqual
  <1> QED
    BY <1>1, <1>4

\* What comes after the first k.
After(s, k) == SubSeq(s, k + 1, Len(s))

LEMMA AfterType ==
  ASSUME NEW X, NEW s \in Seq(X), NEW k \in Nat, k <= Len(s)
  PROVE  /\ After(s, k) \in Seq(X) /\ Len(After(s, k)) = Len(s) - k
         /\ \A i \in 1..(Len(s) - k) : After(s, k)[i] = s[k + i]
  BY DEF After

Regroups(a, b, c) == (a \o b) \o c = a \o (b \o c)

LEMMA Regroup ==
  ASSUME NEW X, NEW a \in Seq(X), NEW b \in Seq(X), NEW c \in Seq(X)
  PROVE  Regroups(a, b, c)
  BY ConcatAssociative DEF Regroups

LEMMA FlattenType ==
  ASSUME NEW X, NEW s \in Seq(Seq(X))
  PROVE  FlattenSeq(s) \in Seq(X) /\ (s = <<>> => FlattenSeq(s) = <<>>)
  <1>1. CASE s = <<>>
    BY <1>1 DEF FlattenSeq
  <1>2. CASE s # <<>>
    <2>1. Len(s) \in Nat /\ Len(s) \in 1..Len(s)
      BY <1>2
    <2>2. PICK g \in [1..Len(s) -> Seq(X)] : FlattenSeq(s) = g[Len(s)]
      BY <1>2, Joining
    <2> QED
      BY <1>2, <2>1, <2>2
  <1> QED
    BY <1>1, <1>2

\* The first part comes first, and the others after it, joined.
LEMMA FlattenFront ==
  ASSUME NEW X, NEW s \in Seq(Seq(X)), s # <<>>,
         NEW t \in Seq(Seq(X)), Len(s) = Len(t) + 1, \A i \in 1..Len(t) : t[i] = s[i + 1]
  PROVE  FlattenSeq(s) = s[1] \o FlattenSeq(t)
  <1>1. Len(t) \in Nat /\ Len(s) = Len(t) + 1
        /\ \A i \in 1..Len(s) : s[i] \in Seq(X)
    OBVIOUS
  <1>2. PICK g \in [1..Len(s) -> Seq(X)] :
            /\ g[1] = s[1]
            /\ \A k \in 1..(Len(s) - 1) : g[k + 1] = g[k] \o s[k + 1]
            /\ FlattenSeq(s) = g[Len(s)]
    BY Joining
  <1>3. CASE t = <<>>
    <2>1. FlattenSeq(t) = <<>>
      BY <1>3, FlattenType
    <2>2. Len(s) = 1 /\ s[1] \in Seq(X)
      BY <1>1, <1>3
    <2>3. s[1] \o <<>> = s[1]
      BY <2>2, ConcatEmptySeq
    <2> QED
      BY <1>2, <2>1, <2>2, <2>3
  <1>4. CASE t # <<>>
    <2>1. PICK h \in [1..Len(t) -> Seq(X)] :
              /\ h[1] = t[1]
              /\ \A k \in 1..(Len(t) - 1) : h[k + 1] = h[k] \o t[k + 1]
              /\ FlattenSeq(t) = h[Len(t)]
      BY <1>4, Joining
    <2>2. PICK n \in Nat : n = Len(t) /\ n >= 1 /\ Len(s) = n + 1
      BY <1>1, <1>4
    <2> DEFINE S == {k \in 0..n : k = 0 \/ g[k + 1] = s[1] \o h[k]}
    <2>3. 0 \in S
      BY <2>2
    <2>4. ASSUME NEW k \in 0..(n - 1), k \in S PROVE k + 1 \in S
      <3>1. k + 1 \in 1..n /\ k + 1 \in 0..n /\ k + 1 \in 1..(Len(s) - 1)
        BY <2>2
      <3>2. g[(k + 1) + 1] = g[k + 1] \o s[(k + 1) + 1] /\ t[k + 1] = s[(k + 1) + 1]
        BY <1>2, <2>2, <3>1
      <3>3. s[1] \in Seq(X) /\ s[(k + 1) + 1] \in Seq(X)
        <4>1. 1 \in 1..Len(s) /\ (k + 1) + 1 \in 1..Len(s)
          BY <2>2, <3>1
        <4> QED
          BY <1>1, <4>1
      <3>4. CASE k = 0
        <4>0. k + 1 = 1 /\ (k + 1) + 1 = 2
          BY <3>4
        <4>1. g[2] = g[1] \o s[2] /\ t[1] = s[2]
          BY <3>2, <4>0
        <4>2. g[2] = s[1] \o h[1]
          BY <1>2, <2>1, <4>1
        <4> QED
          BY <3>1, <3>4, <4>2
      <3>5. CASE k # 0
        <4>1. k \in 1..(Len(t) - 1) /\ k \in 1..Len(t)
          BY <2>2, <3>5
        <4>2. h[k + 1] = h[k] \o s[(k + 1) + 1] /\ h[k] \in Seq(X)
          BY <2>1, <3>2, <4>1
        <4>3. g[k + 1] = s[1] \o h[k]
          BY <2>4, <3>5
        <4>4. (s[1] \o h[k]) \o s[(k + 1) + 1] = s[1] \o (h[k] \o s[(k + 1) + 1])
          <5>1. Regroups(s[1], h[k], s[(k + 1) + 1])
            BY <3>3, <4>2, Regroup
          <5> QED
            BY <5>1 DEF Regroups
        <4>5. g[(k + 1) + 1] = s[1] \o h[k + 1]
          BY <3>2, <4>2, <4>3, <4>4
        <4> QED
          BY <3>1, <4>5
      <3> QED
        BY <3>4, <3>5
    <2>5. n \in S
      <3> HIDE DEF S
      <3>1. \A k \in 0..n : k \in S
        BY <2>3, <2>4, UpTo
      <3> QED
        BY <2>2, <3>1
    <2>6. g[n + 1] = s[1] \o h[n]
      BY <2>2, <2>5
    <2> QED
      BY <1>2, <2>1, <2>2, <2>6
  <1> QED
    BY <1>3, <1>4

\* The parts after the first k, joined.
LEMMA FlattenAfter ==
  ASSUME NEW X, NEW s \in Seq(Seq(X))
  PROVE  /\ After(s, 0) = s /\ FlattenSeq(After(s, Len(s))) = <<>>
         /\ \A k \in 0..Len(s) : FlattenSeq(After(s, k)) \in Seq(X)
         /\ \A k \in 0..(Len(s) - 1) :
               FlattenSeq(After(s, k)) = s[k + 1] \o FlattenSeq(After(s, k + 1))
  <1>1. PICK n \in Nat : n = Len(s)
    OBVIOUS
  <1>2. After(s, 0) = s
    BY SubSeqFull DEF After
  <1>3. ASSUME NEW k \in 0..n
        PROVE  /\ After(s, k) \in Seq(Seq(X)) /\ Len(After(s, k)) = n - k
               /\ \A i \in 1..(n - k) : After(s, k)[i] = s[k + i]
    <2>1. k \in Nat /\ k <= Len(s)
      BY <1>1
    <2> QED
      BY <1>1, <2>1, AfterType
  <1>4. FlattenSeq(After(s, n)) = <<>>
    <2>1. n \in 0..n /\ n - n = 0
      OBVIOUS
    <2>2. PICK e \in Seq(Seq(X)) : e = After(s, n) /\ Len(e) = 0
      BY <1>3, <2>1
    <2>3. e = <<>>
      BY <2>2
    <2> QED
      BY <2>2, <2>3, FlattenType
  <1>5. \A k \in 0..n : FlattenSeq(After(s, k)) \in Seq(X)
    BY <1>3, FlattenType
  <1>6. ASSUME NEW k \in 0..(n - 1)
        PROVE  FlattenSeq(After(s, k)) = s[k + 1] \o FlattenSeq(After(s, k + 1))
    <2>1. k \in 0..n /\ k + 1 \in 0..n /\ n - k = (n - (k + 1)) + 1 /\ n - (k + 1) \in Nat
      OBVIOUS
    <2>2. PICK a, b \in Seq(Seq(X)) : a = After(s, k) /\ b = After(s, k + 1)
      BY <1>3, <2>1
    <2>3. Len(a) = n - k /\ \A i \in 1..(n - k) : a[i] = s[k + i]
      BY <1>3, <2>1, <2>2
    <2>4. Len(b) = n - (k + 1) /\ \A i \in 1..(n - (k + 1)) : b[i] = s[(k + 1) + i]
      BY <1>3, <2>1, <2>2
    <2>5. Len(a) = Len(b) + 1
      BY <2>1, <2>3, <2>4
    <2>6. \A i \in 1..Len(b) : b[i] = a[i + 1]
      <3> SUFFICES ASSUME NEW i \in 1..(n - (k + 1)) PROVE b[i] = a[i + 1]
        BY <2>4
      <3>1. i + 1 \in 1..(n - k) /\ k + (i + 1) = (k + 1) + i
        BY <2>1
      <3> QED
        BY <2>3, <2>4, <3>1
    <2>7. a # <<>> /\ a[1] = s[k + 1]
      <3>1. 1 \in 1..(n - k) /\ Len(a) # 0
        BY <2>1, <2>3
      <3> QED
        BY <2>3, <3>1
    <2>8. FlattenSeq(a) = a[1] \o FlattenSeq(b)
      BY <2>2, <2>5, <2>6, <2>7, FlattenFront
    <2> QED
      BY <2>2, <2>7, <2>8
  <1> QED
    BY <1>1, <1>2, <1>4, <1>5, <1>6

\* A part and what comes after it.
LEMMA Adjoining ==
  ASSUME NEW X, NEW s \in Seq(X), NEW a \in Nat, NEW b \in Nat, a <= b, b <= Len(s)
  PROVE  SubSeq(s, a + 1, b) \o After(s, b) = After(s, a)
  <1>1. PICK n \in Nat, l \in Nat : n = Len(s) /\ l = b - a /\ b = a + l
    OBVIOUS
  <1>2. PICK p : p = SubSeq(s, a + 1, b)
    OBVIOUS
  <1>3. p \in Seq(X) /\ Len(p) = l /\ \A i \in 1..l : p[i] = s[a + i]
    <2>1. Segment(X, p, s, a, l)
      BY <1>1, <1>2 DEF Segment
    <2>2. Elements(X, p, s, a, l)
      BY <2>1, Middle
    <2> QED
      BY <2>2 DEF Elements
  <1>4. PICK q \in Seq(X), r \in Seq(X) : q = After(s, b) /\ r = After(s, a)
    <2>1. a <= Len(s)
      OBVIOUS
    <2>2. After(s, a) \in Seq(X)
      BY <2>1, AfterType
    <2>3. After(s, b) \in Seq(X)
      BY AfterType
    <2> QED
      BY <2>2, <2>3
  <1>5. Len(q) = n - b /\ \A i \in 1..(n - b) : q[i] = s[b + i]
    BY <1>1, <1>4, AfterType
  <1>6. Len(r) = n - a /\ \A i \in 1..(n - a) : r[i] = s[a + i]
    <2>1. a <= Len(s)
      OBVIOUS
    <2> QED
      BY <1>1, <1>4, <2>1, AfterType
  <1>7. PICK t \in Seq(X) : t = p \o q
    BY <1>3, ConcatProperties
  <1>12. PICK u \in Nat : u = n - b
    <2>1. b <= n
      BY <1>1
    <2> QED
      BY <2>1
  <1>8. l + (n - b) = n - a /\ n - a \in Nat
    BY <1>1
  <1>9. Len(t) = n - a /\ \A i \in 1..(n - a) : t[i] = IF i <= l THEN p[i] ELSE q[i - l]
    <2>1. Len(t) = l + u /\ \A i \in 1..(l + u) : t[i] = IF i <= l THEN p[i] ELSE q[i - l]
      <3>1. p \in Seq(X) /\ l = Len(p) /\ u = Len(q)
        BY <1>3, <1>5, <1>12
      <3> QED
        BY <1>7, <3>1, Joined
    <2> QED
      BY <1>8, <1>12, <2>1
  <1>10. ASSUME NEW i \in 1..(n - a) PROVE t[i] = r[i]
    <2>1. CASE i <= l
      <3>1. i \in 1..l
        BY <1>8, <2>1
      <3> QED
        BY <1>3, <1>6, <1>9, <2>1, <3>1
    <2>2. CASE ~(i <= l)
      <3>1. i - l \in 1..(n - b) /\ b + (i - l) = a + i
        BY <1>1, <1>8, <2>2
      <3> QED
        BY <1>5, <1>6, <1>9, <2>2, <3>1
    <2> QED
      BY <2>1, <2>2
  <1>11. t = r
    BY <1>6, <1>9, <1>10, SeqEqual
  <1> QED
    BY <1>2, <1>4, <1>7, <1>11
=============================================================================
