----------------------------- MODULE TrackProofs ------------------------------
(***************************************************************************)
(* Proofs about tracks: that the parser of full track names keeps to its   *)
(* limits and is the inverse of the rendering, for strings and names of    *)
(* any length and any limits, and that the comparisons of locations order  *)
(* the objects of a track.                                                 *)
(***************************************************************************)
EXTENDS TrackNames, Locations, DataLemmas

-----------------------------------------------------------------------------
(* Splitting a string *)

\* The string s has c slashes, at e[1] to e[c], and an end on either side of them.
Cuts(s, c, e) ==
    /\ c \in Nat /\ c = Cardinality(Slashes(s)) /\ e \in [0..(c + 1) -> Nat]
    /\ e[0] = 0 /\ e[c + 1] = Len(s) + 1
    /\ \A i \in 0..c : e[i] < e[i + 1]
    /\ \A i \in 1..c : e[i] \in 1..Len(s) /\ s[e[i]] = Slash
    /\ \A x \in 1..Len(s) : s[x] = Slash => \E i \in 1..c : x = e[i]

\* The ends in increasing order, as Split lays them out.
LEMMA Laid ==
  ASSUME NEW c \in Nat, NEW at \in [1..c -> Nat], NEW z \in Nat, NEW l \in Nat,
         NEW ends, ends = <<z>> \o at \o <<l>>
  PROVE  /\ Len(at) = c /\ ends[1] = z /\ ends[c + 2] = l
         /\ \A i \in 1..c : ends[i + 1] = at[i]
  <1>1. at \in Seq(Nat) /\ Len(at) = c /\ <<z>> \in Seq(Nat) /\ <<l>> \in Seq(Nat)
    OBVIOUS
  <1>2. PICK a \in Seq(Nat) : a = <<z>> \o at
    BY <1>1, ConcatProperties
  <1>3. Len(a) = c + 1 /\ a[1] = z /\ \A i \in 1..c : a[i + 1] = at[i]
    <2>1. Len(<<z>>) = 1 /\ <<z>>[1] = z
      OBVIOUS
    <2>2. Len(a) = 1 + c /\ \A i \in 1..(1 + c) : a[i] = IF i <= 1 THEN <<z>>[i] ELSE at[i - 1]
      BY <1>1, <1>2, <2>1, ConcatProperties
    <2>3. a[1] = z
      BY <2>1, <2>2
    <2>4. ASSUME NEW i \in 1..c PROVE a[i + 1] = at[i]
      <3>1. i + 1 \in 1..(1 + c) /\ ~(i + 1 <= 1) /\ (i + 1) - 1 = i
        OBVIOUS
      <3> QED
        BY <2>2, <3>1
    <2> QED
      BY <2>2, <2>3, <2>4
  <1>4. ends = a \o <<l>>
    BY <1>2
  <1>5. \A i \in 1..(c + 2) : ends[i] = IF i <= c + 1 THEN a[i] ELSE <<l>>[i - (c + 1)]
    <2>1. Len(<<l>>) = 1 /\ Len(a) = c + 1
      BY <1>3
    <2>2. Len(a) + Len(<<l>>) = c + 2
      BY <2>1
    <2> QED
      BY <1>1, <1>2, <1>4, <2>1, <2>2, ConcatProperties
  <1>6. ends[1] = z /\ ends[c + 2] = l
    <2>1. 1 \in 1..(c + 2) /\ c + 2 \in 1..(c + 2) /\ 1 <= c + 1 /\ ~(c + 2 <= c + 1)
          /\ (c + 2) - (c + 1) = 1 /\ <<l>>[1] = l
      OBVIOUS
    <2> QED
      BY <1>3, <1>5, <2>1
  <1>7. ASSUME NEW i \in 1..c PROVE ends[i + 1] = at[i]
    <2>1. i + 1 \in 1..(c + 2) /\ i + 1 <= c + 1
      OBVIOUS
    <2> QED
      BY <1>3, <1>5, <2>1
  <1> QED
    BY <1>1, <1>6, <1>7

LEMMA Cutting ==
  ASSUME NEW s \in Seq(Byte)
  PROVE  \E c, e : /\ Cuts(s, c, e) /\ Len(Split(s)) = c + 1 /\ DOMAIN Split(s) = 1..(c + 1)
                   /\ \A i \in 0..c : Split(s)[i + 1] = SubSeq(s, e[i] + 1, e[i + 1] - 1)
  <1> DEFINE n == Len(s)
             S == Slashes(s)
             at == InOrder(S)
             c == Cardinality(S)
             ends == <<0>> \o at \o <<n + 1>>
             e == [i \in 0..(c + 1) |-> ends[i + 1]]
  <1>1. n \in Nat /\ S \in SUBSET (1..n) /\ \A x \in 1..n : x \in S <=> s[x] = Slash
    BY DEF Slashes
  <1>2. Split(s) = [k \in 1..(Len(at) + 1) |-> SubSeq(s, ends[k] + 1, ends[k + 1] - 1)]
    BY DEF Split
  <1> HIDE DEF n, S
  <1>3. /\ c \in Nat /\ at \in [1..c -> S]
        /\ \A i, j \in 1..c : i < j => at[i] < at[j]
        /\ \A x \in S : \E i \in 1..c : at[i] = x
    BY <1>1, Listed
  <1> HIDE DEF at, c
  <1>4. /\ at \in [1..c -> Nat] /\ n + 1 \in Nat
        /\ \A i \in 1..c : at[i] \in 1..n
    <2>1. S \subseteq 1..n /\ S \subseteq Nat /\ n + 1 \in Nat
      BY <1>1
    <2>2. \A i \in 1..c : at[i] \in S
      BY <1>3
    <2> QED
      BY <1>3, <2>1, <2>2
  <1>5. /\ Len(at) = c /\ ends[1] = 0 /\ ends[c + 2] = n + 1
        /\ \A i \in 1..c : ends[i + 1] = at[i]
    BY <1>3, <1>4, Laid
  <1> HIDE DEF ends
  <1>6. \A i \in 0..(c + 1) : e[i] = ends[i + 1]
    OBVIOUS
  <1>7. /\ e[0] = 0 /\ e[c + 1] = n + 1 /\ \A i \in 1..c : e[i] = at[i]
    <2>1. 0 \in 0..(c + 1) /\ c + 1 \in 0..(c + 1) /\ 0 + 1 = 1 /\ (c + 1) + 1 = c + 2
          /\ \A i \in 1..c : i \in 0..(c + 1)
      BY <1>3
    <2> HIDE DEF e
    <2> QED
      BY <1>5, <1>6, <2>1
  <1>8. e \in [0..(c + 1) -> Nat]
    <2>1. ASSUME NEW i \in 0..(c + 1) PROVE ends[i + 1] \in Nat
      <3>1. i = 0 \/ i = c + 1 \/ i \in 1..c
        BY <1>3
      <3> HIDE DEF e
      <3> QED
        BY <1>4, <1>6, <1>7, <3>1
    <2> QED
      BY <2>1
  <1> HIDE DEF e
  <1>9. ASSUME NEW i \in 0..c PROVE e[i] < e[i + 1]
    <2>1. CASE i = 0 /\ c = 0
      BY <1>1, <1>7, <2>1
    <2>2. CASE i = 0 /\ c # 0
      <3>1. 1 \in 1..c /\ i + 1 = 1
        BY <1>3, <2>2
      <3> QED
        BY <1>4, <1>7, <2>2, <3>1
    <2>3. CASE i # 0 /\ i = c
      <3>1. i \in 1..c
        BY <1>3, <2>3
      <3>2. at[i] \in 1..n /\ e[i] = at[i] /\ e[i + 1] = n + 1
        BY <1>4, <1>7, <2>3, <3>1
      <3> QED
        BY <1>1, <3>2
    <2>4. CASE i # 0 /\ i # c
      <3>1. i \in 1..c /\ i + 1 \in 1..c /\ i < i + 1
        BY <1>3, <2>4
      <3> QED
        BY <1>3, <1>7, <3>1
    <2> QED
      BY <2>1, <2>2, <2>3, <2>4
  <1>10. \A i \in 1..c : e[i] \in 1..n /\ s[e[i]] = Slash
    BY <1>1, <1>3, <1>4, <1>7
  <1>11. \A x \in 1..n : s[x] = Slash => \E i \in 1..c : x = e[i]
    BY <1>1, <1>3, <1>7
  <1>12. Cuts(s, c, e)
    BY <1>3, <1>7, <1>8, <1>9, <1>10, <1>11 DEF Cuts, c, n, S
  <1>13. Len(Split(s)) = c + 1 /\ DOMAIN Split(s) = 1..(c + 1)
    BY <1>2, <1>3, <1>5
  <1>14. ASSUME NEW i \in 0..c PROVE Split(s)[i + 1] = SubSeq(s, e[i] + 1, e[i + 1] - 1)
    <2>1. i + 1 \in 1..(c + 1) /\ i \in 0..(c + 1) /\ i + 1 \in 0..(c + 1)
      BY <1>3
    <2>2. Split(s)[i + 1] = SubSeq(s, ends[i + 1] + 1, ends[(i + 1) + 1] - 1)
      BY <1>2, <1>5, <2>1
    <2> QED
      BY <1>6, <2>1, <2>2
  <1> QED
    BY <1>12, <1>13, <1>14

\* One end after another, with the places between them.
LEMMA Apart ==
  ASSUME NEW s \in Seq(Byte), NEW c, NEW e, Cuts(s, c, e),
         NEW i \in 0..(c + 1)
  PROVE  \A j \in 0..(c + 1) : i <= j => e[j] - e[i] >= j - i
  <1> DEFINE S == {j \in 0..(c + 1) : i <= j => e[j] - e[i] >= j - i}
  <1>1. c \in Nat /\ (\A j \in 0..(c + 1) : e[j] \in Nat) /\ \A j \in 0..c : e[j] < e[j + 1]
    BY DEF Cuts
  <1>2. 0 \in S
    BY <1>1
  <1>3. ASSUME NEW k \in 0..((c + 1) - 1), k \in S PROVE k + 1 \in S
    <2>1. k \in 0..c /\ k \in 0..(c + 1) /\ k + 1 \in 0..(c + 1)
      BY <1>1
    <2>2. e[k] < e[k + 1] /\ e[k] \in Nat /\ e[k + 1] \in Nat /\ e[i] \in Nat
      BY <1>1, <2>1
    <2>3. i <= k => e[k] - e[i] >= k - i
      BY <1>3
    <2>4. i <= k + 1 => i <= k \/ i = k + 1
      BY <2>1
    <2>5. i <= k + 1 => e[k + 1] - e[i] >= (k + 1) - i
      BY <2>1, <2>2, <2>3, <2>4
    <2> QED
      BY <2>1, <2>5
  <1>4. c + 1 \in Nat
    BY <1>1
  <1>5. \A k \in 0..(c + 1) : k \in S
    <2> HIDE DEF S
    <2> QED
      BY <1>2, <1>3, <1>4, UpTo
  <1> QED
    BY <1>5

\* What lies between two places, element by element.
LEMMA Inner ==
  ASSUME NEW s \in Seq(Byte), NEW a \in Nat, NEW b \in Nat, a < b, b <= Len(s) + 1,
         NEW q, q = SubSeq(s, a + 1, b - 1)
  PROVE  /\ q \in Seq(Byte) /\ Len(q) = (b - a) - 1
         /\ \A x \in 1..((b - a) - 1) : /\ a + x \in 1..Len(s) /\ a < a + x /\ a + x < b
                                        /\ q[x] = s[a + x] /\ s[a + x] \in Byte
  <1>1. PICK l \in Nat, n \in Nat : /\ n = Len(s) /\ l = (b - a) - 1
                                  /\ a + l <= n /\ b - 1 = a + l /\ a + l < b
    OBVIOUS
  <1>2. Segment(Byte, q, s, a, l)
    BY <1>1 DEF Segment
  <1>3. q \in Seq(Byte) /\ Len(q) = l /\ \A x \in 1..l : q[x] = s[a + x]
    <2>1. Elements(Byte, q, s, a, l)
      BY <1>2, Middle
    <2> QED
      BY <2>1 DEF Elements
  <1>4. \A x \in 1..l : a + x \in 1..n /\ a < a + x /\ a + x < b
    BY <1>1
  <1>5. \A x \in 1..l : s[a + x] \in Byte
    BY <1>1, <1>4
  <1> QED
    BY <1>1, <1>3, <1>4, <1>5

\* Between one end and the next there is no slash.
LEMMA Between ==
  ASSUME NEW s \in Seq(Byte), NEW c, NEW e, Cuts(s, c, e), NEW i \in 0..c
  PROVE  SubSeq(s, e[i] + 1, e[i + 1] - 1) \in Seq(Letters)
         /\ Len(SubSeq(s, e[i] + 1, e[i + 1] - 1)) = (e[i + 1] - e[i]) - 1
  <1>1. PICK n \in Nat, a \in Nat, b \in Nat :
            n = Len(s) /\ a = e[i] /\ b = e[i + 1] /\ a < b /\ b <= n + 1
    <2>1. c \in Nat /\ i \in 0..(c + 1) /\ i + 1 \in 0..(c + 1) /\ c + 1 \in 0..(c + 1)
          /\ i + 1 <= c + 1
      BY DEF Cuts
    <2>2. e[i] \in Nat /\ e[i + 1] \in Nat /\ e[i] < e[i + 1] /\ e[c + 1] = Len(s) + 1
      BY <2>1 DEF Cuts
    <2>3. e[c + 1] - e[i + 1] >= (c + 1) - (i + 1)
      BY <2>1, Apart
    <2>4. Len(s) \in Nat
      OBVIOUS
    <2>5. e[i + 1] <= Len(s) + 1
      BY <2>1, <2>2, <2>3, <2>4
    <2> QED
      BY <2>2, <2>4, <2>5
  <1>2. PICK q : q = SubSeq(s, a + 1, b - 1)
    OBVIOUS
  <1>3. /\ q \in Seq(Byte) /\ Len(q) = (b - a) - 1
        /\ \A x \in 1..((b - a) - 1) : /\ a + x \in 1..Len(s) /\ a < a + x /\ a + x < b
                                       /\ q[x] = s[a + x] /\ s[a + x] \in Byte
    <2>1. a < b /\ b <= Len(s) + 1
      BY <1>1
    <2> QED
      BY <1>2, <2>1, Inner
  <1>4. ASSUME NEW x \in 1..((b - a) - 1) PROVE q[x] \in Letters
    <2>1. a + x \in 1..n /\ a < a + x /\ a + x < b
      BY <1>1, <1>3
    <2>2. s[a + x] \in Byte /\ q[x] = s[a + x]
      BY <1>3
    <2>3. ASSUME s[a + x] = Slash PROVE FALSE
      <3>1. PICK j \in 1..c : a + x = e[j]
        BY <1>1, <2>1, <2>3 DEF Cuts
      <3>2. c \in Nat /\ i \in 0..(c + 1) /\ i + 1 \in 0..(c + 1) /\ j \in 0..(c + 1)
            /\ (j <= i \/ i + 1 <= j)
        <4>1. c \in Nat
          BY DEF Cuts
        <4> QED
          BY <4>1
      <3>3. e[i] = a /\ e[i + 1] = b /\ e[j] = a + x /\ e[j] \in Nat
        <4>1. a + x \in Nat
          BY <2>1
        <4> QED
          BY <1>1, <3>1, <4>1
      <3>4. j <= i => e[i] - e[j] >= i - j
        BY <3>2, Apart
      <3>5. i + 1 <= j => e[j] - e[i + 1] >= j - (i + 1)
        BY <3>2, Apart
      <3>6. a < e[j] /\ e[j] < b /\ e[j] \in Nat
        BY <2>1, <3>3
      <3>7. CASE j <= i
        <4>1. a - e[j] >= i - j
          BY <3>3, <3>4, <3>7
        <4> QED
          BY <3>2, <3>6, <3>7, <4>1
      <3>8. CASE i + 1 <= j
        <4>1. e[j] - b >= j - (i + 1)
          BY <3>3, <3>5, <3>8
        <4> QED
          BY <3>2, <3>6, <3>8, <4>1
      <3> QED
        BY <3>2, <3>7, <3>8
    <2> QED
      BY <2>2, <2>3 DEF Byte
  <1>5. q \in Seq(Letters)
    BY <1>1, <1>3, <1>4
  <1> QED
    BY <1>1, <1>2, <1>3, <1>5

\* The parts of s, cut at e, have no slash among them.
Parts(s, c, e) ==
    /\ Split(s) \in Seq(Seq(Letters)) /\ Len(Split(s)) = c + 1
    /\ \A i \in 0..c : /\ Split(s)[i + 1] = SubSeq(s, e[i] + 1, e[i + 1] - 1)
                       /\ Len(Split(s)[i + 1]) = (e[i + 1] - e[i]) - 1

LEMMA Splitting ==
  ASSUME NEW s \in Seq(Byte)
  PROVE  \E c, e : Cuts(s, c, e) /\ Parts(s, c, e)
  <1>1. PICK c, e : /\ Cuts(s, c, e) /\ Len(Split(s)) = c + 1 /\ DOMAIN Split(s) = 1..(c + 1)
                    /\ \A i \in 0..c : Split(s)[i + 1] = SubSeq(s, e[i] + 1, e[i + 1] - 1)
    BY Cutting
  <1>2. c \in Nat
    BY <1>1 DEF Cuts
  <1>3. PICK p : p = Split(s)
    OBVIOUS
  <1>4. \A i \in 0..c : p[i + 1] \in Seq(Letters) /\ Len(p[i + 1]) = (e[i + 1] - e[i]) - 1
    <2> SUFFICES ASSUME NEW i \in 0..c
                 PROVE  p[i + 1] \in Seq(Letters) /\ Len(p[i + 1]) = (e[i + 1] - e[i]) - 1
      OBVIOUS
    <2>1. p[i + 1] = SubSeq(s, e[i] + 1, e[i + 1] - 1)
      BY <1>1, <1>3
    <2> QED
      BY <1>1, <2>1, Between
  <1>5. p \in Seq(Seq(Letters))
    <2>1. p = [k \in 1..(c + 1) |-> p[k]]
      BY <1>1, <1>3 DEF Split
    <2>2. ASSUME NEW k \in 1..(c + 1) PROVE p[k] \in Seq(Letters)
      <3>1. k - 1 \in 0..c /\ (k - 1) + 1 = k
        BY <1>2
      <3> QED
        BY <1>4, <3>1
    <2>3. PICK m \in Nat : m = c + 1
      BY <1>2
    <2>4. p = [k \in 1..m |-> p[k]] /\ \A k \in 1..m : p[k] \in Seq(Letters)
      BY <2>1, <2>2, <2>3
    <2>5. p \in [1..m -> Seq(Letters)]
      BY <2>4
    <2> QED
      BY <2>5
  <1> QED
    BY <1>1, <1>3, <1>4, <1>5 DEF Parts

-----------------------------------------------------------------------------
(* Rendering, field by field *)

\* The fields, each with its slash, and what is rendered after the first k.
Closed(ns) == [i \in DOMAIN ns |-> Append(ns[i], Slash)]
Remaining(t, k) == FlattenSeq(After(Closed(t.namespace), k)) \o t.name

LEMMA Unrolling ==
  ASSUME NEW t \in FullTrackName
  PROVE  /\ Rendering(t) = Remaining(t, 0) /\ Remaining(t, Len(t.namespace)) = t.name
         /\ \A k \in 0..Len(t.namespace) : Remaining(t, k) \in Seq(Byte)
         /\ \A k \in 0..(Len(t.namespace) - 1) :
               Remaining(t, k) = Append(t.namespace[k + 1], Slash) \o Remaining(t, k + 1)
  <1>1. t.namespace \in Seq(Seq(Byte)) /\ Len(t.namespace) \in Nat
    BY DEF FullTrackName
  <1>2. PICK n \in Nat, ns \in Seq(Seq(Byte)) : ns = t.namespace /\ n = Len(ns)
    BY <1>1
  <1>3. PICK name : name = t.name
    OBVIOUS
  <1>4. ns \in Seq(Seq(Byte)) /\ name \in Seq(Byte) /\ Slash \in Byte
    BY <1>2, <1>3 DEF FullTrackName, Byte
  <1>5. PICK s : s = Closed(ns)
    OBVIOUS
  <1>6. s \in Seq(Seq(Byte)) /\ Len(s) = n /\ \A i \in 1..n : s[i] = Append(ns[i], Slash)
    <2>1. DOMAIN ns = 1..n /\ \A i \in 1..n : ns[i] \in Seq(Byte)
      BY <1>2, <1>4
    <2>2. \A i \in 1..n : Append(ns[i], Slash) \in Seq(Byte)
      BY <1>4, <2>1
    <2>3. s = [i \in 1..n |-> Append(ns[i], Slash)]
      BY <1>5, <2>1 DEF Closed
    <2> QED
      BY <2>2, <2>3
  <1>7. /\ After(s, 0) = s /\ FlattenSeq(After(s, n)) = <<>>
        /\ \A k \in 0..n : FlattenSeq(After(s, k)) \in Seq(Byte)
        /\ \A k \in 0..(n - 1) :
              FlattenSeq(After(s, k)) = s[k + 1] \o FlattenSeq(After(s, k + 1))
    BY <1>6, FlattenAfter
  <1>8. \A k : Remaining(t, k) = FlattenSeq(After(s, k)) \o name
    BY <1>2, <1>5, <1>3 DEF Remaining
  <1>9. Rendering(t) = Remaining(t, 0)
    <2>1. Rendering(t) = FlattenSeq(s) \o name
      BY <1>2, <1>5, <1>3 DEF Rendering, Closed
    <2> QED
      BY <1>7, <1>8, <2>1
  <1>10. Remaining(t, n) = name
    <2>1. <<>> \o name = name
      BY <1>4, ConcatEmptySeq
    <2> QED
      BY <1>7, <1>8, <2>1
  <1>11. \A k \in 0..n : Remaining(t, k) \in Seq(Byte)
    BY <1>4, <1>7, <1>8, ConcatProperties
  <1>12. ASSUME NEW k \in 0..(n - 1)
         PROVE  Remaining(t, k) = Append(ns[k + 1], Slash) \o Remaining(t, k + 1)
    <2>1. k + 1 \in 1..n /\ k + 1 \in 0..n /\ k \in 0..n
      OBVIOUS
    <2>2. PICK a, b \in Seq(Byte) : a = s[k + 1] /\ b = FlattenSeq(After(s, k + 1))
      BY <1>6, <1>7, <2>1
    <2>3. Regroups(a, b, name)
      BY <1>4, Regroup
    <2>4. Remaining(t, k) = (a \o b) \o name /\ Remaining(t, k + 1) = b \o name
      BY <1>7, <1>8, <2>2
    <2>5. a = Append(ns[k + 1], Slash)
      BY <1>6, <2>1, <2>2
    <2> QED
      BY <2>3, <2>4, <2>5 DEF Regroups
  <1> QED
    BY <1>2, <1>3, <1>9, <1>10, <1>11, <1>12

\* The string s is the field x, its slash, and r, of m and k bytes.
Heads(x, m, r, k, s) ==
    /\ Len(s) = (m + 1) + k /\ s[m + 1] = Slash
    /\ \A i \in 1..m : s[i] = x[i]
    /\ \A i \in 1..k : s[(m + 1) + i] = r[i]

LEMMA Headed ==
  ASSUME NEW x \in Seq(Byte), NEW r \in Seq(Byte), NEW m, m = Len(x), NEW k, k = Len(r),
         NEW s, s = Append(x, Slash) \o r
  PROVE  Heads(x, m, r, k, s)
  <1>1. PICK a, l : a = Append(x, Slash) /\ l = m + 1
    OBVIOUS
  <1>2. /\ a \in Seq(Byte) /\ m \in Nat /\ Len(a) = l /\ a[l] = Slash
        /\ \A i \in 1..m : a[i] = x[i]
    <2>1. Slash \in Byte
      BY DEF Byte
    <2> QED
      BY <1>1, <2>1, Appended
  <1>3. k \in Nat /\ l \in Nat /\ l = m + 1
    BY <1>1, <1>2
  <1>4. s = a \o r
    BY <1>1
  <1>5. /\ s \in Seq(Byte) /\ Len(s) = l + k
        /\ \A i \in 1..(l + k) : s[i] = IF i <= l THEN a[i] ELSE r[i - l]
    <2>1. a \in Seq(Byte) /\ l = Len(a) /\ s = a \o r
      BY <1>2, <1>4
    <2> QED
      BY <2>1, Joined
  <1>6. s[l] = Slash
    <2>1. l \in 1..(l + k) /\ l <= l
      BY <1>2, <1>3
    <2> QED
      BY <1>2, <1>5, <2>1
  <1>7. ASSUME NEW i \in 1..m PROVE s[i] = x[i]
    <2>1. i \in 1..(l + k) /\ i <= l
      BY <1>2, <1>3
    <2> QED
      BY <1>2, <1>5, <2>1
  <1>8. ASSUME NEW i \in 1..k PROVE s[l + i] = r[i]
    <2>1. l + i \in 1..(l + k) /\ ~(l + i <= l) /\ (l + i) - l = i
      BY <1>3
    <2> QED
      BY <1>5, <2>1
  <1> QED
    BY <1>2, <1>3, <1>5, <1>6, <1>7, <1>8 DEF Heads

\* Two strings whose first slash ends a field: the field and what follows are the
\* same if the strings are.
LEMMA FirstField ==
  ASSUME NEW x \in Seq(Letters), NEW y \in Seq(Letters), NEW r \in Seq(Byte), NEW q \in Seq(Byte),
         NEW s, s = Append(x, Slash) \o r, s = Append(y, Slash) \o q
  PROVE  x = y /\ r = q
  <1>1. PICK m \in Nat, n \in Nat, k \in Nat, l \in Nat :
            m = Len(x) /\ n = Len(y) /\ k = Len(r) /\ l = Len(q)
    OBVIOUS
  <1>2. x \in Seq(Byte) /\ y \in Seq(Byte)
    BY DEF Byte
  <1>3. /\ Len(s) = (m + 1) + k /\ s[m + 1] = Slash
        /\ \A i \in 1..m : s[i] = x[i]
        /\ \A i \in 1..k : s[(m + 1) + i] = r[i]
    <2>1. Heads(x, m, r, k, s)
      BY <1>1, <1>2, Headed
    <2> QED
      BY <2>1 DEF Heads
  <1>4. /\ Len(s) = (n + 1) + l /\ s[n + 1] = Slash
        /\ \A i \in 1..n : s[i] = y[i]
        /\ \A i \in 1..l : s[(n + 1) + i] = q[i]
    <2>1. Heads(y, n, q, l, s)
      BY <1>1, <1>2, Headed
    <2> QED
      BY <2>1 DEF Heads
  <1>5. ~(m < n)
    <2> SUFFICES ASSUME m < n PROVE FALSE
      OBVIOUS
    <2>1. m + 1 \in 1..n
      OBVIOUS
    <2>2. y[m + 1] = Slash /\ y[m + 1] \in Letters
      BY <1>1, <1>3, <1>4, <2>1
    <2> QED
      BY <2>2, SlashAssumption
  <1>6. ~(n < m)
    <2> SUFFICES ASSUME n < m PROVE FALSE
      OBVIOUS
    <2>1. n + 1 \in 1..m
      OBVIOUS
    <2>2. x[n + 1] = Slash /\ x[n + 1] \in Letters
      BY <1>1, <1>3, <1>4, <2>1
    <2> QED
      BY <2>2, SlashAssumption
  <1>7. m = n /\ k = l
    <2>1. m = n
      BY <1>5, <1>6
    <2>2. (m + 1) + k = (n + 1) + l
      BY <1>3, <1>4
    <2> QED
      BY <2>1, <2>2
  <1>8. \A i \in 1..m : x[i] = y[i]
    BY <1>3, <1>4, <1>7
  <1>9. \A i \in 1..k : r[i] = q[i]
    BY <1>3, <1>4, <1>7
  <1>10. x = y
    BY <1>1, <1>7, <1>8, SeqEqual
  <1>11. r = q
    BY <1>1, <1>7, <1>9, SeqEqual
  <1> QED
    BY <1>10, <1>11

\* A string with a slash is no field.
LEMMA NoField ==
  ASSUME NEW x \in Seq(Byte), NEW r \in Seq(Byte), NEW y \in Seq(Letters)
  PROVE  Append(x, Slash) \o r # y
  <1> SUFFICES ASSUME y = Append(x, Slash) \o r PROVE FALSE
    OBVIOUS
  <1>1. PICK m \in Nat, k \in Nat : m = Len(x) /\ k = Len(r)
    OBVIOUS
  <1>2. Len(y) = (m + 1) + k /\ y[m + 1] = Slash
    BY <1>1, Headed DEF Heads
  <1>3. m + 1 \in 1..Len(y)
    BY <1>2
  <1> QED
    BY <1>2, <1>3, SlashAssumption

\* A name none of whose fields holds a slash.
Unslashed(t) == t.namespace \in Seq(Seq(Letters)) /\ t.name \in Seq(Letters)

\* Two such names that are written alike are alike.
LEMMA WrittenAlike ==
  ASSUME NEW g \in FullTrackName, NEW h \in FullTrackName, Unslashed(g), Unslashed(h),
         Rendering(g) = Rendering(h)
  PROVE  g = h
  <1>1. PICK v, w : v = g.namespace /\ w = h.namespace
    OBVIOUS
  <1>2. v \in Seq(Seq(Letters)) /\ w \in Seq(Seq(Letters))
    BY <1>1 DEF Unslashed
  <1>3. PICK m \in Nat, n \in Nat : m = Len(v) /\ n = Len(w)
    BY <1>2
  <1>4. /\ Rendering(g) = Remaining(g, 0) /\ Remaining(g, m) = g.name
        /\ \A k \in 0..m : Remaining(g, k) \in Seq(Byte)
        /\ \A k \in 0..(m - 1) : Remaining(g, k) = Append(v[k + 1], Slash) \o Remaining(g, k + 1)
    BY <1>1, <1>3, Unrolling
  <1>5. /\ Rendering(h) = Remaining(h, 0) /\ Remaining(h, n) = h.name
        /\ \A k \in 0..n : Remaining(h, k) \in Seq(Byte)
        /\ \A k \in 0..(n - 1) : Remaining(h, k) = Append(w[k + 1], Slash) \o Remaining(h, k + 1)
    BY <1>1, <1>3, Unrolling
  <1>6. \A f \in Seq(Letters) : f \in Seq(Byte)
    BY DEF Byte
  <1> DEFINE S == {k \in 0..m : /\ k <= n /\ Remaining(g, k) = Remaining(h, k)
                                /\ \A i \in 1..k : v[i] = w[i]}
  <1>7. 0 \in S
    <2>1. 0 \in 0..m /\ 0 <= n /\ \A i \in 1..0 : FALSE
      OBVIOUS
    <2> QED
      BY <1>4, <1>5, <2>1
  <1>8. ASSUME NEW k \in 0..(m - 1), k \in S PROVE k + 1 \in S
    <2>1. /\ k + 1 \in 1..m /\ k + 1 \in 0..m /\ k <= n
          /\ Remaining(g, k) = Remaining(h, k) /\ \A i \in 1..k : v[i] = w[i]
      BY <1>8
    <2>2. PICK x, r : x = v[k + 1] /\ r = Remaining(g, k + 1)
      OBVIOUS
    <2>3. x \in Seq(Letters) /\ x \in Seq(Byte) /\ r \in Seq(Byte)
          /\ Remaining(g, k) = Append(x, Slash) \o r
      <3>1. x \in Seq(Letters)
        BY <1>2, <1>3, <2>1, <2>2
      <3>2. x \in Seq(Byte)
        BY <1>6, <3>1
      <3>3. r \in Seq(Byte)
        BY <1>4, <2>1, <2>2
      <3>4. Remaining(g, k) = Append(x, Slash) \o r
        BY <1>4, <2>2
      <3> QED
        BY <3>1, <3>2, <3>3, <3>4
    <2>4. k # n
      <3> SUFFICES ASSUME k = n PROVE FALSE
        OBVIOUS
      <3>1. Append(x, Slash) \o r = h.name /\ h.name \in Seq(Letters)
        BY <1>5, <2>1, <2>3 DEF Unslashed
      <3> QED
        BY <2>3, <3>1, NoField
    <2>5. k \in 0..(n - 1) /\ k + 1 \in 0..n /\ k + 1 \in 1..n /\ k + 1 <= n
      BY <2>1, <2>4
    <2>6. PICK y, q : y = w[k + 1] /\ q = Remaining(h, k + 1)
      OBVIOUS
    <2>7. y \in Seq(Letters) /\ q \in Seq(Byte) /\ Remaining(h, k) = Append(y, Slash) \o q
      <3>1. y \in Seq(Letters)
        BY <1>2, <1>3, <2>5, <2>6
      <3>2. q \in Seq(Byte)
        BY <1>5, <2>5, <2>6
      <3>3. Remaining(h, k) = Append(y, Slash) \o q
        BY <1>5, <2>5, <2>6
      <3> QED
        BY <3>1, <3>2, <3>3
    <2>8. x = y /\ r = q
      <3>1. PICK s : s = Remaining(g, k)
        OBVIOUS
      <3>2. s = Append(x, Slash) \o r /\ s = Append(y, Slash) \o q
        BY <2>1, <2>3, <2>7, <3>1
      <3> QED
        <4>1. /\ x \in Seq(Letters) /\ y \in Seq(Letters)
              /\ r \in Seq(Byte) /\ q \in Seq(Byte)
          BY <2>3, <2>7
        <4> QED
          BY <3>2, <4>1, FirstField
    <2>9. \A i \in 1..(k + 1) : v[i] = w[i]
      <3> SUFFICES ASSUME NEW i \in 1..(k + 1) PROVE v[i] = w[i]
        OBVIOUS
      <3>1. i \in 1..k \/ i = k + 1
        BY <2>1
      <3> QED
        BY <2>1, <2>2, <2>6, <2>8, <3>1
    <2> QED
      BY <2>1, <2>2, <2>5, <2>6, <2>8, <2>9
  <1>9. m \in S
    <2> HIDE DEF S
    <2>1. \A k \in 0..m : k \in S
      BY <1>7, <1>8, UpTo
    <2> QED
      BY <2>1
  <1>10. m <= n /\ Remaining(h, m) = g.name /\ \A i \in 1..m : v[i] = w[i]
    BY <1>4, <1>9
  <1>11. m = n
    <2> SUFFICES ASSUME m # n PROVE FALSE
      OBVIOUS
    <2>1. m \in 0..(n - 1) /\ m + 1 \in 1..n /\ m + 1 \in 0..n
      BY <1>10
    <2>2. PICK y, q : y = w[m + 1] /\ q = Remaining(h, m + 1)
      OBVIOUS
    <2>3. y \in Seq(Byte) /\ q \in Seq(Byte) /\ Remaining(h, m) = Append(y, Slash) \o q
      <3>1. y \in Seq(Letters)
        BY <1>2, <1>3, <2>1, <2>2
      <3>2. q \in Seq(Byte)
        BY <1>5, <2>1, <2>2
      <3>3. Remaining(h, m) = Append(y, Slash) \o q
        BY <1>5, <2>1, <2>2
      <3> QED
        BY <1>6, <3>1, <3>2, <3>3
    <2>4. Append(y, Slash) \o q = g.name /\ g.name \in Seq(Letters)
      BY <1>10, <2>3 DEF Unslashed
    <2> QED
      BY <2>3, <2>4, NoField
  <1>12. g.name = h.name
    BY <1>5, <1>10, <1>11
  <1>13. v = w
    BY <1>2, <1>3, <1>10, <1>11, SeqEqual
  <1> QED
    <2>1. \A t \in FullTrackName : t = [namespace |-> t.namespace, name |-> t.name]
      BY DEF FullTrackName
    <2> QED
      BY <1>1, <1>12, <1>13, <2>1

-----------------------------------------------------------------------------
(* What is read of a string *)

Read(s) == [namespace |-> Front(Split(s)), name |-> Last(Split(s))]

\* The fields that were read are the parts of the string, and none holds a slash.
LEMMA ReadType ==
  ASSUME NEW s \in Seq(Byte), NEW c, NEW e, Cuts(s, c, e), Parts(s, c, e)
  PROVE  /\ c \in Nat /\ Front(Split(s)) \in Seq(Seq(Letters)) /\ Len(Front(Split(s))) = c
         /\ \A i \in 0..(c - 1) :
               /\ Front(Split(s))[i + 1] = SubSeq(s, e[i] + 1, e[i + 1] - 1)
               /\ Len(Front(Split(s))[i + 1]) = (e[i + 1] - e[i]) - 1
         /\ Last(Split(s)) = After(s, e[c]) /\ Last(Split(s)) \in Seq(Letters)
         /\ Len(Last(Split(s))) = Len(s) - e[c]
         /\ Read(s) \in FullTrackName /\ Unslashed(Read(s))
  <1>1. PICK p, f, n : p = Split(s) /\ f = Front(p) /\ n = Len(s)
    OBVIOUS
  <1>2. /\ p \in Seq(Seq(Letters)) /\ Len(p) = c + 1 /\ c \in Nat /\ n \in Nat
        /\ \A i \in 0..c : p[i + 1] = SubSeq(s, e[i] + 1, e[i + 1] - 1)
                           /\ Len(p[i + 1]) = (e[i + 1] - e[i]) - 1
    BY <1>1 DEF Cuts, Parts
  <1>3. f \in Seq(Seq(Letters)) /\ Len(f) = c /\ \A i \in 1..c : f[i] = p[i]
    <2>1. f = SubSeq(p, 1, c)
      BY <1>1, <1>2 DEF Front
    <2>2. Segment(Seq(Letters), f, p, 0, c)
      BY <1>2, <2>1 DEF Segment
    <2>3. f \in Seq(Seq(Letters)) /\ Len(f) = c /\ \A i \in 1..c : f[i] = p[0 + i]
      <3>1. Elements(Seq(Letters), f, p, 0, c)
        BY <2>2, Middle
      <3> QED
        BY <3>1 DEF Elements
    <2>4. \A i \in 1..c : 0 + i = i
      BY <1>2
    <2> QED
      BY <2>3, <2>4
  <1>4. ASSUME NEW i \in 0..(c - 1)
        PROVE  f[i + 1] = SubSeq(s, e[i] + 1, e[i + 1] - 1) /\ Len(f[i + 1]) = (e[i + 1] - e[i]) - 1
    <2>1. i \in 0..c /\ i + 1 \in 1..c
      BY <1>2
    <2> QED
      BY <1>2, <1>3, <2>1
  <1>5. e[c + 1] = n + 1 /\ e[c] \in Nat
    <2>1. c \in 0..(c + 1)
      BY <1>2
    <2> QED
      BY <1>1, <2>1 DEF Cuts
  <1>6. Last(p) = p[c + 1] /\ c \in 0..c /\ c + 1 \in 1..(c + 1)
    BY <1>2 DEF Last
  <1>7. Last(p) \in Seq(Letters) /\ Len(Last(p)) = n - e[c]
    <2>1. p[c + 1] \in Seq(Letters) /\ Len(p[c + 1]) = (e[c + 1] - e[c]) - 1
      BY <1>2, <1>6
    <2>2. (e[c + 1] - e[c]) - 1 = n - e[c]
      BY <1>2, <1>5
    <2> QED
      BY <1>6, <2>1, <2>2
  <1>8. Last(p) = After(s, e[c])
    <2>1. e[c + 1] - 1 = n
      BY <1>2, <1>5
    <2>2. p[c + 1] = SubSeq(s, e[c] + 1, e[c + 1] - 1)
      BY <1>2, <1>6
    <2> QED
      BY <1>1, <1>6, <2>1, <2>2 DEF After
  <1>9. Read(s) \in FullTrackName /\ Unslashed(Read(s))
    <2>1. Read(s) = [namespace |-> f, name |-> Last(p)]
      BY <1>1 DEF Read
    <2>2. \A x \in Seq(Letters) : x \in Seq(Byte)
      BY DEF Byte
    <2>3. f \in Seq(Seq(Byte)) /\ Last(p) \in Seq(Byte)
      <3>1. \A i \in 1..c : f[i] \in Seq(Byte)
        BY <1>3, <2>2
      <3> QED
        BY <1>2, <1>3, <1>7, <2>2, <3>1
    <2> QED
      BY <1>3, <1>7, <2>1, <2>3 DEF FullTrackName, Unslashed
  <1> QED
    BY <1>1, <1>2, <1>3, <1>4, <1>7, <1>8, <1>9

\* The fields are what is between the slashes, and no more.
LEMMA ReadBytes ==
  ASSUME NEW s \in Seq(Byte), NEW c, NEW e, Cuts(s, c, e), Parts(s, c, e)
  PROVE  Len(FlattenSeq(Front(Split(s)))) = e[c] - c
  <1>1. PICK f : f = Front(Split(s))
    OBVIOUS
  <1>2. /\ c \in Nat /\ f \in Seq(Seq(Letters)) /\ Len(f) = c
        /\ \A i \in 0..(c - 1) : Len(f[i + 1]) = (e[i + 1] - e[i]) - 1
    BY <1>1, ReadType
  <1>3. /\ After(f, 0) = f /\ FlattenSeq(After(f, c)) = <<>>
        /\ \A k \in 0..c : FlattenSeq(After(f, k)) \in Seq(Letters)
        /\ \A k \in 0..(c - 1) :
              FlattenSeq(After(f, k)) = f[k + 1] \o FlattenSeq(After(f, k + 1))
    BY <1>2, FlattenAfter
  <1>4. \A i \in 0..c : e[i] \in Nat
    <2>1. \A i \in 0..c : i \in 0..(c + 1)
      BY <1>2
    <2> QED
      BY <2>1 DEF Cuts
  <1> DEFINE S == {k \in 0..c : Len(FlattenSeq(After(f, k))) = (e[c] - e[k]) - (c - k)}
  <1>5. c \in S
    <2>1. c \in 0..c /\ e[c] \in Nat /\ (e[c] - e[c]) - (c - c) = 0
      BY <1>2, <1>4
    <2>2. Len(<<>>) = 0
      OBVIOUS
    <2> QED
      BY <1>3, <2>1, <2>2
  <1>6. ASSUME NEW k \in 0..(c - 1), k + 1 \in S PROVE k \in S
    <2>1. k \in 0..c /\ k + 1 \in 0..c /\ k + 1 \in 1..c /\ e[k] \in Nat /\ e[k + 1] \in Nat
          /\ e[c] \in Nat
      BY <1>2, <1>4
    <2>2. PICK a, b : a = f[k + 1] /\ b = FlattenSeq(After(f, k + 1))
      OBVIOUS
    <2>3. a \in Seq(Letters) /\ b \in Seq(Letters) /\ FlattenSeq(After(f, k)) = a \o b
      <3>1. a \in Seq(Letters)
        BY <1>2, <2>1, <2>2
      <3>2. b \in Seq(Letters)
        BY <1>3, <2>1, <2>2
      <3>3. FlattenSeq(After(f, k)) = a \o b
        BY <1>3, <2>2
      <3> QED
        BY <3>1, <3>2, <3>3
    <2>4. Len(a \o b) = Len(a) + Len(b)
      BY <2>3, ConcatProperties
    <2>5. Len(a) = (e[k + 1] - e[k]) - 1
      BY <1>2, <2>2
    <2>6. Len(b) = (e[c] - e[k + 1]) - (c - (k + 1))
      BY <1>6, <2>2
    <2>7. Len(a \o b) = (e[c] - e[k]) - (c - k)
      <3>1. PICK u, v, w \in Nat : u = e[k] /\ v = e[k + 1] /\ w = e[c]
        BY <2>1
      <3>2. Len(a) = (v - u) - 1 /\ Len(b) = (w - v) - (c - (k + 1))
        BY <2>5, <2>6, <3>1
      <3>3. Len(a \o b) = ((v - u) - 1) + ((w - v) - (c - (k + 1)))
        BY <2>4, <3>2
      <3>4. ((v - u) - 1) + ((w - v) - (c - (k + 1))) = (w - u) - (c - k)
        BY <1>2
      <3> QED
        BY <3>1, <3>3, <3>4
    <2> QED
      BY <2>1, <2>3, <2>7
  <1>7. 0 \in S
    <2> HIDE DEF S
    <2>1. \A k \in 0..c : k \in S
      BY <1>2, <1>5, <1>6, DownFrom
    <2> QED
      BY <1>2, <2>1
  <1>8. e[0] = 0 /\ e[c] \in Nat
    BY <1>2, <1>4 DEF Cuts
  <1> QED
    BY <1>1, <1>2, <1>3, <1>7, <1>8

LEMMA Closes ==
  ASSUME NEW s \in Seq(Byte), NEW a \in Nat, NEW b \in Nat, a < b, b <= Len(s), s[b] = Slash
  PROVE  Append(SubSeq(s, a + 1, b - 1), Slash) = SubSeq(s, a + 1, b)
  <1>1. PICK l \in Nat : l = (b - a) - 1 /\ b - 1 = a + l /\ b = a + (l + 1) /\ a + l <= Len(s)
    OBVIOUS
  <1>2. PICK x, y, z : /\ x = SubSeq(s, a + 1, b - 1) /\ y = SubSeq(s, a + 1, b)
                       /\ z = Append(x, Slash)
    OBVIOUS
  <1>3. x \in Seq(Byte) /\ Len(x) = l /\ \A i \in 1..l : x[i] = s[a + i]
    <2>1. Segment(Byte, x, s, a, l)
      BY <1>1, <1>2 DEF Segment
    <2>2. Elements(Byte, x, s, a, l)
      BY <2>1, Middle
    <2> QED
      BY <2>2 DEF Elements
  <1>4. y \in Seq(Byte) /\ Len(y) = l + 1 /\ \A i \in 1..(l + 1) : y[i] = s[a + i]
    <2>1. Segment(Byte, y, s, a, l + 1)
      BY <1>1, <1>2 DEF Segment
    <2>2. Elements(Byte, y, s, a, l + 1)
      BY <2>1, Middle
    <2> QED
      BY <2>2 DEF Elements
  <1>5. z \in Seq(Byte) /\ Len(z) = l + 1 /\ z[l + 1] = Slash /\ \A i \in 1..l : z[i] = x[i]
    <2>1. Slash \in Byte
      BY DEF Byte
    <2> QED
      BY <1>2, <1>3, <2>1, Appended
  <1>6. ASSUME NEW i \in 1..(l + 1) PROVE z[i] = y[i]
    <2>1. CASE i = l + 1
      BY <1>1, <1>4, <1>5, <2>1
    <2>2. CASE i # l + 1
      <3>1. i \in 1..l
        BY <2>2
      <3> QED
        BY <1>3, <1>4, <1>5, <3>1
    <2> QED
      BY <2>1, <2>2
  <1>7. z = y
    BY <1>4, <1>5, <1>6, SeqEqual
  <1> QED
    BY <1>2, <1>7

\* Written back, it is the string.
LEMMA ReadBack ==
  ASSUME NEW s \in Seq(Byte), NEW c, NEW e, Cuts(s, c, e), Parts(s, c, e)
  PROVE  Rendering(Read(s)) = s
  <1>1. PICK t, f : t = Read(s) /\ f = Front(Split(s))
    OBVIOUS
  <1>2. /\ c \in Nat /\ Len(f) = c /\ t \in FullTrackName
        /\ t.namespace = f /\ t.name = After(s, e[c])
        /\ \A i \in 0..(c - 1) : f[i + 1] = SubSeq(s, e[i] + 1, e[i + 1] - 1)
    BY <1>1, ReadType DEF Read
  <1>3. /\ Rendering(t) = Remaining(t, 0) /\ Remaining(t, c) = t.name
        /\ \A k \in 0..(c - 1) : Remaining(t, k) = Append(f[k + 1], Slash) \o Remaining(t, k + 1)
    BY <1>2, Unrolling
  <1> DEFINE S == {k \in 0..c : Remaining(t, k) = After(s, e[k])}
  <1>4. c \in S
    BY <1>2, <1>3
  <1>5. ASSUME NEW k \in 0..(c - 1), k + 1 \in S PROVE k \in S
    <2>1. k \in 0..c /\ k + 1 \in 1..c /\ k \in 0..(c + 1) /\ k + 1 \in 0..(c + 1)
      BY <1>2
    <2>2. PICK a, b : a = e[k] /\ b = e[k + 1]
      OBVIOUS
    <2>3. a \in Nat /\ b \in Nat /\ a < b /\ b <= Len(s) /\ s[b] = Slash /\ a <= b
      <3>1. a \in Nat /\ b \in Nat /\ a < b /\ b \in 1..Len(s) /\ s[b] = Slash
        BY <2>1, <2>2 DEF Cuts
      <3> QED
        BY <3>1
    <2>4. Remaining(t, k + 1) = After(s, b)
      BY <1>5, <2>2
    <2>5. Append(f[k + 1], Slash) = SubSeq(s, a + 1, b)
      <3>1. f[k + 1] = SubSeq(s, a + 1, b - 1)
        BY <1>2, <2>2
      <3>2. Append(SubSeq(s, a + 1, b - 1), Slash) = SubSeq(s, a + 1, b)
        BY <2>3, Closes
      <3> QED
        BY <3>1, <3>2
    <2>6. SubSeq(s, a + 1, b) \o After(s, b) = After(s, a)
      BY <2>3, Adjoining
    <2>7. Remaining(t, k) = After(s, a)
      BY <1>3, <2>4, <2>5, <2>6
    <2> QED
      BY <2>1, <2>2, <2>7
  <1>6. 0 \in S
    <2> HIDE DEF S
    <2>1. \A k \in 0..c : k \in S
      BY <1>2, <1>4, <1>5, DownFrom
    <2> QED
      BY <1>2, <2>1
  <1>7. After(s, e[0]) = s
    <2>1. e[0] = 0
      BY DEF Cuts
    <2> QED
      BY <2>1, SubSeqFull DEF After
  <1> QED
    BY <1>1, <1>3, <1>6, <1>7

-----------------------------------------------------------------------------
(* Where the parser stands *)

\* The string keeps to the limits.
Fits(s) == LET n == Cardinality(Slashes(s))
           IN  n \in MinFields..MaxFields /\ Len(s) - n <= MaxBytes

\* The name and the first j of c fields have been read and counted.
Progress(s, c, e, j) ==
    /\ Cuts(s, c, e) /\ Parts(s, c, e) /\ c \in MinFields..MaxFields /\ j \in 0..c
    /\ ftn = [namespace |-> SubSeq(Front(Split(s)), 1, j), name |-> Last(Split(s))]
    /\ ftnLen = (e[j] - j) + (Len(s) - e[c])
    /\ j # 0 => ftnLen <= MaxBytes
    /\ stage = "parsed" <=> j = c

TInv ==
    /\ stage \in {"render", "split", "fields", "parsed", "error"}
    /\ str \in Seq(Byte) /\ ftnLen \in Nat
    /\ given = <<>> \/ \E t \in Names : given = <<t>>
    /\ stage = "render" => given # <<>>
    /\ stage # "render" /\ given # <<>> => str = Rendering(given[1])
    /\ stage \in {"render", "split", "error"} => ftn = NoName
    /\ stage = "error" => ~Fits(str)
    /\ stage \in {"fields", "parsed"} => \E c, e, j : Progress(str, c, e, j)

LEMMA TInit == Init => TInv
  <1> SUFFICES ASSUME Init PROVE TInv
    OBVIOUS
  <1>1. CASE stage = "render"
    <2>1. PICK t \in Names : given = <<t>>
      BY <1>1 DEF Init
    <2>2. given # <<>> /\ str \in Seq(Byte) /\ ftn = NoName /\ ftnLen \in Nat
      BY <1>1, <2>1 DEF Init
    <2> QED
      BY <1>1, <2>1, <2>2 DEF TInv
  <1>2. CASE stage = "split"
    <2>1. given = <<>> /\ str \in Seq(Byte) /\ ftn = NoName /\ ftnLen \in Nat
      BY <1>2, StringsAssumption DEF Init
    <2> QED
      BY <1>2, <2>1 DEF TInv
  <1> QED
    BY <1>1, <1>2 DEF Init

LEMMA Rendered == ASSUME TInv, Render PROVE TInv'
  <1>1. PICK t \in Names : given = <<t>> /\ given' = <<t>>
    BY DEF TInv, Render
  <1>2. t \in FullTrackName
    BY StringsAssumption
  <1>3. str' = Rendering(t) /\ stage' = "split" /\ UNCHANGED <<ftn, ftnLen>>
    BY <1>1 DEF Render
  <1>4. str' \in Seq(Byte)
    <2>1. Len(t.namespace) \in Nat
      BY <1>2 DEF FullTrackName
    <2>2. 0 \in 0..Len(t.namespace)
      BY <2>1
    <2> QED
      BY <1>2, <1>3, <2>2, Unrolling
  <1> QED
    BY <1>1, <1>3, <1>4 DEF TInv, Render

LEMMA Begun == ASSUME TInv, Begin PROVE TInv'
  <1>1. str \in Seq(Byte) /\ stage = "split" /\ ftn = NoName /\ UNCHANGED <<given, str>>
        /\ ftnLen \in Nat
    BY DEF TInv, Begin
  <1>2. PICK c, e : Cuts(str, c, e) /\ Parts(str, c, e)
    BY <1>1, Splitting
  <1>3. c \in Nat /\ c = Cardinality(Slashes(str)) /\ Len(Split(str)) = c + 1
    BY <1>2 DEF Cuts, Parts
  <1>4. FieldsAllowed(Len(Split(str))) <=> c \in MinFields..MaxFields
    BY <1>3, LimitsAssumption DEF FieldsAllowed
  <1>5. CASE c \in MinFields..MaxFields
    <2>1. /\ stage' = "fields" /\ ftnLen' = Len(Last(Split(str)))
          /\ ftn' = [NoName EXCEPT !.name = Last(Split(str))]
      BY <1>4, <1>5 DEF Begin
    <2>2. /\ Len(Last(Split(str))) = Len(str) - e[c]
          /\ Front(Split(str)) \in Seq(Seq(Letters)) /\ Last(Split(str)) \in Seq(Letters)
      BY <1>1, <1>2, ReadType
    <2>3. ftn' = [namespace |-> SubSeq(Front(Split(str)), 1, 0), name |-> Last(Split(str))]
      <3>1. SubSeq(Front(Split(str)), 1, 0) = <<>>
        BY <2>2
      <3>2. [NoName EXCEPT !.name = Last(Split(str))] = [namespace |-> <<>>, name |-> Last(Split(str))]
        BY DEF NoName
      <3> QED
        BY <2>1, <3>1, <3>2
    <2>4. ftnLen' = (e[0] - 0) + (Len(str) - e[c]) /\ ftnLen' \in Nat
      <3>1. e[0] = 0 /\ e[c] \in Nat
        <4>1. c \in 0..(c + 1)
          BY <1>3
        <4> QED
          BY <1>2, <4>1 DEF Cuts
      <3>2. ftnLen' = Len(str) - e[c] /\ Len(str) \in Nat
        BY <1>1, <2>1, <2>2
      <3>3. Len(Last(Split(str))) \in Nat
        BY <2>2
      <3> QED
        BY <2>1, <3>1, <3>2, <3>3
    <2>5. 0 \in 0..c /\ 0 # c
      BY <1>3, <1>5, LimitsAssumption
    <2>6. Progress(str, c, e, 0)'
      BY <1>1, <1>2, <1>5, <2>1, <2>3, <2>4, <2>5 DEF Progress
    <2> QED
      BY <1>1, <2>1, <2>4, <2>6 DEF TInv
  <1>6. CASE c \notin MinFields..MaxFields
    <2>1. stage' = "error" /\ ftn' = NoName /\ UNCHANGED ftnLen
      BY <1>4, <1>6 DEF Begin, Refuse
    <2>2. ~Fits(str)
      BY <1>3, <1>6 DEF Fits
    <2> QED
      BY <1>1, <2>1, <2>2 DEF TInv
  <1> QED
    BY <1>5, <1>6

LEMMA Extended ==
  ASSUME NEW g, NEW l, NEW y
  PROVE  [ [namespace |-> g, name |-> l] EXCEPT !.namespace = Append(@, y)]
           = [namespace |-> Append(g, y), name |-> l]
  OBVIOUS

LEMMA Taken == ASSUME TInv, TakeField PROVE TInv'
  <1>1. str \in Seq(Byte) /\ stage = "fields" /\ UNCHANGED <<given, str>> /\ ftnLen \in Nat
    BY DEF TInv, TakeField
  <1>2. PICK c, e, j : Progress(str, c, e, j)
    BY <1>1 DEF TInv
  <1>3. PICK s, f, l : s = str /\ s = str' /\ f = Front(Split(s)) /\ l = Last(Split(s))
    BY <1>1
  <1>4. /\ Cuts(s, c, e) /\ Parts(s, c, e) /\ c \in MinFields..MaxFields /\ j \in 0..c /\ j # c
        /\ ftn = [namespace |-> SubSeq(f, 1, j), name |-> l]
        /\ ftnLen = (e[j] - j) + (Len(s) - e[c])
    BY <1>1, <1>2, <1>3 DEF Progress
  <1>5. s \in Seq(Byte) /\ Len(s) \in Nat
    BY <1>1, <1>3
  <1>6. /\ c \in Nat /\ f \in Seq(Seq(Letters)) /\ Len(f) = c
        /\ \A i \in 0..(c - 1) : Len(f[i + 1]) = (e[i + 1] - e[i]) - 1
    <2>1. /\ c \in Nat /\ Front(Split(s)) \in Seq(Seq(Letters)) /\ Len(Front(Split(s))) = c
          /\ \A i \in 0..(c - 1) : Len(Front(Split(s))[i + 1]) = (e[i + 1] - e[i]) - 1
      BY <1>4, <1>5, ReadType
    <2> QED
      BY <1>3, <2>1
  <1>7. j \in Nat /\ j \in 0..(c - 1) /\ j + 1 \in 1..c /\ j + 1 \in 0..c
        /\ j \in 0..(c + 1) /\ j + 1 \in 0..(c + 1) /\ c \in 0..(c + 1) /\ j + 1 # 0
    BY <1>4, <1>6
  <1>8. e[j] \in Nat /\ e[j + 1] \in Nat /\ e[c] \in Nat
    BY <1>4, <1>7 DEF Cuts
  <1>9. PICK g : g = SubSeq(f, 1, j)
    OBVIOUS
  <1>10. g \in Seq(Seq(Letters)) /\ Len(g) = j /\ Append(g, f[j + 1]) = SubSeq(f, 1, j + 1)
    BY <1>6, <1>7, <1>9
  <1>11. ftn.namespace = g /\ Len(ftn.namespace) + 1 = j + 1 /\ f[j + 1] \in Seq(Letters)
    BY <1>4, <1>6, <1>7, <1>9, <1>10
  <1>12. PICK m : m = ftnLen + Len(f[j + 1])
    OBVIOUS
  <1>13. m = (e[j + 1] - (j + 1)) + (Len(s) - e[c]) /\ m \in Nat
    <2>1. Len(f[j + 1]) = (e[j + 1] - e[j]) - 1 /\ Len(f[j + 1]) \in Nat
      BY <1>6, <1>7, <1>11
    <2>2. PICK u, v, w \in Nat : u = e[j] /\ v = e[j + 1] /\ w = e[c]
      BY <1>8
    <2>3. m = ((u - j) + (Len(s) - w)) + ((v - u) - 1)
      BY <1>4, <1>12, <2>1, <2>2
    <2>4. m = (v - (j + 1)) + (Len(s) - w)
      BY <1>5, <1>7, <2>3
    <2>5. m \in Nat
      BY <1>1, <1>12, <2>1
    <2> QED
      BY <2>2, <2>4, <2>5
  <1>14. ftnLen' = m /\ IF m > MaxBytes
                        THEN Refuse
                        ELSE /\ ftn' = [ftn EXCEPT !.namespace = Append(@, f[j + 1])]
                             /\ stage' = IF Len(ftn'.namespace) = Len(f) THEN "parsed" ELSE "fields"
    BY <1>3, <1>11, <1>12 DEF TakeField
  <1>15. CASE m > MaxBytes
    <2>1. stage' = "error" /\ ftn' = NoName
      BY <1>14, <1>15 DEF Refuse
    <2>2. e[c] - e[j + 1] >= c - (j + 1)
      BY <1>4, <1>5, <1>7, Apart
    <2>3. Len(s) - c > MaxBytes
      <3>1. PICK v, w \in Nat : v = e[j + 1] /\ w = e[c]
        BY <1>8
      <3>2. m = (v - (j + 1)) + (Len(s) - w) /\ w - v >= c - (j + 1)
        BY <1>13, <2>2, <3>1
      <3>3. Len(s) - c >= m
        BY <1>5, <1>6, <1>7, <3>2
      <3> QED
        BY <1>5, <1>6, <1>13, <1>15, <3>3, LimitsAssumption
    <2>4. ~Fits(s)
      <3>1. c = Cardinality(Slashes(s))
        BY <1>4 DEF Cuts
      <3> QED
        BY <1>5, <1>6, <2>3, <3>1, LimitsAssumption DEF Fits
    <2> QED
      BY <1>1, <1>3, <1>13, <1>14, <2>1, <2>4 DEF TInv
  <1>16. CASE ~(m > MaxBytes)
    <2>1. /\ ftn' = [ftn EXCEPT !.namespace = Append(@, f[j + 1])]
          /\ stage' = IF Len(ftn'.namespace) = Len(f) THEN "parsed" ELSE "fields"
      BY <1>14, <1>16
    <2>2. ftn' = [namespace |-> SubSeq(f, 1, j + 1), name |-> l]
      <3>1. ftn' = [ [namespace |-> g, name |-> l] EXCEPT !.namespace = Append(@, f[j + 1])]
        BY <1>4, <1>9, <2>1
      <3>2. PICK x : x = Append(g, f[j + 1])
        OBVIOUS
      <3>3. ftn' = [namespace |-> x, name |-> l]
        BY <3>1, <3>2, Extended
      <3> QED
        BY <1>10, <3>2, <3>3
    <2>3. Len(ftn'.namespace) = j + 1
      BY <1>6, <1>7, <2>2
    <2>4. stage' = IF j + 1 = c THEN "parsed" ELSE "fields"
      BY <1>6, <2>1, <2>3
    <2>5. m <= MaxBytes
      BY <1>13, <1>16, LimitsAssumption
    <2>6. Progress(str, c, e, j + 1)'
      BY <1>3, <1>4, <1>7, <1>13, <1>14, <2>2, <2>4, <2>5 DEF Progress
    <2>7. stage' \in {"fields", "parsed"}
      BY <2>4
    <2> QED
      BY <1>1, <1>13, <1>14, <2>6, <2>7 DEF TInv
  <1> QED
    BY <1>15, <1>16

LEMMA TStep == TInv /\ [Next]_vars => TInv'
  <1>1. ASSUME TInv, UNCHANGED vars PROVE TInv'
    BY <1>1 DEF TInv, Progress, vars
  <1> QED
    BY <1>1, Rendered, Begun, Taken DEF Next

LEMMA Invariance == Spec => []TInv
  BY TInit, TStep, PTL DEF Spec

-----------------------------------------------------------------------------
(* What it comes to *)

\* A string that was read whole.
LEMMA Finished ==
  ASSUME TInv, stage = "parsed"
  PROVE  \E c, e : /\ Progress(str, c, e, c) /\ Cuts(str, c, e) /\ Parts(str, c, e)
                   /\ c \in Nat /\ c # 0 /\ ftn = Read(str)
  <1>1. PICK c, e, j : Progress(str, c, e, j)
    BY DEF TInv
  <1>2. j = c /\ Cuts(str, c, e) /\ Parts(str, c, e) /\ c \in MinFields..MaxFields
        /\ ftn = [namespace |-> SubSeq(Front(Split(str)), 1, c), name |-> Last(Split(str))]
    BY <1>1 DEF Progress
  <1>3. c \in Nat /\ c # 0
    BY <1>2, LimitsAssumption
  <1>4. str \in Seq(Byte)
    BY DEF TInv
  <1>5. Front(Split(str)) \in Seq(Seq(Letters)) /\ Len(Front(Split(str))) = c
    BY <1>2, <1>4, ReadType
  <1>6. SubSeq(Front(Split(str)), 1, c) = Front(Split(str))
    BY <1>5, SubSeqFull
  <1> QED
    BY <1>1, <1>2, <1>3, <1>6 DEF Read

\* Every variable keeps its type: what was read of a name never holds a slash, and
\* its namespace never has more fields than allowed.
THEOREM TypeCorrect == Spec => []TypeOK
  <1>1. ASSUME TInv PROVE TypeOK
    <2>1. given \in Seq(FullTrackName) /\ Len(given) <= 1
      <3>1. CASE given = <<>>
        BY <3>1
      <3>2. CASE given # <<>>
        <4>1. PICK t \in Names : given = <<t>>
          BY <1>1, <3>2 DEF TInv
        <4>2. t \in FullTrackName
          BY StringsAssumption
        <4> QED
          BY <4>1, <4>2
      <3> QED
        BY <3>1, <3>2
    <2>2. ftn \in [namespace : Seq(Seq(Letters)), name : Seq(Letters)] /\ Len(ftn.namespace) <= MaxFields
      <3>1. CASE ftn = NoName
        <4>1. NoName \in [namespace : Seq(Seq(Letters)), name : Seq(Letters)]
          BY DEF NoName
        <4>2. Len(NoName.namespace) = 0
          BY DEF NoName
        <4> QED
          BY <3>1, <4>1, <4>2, LimitsAssumption
      <3>2. CASE ftn # NoName
        <4>1. PICK c, e, j : Progress(str, c, e, j)
          BY <1>1, <3>2 DEF TInv
        <4>2. PICK f : f = Front(Split(str))
          OBVIOUS
        <4>3. /\ c \in Nat /\ f \in Seq(Seq(Letters)) /\ Len(f) = c /\ Last(Split(str)) \in Seq(Letters)
          BY <1>1, <4>1, <4>2, ReadType DEF TInv, Progress
        <4>4. j \in 0..c /\ c <= MaxFields /\ ftn = [namespace |-> SubSeq(f, 1, j), name |-> Last(Split(str))]
          BY <4>1, <4>2, LimitsAssumption DEF Progress
        <4>5. SubSeq(f, 1, j) \in Seq(Seq(Letters)) /\ Len(SubSeq(f, 1, j)) = j
          BY <4>3, <4>4
        <4>6. j <= MaxFields
          BY <4>3, <4>4, LimitsAssumption
        <4> QED
          BY <4>3, <4>4, <4>5, <4>6
      <3> QED
        BY <3>1, <3>2
    <2> QED
      BY <1>1, <2>1, <2>2 DEF TypeOK, TInv
  <1> QED
    BY <1>1, Invariance, PTL

\* The running total refuses exactly the strings over a limit, whatever the limits
\* and wherever the string goes over; what it lets through is valid, but for an
\* empty name.
THEOREM LimitsKept == Spec => []LimitsExact
  <1>1. ASSUME TInv PROVE LimitsExact
    <2>1. ASSUME stage = "parsed" PROVE Fits(str) /\ (IsValid(ftn) <=> ftn.name # <<>>)
      <3>1. PICK c, e : /\ Progress(str, c, e, c) /\ Cuts(str, c, e) /\ Parts(str, c, e)
                        /\ c \in Nat /\ c # 0 /\ ftn = Read(str)
        BY <1>1, <2>1, Finished
      <3>2. str \in Seq(Byte) /\ Len(str) \in Nat
        BY <1>1 DEF TInv
      <3>3. /\ ftnLen = (e[c] - c) + (Len(str) - e[c]) /\ ftnLen <= MaxBytes
            /\ c \in MinFields..MaxFields /\ c = Cardinality(Slashes(str)) /\ e[c] \in Nat
        <4>1. c \in 0..(c + 1)
          BY <3>1
        <4> QED
          BY <3>1, <4>1 DEF Progress, Cuts
      <3>4. Len(str) - c <= MaxBytes
        BY <3>1, <3>2, <3>3
      <3>5. Fits(str)
        BY <3>3, <3>4 DEF Fits
      <3>6. /\ Len(Front(Split(str))) = c /\ Len(Last(Split(str))) = Len(str) - e[c]
            /\ Len(FlattenSeq(Front(Split(str)))) = e[c] - c
        BY <3>1, <3>2, ReadType, ReadBytes
      <3>7. ftn.namespace = Front(Split(str)) /\ ftn.name = Last(Split(str))
        BY <3>1 DEF Read
      <3>8. GetLength(ftn) = (e[c] - c) + (Len(str) - e[c])
        BY <3>6, <3>7 DEF GetLength
      <3>9. Len(ftn.namespace) \in MinFields..MaxFields
        BY <3>3, <3>6, <3>7
      <3>10. GetLength(ftn) <= MaxBytes
        BY <3>3, <3>8
      <3> QED
        BY <3>5, <3>9, <3>10 DEF IsValid
    <2>2. stage = "error" => ~Fits(str)
      BY <1>1 DEF TInv
    <2> QED
      BY <2>1, <2>2 DEF LimitsExact, Fits
  <1> QED
    BY <1>1, Invariance, PTL

\* Reading a string and writing what was read gives the string back, and writing a
\* name and reading it gives the name back if and only if no slash was in a field.
THEOREM RoundTripping == Spec => []NamesRoundTrip
  <1>1. ASSUME TInv PROVE NamesRoundTrip
    <2> SUFFICES ASSUME stage = "parsed"
                 PROVE  /\ Rendering(ftn) = str
                        /\ given # <<>> => (ftn = given[1] <=> ~HasSlash(given[1]))
      BY DEF NamesRoundTrip
    <2>1. PICK c, e : /\ Progress(str, c, e, c) /\ Cuts(str, c, e) /\ Parts(str, c, e)
                      /\ c \in Nat /\ c # 0 /\ ftn = Read(str)
      BY <1>1, Finished
    <2>2. str \in Seq(Byte)
      BY <1>1 DEF TInv
    <2>3. Rendering(ftn) = str
      BY <2>1, <2>2, ReadBack
    <2>4. ftn \in FullTrackName /\ Unslashed(ftn)
      BY <2>1, <2>2, ReadType
    <2>5. ASSUME NEW t \in FullTrackName PROVE Unslashed(t) <=> ~HasSlash(t)
      <3>1. \A x \in Seq(Byte) : x \in Seq(Letters) <=> ~Contains(x, Slash)
        <4> SUFFICES ASSUME NEW x \in Seq(Byte) PROVE x \in Seq(Letters) <=> ~Contains(x, Slash)
          OBVIOUS
        <4>1. Contains(x, Slash) <=> \E i \in 1..Len(x) : x[i] = Slash
          BY DEF Contains
        <4>2. ASSUME x \in Seq(Letters), NEW i \in 1..Len(x) PROVE x[i] # Slash
          BY <4>2, SlashAssumption
        <4>3. ASSUME \A i \in 1..Len(x) : x[i] # Slash PROVE x \in Seq(Letters)
          <5>1. \A i \in 1..Len(x) : x[i] \in Letters
            BY <4>3 DEF Byte
          <5> QED
            BY <5>1
        <4> QED
          BY <4>1, <4>2, <4>3
      <3>2. PICK ns : ns = t.namespace
        OBVIOUS
      <3>3. ns \in Seq(Seq(Byte)) /\ t.name \in Seq(Byte) /\ DOMAIN ns = 1..Len(ns)
        BY <3>2 DEF FullTrackName
      <3>4. ns \in Seq(Seq(Letters)) <=> \A i \in 1..Len(ns) : ns[i] \in Seq(Letters)
        BY <3>3
      <3>5. \A i \in 1..Len(ns) : ns[i] \in Seq(Letters) <=> ~Contains(ns[i], Slash)
        BY <3>1, <3>3
      <3> QED
        BY <3>1, <3>2, <3>3, <3>4, <3>5 DEF HasSlash, Unslashed
    <2>6. ASSUME given # <<>> PROVE ftn = given[1] <=> ~HasSlash(given[1])
      <3>1. PICK t \in Names : given = <<t>>
        BY <1>1, <2>6 DEF TInv
      <3>2. t \in FullTrackName /\ given[1] = t /\ str = Rendering(t)
        BY <1>1, <2>6, <3>1, StringsAssumption DEF TInv
      <3>3. ftn = t => ~HasSlash(t)
        BY <2>4, <2>5, <3>2
      <3>4. ~HasSlash(t) => ftn = t
        BY <2>3, <2>4, <2>5, <3>2, WrittenAlike
      <3> QED
        BY <3>2, <3>3, <3>4
    <2> QED
      BY <2>3, <2>6
  <1> QED
    BY <1>1, Invariance, PTL

-----------------------------------------------------------------------------
(* Locations *)

\* Exactly one of the three answers is yes for any two locations, Equal means that
\* they are the same, and turning the question round turns the answer round.
THEOREM Trichotomy ==
    ASSUME NEW a \in Location, NEW b \in Location
    PROVE  /\ LessThan(a, b) <=> ~Equal(a, b) /\ ~GreaterThan(a, b)
           /\ GreaterThan(a, b) <=> ~Equal(a, b) /\ ~LessThan(a, b)
           /\ Equal(a, b) <=> a = b
           /\ LessThan(a, b) <=> GreaterThan(b, a)
  <1>1. a = [group |-> a.group, object |-> a.object] /\ b = [group |-> b.group, object |-> b.object]
    BY DEF Location
  <1>2. a.group \in Nat /\ a.object \in Nat /\ b.group \in Nat /\ b.object \in Nat
    BY DEF Location
  <1>3. Equal(a, b) <=> a = b
    BY <1>1 DEF Equal
  <1> QED
    BY <1>2, <1>3 DEF LessThan, Equal, GreaterThan

\* LessThan is transitive, so that with Trichotomy it orders all locations: a
\* receiver may sort, or keep a greatest one, in any order of arrival.
THEOREM Transitivity ==
    ASSUME NEW a \in Location, NEW b \in Location, NEW c \in Location,
           LessThan(a, b), LessThan(b, c)
    PROVE  LessThan(a, c)
  BY DEF LessThan, Location
=============================================================================
