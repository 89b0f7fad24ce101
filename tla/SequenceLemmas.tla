--------------------------- MODULE SequenceLemmas ---------------------------
(***************************************************************************)
(* Lemmas the other proofs need: induction over the numbers in the form of *)
(* a set, and where the elements of a flattened sequence come from.        *)
(***************************************************************************)
EXTENDS SequencesExt, SequenceTheorems, WellFoundedInduction, TLAPS

\* Induction: a set that holds 0 and with each number the next holds them all.
LEMMA Induction ==
  ASSUME NEW S, 0 \in S, \A n \in Nat : n \in S => n + 1 \in S
  PROVE  Nat \subseteq S
<1> SUFFICES ASSUME NEW b \in Nat, b \notin S PROVE FALSE
  OBVIOUS
<1> DEFINE R == {r \in Nat \X Nat : r[1] < r[2]}
           B == Nat \ S
<1>1. IsWellFoundedOn(R, Nat)
  BY NatLessThanWellFounded DEF OpToRel
<1>2. B \subseteq Nat /\ B # {}
  OBVIOUS
<1>3. PICK m \in B : \A y \in B : <<y, m>> \notin R
  <2> HIDE DEF R, B
  <2> QED BY <1>1, <1>2, WFMin
<1>4. m \in Nat /\ m # 0 /\ m - 1 \in Nat /\ m - 1 < m
  OBVIOUS
<1>5. m - 1 \in S
  BY <1>3, <1>4
<1>6. (m - 1) + 1 \in S
  BY <1>4, <1>5
<1> QED BY <1>4, <1>6

\* A set of numbers that has a member has a least one.
LEMMA LeastNumber ==
  ASSUME NEW S, S \subseteq Nat, S # {}
  PROVE  \E m \in S : \A x \in S : m <= x
<1> DEFINE R == {r \in Nat \X Nat : r[1] < r[2]}
<1>1. IsWellFoundedOn(R, Nat)
  BY NatLessThanWellFounded DEF OpToRel
<1>2. PICK m \in S : \A y \in S : <<y, m>> \notin R
  <2> HIDE DEF R
  <2> QED BY <1>1, WFMin
<1>3. ASSUME NEW x \in S PROVE m <= x
  <2>1. x \in Nat /\ m \in Nat /\ <<x, m>> \in Nat \X Nat /\ ~(x < m)
    BY <1>2
  <2> QED BY <2>1
<1> QED BY <1>3

\* One step of FlattenSeq, as an equation on a function of prefixes.
Flattens(f, ss) ==
  f = [k \in 1..Len(ss) |-> IF k = 1 THEN ss[k] ELSE f[k - 1] \o ss[k]]

\* FlattenSeq is defined by recursion over the prefixes; the function exists.
LEMMA FlattenDefined ==
  ASSUME NEW ss, Len(ss) \in Nat \ {0}
  PROVE  \E f : Flattens(f, ss) /\ FlattenSeq(ss) = f[Len(ss)]
<1> DEFINE n == Len(ss)
           Val(f, k) == IF k = 1 THEN ss[k] ELSE f[k - 1] \o ss[k]
           Upto(f, m) == DOMAIN f = 1..m /\ \A k \in 1..m : f[k] = Val(f, k)
           P == {m \in Nat : \E f : f = [k \in 1..m |-> f[k]] /\ Upto(f, m)}
<1>1. 0 \in P
  <2> DEFINE f == [k \in 1..0 |-> 0]
  <2>1. f = [k \in 1..0 |-> f[k]] /\ Upto(f, 0)
    OBVIOUS
  <2> QED BY <2>1
<1>2. ASSUME NEW m \in Nat, m \in P PROVE m + 1 \in P
  <2>1. PICK f : Upto(f, m)
    BY <1>2
  <2> DEFINE g == [k \in 1..m + 1 |-> Val(f, k)]
  <2>2. \A k \in 1..m : g[k] = f[k]
    <3> TAKE k \in 1..m
    <3>1. k \in 1..m + 1
      OBVIOUS
    <3>2. g[k] = Val(f, k)
      BY <3>1
    <3> QED BY <2>1, <3>2
  <2>3. ASSUME NEW k \in 1..m + 1 PROVE g[k] = Val(g, k)
    <3>1. g[k] = Val(f, k)
      OBVIOUS
    <3>2. k # 1 => k - 1 \in 1..m
      OBVIOUS
    <3>3. k # 1 => g[k - 1] = f[k - 1]
      BY <2>2, <3>2
    <3> HIDE DEF g
    <3> QED BY <3>1, <3>3
  <2>4. DOMAIN g = 1..m + 1 /\ g = [k \in 1..m + 1 |-> g[k]]
    OBVIOUS
  <2> HIDE DEF g
  <2>5. Upto(g, m + 1)
    BY <2>3, <2>4
  <2> HIDE DEF Upto
  <2>6. \E h : h = [k \in 1..m + 1 |-> h[k]] /\ Upto(h, m + 1)
    BY <2>4, <2>5
  <2> QED BY <2>6
<1>3. \E f : Flattens(f, ss)
  <2> HIDE DEF P
  <2>1. n \in P
    BY <1>1, <1>2, Induction
  <2>2. PICK f : f = [k \in 1..n |-> f[k]] /\ Upto(f, n)
    BY <2>1 DEF P
  <2>3. f = [k \in 1..n |-> Val(f, k)]
    BY <2>2
  <2> QED BY <2>3 DEF Flattens
<1>4. FlattenSeq(ss) = (CHOOSE f : Flattens(f, ss))[n]
  BY Zenon DEF FlattenSeq, Flattens
<1> QED BY <1>3, <1>4

\* Where each of the sequences begins in the flattened one.
IsOffsets(o, ss) ==
  /\ DOMAIN o = 1..Len(ss) + 1 /\ o[1] = 0
  /\ \A k \in 1..Len(ss) : o[k + 1] = o[k] + Len(ss[k])

\* Such a function exists for any sequences,
LEMMA OffsetsExist ==
  ASSUME NEW S, NEW ss \in Seq(Seq(S))
  PROVE  \E o \in [1..Len(ss) + 1 -> Nat] : IsOffsets(o, ss)
<1> DEFINE n == Len(ss)
           Upto(o, m) == o[1] = 0 /\ \A k \in 1..m : o[k + 1] = o[k] + Len(ss[k])
           Holds(m) == m <= n => \E o \in [1..m + 1 -> Nat] : Upto(o, m)
           P == {m \in Nat : Holds(m)}
<1>1. 0 \in P
  <2> DEFINE o == [k \in 1..1 |-> 0]
  <2>1. o \in [1..0 + 1 -> Nat] /\ Upto(o, 0)
    OBVIOUS
  <2> QED BY <2>1
<1>2. ASSUME NEW m \in Nat, m \in P PROVE m + 1 \in P
  <2>0. Holds(m)
    <3> HIDE DEF Holds
    <3> QED BY <1>2
  <2> SUFFICES Holds(m + 1)
    <3> HIDE DEF Holds
    <3> QED OBVIOUS
  <2> SUFFICES ASSUME m + 1 <= n PROVE \E o \in [1..(m + 1) + 1 -> Nat] : Upto(o, m + 1)
    OBVIOUS
  <2>1. PICK o \in [1..m + 1 -> Nat] : Upto(o, m)
    <3>1. m <= n
      OBVIOUS
    <3> HIDE DEF Upto
    <3> QED BY <2>0, <3>1
  <2>2. n \in Nat /\ m + 1 \in 1..n /\ ss[m + 1] \in Seq(S)
    BY DEF n
  <2>3. Len(ss[m + 1]) \in Nat
    BY <2>2
  <2> DEFINE e == o[m + 1] + Len(ss[m + 1])
             p == [k \in 1..(m + 1) + 1 |-> IF k <= m + 1 THEN o[k] ELSE e]
  <2>4. e \in Nat
    BY <2>3
  <2> HIDE DEF e
  <2>5. p \in [1..(m + 1) + 1 -> Nat]
    BY <2>4
  <2>6. p[1] = 0 /\ p[m + 2] = e /\ \A k \in 1..m + 1 : p[k] = o[k]
    BY <2>1
  <2> HIDE DEF p
  <2>7. ASSUME NEW k \in 1..m + 1 PROVE p[k + 1] = p[k] + Len(ss[k])
    <3>1. CASE k = m + 1
      BY <2>6, <3>1 DEF e
    <3>2. CASE k \in 1..m
      <4>1. k + 1 \in 1..m + 1 /\ k \in 1..m + 1
        BY <3>2
      <4> QED BY <2>1, <2>6, <3>2, <4>1
    <3> QED BY <3>1, <3>2
  <2> QED BY <2>5, <2>6, <2>7
<1> HIDE DEF P
<1>3. n \in P /\ n \in Nat
  BY <1>1, <1>2, Induction
<1>4. PICK o \in [1..n + 1 -> Nat] : Upto(o, n)
  BY <1>3 DEF P
<1> QED BY <1>4 DEF IsOffsets

\* The elements of the sequences are at these places of fs, in their order, and
\* nothing is anywhere else.
InPlace(fs, o, ss) ==
  /\ Len(fs) = o[Len(ss) + 1]
  /\ \A k \in 1..Len(ss) : o[k] \in Nat
  /\ \A k \in 1..Len(ss), j \in Nat :
       j \in 1..Len(ss[k]) => o[k] + j \in 1..Len(fs) /\ fs[o[k] + j] = ss[k][j]
  /\ \A p \in 1..Len(fs) :
       \E k \in 1..Len(ss), j \in Nat : j \in 1..Len(ss[k]) /\ p = o[k] + j

\* and that is what flattening does.
LEMMA FlattenPlaces ==
  ASSUME NEW S, NEW ss \in Seq(Seq(S)), NEW o, IsOffsets(o, ss)
  PROVE  FlattenSeq(ss) \in Seq(S) /\ InPlace(FlattenSeq(ss), o, ss)
<1> DEFINE n == Len(ss)
           Placed(s, m) ==
             /\ s \in Seq(S) /\ Len(s) = o[m + 1]
             /\ \A k \in 1..m : o[k] \in Nat
             /\ \A k \in 1..m, j \in Nat :
                  j \in 1..Len(ss[k]) => o[k] + j \in 1..Len(s) /\ s[o[k] + j] = ss[k][j]
             /\ \A p \in 1..Len(s) :
                  \E k \in 1..m, j \in Nat : j \in 1..Len(ss[k]) /\ p = o[k] + j
<1>1. n \in Nat /\ \A k \in 1..n : ss[k] \in Seq(S) /\ Len(ss[k]) \in Nat
  OBVIOUS
<1>2. o[1] = 0 /\ \A k \in 1..n : o[k + 1] = o[k] + Len(ss[k])
  BY DEF IsOffsets
<1>3. Placed(<<>>, 0)
  BY <1>2
<1>4. ASSUME NEW m \in 0..n - 1, NEW s, Placed(s, m)
      PROVE  Placed(s \o ss[m + 1], m + 1)
  <2> DEFINE e == ss[m + 1]
             t == s \o e
  <2>1. m + 1 \in 1..n /\ e \in Seq(S) /\ Len(e) \in Nat /\ s \in Seq(S) /\ Len(s) \in Nat
    BY <1>1, <1>4
  <2>2. Len(s) = o[m + 1] /\ o[m + 2] = o[m + 1] + Len(e)
    BY <1>2, <1>4, <2>1
  <2> HIDE DEF e
  <2>3. /\ t \in Seq(S) /\ Len(t) = Len(s) + Len(e)
        /\ \A p \in 1..Len(s) : t[p] = s[p]
        /\ \A j \in 1..Len(e) : Len(s) + j \in 1..Len(t) /\ t[Len(s) + j] = e[j]
    BY <2>1
  <2> HIDE DEF t
  <2>4. ASSUME NEW k \in 1..m + 1, NEW j \in Nat, j \in 1..Len(ss[k])
        PROVE  o[k] \in Nat /\ o[k] + j \in 1..Len(t) /\ t[o[k] + j] = ss[k][j]
    <3>1. CASE k = m + 1
      <4>1. ss[k] = e /\ o[k] = Len(s) /\ j \in 1..Len(e)
        BY <2>2, <2>4, <3>1 DEF e
      <4> QED BY <2>1, <2>3, <4>1
    <3>2. CASE k \in 1..m
      <4>1. o[k] \in Nat /\ o[k] + j \in 1..Len(s) /\ s[o[k] + j] = ss[k][j]
        BY <1>4, <2>4, <3>2
      <4> QED BY <2>1, <2>3, <4>1, SMTT(30)
    <3> QED BY <3>1, <3>2
  <2>5. ASSUME NEW p \in 1..Len(t)
        PROVE  \E k \in 1..m + 1, j \in Nat : j \in 1..Len(ss[k]) /\ p = o[k] + j
    <3>1. CASE p \in 1..Len(s)
      <4>1. PICK k \in 1..m, j \in Nat : j \in 1..Len(ss[k]) /\ p = o[k] + j
        BY <1>4, <3>1
      <4>2. k \in 1..m + 1
        OBVIOUS
      <4> QED BY <4>1, <4>2
    <3>2. CASE p \notin 1..Len(s)
      <4> DEFINE j == p - Len(s)
      <4>1. j \in Nat /\ j \in 1..Len(e) /\ p = Len(s) + j
        BY <2>1, <2>3, <2>5, <3>2
      <4> HIDE DEF j
      <4>2. m + 1 \in 1..m + 1
        OBVIOUS
      <4>3. ss[m + 1] = e /\ p = o[m + 1] + j
        BY <2>2, <4>1 DEF e
      <4> QED BY <4>1, <4>2, <4>3
    <3> QED BY <3>1, <3>2
  <2>6. \A k \in 1..m + 1 : o[k] \in Nat
    BY <1>4, <2>1, <2>2
  <2>7. Len(t) = o[(m + 1) + 1]
    BY <2>2, <2>3
  <2> QED BY <2>3, <2>4, <2>5, <2>6, <2>7 DEF t, e
<1> HIDE DEF Placed
<1>5. CASE n = 0
  <2>1. FlattenSeq(ss) = <<>>
    BY <1>5 DEF FlattenSeq
  <2> QED BY <1>3, <1>5, <2>1 DEF Placed, InPlace
<1>6. CASE n # 0
  <2>1. PICK f : Flattens(f, ss) /\ FlattenSeq(ss) = f[n]
    BY <1>1, <1>6, FlattenDefined
  <2>2. f[1] = ss[1] /\ \A k \in 1..n : k # 1 => f[k] = f[k - 1] \o ss[k]
    <3>1. ASSUME NEW k \in 1..n PROVE f[k] = IF k = 1 THEN ss[k] ELSE f[k - 1] \o ss[k]
      BY <2>1, Zenon DEF Flattens
    <3>2. 1 \in 1..n
      BY <1>1, <1>6
    <3> QED BY <3>1, <3>2, Zenon
  <2> DEFINE P == {m \in Nat : m + 1 <= n => Placed(f[m + 1], m + 1)}
  <2>3. 0 \in P
    <3>1. ss[1] \in Seq(S) /\ <<>> \o ss[1] = ss[1]
      BY <1>1, <1>6
    <3>2. Placed(<<>> \o ss[0 + 1], 0 + 1)
      <4>1. 0 \in 0..n - 1
        BY <1>1, <1>6
      <4> QED BY <1>3, <1>4, <4>1, Zenon
    <3> QED BY <2>2, <3>1, <3>2
  <2>4. ASSUME NEW m \in Nat, m \in P PROVE m + 1 \in P
    <3> SUFFICES ASSUME (m + 1) + 1 <= n PROVE Placed(f[(m + 1) + 1], (m + 1) + 1)
      OBVIOUS
    <3>1. m + 1 \in 0..n - 1 /\ (m + 1) + 1 \in 1..n /\ (m + 1) + 1 # 1
      BY <1>1
    <3>2. Placed(f[m + 1] \o ss[(m + 1) + 1], (m + 1) + 1)
      BY <1>4, <2>4, <3>1
    <3>3. f[(m + 1) + 1] = f[m + 1] \o ss[(m + 1) + 1]
      <4> DEFINE k == (m + 1) + 1
      <4>1. k \in 1..n /\ k # 1 /\ k - 1 = m + 1
        BY <3>1
      <4> HIDE DEF k
      <4>2. f[k] = f[m + 1] \o ss[k]
        BY <2>2, <4>1
      <4> QED BY <4>2 DEF k
    <3> QED BY <3>2, <3>3
  <2> HIDE DEF P
  <2>5. n - 1 \in P
    <3>1. n - 1 \in Nat
      BY <1>1, <1>6
    <3>2. Nat \subseteq P
      BY <2>3, <2>4, Induction
    <3> QED BY <3>1, <3>2
  <2>6. Placed(f[n], n)
    BY <1>1, <1>6, <2>5 DEF P
  <2> QED BY <2>1, <2>6 DEF Placed, InPlace
<1> QED BY <1>5, <1>6
=============================================================================
