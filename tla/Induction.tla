------------------------------ MODULE Induction ------------------------------
(***************************************************************************)
(* Induction over the natural numbers, and functions defined by recursion  *)
(* over an interval, in the form the proofs about loops and folds use:     *)
(* statements about sets and functions, with no operator as a parameter.   *)
(***************************************************************************)
EXTENDS Integers, Sequences, SequenceTheorems, WellFoundedInduction, TLAPS

\* A set of natural numbers has a least element.
LEMMA LeastNat ==
  ASSUME NEW T, T \subseteq Nat, T # {}
  PROVE  \E x \in T : \A y \in T : x <= y
<1> DEFINE R == OpToRel(<, Nat)
<1>1. IsWellFoundedOn(R, Nat)
  BY NatLessThanWellFounded, Zenon
<1>2. R = {pair \in Nat \X Nat : pair[1] < pair[2]}
  BY DEF OpToRel
<1> HIDE DEF R
<1>3. PICK x \in T: \A y \in T: ~(<<y, x>> \in R)
  BY <1>1, WFMin, Zenon
<1>4. \A y \in T : <<y, x>> \in Nat \X Nat /\ <<y, x>>[1] = y /\ <<y, x>>[2] = x
  OBVIOUS
<1>5. \A y \in T : ~(y < x)
  BY <1>2, <1>3, <1>4, Zenon
<1> QED
  BY <1>5

\* What holds of 0 and passes from every number to the next holds of all.
LEMMA NatSetInduction ==
  ASSUME NEW G, 0 \in G, \A n \in Nat : n \in G => n + 1 \in G
  PROVE  Nat \subseteq G
<1> SUFFICES ASSUME Nat \ G # {} PROVE FALSE
  OBVIOUS
<1>1. PICK x \in Nat \ G : \A y \in Nat \ G : x <= y
  BY LeastNat, Zenon
<1>2. x # 0 /\ x - 1 \in Nat
  BY <1>1
<1>3. x - 1 \in G
  BY <1>1, <1>2
<1>4. (x - 1) + 1 \in G
  BY <1>2, <1>3
<1> QED
  BY <1>1, <1>4

\* The same up to a bound.
LEMMA UpToInduction ==
  ASSUME NEW n \in Nat, NEW G, 0 \in G, \A i \in 1 .. n : i - 1 \in G => i \in G
  PROVE  0 .. n \subseteq G
<1> DEFINE H == {m \in Nat : m <= n => m \in G}
<1>1. 0 \in H
  OBVIOUS
<1>2. ASSUME NEW m \in Nat, m \in H PROVE m + 1 \in H
  <2> SUFFICES ASSUME m + 1 <= n PROVE m + 1 \in G
    OBVIOUS
  <2>1. m + 1 \in 1 .. n /\ (m + 1) - 1 = m /\ m \in G
    BY <1>2
  <2> QED
    BY <2>1
<1>3. Nat \subseteq H
  <2> HIDE DEF H
  <2> QED
    BY <1>1, <1>2, NatSetInduction
<1> QED
  BY <1>3

\* f starts with z and is continued by a function of its last value and place.
Continues(f, n, S, z, step) ==
  /\ f \in [0 .. n -> S]
  /\ f[0] = z
  /\ \A i \in 1 .. n : f[i] = step[<<f[i - 1], i>>]

\* A recursion over an interval has a solution.
LEMMA RecursionExists ==
  ASSUME NEW n \in Nat, NEW S, NEW z \in S, NEW step \in [S \X (1 .. n) -> S]
  PROVE  \E f : Continues(f, n, S, z, step)
<1> DEFINE Sol(m) == \E f \in [0 .. m -> S] :
                       f[0] = z /\ \A i \in 1 .. m : f[i] = step[<<f[i - 1], i>>]
           G == {m \in Nat : m <= n => Sol(m)}
<1>1. 0 \in G
  <2>1. Sol(0)
    <3> DEFINE f == [i \in 0 .. 0 |-> z]
    <3>1. f \in [0 .. 0 -> S] /\ f[0] = z
      OBVIOUS
    <3>2. \A i \in 1 .. 0 : f[i] = step[<<f[i - 1], i>>]
      OBVIOUS
    <3> QED
      BY <3>1, <3>2, Zenon
  <2> QED
    BY <2>1
<1>2. ASSUME NEW m \in Nat, m \in G PROVE m + 1 \in G
  <2> SUFFICES ASSUME m + 1 <= n PROVE Sol(m + 1)
    OBVIOUS
  <2>1. m <= n
    OBVIOUS
  <2>2. PICK f \in [0 .. m -> S] : f[0] = z /\ \A i \in 1 .. m : f[i] = step[<<f[i - 1], i>>]
    BY <1>2, <2>1
  <2> DEFINE g == [i \in 0 .. m + 1 |-> IF i = m + 1 THEN step[<<f[m], m + 1>>] ELSE f[i]]
  <2>3. step[<<f[m], m + 1>>] \in S
    OBVIOUS
  <2>4. g \in [0 .. m + 1 -> S]
    BY <2>3
  <2>5. g[0] = z
    BY <2>2
  <2>6. \A i \in 1 .. m + 1 : g[i] = step[<<g[i - 1], i>>]
    <3> SUFFICES ASSUME NEW i \in 1 .. m + 1 PROVE g[i] = step[<<g[i - 1], i>>]
      BY Zenon
    <3>1. g[i - 1] = f[i - 1]
      OBVIOUS
    <3>2. CASE i = m + 1
      <4>1. g[i] = step[<<f[m], m + 1>>] /\ i - 1 = m
        BY <3>2
      <4> QED
        BY <4>1, <3>1, <3>2, Zenon
    <3>3. CASE i # m + 1
      <4>1. i \in 1 .. m /\ g[i] = f[i]
        BY <3>3
      <4> QED
        BY <3>1, <4>1, <2>2
    <3> QED
      BY <3>2, <3>3
  <2> QED
    BY <2>4, <2>5, <2>6, Zenon
<1>3. Nat \subseteq G
  <2> HIDE DEF G
  <2> QED
    BY <1>1, <1>2, NatSetInduction
<1>4. n \in G /\ n <= n
  <2> HIDE DEF G
  <2> QED
    BY <1>3
<1>5. Sol(n)
  <2> HIDE DEF Sol
  <2> QED
    BY <1>4
<1>6. PICK f \in [0 .. n -> S] : f[0] = z /\ \A i \in 1 .. n : f[i] = step[<<f[i - 1], i>>]
  BY <1>5
<1>7. Continues(f, n, S, z, step)
  BY <1>6 DEF Continues
<1> QED
  BY <1>7

\* g obeys the equation by which a recursive function is defined, as long as
\* its values are in S.
Obeys(g, n, S, z, step) ==
  /\ g[0] = z
  /\ \A i \in 1 .. n : g[i - 1] \in S => g[i] = step[<<g[i - 1], i>>]

\* A function that obeys the recursion is the solution.
LEMMA RecursionUnique ==
  ASSUME NEW n \in Nat, NEW S, NEW z \in S, NEW step \in [S \X (1 .. n) -> S], NEW g,
         Obeys(g, n, S, z, step)
  PROVE  \A i \in 0 .. n : g[i] \in S /\ (i # 0 => g[i] = step[<<g[i - 1], i>>])
<1> DEFINE G == {i \in 0 .. n : g[i] \in S}
<1>1. 0 \in G
  BY DEF Obeys
<1>2. ASSUME NEW i \in 1 .. n, i - 1 \in G PROVE i \in G
  <2>1. g[i] = step[<<g[i - 1], i>>] /\ <<g[i - 1], i>> \in S \X (1 .. n)
    BY <1>2 DEF Obeys
  <2> QED
    BY <2>1
<1>3. 0 .. n \subseteq G
  <2> HIDE DEF G
  <2> QED
    BY <1>1, <1>2, UpToInduction
<1>4. ASSUME NEW i \in 0 .. n, i # 0 PROVE g[i] = step[<<g[i - 1], i>>]
  <2>1. i \in 1 .. n /\ i - 1 \in 0 .. n
    BY <1>4
  <2>2. g[i - 1] \in S
    BY <1>3, <2>1
  <2> QED
    BY <2>1, <2>2 DEF Obeys
<1> QED
  BY <1>3, <1>4
-----------------------------------------------------------------------------
(* Sequences *)

\* What holds of the empty sequence and is kept by Append holds of all.
LEMMA SeqInduction ==
  ASSUME NEW S, NEW G, <<>> \in G, \A s \in Seq(S), e \in S : s \in G => Append(s, e) \in G
  PROVE  Seq(S) \subseteq G
<1> SUFFICES ASSUME NEW s \in Seq(S) PROVE s \in G
  OBVIOUS
<1>1. Len(s) \in Nat
  BY LenProperties
<1> DEFINE H == {i \in 0 .. Len(s) : SubSeq(s, 1, i) \in G}
<1>2. 0 \in H
  <2>1. SubSeq(s, 1, 0) = <<>>
    BY SubSeqEmpty
  <2>2. 0 \in 0 .. Len(s)
    BY <1>1
  <2> QED
    BY <2>1, <2>2, Zenon
<1>3. ASSUME NEW i \in 1 .. Len(s), i - 1 \in H PROVE i \in H
  <2>1. \A k \in 1 .. i - 1 : s[k] \in S
    BY <1>1, ElementOfSeq
  <2>2. SubSeq(s, 1, i - 1) \in Seq(S) /\ SubSeq(s, 1, i - 1) \in G /\ s[i] \in S
    BY <1>3, <2>1, <1>1, ElementOfSeq, SubSeqProperties
  <2>3. SubSeq(s, 1, i) = SubSeq(s, 1, i - 1) \o <<s[i]>>
    <3>1. 1 \in 1 .. Len(s) /\ i \in 1 .. Len(s)
      BY <1>1
    <3> QED
      BY <3>1, SubSeqRecursiveSecond
  <2>4. SubSeq(s, 1, i - 1) \o <<s[i]>> = Append(SubSeq(s, 1, i - 1), s[i])
    BY <2>2, AppendIsConcat
  <2>5. SubSeq(s, 1, i) \in G
    BY <2>2, <2>3, <2>4, Zenon
  <2>6. i \in 0 .. Len(s)
    BY <1>1
  <2> QED
    BY <2>5, <2>6, Zenon
<1>4. 0 .. Len(s) \subseteq H
  <2> HIDE DEF H
  <2> QED
    BY <1>1, <1>2, <1>3, UpToInduction, Zenon
<1>5. Len(s) \in 0 .. Len(s)
  BY <1>1
<1>6. SubSeq(s, 1, Len(s)) = s
  BY SubSeqFull
<1> QED
  BY <1>4, <1>5, <1>6, Zenon

\* g folds s from the left.
Folds(g, s, R, z, step) ==
  /\ g[0] = z
  /\ \A i \in 1 .. Len(s) : g[i - 1] \in R => g[i] = step[<<g[i - 1], s[i]>>]

\* A fold exists, and has all its values in R.
LEMMA FoldExists ==
  ASSUME NEW S, NEW R, NEW z \in R, NEW step \in [R \X S -> R], NEW s \in Seq(S)
  PROVE  \E g : g \in [0 .. Len(s) -> R] /\ Folds(g, s, R, z, step)
<1>1. Len(s) \in Nat /\ \A i \in 1 .. Len(s) : s[i] \in S
  BY LenProperties, ElementOfSeq
<1> DEFINE n == Len(s)
           by == [x \in R \X (1 .. n) |-> step[<<x[1], s[x[2]]>>]]
<1>2. \A x \in R \X (1 .. n) : <<x[1], s[x[2]]>> \in R \X S
  BY <1>1
<1>3. by \in [R \X (1 .. n) -> R]
  BY <1>2
<1>4. \A r \in R, i \in 1 .. n : by[<<r, i>>] = step[<<r, s[i]>>]
  <2> TAKE r \in R, i \in 1 .. n
  <2>1. <<r, i>> \in R \X (1 .. n) /\ <<r, i>>[1] = r /\ <<r, i>>[2] = i
    OBVIOUS
  <2> QED
    BY <2>1, Zenon
<1> HIDE DEF by
<1>5. PICK g : Continues(g, n, R, z, by)
  BY <1>1, <1>3, RecursionExists, Zenon
<1>6. g \in [0 .. n -> R] /\ g[0] = z /\ \A i \in 1 .. n : g[i] = by[<<g[i - 1], i>>]
  BY <1>5 DEF Continues
<1>7. Folds(g, s, R, z, step)
  BY <1>4, <1>6, Zenon DEF Folds
<1> QED
  BY <1>6, <1>7

Agree(g, h, n, R) == \A i \in 0 .. n : g[i] \in R /\ g[i] = h[i]

\* Two folds of a sequence agree, and their values are in R.
LEMMA FoldUnique ==
  ASSUME NEW S, NEW R, NEW z \in R, NEW step \in [R \X S -> R], NEW s \in Seq(S),
         NEW g, NEW h, Folds(g, s, R, z, step), Folds(h, s, R, z, step)
  PROVE  Agree(g, h, Len(s), R)
<1>1. Len(s) \in Nat /\ \A i \in 1 .. Len(s) : s[i] \in S
  BY LenProperties, ElementOfSeq
<1> DEFINE G == {i \in 0 .. Len(s) : g[i] \in R /\ g[i] = h[i]}
<1>2. 0 \in G
  BY <1>1 DEF Folds
<1>3. ASSUME NEW i \in 1 .. Len(s), i - 1 \in G PROVE i \in G
  <2>1. g[i - 1] \in R /\ h[i - 1] = g[i - 1] /\ s[i] \in S
    BY <1>1, <1>3
  <2>2. g[i] = step[<<g[i - 1], s[i]>>] /\ h[i] = step[<<g[i - 1], s[i]>>]
    BY <2>1 DEF Folds
  <2>3. step[<<g[i - 1], s[i]>>] \in R
    BY <2>1
  <2>4. i \in 0 .. Len(s)
    BY <1>1
  <2> QED
    BY <2>2, <2>3, <2>4
<1>4. 0 .. Len(s) \subseteq G
  <2> HIDE DEF G
  <2> QED
    BY <1>1, <1>2, <1>3, UpToInduction, Zenon
<1> QED
  BY <1>4 DEF Agree

\* F is the last value of a fold, for every sequence.
IsFold(F, S, R, z, step) ==
  \A s \in Seq(S) : \E g : Folds(g, s, R, z, step) /\ F[s] = g[Len(s)]

\* The equations of a fold.
FoldEquations(F, S, R, z, step) ==
  /\ F[<<>>] = z
  /\ \A s \in Seq(S) : F[s] \in R
  /\ \A s \in Seq(S), e \in S : F[Append(s, e)] = step[<<F[s], e>>]

\* A fold obeys its equations.
LEMMA FoldFacts ==
  ASSUME NEW S, NEW R, NEW z \in R, NEW step \in [R \X S -> R], NEW F,
         IsFold(F, S, R, z, step)
  PROVE  FoldEquations(F, S, R, z, step)
<1>1. F[<<>>] = z
  <2>1. <<>> \in Seq(S) /\ Len(<<>>) = 0
    BY EmptySeq
  <2>2. PICK g : Folds(g, <<>>, R, z, step) /\ F[<<>>] = g[Len(<<>>)]
    BY <2>1, Zenon DEF IsFold
  <2> QED
    BY <2>1, <2>2 DEF Folds
<1>2. ASSUME NEW s \in Seq(S) PROVE F[s] \in R
  <2>1. PICK g : Folds(g, s, R, z, step) /\ F[s] = g[Len(s)]
    BY DEF IsFold
  <2>2. Len(s) \in 0 .. Len(s)
    BY LenProperties
  <2>3. Agree(g, g, Len(s), R)
    BY <2>1, FoldUnique, Zenon
  <2> QED
    BY <2>1, <2>2, <2>3 DEF Agree
<1>3. ASSUME NEW s \in Seq(S), NEW e \in S PROVE F[Append(s, e)] = step[<<F[s], e>>]
  <2> DEFINE t == Append(s, e)
  <2>1. /\ t \in Seq(S) /\ Len(t) = Len(s) + 1 /\ Len(s) \in Nat
        /\ \A i \in 1 .. Len(s) : t[i] = s[i]
        /\ t[Len(s) + 1] = e
    BY AppendProperties, LenProperties
  <2> HIDE DEF t
  <2>2. PICK g : Folds(g, s, R, z, step) /\ F[s] = g[Len(s)]
    BY DEF IsFold
  <2>3. PICK h : Folds(h, t, R, z, step) /\ F[t] = h[Len(t)]
    BY <2>1 DEF IsFold
  <2>4. Folds(h, s, R, z, step)
    BY <2>1, <2>3 DEF Folds
  <2>5. Agree(g, h, Len(s), R)
    BY <2>2, <2>4, FoldUnique, Zenon
  <2>6. Len(s) \in 0 .. Len(s) /\ Len(s) + 1 \in 1 .. Len(t) /\ (Len(s) + 1) - 1 = Len(s)
    BY <2>1
  <2>7. h[Len(s)] \in R /\ h[Len(s)] = F[s]
    BY <2>2, <2>5, <2>6 DEF Agree
  <2>8. h[Len(s) + 1] = step[<<h[Len(s)], t[Len(s) + 1]>>]
    <3>1. \A i \in 1 .. Len(t) : h[i - 1] \in R => h[i] = step[<<h[i - 1], t[i]>>]
      BY <2>3 DEF Folds
    <3> QED
      BY <2>6, <2>7, <3>1
  <2>9. F[t] = step[<<F[s], e>>]
    BY <2>1, <2>3, <2>7, <2>8
  <2> QED
    BY <2>9 DEF t
<1> QED
  BY <1>1, <1>2, <1>3 DEF FoldEquations
=============================================================================
