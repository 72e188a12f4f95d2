---------------------------- MODULE StartupProofs ----------------------------
(***************************************************************************)
(* Proofs about discovery and preflight: whatever lies on the volumes, the *)
(* menu lists the entries in an order of their own, each of them sound and *)
(* each kernel once, and marks what the boot will read.                    *)
(***************************************************************************)
EXTENDS Preflight, Induction
-----------------------------------------------------------------------------
(* Lists *)

\* The least and the greatest of some places in a list.
LEMMA MinPlace ==
  ASSUME NEW n \in Nat, NEW T, T \subseteq 1 .. n, T # {}
  PROVE  Min(T) \in T /\ \A i \in T : Min(T) <= i
<1>1. T \subseteq Nat
  OBVIOUS
<1>2. \E x \in T : \A y \in T : x <= y
  BY <1>1, LeastNat, Zenon
<1> QED
  BY <1>2, Zenon DEF Min

\* The greatest of some places, 0 among them perhaps.
LEMMA MaxPlace ==
  ASSUME NEW n \in Nat, NEW T, T \subseteq 0 .. n, T # {}
  PROVE  Max(T) \in T /\ \A i \in T : Max(T) >= i
<1> DEFINE U == {u \in 0 .. n : n - u \in T}
<1>1. \A x \in T : x \in 0 .. n /\ n - x \in 0 .. n /\ n - (n - x) = x
  OBVIOUS
<1>2. \A x \in T : n - x \in U
  BY <1>1, Zenon
<1>3. U \subseteq Nat /\ U # {}
  <2>1. \A x \in 0 .. n : x \in Nat
    OBVIOUS
  <2>2. U # {}
    <3> HIDE DEF U
    <3> QED
      BY <1>2, Zenon
  <2> QED
    BY <2>1, <2>2, Zenon
<1>4. PICK u \in U : \A y \in U : u <= y
  <2> HIDE DEF U
  <2> QED
    BY <1>3, LeastNat, Zenon
<1>5. n - u \in T /\ u \in 0 .. n
  BY <1>4, Zenon
<1>6. ASSUME NEW i \in T PROVE n - u >= i
  <2>1. u <= n - i
    BY <1>2, <1>4, Zenon
  <2> HIDE DEF U
  <2> QED
    BY <1>1, <1>5, <2>1
<1>7. \E x \in T : \A y \in T : x >= y
  BY <1>5, <1>6, Zenon
<1> QED
  BY <1>7, Zenon DEF Max

\* A list of length n.
Listing(s, n) == n \in Nat /\ Len(s) = n /\ DOMAIN s = 1 .. n /\ IsSeq(s)

\* The length, the domain and the elements of a list.
LEMMA Lists ==
  ASSUME NEW s, IsSeq(s)
  PROVE  Listing(s, Len(s)) /\ s \in Seq(Range(s)) /\ \A i \in DOMAIN s : s[i] \in Range(s)
<1>1. s \in Seq(Range(s))
  BY DEF IsSeq
<1>2. Len(s) \in Nat /\ DOMAIN s = 1 .. Len(s)
  BY <1>1, LenProperties, Zenon
<1> QED
  BY <1>1, <1>2, Zenon DEF Listing, Range

\* A sequence over a set is a list of elements of the set.
LEMMA ListOf ==
  ASSUME NEW S, NEW s \in Seq(S)
  PROVE  Listing(s, Len(s)) /\ \A i \in DOMAIN s : s[i] \in S
<1>1. Len(s) \in Nat /\ DOMAIN s = 1 .. Len(s) /\ s \in [1 .. Len(s) -> S]
  BY LenProperties, Zenon
<1>2. \A i \in 1 .. Len(s) : s[i] \in Range(s)
  BY <1>1, Zenon DEF Range
<1>3. s \in [1 .. Len(s) -> Range(s)]
  BY <1>1, <1>2
<1>4. s \in UNION {[1 .. n -> Range(s)] : n \in Nat}
  BY <1>1, <1>3, Zenon
<1>5. s \in Seq(Range(s))
  BY <1>4, SeqDef, Zenon
<1> QED
  BY <1>1, <1>5, ElementOfSeq, Zenon DEF Listing, IsSeq

\* A function on 1 .. n is a list.
LEMMA Tabulated ==
  ASSUME NEW n \in Nat, NEW s, s = [i \in 1 .. n |-> s[i]]
  PROVE  Listing(s, n)
<1>1. DOMAIN s = 1 .. n
  BY Zenon
<1>2. \A i \in 1 .. n : s[i] \in Range(s)
  BY <1>1, Zenon DEF Range
<1>3. s \in [1 .. n -> Range(s)]
  BY <1>2, Zenon
<1>4. s \in Seq(Range(s))
  BY <1>3, SeqDef, Zenon
<1>5. Len(s) \in Nat /\ DOMAIN s = 1 .. Len(s)
  BY <1>4, LenProperties, Zenon
<1>6. Len(s) = n
  BY <1>1, <1>5
<1> QED
  BY <1>1, <1>4, <1>6, Zenon DEF Listing, IsSeq

\* One list after the other.
LEMMA Joined ==
  ASSUME NEW s, NEW t, IsSeq(s), IsSeq(t)
  PROVE  /\ Listing(s \o t, Len(s) + Len(t))
         /\ \A i \in DOMAIN s : (s \o t)[i] = s[i]
         /\ \A i \in DOMAIN (s \o t) : i \notin DOMAIN s =>
              i - Len(s) \in DOMAIN t /\ (s \o t)[i] = t[i - Len(s)]
<1> DEFINE S == Range(s) \cup Range(t)
           u == s \o t
<1>1. s \in Seq(S) /\ t \in Seq(S)
  BY SeqMonotonic DEF IsSeq
<1>2. /\ u \in Seq(S) /\ Len(u) = Len(s) + Len(t)
      /\ \A i \in 1 .. Len(s) + Len(t) :
           u[i] = IF i <= Len(s) THEN s[i] ELSE t[i - Len(s)]
  <2> HIDE DEF S
  <2> QED
    BY <1>1, ConcatProperties
<1>3. /\ Len(s) \in Nat /\ Len(t) \in Nat /\ DOMAIN s = 1 .. Len(s) /\ DOMAIN t = 1 .. Len(t)
  BY Lists, Zenon DEF Listing
<1>4. Listing(u, Len(u))
  <2> HIDE DEF S, u
  <2> QED
    BY <1>2, ListOf, Zenon
<1> HIDE DEF u, S
<1>5. DOMAIN u = 1 .. Len(s) + Len(t)
  BY <1>2, <1>4 DEF Listing
<1>6. /\ \A i \in DOMAIN s : u[i] = s[i]
      /\ \A i \in DOMAIN u : i \notin DOMAIN s => i - Len(s) \in DOMAIN t /\ u[i] = t[i - Len(s)]
  BY <1>2, <1>3, <1>5
<1> QED
  BY <1>2, <1>4, <1>6 DEF u
-----------------------------------------------------------------------------
(* Keep *)

\* f leads from the places of t to the places in I of s, in order.
Places(f, t, s, I) ==
  /\ \A k \in DOMAIN t : f[k] \in DOMAIN s /\ f[k] \in I /\ t[k] = s[f[k]]
  /\ \A j, k \in DOMAIN t : j < k => f[j] < f[k]
  /\ \A i \in DOMAIN s : i \in I => \E k \in DOMAIN t : f[k] = i

\* up[n] is what Keep keeps of the first n elements.
KeptUpTo(up, s, I) ==
  /\ Keep(s, I) = up[Len(s)] /\ up[0] = <<>>
  /\ \A n \in 1 .. Len(s) :
       up[n] = IF n \in I THEN Append(up[n - 1], s[n]) ELSE up[n - 1]
  /\ \A n \in 0 .. Len(s) : up[n] \in Seq(Range(s))

\* The equations of Keep.
LEMMA KeepEquations ==
  ASSUME NEW s, IsSeq(s), NEW I
  PROVE  \E up : KeptUpTo(up, s, I)
<1> DEFINE N == Len(s)
           R == Seq(Range(s))
           value(r, n) == IF n \in I THEN Append(r, s[n]) ELSE r
           step == [x \in R \X (1 .. N) |-> value(x[1], x[2])]
           Is(u) == u = [n \in 0 .. N |->
                           IF n = 0 THEN <<>>
                           ELSE IF n \in I THEN Append(u[n - 1], s[n]) ELSE u[n - 1]]
           up == CHOOSE u : Is(u)
<1>1. N \in Nat /\ \A n \in 1 .. N : s[n] \in Range(s)
  BY Lists, Zenon DEF Listing
<1>2. <<>> \in R
  BY EmptySeq
<1>3. \A r \in R, n \in 1 .. N : value(r, n) \in R
  <2> TAKE r \in R, n \in 1 .. N
  <2>1. Append(r, s[n]) \in R
    BY <1>1, AppendProperties
  <2> QED
    BY <2>1
<1>4. step \in [R \X (1 .. N) -> R] /\ \A r \in R, n \in 1 .. N : step[<<r, n>>] = value(r, n)
  <2> HIDE DEF value, R, N
  <2>1. \A x \in R \X (1 .. N) : value(x[1], x[2]) \in R
    BY <1>3
  <2>2. step \in [R \X (1 .. N) -> R]
    BY <2>1
  <2>3. \A r \in R, n \in 1 .. N :
          <<r, n>> \in R \X (1 .. N) /\ <<r, n>>[1] = r /\ <<r, n>>[2] = n
    OBVIOUS
  <2> QED
    BY <2>2, <2>3
<1>5. PICK g : Continues(g, N, R, <<>>, step)
  <2> HIDE DEF step, R, N
  <2> QED
    BY <1>1, <1>2, <1>4, RecursionExists, Zenon
<1>6. /\ g \in [0 .. N -> R] /\ g[0] = <<>>
      /\ \A n \in 1 .. N : g[n] = value(g[n - 1], n)
  <2>1. \A n \in 1 .. N : n - 1 \in 0 .. N
    BY <1>1
  <2> HIDE DEF step, R, value, N
  <2> QED
    BY <1>4, <1>5, <2>1, Zenon DEF Continues
<1>7. Is(g)
  <2> DEFINE e(n) == IF n = 0 THEN <<>> ELSE value(g[n - 1], n)
  <2>1. \A n \in 0 .. N : n # 0 => n \in 1 .. N
    BY <1>1
  <2>2. \A n \in 0 .. N : g[n] = e(n)
    <3> HIDE DEF value, R, N
    <3> QED
      BY <1>6, <2>1
  <2>3. g = [n \in 0 .. N |-> e(n)]
    <3> HIDE DEF e, R, N
    <3> QED
      BY <1>6, <2>2
  <2> QED
    BY <2>3, Zenon
<1>8. Is(up)
  <2> HIDE DEF Is
  <2> QED
    BY <1>7, Zenon
<1>9. Keep(s, I) = up[N]
  BY DEF Keep
<1> HIDE DEF up
<1>10. up[0] = <<>> /\ \A n \in 1 .. N : up[n] = value(up[n - 1], n)
  <2> DEFINE e(n) == IF n = 0 THEN <<>> ELSE value(up[n - 1], n)
  <2>1. up = [n \in 0 .. N |-> e(n)]
    BY <1>8, Zenon
  <2>2. 0 \in 0 .. N /\ \A n \in 1 .. N : n \in 0 .. N /\ n # 0
    BY <1>1
  <2>3. \A n \in 0 .. N : up[n] = e(n)
    <3> HIDE DEF e, N
    <3> QED
      BY <2>1
  <2> HIDE DEF value, N
  <2> QED
    BY <2>2, <2>3
<1>11. Obeys(up, N, R, <<>>, step)
  <2> HIDE DEF step, R, value, N
  <2> QED
    BY <1>4, <1>10 DEF Obeys
<1>12. \A n \in 0 .. N : up[n] \in R
  <2> HIDE DEF step, R, N
  <2> QED
    BY <1>1, <1>2, <1>4, <1>11, RecursionUnique, Zenon
<1> QED
  <2> HIDE DEF N, R
  <2>1. \A n \in 1 .. N : up[n] = IF n \in I THEN Append(up[n - 1], s[n]) ELSE up[n - 1]
    BY <1>10, Zenon
  <2>2. KeptUpTo(up, s, I)
    BY <1>9, <1>10, <1>12, <2>1, Zenon DEF N, R, KeptUpTo
  <2> QED
    BY <2>2, Zenon

\* Keep(s, I) is the part of s at the places in I.
LEMMA KeepPlaces ==
  ASSUME NEW s, IsSeq(s), NEW I
  PROVE  /\ Listing(Keep(s, I), Len(Keep(s, I)))
         /\ \E f : Places(f, Keep(s, I), s, I)
<1> DEFINE N == Len(s)
<1>0. PICK up : KeptUpTo(up, s, I)
  BY KeepEquations, Zenon
<1>1. /\ Keep(s, I) = up[N] /\ up[0] = <<>>
      /\ \A n \in 1 .. N :
           up[n] = IF n \in I THEN Append(up[n - 1], s[n]) ELSE up[n - 1]
      /\ \A n \in 0 .. N : up[n] \in Seq(Range(s))
  BY <1>0, Zenon DEF KeptUpTo
<1>2. N \in Nat /\ DOMAIN s = 1 .. N /\ \A n \in 1 .. N : s[n] \in Range(s)
  BY Lists, Zenon DEF Listing
<1> DEFINE G == {n \in 0 .. N : \E f : Places(f, up[n], s, I \cap (1 .. n))}
<1>3. 0 \in G
  <2>1. DOMAIN up[0] = {}
    BY <1>1, SMT
  <2>2. I \cap (1 .. 0) = {}
    OBVIOUS
  <2>3. Places(<<>>, up[0], s, I \cap (1 .. 0))
    BY <2>1, <2>2, Zenon DEF Places
  <2>4. 0 \in 0 .. N
    BY <1>2
  <2> QED
    BY <2>3, <2>4, Zenon
<1>4. ASSUME NEW n \in 1 .. N, n - 1 \in G PROVE n \in G
  <2>1. PICK f : Places(f, up[n - 1], s, I \cap (1 .. n - 1))
    BY <1>4, Zenon
  <2>2. n \in 0 .. N /\ n - 1 \in 0 .. N /\ n \in DOMAIN s
    BY <1>2
  <2> DEFINE t == up[n - 1]
             L == Len(t)
  <2>3. L \in Nat /\ DOMAIN t = 1 .. L
    BY <1>1, <2>2, LenProperties, Zenon
  <2>4. CASE n \notin I
    <3>1. up[n] = t
      BY <1>1, <2>4, Zenon
    <3>2. I \cap (1 .. n) = I \cap (1 .. n - 1)
      BY <1>2, <2>4
    <3>3. Places(f, up[n], s, I \cap (1 .. n))
      BY <2>1, <3>1, <3>2, Zenon
    <3> QED
      BY <2>2, <3>3, Zenon
  <2>5. CASE n \in I
    <3> DEFINE u == up[n]
               h == [k \in 1 .. L + 1 |-> IF k = L + 1 THEN n ELSE f[k]]
    <3>1. u = Append(t, s[n])
      BY <1>1, <2>5, Zenon
    <3>2. /\ DOMAIN u = 1 .. L + 1 /\ u[L + 1] = s[n]
          /\ \A k \in 1 .. L : u[k] = t[k]
      <4>1. t \in Seq(Range(s)) /\ s[n] \in Range(s)
        BY <1>1, <1>2, <2>2, Zenon
      <4> HIDE DEF t, u
      <4> QED
        BY <3>1, <4>1, AppendProperties, LenProperties
    <3> HIDE DEF t, u, L
    <3>3. /\ \A k \in 1 .. L : f[k] \in DOMAIN s /\ f[k] \in I /\ f[k] \in 1 .. n - 1 /\ t[k] = s[f[k]]
          /\ \A j, k \in 1 .. L : j < k => f[j] < f[k]
          /\ \A i \in DOMAIN s : i \in I \cap (1 .. n - 1) => \E k \in 1 .. L : f[k] = i
      <4>1. Places(f, t, s, I \cap (1 .. n - 1))
        BY <2>1, Zenon DEF t
      <4>2. /\ \A k \in DOMAIN t : f[k] \in DOMAIN s /\ f[k] \in I \cap (1 .. n - 1) /\ t[k] = s[f[k]]
            /\ \A j, k \in DOMAIN t : j < k => f[j] < f[k]
            /\ \A i \in DOMAIN s : i \in I \cap (1 .. n - 1) => \E k \in DOMAIN t : f[k] = i
        BY <4>1, Zenon DEF Places
      <4> QED
        BY <2>3, <4>2, Zenon
    <3>4. \A k \in 1 .. L : k \in 1 .. L + 1 /\ k # L + 1
      BY <2>3
    <3>5. h[L + 1] = n /\ \A k \in 1 .. L : h[k] = f[k]
      BY <2>3
    <3>6. \A k \in 1 .. L + 1 : k \in 1 .. L \/ k = L + 1
      BY <2>3
    <3> HIDE DEF h
    <3>7. \A k \in DOMAIN u : h[k] \in DOMAIN s /\ h[k] \in I \cap (1 .. n) /\ u[k] = s[h[k]]
      <4> SUFFICES ASSUME NEW k \in 1 .. L + 1
                   PROVE  h[k] \in DOMAIN s /\ h[k] \in I \cap (1 .. n) /\ u[k] = s[h[k]]
        BY <3>2, Zenon
      <4>1. CASE k \in 1 .. L
        BY <3>2, <3>3, <3>5, <4>1
      <4>2. CASE k = L + 1
        BY <2>2, <2>5, <3>2, <3>5, <4>2
      <4> QED
        BY <3>6, <4>1, <4>2, Zenon
    <3>8. \A j, k \in DOMAIN u : j < k => h[j] < h[k]
      <4> SUFFICES ASSUME NEW j \in 1 .. L + 1, NEW k \in 1 .. L + 1, j < k PROVE h[j] < h[k]
        BY <3>2, Zenon
      <4>1. j \in 1 .. L
        BY <2>3
      <4>2. CASE k \in 1 .. L
        BY <3>3, <3>5, <4>1, <4>2, Zenon
      <4>3. CASE k = L + 1
        BY <3>3, <3>5, <4>1, <4>3
      <4> QED
        BY <3>6, <4>2, <4>3, Zenon
    <3>9. ASSUME NEW i \in DOMAIN s, i \in I \cap (1 .. n) PROVE \E k \in DOMAIN u : h[k] = i
      <4>1. CASE i = n
        <5>1. L + 1 \in DOMAIN u
          BY <2>3, <3>2
        <5> QED
          BY <3>5, <4>1, <5>1, Zenon
      <4>2. CASE i # n
        <5>1. i \in I \cap (1 .. n - 1)
          BY <3>9, <4>2
        <5>2. PICK k \in 1 .. L : f[k] = i
          BY <3>3, <5>1, Zenon
        <5> QED
          BY <3>2, <3>4, <3>5, <5>2, Zenon
      <4> QED
        BY <4>1, <4>2, Zenon
    <3>10. Places(h, u, s, I \cap (1 .. n))
      BY <3>7, <3>8, <3>9, Zenon DEF Places
    <3> QED
      BY <2>2, <3>10, Zenon DEF u
  <2> QED
    BY <2>4, <2>5, Zenon
<1>5. 0 .. N \subseteq G
  <2> HIDE DEF G, N
  <2> QED
    BY <1>2, <1>3, <1>4, UpToInduction, Zenon
<1>6. N \in 0 .. N
  BY <1>2
<1>7. PICK f : Places(f, up[N], s, I \cap (1 .. N))
  BY <1>5, <1>6, Zenon
<1>8. Places(f, up[N], s, I)
  BY <1>2, <1>7 DEF Places
<1>9. up[N] \in Seq(Range(s))
  BY <1>1, <1>6, Zenon
<1>10. Listing(up[N], Len(up[N]))
  <2> DEFINE t == up[N]
  <2> HIDE DEF t
  <2> QED
    BY <1>9, ListOf, Zenon DEF t
<1>11. Keep(s, I) = up[N]
  BY <1>1, Zenon
<1> QED
  <2> HIDE DEF N
  <2> QED
    BY <1>8, <1>10, <1>11, Zenon
-----------------------------------------------------------------------------
(* Insert, SortBy *)

\* t is s with e put in behind place k: what follows e is greater, the element
\* before it is not.
Inserted(t, s, e, less, k) ==
  /\ k \in 0 .. Len(s) /\ Listing(t, Len(s) + 1)
  /\ t[k + 1] = e
  /\ \A i \in 1 .. k : t[i] = s[i]
  /\ \A i \in k + 1 .. Len(s) : t[i + 1] = s[i] /\ <<e, s[i]>> \in less
  /\ k # 0 => <<e, s[k]>> \notin less

\* Insert puts the element behind the last one it is not less than.
LEMMA InsertFacts ==
  ASSUME NEW S, NEW s \in Seq(S), NEW e \in S, NEW less
  PROVE  Insert(s, e, less) \in Seq(S) /\ \E k : Inserted(Insert(s, e, less), s, e, less, k)
<1> DEFINE L == Len(s)
           T == {0} \cup {i \in DOMAIN s : <<e, s[i]>> \notin less}
           k == Max(T)
           x == SubSeq(s, 1, k)
           y == SubSeq(s, k + 1, L)
           t == x \o <<e>> \o y
<1>1. L \in Nat /\ DOMAIN s = 1 .. L /\ \A i \in 1 .. L : s[i] \in S
  BY LenProperties, ElementOfSeq, Zenon
<1>2. T \subseteq 0 .. L /\ T # {}
  <2>1. 0 \in 0 .. L /\ \A i \in 1 .. L : i \in 0 .. L
    BY <1>1
  <2> QED
    BY <1>1, <2>1, Zenon
<1>3. k \in T /\ \A i \in T : k >= i
  <2> HIDE DEF T, L
  <2> QED
    BY <1>1, <1>2, MaxPlace, Zenon
<1>4. k \in 0 .. L
  <2> HIDE DEF k, T, L
  <2> QED
    BY <1>2, <1>3, Zenon
<1>5. k # 0 => <<e, s[k]>> \notin less
  <2> HIDE DEF k
  <2> QED
    BY <1>3, Zenon
<1>6. \A i \in k + 1 .. L : <<e, s[i]>> \in less
  <2> HIDE DEF k, L
  <2> SUFFICES ASSUME NEW i \in k + 1 .. L, <<e, s[i]>> \notin less PROVE FALSE
    OBVIOUS
  <2>1. i \in 1 .. L /\ ~(k >= i)
    BY <1>1, <1>4
  <2>2. i \in T
    BY <1>1, <2>1, Zenon
  <2> HIDE DEF T
  <2> QED
    BY <1>3, <2>1, <2>2, Zenon
<1>7. Insert(s, e, less) = t
  BY Zenon DEF Insert
<1> HIDE DEF k, L, T
<1>8. /\ x \in Seq(S) /\ Len(x) = k /\ \A i \in 1 .. k : x[i] = s[i]
      /\ y \in Seq(S) /\ Len(y) = L - k /\ \A i \in 1 .. L - k : y[i] = s[k + i]
  <2>1. \A i \in 1 .. k : s[i] \in S
    BY <1>1, <1>4
  <2>2. \A i \in k + 1 .. L : s[i] \in S
    BY <1>1, <1>4
  <2>3. x \in Seq(S) /\ Len(x) = (IF 1 <= k THEN k - 1 + 1 ELSE 0)
        /\ \A i \in 1 .. k - 1 + 1 : x[i] = s[1 + i - 1]
    BY <1>4, <2>1, SubSeqProperties
  <2>4. y \in Seq(S) /\ Len(y) = (IF k + 1 <= L THEN L - (k + 1) + 1 ELSE 0)
        /\ \A i \in 1 .. L - (k + 1) + 1 : y[i] = s[(k + 1) + i - 1]
    BY <1>1, <1>4, <2>2, SubSeqProperties
  <2> HIDE DEF x, y
  <2>5. (IF 1 <= k THEN k - 1 + 1 ELSE 0) = k /\ k - 1 + 1 = k
    BY <1>4
  <2>6. (IF k + 1 <= L THEN L - (k + 1) + 1 ELSE 0) = L - k /\ L - (k + 1) + 1 = L - k
    BY <1>1, <1>4
  <2>7. /\ \A i \in 1 .. k : 1 + i - 1 = i
        /\ \A i \in 1 .. L - k : (k + 1) + i - 1 = k + i
    BY <1>1, <1>4
  <2>8. Len(x) = k /\ \A i \in 1 .. k : x[i] = s[i]
    BY <2>3, <2>5, <2>7, Zenon
  <2>9. Len(y) = L - k /\ \A i \in 1 .. L - k : y[i] = s[k + i]
    BY <2>4, <2>6, <2>7, Zenon
  <2> QED
    BY <2>3, <2>4, <2>8, <2>9, Zenon
<1> HIDE DEF x, y
<1>9. <<e>> \in Seq(S) /\ Len(<<e>>) = 1 /\ <<e>>[1] = e
  OBVIOUS
<1> DEFINE z == <<e>>
           w == x \o z
<1> HIDE DEF z
<1>10. /\ w \in Seq(S) /\ Len(w) = k + 1
       /\ \A i \in 1 .. k + 1 : w[i] = IF i <= k THEN x[i] ELSE z[i - k]
  <2>0. x \in Seq(S)
    BY <1>8, Zenon
  <2>1. z \in Seq(S) /\ Len(z) = 1
    BY <1>9, Zenon DEF z
  <2>2. /\ w \in Seq(S) /\ Len(w) = Len(x) + Len(z)
        /\ \A i \in 1 .. Len(x) + Len(z) :
             w[i] = IF i <= Len(x) THEN x[i] ELSE z[i - Len(x)]
    BY <2>0, <2>1, ConcatProperties, Zenon
  <2>3. Len(x) = k /\ Len(z) = 1
    BY <1>8, <2>1, Zenon
  <2> QED
    BY <2>2, <2>3, Zenon
<1> HIDE DEF w
<1>11. /\ w \o y \in Seq(S) /\ Len(w \o y) = (k + 1) + (L - k)
       /\ \A i \in 1 .. (k + 1) + (L - k) :
            (w \o y)[i] = IF i <= k + 1 THEN w[i] ELSE y[i - (k + 1)]
  <2>1. w \in Seq(S) /\ y \in Seq(S)
    BY <1>8, <1>10, Zenon
  <2>2. /\ w \o y \in Seq(S) /\ Len(w \o y) = Len(w) + Len(y)
        /\ \A i \in 1 .. Len(w) + Len(y) :
             (w \o y)[i] = IF i <= Len(w) THEN w[i] ELSE y[i - Len(w)]
    BY <2>1, ConcatProperties, Zenon
  <2>3. Len(w) = k + 1 /\ Len(y) = L - k
    BY <1>8, <1>10, Zenon
  <2> QED
    BY <2>2, <2>3, Zenon
<1>12. t = w \o y
  BY Zenon DEF w, z
<1> HIDE DEF t
<1>13. t \in Seq(S) /\ Len(t) = L + 1
  BY <1>1, <1>4, <1>11, <1>12
<1>14. \A i \in 1 .. L + 1 : t[i] = IF i <= k + 1 THEN w[i] ELSE y[i - (k + 1)]
  BY <1>1, <1>4, <1>11, <1>12
<1>15. t[k + 1] = e
  <2>1. k + 1 \in 1 .. L + 1 /\ k + 1 \in 1 .. k + 1 /\ ~(k + 1 <= k) /\ (k + 1) - k = 1
    BY <1>1, <1>4
  <2> QED
    BY <1>9, <1>10, <1>14, <2>1 DEF z
<1>16. \A i \in 1 .. k : t[i] = s[i]
  BY <1>1, <1>4, <1>8, <1>10, <1>14
<1>17. \A i \in k + 1 .. L : t[i + 1] = s[i]
  <2> TAKE i \in k + 1 .. L
  <2>1. i + 1 \in 1 .. L + 1 /\ ~(i + 1 <= k + 1) /\ (i + 1) - (k + 1) = i - k
        /\ i - k \in 1 .. L - k /\ k + (i - k) = i
    BY <1>1, <1>4
  <2> QED
    BY <1>8, <1>14, <2>1
<1>18. Listing(t, L + 1)
  BY <1>13, ListOf
<1>19. Inserted(t, s, e, less, k)
  BY <1>4, <1>5, <1>6, <1>15, <1>16, <1>17, <1>18, Zenon DEF Inserted, L
<1> QED
  BY <1>7, <1>13, <1>19, Zenon

\* up[n] is the first n elements, sorted.
SortedUpTo(up, s, less) ==
  /\ SortBy(s, less) = up[Len(s)] /\ up[0] = <<>>
  /\ \A n \in 1 .. Len(s) : up[n] = Insert(up[n - 1], s[n], less)
  /\ \A n \in 0 .. Len(s) : up[n] \in Seq(Range(s))

\* The equations of SortBy.
LEMMA SortEquations ==
  ASSUME NEW s, IsSeq(s), NEW less
  PROVE  \E up : SortedUpTo(up, s, less)
<1> DEFINE N == Len(s)
           R == Seq(Range(s))
           value(r, n) == Insert(r, s[n], less)
           step == [x \in R \X (1 .. N) |-> value(x[1], x[2])]
           Is(u) == u = [n \in 0 .. N |-> IF n = 0 THEN <<>> ELSE Insert(u[n - 1], s[n], less)]
           up == CHOOSE u : Is(u)
<1>1. N \in Nat /\ \A n \in 1 .. N : s[n] \in Range(s)
  BY Lists, Zenon DEF Listing
<1>2. <<>> \in R
  BY EmptySeq
<1>3. \A r \in R, n \in 1 .. N : value(r, n) \in R
  BY <1>1, InsertFacts, Zenon
<1>4. step \in [R \X (1 .. N) -> R] /\ \A r \in R, n \in 1 .. N : step[<<r, n>>] = value(r, n)
  <2> HIDE DEF value, R, N
  <2>1. \A x \in R \X (1 .. N) : value(x[1], x[2]) \in R
    BY <1>3
  <2>2. step \in [R \X (1 .. N) -> R]
    BY <2>1
  <2>3. \A r \in R, n \in 1 .. N :
          <<r, n>> \in R \X (1 .. N) /\ <<r, n>>[1] = r /\ <<r, n>>[2] = n
    OBVIOUS
  <2> QED
    BY <2>2, <2>3
<1>5. PICK g : Continues(g, N, R, <<>>, step)
  <2> HIDE DEF step, R, N
  <2> QED
    BY <1>1, <1>2, <1>4, RecursionExists, Zenon
<1>6. /\ g \in [0 .. N -> R] /\ g[0] = <<>>
      /\ \A n \in 1 .. N : g[n] = value(g[n - 1], n)
  <2>1. \A n \in 1 .. N : n - 1 \in 0 .. N
    BY <1>1
  <2> HIDE DEF step, R, value, N
  <2> QED
    BY <1>4, <1>5, <2>1, Zenon DEF Continues
<1>7. Is(g)
  <2> DEFINE e(n) == IF n = 0 THEN <<>> ELSE value(g[n - 1], n)
  <2>1. \A n \in 0 .. N : n # 0 => n \in 1 .. N
    BY <1>1
  <2>2. \A n \in 0 .. N : g[n] = e(n)
    <3> HIDE DEF value, R, N
    <3> QED
      BY <1>6, <2>1
  <2>3. g = [n \in 0 .. N |-> e(n)]
    <3> HIDE DEF e, R, N
    <3> QED
      BY <1>6, <2>2
  <2> QED
    BY <2>3, Zenon
<1>8. Is(up)
  <2> HIDE DEF Is
  <2> QED
    BY <1>7, Zenon
<1>9. SortBy(s, less) = up[N]
  BY DEF SortBy
<1> HIDE DEF up
<1>10. up[0] = <<>> /\ \A n \in 1 .. N : up[n] = value(up[n - 1], n)
  <2> DEFINE e(n) == IF n = 0 THEN <<>> ELSE value(up[n - 1], n)
  <2>1. up = [n \in 0 .. N |-> e(n)]
    BY <1>8, Zenon
  <2>2. 0 \in 0 .. N /\ \A n \in 1 .. N : n \in 0 .. N /\ n # 0
    BY <1>1
  <2>3. \A n \in 0 .. N : up[n] = e(n)
    <3> HIDE DEF e, N
    <3> QED
      BY <2>1
  <2> HIDE DEF value, N
  <2> QED
    BY <2>2, <2>3
<1>11. Obeys(up, N, R, <<>>, step)
  <2> HIDE DEF step, R, value, N
  <2> QED
    BY <1>4, <1>10 DEF Obeys
<1>12. \A n \in 0 .. N : up[n] \in R
  <2> HIDE DEF step, R, N
  <2> QED
    BY <1>1, <1>2, <1>4, <1>11, RecursionUnique, Zenon
<1>13. SortedUpTo(up, s, less)
  <2> HIDE DEF up, R
  <2> QED
    BY <1>9, <1>10, <1>12, Zenon DEF N, R, value, SortedUpTo
<1> QED
  BY <1>13, Zenon

\* Insertion adds the element and nothing else.
LEMMA InsertRange ==
  ASSUME NEW S, NEW s \in Seq(S), NEW e, NEW less, NEW t, NEW k, Inserted(t, s, e, less, k)
  PROVE  Range(t) = Range(s) \cup {e}
<1>1. Len(s) \in Nat /\ DOMAIN s = 1 .. Len(s) /\ DOMAIN t = 1 .. Len(s) + 1 /\ k \in 0 .. Len(s)
  BY LenProperties, Zenon DEF Inserted, Listing
<1>2. \A i \in DOMAIN t : t[i] = e \/ \E j \in DOMAIN s : t[i] = s[j]
  <2> TAKE i \in DOMAIN t
  <2>1. CASE i \in 1 .. k
    <3>1. i \in DOMAIN s
      BY <1>1, <2>1
    <3> QED
      BY <2>1, <3>1, Zenon DEF Inserted
  <2>2. CASE i = k + 1
    BY <2>2, Zenon DEF Inserted
  <2>3. CASE i \in k + 2 .. Len(s) + 1
    <3>1. i - 1 \in k + 1 .. Len(s) /\ i - 1 \in DOMAIN s /\ (i - 1) + 1 = i
      BY <1>1, <2>3
    <3>2. t[(i - 1) + 1] = s[i - 1]
      BY <3>1, Zenon DEF Inserted
    <3> QED
      BY <3>1, <3>2, Zenon
  <2> QED
    BY <1>1, <2>1, <2>2, <2>3
<1>3. \A j \in DOMAIN s : \E i \in DOMAIN t : t[i] = s[j]
  <2> TAKE j \in DOMAIN s
  <2>1. CASE j \in 1 .. k
    <3>1. j \in DOMAIN t
      BY <1>1, <2>1
    <3> QED
      BY <2>1, <3>1, Zenon DEF Inserted
  <2>2. CASE j \in k + 1 .. Len(s)
    <3>1. j + 1 \in DOMAIN t
      BY <1>1, <2>2
    <3> QED
      BY <2>2, <3>1, Zenon DEF Inserted
  <2> QED
    BY <1>1, <2>1, <2>2
<1>4. k + 1 \in DOMAIN t /\ t[k + 1] = e
  BY <1>1 DEF Inserted
<1>5. Range(t) \subseteq Range(s) \cup {e}
  BY <1>2, Zenon DEF Range
<1>6. Range(s) \subseteq Range(t)
  <2> SUFFICES ASSUME NEW x \in Range(s) PROVE x \in Range(t)
    OBVIOUS
  <2>1. PICK j \in DOMAIN s : x = s[j]
    BY Zenon DEF Range
  <2>2. PICK i \in DOMAIN t : t[i] = x
    BY <1>3, <2>1, Zenon
  <2> QED
    BY <2>2, Zenon DEF Range
<1>7. e \in Range(t)
  BY <1>4, Zenon DEF Range
<1> QED
  BY <1>5, <1>6, <1>7, Zenon

\* What holds of the empty list and is kept by every insertion of SortBy holds
\* of the sorted list; and that is a list of the same elements.
LEMMA SortInduction ==
  ASSUME NEW s, IsSeq(s), NEW less, NEW G, <<>> \in G,
         \A n \in 1 .. Len(s) : \A r \in Seq(Range(s)) : \A t \in Seq(Range(s)), k \in 0 .. Len(r) :
           r \in G /\ Len(r) = n - 1 /\ Range(r) = {s[i] : i \in 1 .. n - 1}
             /\ Inserted(t, r, s[n], less, k) => t \in G
  PROVE  /\ SortBy(s, less) \in G
         /\ Listing(SortBy(s, less), Len(s)) /\ Range(SortBy(s, less)) = Range(s)
<1> DEFINE N == Len(s)
           Heads(n) == {s[i] : i \in 1 .. n}
<1>0. PICK up : SortedUpTo(up, s, less)
  BY SortEquations, Zenon
<1>1. /\ SortBy(s, less) = up[N] /\ up[0] = <<>>
      /\ \A n \in 1 .. N : up[n] = Insert(up[n - 1], s[n], less)
      /\ \A n \in 0 .. N : up[n] \in Seq(Range(s))
  BY <1>0, Zenon DEF SortedUpTo
<1>2. N \in Nat /\ DOMAIN s = 1 .. N /\ \A n \in 1 .. N : s[n] \in Range(s)
  BY Lists, Zenon DEF Listing
<1> DEFINE H == {n \in 0 .. N : up[n] \in G /\ Len(up[n]) = n /\ Range(up[n]) = Heads(n)}
<1>3. 0 \in H
  <2>1. 0 \in 0 .. N /\ 1 .. 0 = {}
    BY <1>2
  <2>2. Len(<<>>) = 0 /\ DOMAIN <<>> = {}
    BY SMT
  <2>3. Range(<<>>) = {} /\ Heads(0) = {}
    BY <2>1, <2>2, Zenon DEF Range
  <2> QED
    BY <1>1, <2>1, <2>2, <2>3, Zenon
<1>4. ASSUME NEW n \in 1 .. N, n - 1 \in H PROVE n \in H
  <2> DEFINE r == up[n - 1]
             t == up[n]
  <2>1. n \in 0 .. N /\ n - 1 \in 0 .. N
    BY <1>2
  <2>2. /\ r \in G /\ Len(r) = n - 1 /\ Range(r) = Heads(n - 1) /\ r \in Seq(Range(s))
        /\ t \in Seq(Range(s)) /\ t = Insert(r, s[n], less) /\ s[n] \in Range(s)
    BY <1>1, <1>2, <1>4, <2>1, Zenon
  <2> HIDE DEF r, t
  <2>3. PICK k : Inserted(t, r, s[n], less, k)
    BY <2>2, InsertFacts, Zenon
  <2>4. k \in 0 .. Len(r) /\ Len(t) = Len(r) + 1
    BY <2>3, Zenon DEF Inserted, Listing
  <2>5. t \in G
    BY <2>2, <2>3, <2>4, Zenon
  <2>6. Len(t) = n
    BY <2>2, <2>4
  <2>7. Range(t) = Heads(n - 1) \cup {s[n]}
    BY <2>2, <2>3, InsertRange, Zenon
  <2>8. Heads(n) = Heads(n - 1) \cup {s[n]}
    <3>1. \A i : i \in 1 .. n <=> i \in 1 .. n - 1 \/ i = n
      BY <1>2
    <3> QED
      BY <3>1, Zenon
  <2> QED
    BY <2>1, <2>5, <2>6, <2>7, <2>8, Zenon DEF t
<1>5. 0 .. N \subseteq H
  <2> HIDE DEF H, N
  <2> QED
    BY <1>2, <1>3, <1>4, UpToInduction, Zenon
<1>6. N \in 0 .. N
  BY <1>2
<1>7. up[N] \in G /\ Len(up[N]) = N /\ Range(up[N]) = Heads(N) /\ up[N] \in Seq(Range(s))
  BY <1>1, <1>5, <1>6, Zenon
<1>8. Heads(N) = Range(s)
  BY <1>2, Zenon DEF Range
<1>9. ASSUME NEW t, t \in Seq(Range(s)) PROVE Listing(t, Len(t))
  BY <1>9, ListOf, Zenon
<1>10. Listing(up[N], Len(up[N]))
  BY <1>7, <1>9, Zenon
<1>11. SortBy(s, less) = up[N]
  BY <1>1, Zenon
<1> HIDE DEF N, Heads
<1> QED
  BY <1>7, <1>8, <1>10, <1>11, Zenon DEF N

\* A sorted list has the length and the elements of the list (sort_by).
LEMMA SortRange ==
  ASSUME NEW s, IsSeq(s), NEW less
  PROVE  Listing(SortBy(s, less), Len(s)) /\ Range(SortBy(s, less)) = Range(s)
<1> DEFINE G == Seq(Range(s))
<1>1. <<>> \in G
  BY EmptySeq
<1>2. \A n \in 1 .. Len(s) : \A r \in Seq(Range(s)) : \A t \in Seq(Range(s)), k \in 0 .. Len(r) :
           r \in G /\ Len(r) = n - 1 /\ Range(r) = {s[i] : i \in 1 .. n - 1}
             /\ Inserted(t, r, s[n], less, k) => t \in G
  BY Zenon
<1> QED
  <2> HIDE DEF G
  <2> QED
    BY <1>1, <1>2, SortInduction, Zenon

\* Two places of a list with e put in: both of the list before, or one of them
\* that of e.
LEMMA InsertedPlaces ==
  ASSUME NEW S, NEW s \in Seq(S), NEW e, NEW less, NEW t, NEW k, Inserted(t, s, e, less, k),
         NEW i \in DOMAIN t, NEW j \in DOMAIN t, i < j
  PROVE  \/ \E a, b \in DOMAIN s : a < b /\ t[i] = s[a] /\ t[j] = s[b]
         \/ t[i] = e /\ \E b \in k + 1 .. Len(s) : b \in DOMAIN s /\ t[j] = s[b]
         \/ t[j] = e /\ \E a \in 1 .. k : a \in DOMAIN s /\ t[i] = s[a]
<1>1. /\ Len(s) \in Nat /\ DOMAIN s = 1 .. Len(s) /\ DOMAIN t = 1 .. Len(s) + 1
      /\ k \in 0 .. Len(s)
  BY LenProperties, Zenon DEF Inserted, Listing
<1>2. /\ t[k + 1] = e
      /\ \A a \in 1 .. k : t[a] = s[a]
      /\ \A a \in k + 1 .. Len(s) : t[a + 1] = s[a]
  BY Zenon DEF Inserted
<1>3. \A a \in k + 2 .. Len(s) + 1 : a - 1 \in k + 1 .. Len(s) /\ (a - 1) + 1 = a
  BY <1>1
<1>4. \A a \in k + 2 .. Len(s) + 1 : t[a] = s[a - 1]
  BY <1>2, <1>3
<1>5. CASE j \in 1 .. k
  <2>1. i \in 1 .. k /\ i \in DOMAIN s /\ j \in DOMAIN s
    BY <1>1, <1>5
  <2> QED
    BY <1>2, <1>5, <2>1, Zenon
<1>6. CASE j = k + 1
  <2>1. i \in 1 .. k /\ i \in DOMAIN s
    BY <1>1, <1>6
  <2> QED
    BY <1>2, <1>6, <2>1, Zenon
<1>7. CASE j \in k + 2 .. Len(s) + 1
  <2>1. j - 1 \in k + 1 .. Len(s) /\ j - 1 \in DOMAIN s /\ t[j] = s[j - 1]
    BY <1>1, <1>4, <1>7
  <2>2. CASE i \in 1 .. k
    <3>1. i \in DOMAIN s /\ i < j - 1 /\ t[i] = s[i]
      BY <1>1, <1>2, <1>7, <2>2
    <3> QED
      BY <2>1, <3>1, Zenon
  <2>3. CASE i = k + 1
    BY <1>2, <2>1, <2>3, Zenon
  <2>4. CASE i \in k + 2 .. Len(s) + 1
    <3>1. i - 1 \in DOMAIN s /\ i - 1 < j - 1 /\ t[i] = s[i - 1]
      BY <1>1, <1>4, <1>7, <2>4
    <3> QED
      BY <2>1, <3>1, Zenon
  <2> QED
    BY <1>1, <2>2, <2>3, <2>4
<1> QED
  BY <1>1, <1>5, <1>6, <1>7

\* The elements of P, each greater than all others, are last when sorted.
LEMMA SortParts ==
  ASSUME NEW s, IsSeq(s), NEW less, NEW P,
         \A x \in Range(s) \ P, y \in Range(s) \cap P : <<x, y>> \in less /\ <<y, x>> \notin less
  PROVE  \A i, j \in DOMAIN SortBy(s, less) :
           i < j /\ SortBy(s, less)[i] \in P => SortBy(s, less)[j] \in P
<1> DEFINE Last(t) == \A i, j \in DOMAIN t : i < j /\ t[i] \in P => t[j] \in P
           G == {t \in Seq(Range(s)) : Last(t)}
<1>1. <<>> \in G
  <2>1. <<>> \in Seq(Range(s)) /\ DOMAIN <<>> = {}
    BY EmptySeq, SMT
  <2> QED
    BY <2>1, Zenon
<1>2. ASSUME NEW n \in 1 .. Len(s), NEW r \in Seq(Range(s)), NEW t \in Seq(Range(s)),
             NEW k \in 0 .. Len(r), r \in G, Inserted(t, r, s[n], less, k)
      PROVE  t \in G
  <2> DEFINE e == s[n]
  <2>1. Len(r) \in Nat /\ DOMAIN r = 1 .. Len(r) /\ (\A a \in DOMAIN r : r[a] \in Range(s)) /\ Last(r)
    BY <1>2, LenProperties, ElementOfSeq, Zenon
  <2>2. e \in Range(s)
    BY Lists, Zenon DEF Listing
  <2>3. /\ k # 0 => <<e, r[k]>> \notin less
        /\ \A b \in k + 1 .. Len(r) : <<e, r[b]>> \in less
    BY <1>2, Zenon DEF Inserted
  <2>4. ASSUME e \in P, NEW b \in k + 1 .. Len(r), b \in DOMAIN r PROVE r[b] \in P
    BY <2>1, <2>2, <2>3, <2>4, Zenon
  <2>5. ASSUME e \notin P, NEW a \in 1 .. k, a \in DOMAIN r PROVE r[a] \notin P
    <3>1. k # 0 /\ k \in DOMAIN r /\ (a = k \/ a < k)
      BY <2>1, <2>5
    <3>2. r[k] \notin P
      BY <2>1, <2>2, <2>3, <2>5, <3>1, Zenon
    <3> QED
      BY <2>1, <2>5, <3>1, <3>2, Zenon
  <2>6. ASSUME NEW i \in DOMAIN t, NEW j \in DOMAIN t, i < j, t[i] \in P PROVE t[j] \in P
    <3> HIDE DEF e, Last
    <3>1. \/ \E a, b \in DOMAIN r : a < b /\ t[i] = r[a] /\ t[j] = r[b]
          \/ t[i] = e /\ \E b \in k + 1 .. Len(r) : b \in DOMAIN r /\ t[j] = r[b]
          \/ t[j] = e /\ \E a \in 1 .. k : a \in DOMAIN r /\ t[i] = r[a]
      <4> HIDE DEF G
      <4>1. Inserted(t, r, e, less, k)
        BY <1>2, Zenon DEF e
      <4> QED
        BY <2>6, <4>1, InsertedPlaces
    <3>2. ASSUME NEW a \in DOMAIN r, NEW b \in DOMAIN r, a < b, t[i] = r[a], t[j] = r[b]
          PROVE  t[j] \in P
      BY <2>1, <2>6, <3>2 DEF Last
    <3>3. ASSUME t[i] = e, NEW b \in k + 1 .. Len(r), b \in DOMAIN r, t[j] = r[b]
          PROVE  t[j] \in P
      BY <2>4, <2>6, <3>3
    <3>4. ASSUME t[j] = e, NEW a \in 1 .. k, a \in DOMAIN r, t[i] = r[a]
          PROVE  t[j] \in P
      BY <2>5, <2>6, <3>4
    <3> QED
      BY <3>1, <3>2, <3>3, <3>4
  <2> QED
    BY <2>6, Zenon
<1>3. SortBy(s, less) \in G
  <2> HIDE DEF G
  <2> QED
    BY <1>1, <1>2, SortInduction, Zenon
<1> QED
  BY <1>3, Zenon

\* Not greater is an order in which any two elements can be compared.
StrictWeak(less, S) ==
  /\ \A x, y \in S : <<x, y>> \in less => <<y, x>> \notin less
  /\ \A x, y, z \in S : <<x, y>> \notin less /\ <<y, z>> \notin less => <<x, z>> \notin less

\* SortBy then leaves no element before a lesser one.
LEMMA SortSorts ==
  ASSUME NEW s, IsSeq(s), NEW less, StrictWeak(less, Range(s))
  PROVE  \A i, j \in DOMAIN SortBy(s, less) :
           i < j => <<SortBy(s, less)[j], SortBy(s, less)[i]>> \notin less
<1> DEFINE Sorted(t) == \A i, j \in DOMAIN t : i < j => <<t[j], t[i]>> \notin less
           G == {t \in Seq(Range(s)) : Sorted(t)}
<1>1. <<>> \in G
  <2>1. <<>> \in Seq(Range(s)) /\ DOMAIN <<>> = {}
    BY EmptySeq, SMT
  <2> QED
    BY <2>1, Zenon
<1>2. ASSUME NEW n \in 1 .. Len(s), NEW r \in Seq(Range(s)), NEW t \in Seq(Range(s)),
             NEW k \in 0 .. Len(r), r \in G, Inserted(t, r, s[n], less, k)
      PROVE  t \in G
  <2> DEFINE e == s[n]
  <2>1. /\ Len(r) \in Nat /\ DOMAIN r = 1 .. Len(r) /\ (\A a \in DOMAIN r : r[a] \in Range(s))
        /\ Sorted(r)
    BY <1>2, LenProperties, ElementOfSeq, Zenon
  <2>2. e \in Range(s)
    BY Lists, Zenon DEF Listing
  <2>3. /\ k # 0 => <<e, r[k]>> \notin less
        /\ \A b \in k + 1 .. Len(r) : <<e, r[b]>> \in less
    BY <1>2, Zenon DEF Inserted
  <2>4. ASSUME NEW b \in k + 1 .. Len(r), b \in DOMAIN r PROVE <<r[b], e>> \notin less
    BY <2>1, <2>2, <2>3, <2>4, Zenon DEF StrictWeak
  <2>5. ASSUME NEW a \in 1 .. k, a \in DOMAIN r PROVE <<e, r[a]>> \notin less
    <3>1. k # 0 /\ k \in DOMAIN r /\ (a = k \/ a < k)
      BY <2>1, <2>5
    <3>2. a < k => <<r[k], r[a]>> \notin less
      BY <2>1, <2>5, <3>1, Zenon
    <3> HIDE DEF e, Sorted
    <3> QED
      BY <2>1, <2>2, <2>3, <2>5, <3>1, <3>2, Zenon DEF StrictWeak
  <2>6. ASSUME NEW i \in DOMAIN t, NEW j \in DOMAIN t, i < j PROVE <<t[j], t[i]>> \notin less
    <3> HIDE DEF e, Sorted
    <3>1. \/ \E a, b \in DOMAIN r : a < b /\ t[i] = r[a] /\ t[j] = r[b]
          \/ t[i] = e /\ \E b \in k + 1 .. Len(r) : b \in DOMAIN r /\ t[j] = r[b]
          \/ t[j] = e /\ \E a \in 1 .. k : a \in DOMAIN r /\ t[i] = r[a]
      <4> HIDE DEF G
      <4>1. Inserted(t, r, e, less, k)
        BY <1>2, Zenon DEF e
      <4> QED
        BY <2>6, <4>1, InsertedPlaces
    <3>2. ASSUME NEW a \in DOMAIN r, NEW b \in DOMAIN r, a < b, t[i] = r[a], t[j] = r[b]
          PROVE  <<t[j], t[i]>> \notin less
      BY <2>1, <3>2 DEF Sorted
    <3>3. ASSUME t[i] = e, NEW b \in k + 1 .. Len(r), b \in DOMAIN r, t[j] = r[b]
          PROVE  <<t[j], t[i]>> \notin less
      BY <2>4, <3>3
    <3>4. ASSUME t[j] = e, NEW a \in 1 .. k, a \in DOMAIN r, t[i] = r[a]
          PROVE  <<t[j], t[i]>> \notin less
      BY <2>5, <3>4
    <3> QED
      BY <3>1, <3>2, <3>3, <3>4, Zenon
  <2> QED
    BY <2>6, Zenon
<1>3. SortBy(s, less) \in G
  <2> HIDE DEF G
  <2> QED
    BY <1>1, <1>2, SortInduction, Zenon
<1> QED
  BY <1>3, Zenon

\* No element twice.
Distinct(s) == \A i, j \in DOMAIN s : i < j => s[i] # s[j]

\* Sorting repeats no element.
LEMMA SortDistinct ==
  ASSUME NEW s, IsSeq(s), NEW less, Distinct(s)
  PROVE  Distinct(SortBy(s, less))
<1> DEFINE G == {t \in Seq(Range(s)) : Distinct(t)}
<1>1. <<>> \in G
  <2>1. <<>> \in Seq(Range(s)) /\ DOMAIN <<>> = {}
    BY EmptySeq, SMT
  <2> QED
    BY <2>1, Zenon DEF Distinct
<1>2. ASSUME NEW n \in 1 .. Len(s), NEW r \in Seq(Range(s)), NEW t \in Seq(Range(s)),
             NEW k \in 0 .. Len(r), r \in G, Inserted(t, r, s[n], less, k),
             Range(r) = {s[i] : i \in 1 .. n - 1}
      PROVE  t \in G
  <2> DEFINE e == s[n]
  <2>1. Distinct(r)
    BY <1>2, Zenon
  <2>2. \A a \in DOMAIN r : r[a] # e
    <3> TAKE a \in DOMAIN r
    <3>1. PICK i \in 1 .. n - 1 : r[a] = s[i]
      BY <1>2, Zenon DEF Range
    <3>2. Len(s) \in Nat /\ DOMAIN s = 1 .. Len(s)
      BY Lists, Zenon DEF Listing
    <3>3. i \in DOMAIN s /\ n \in DOMAIN s /\ i < n
      BY <3>2
    <3> QED
      BY <3>1, <3>3, Zenon DEF Distinct
  <2>3. ASSUME NEW i \in DOMAIN t, NEW j \in DOMAIN t, i < j PROVE t[i] # t[j]
    <3> HIDE DEF e, G
    <3>1. Inserted(t, r, e, less, k)
      BY <1>2, Zenon DEF e
    <3>2. \/ \E a, b \in DOMAIN r : a < b /\ t[i] = r[a] /\ t[j] = r[b]
          \/ t[i] = e /\ \E b \in k + 1 .. Len(r) : b \in DOMAIN r /\ t[j] = r[b]
          \/ t[j] = e /\ \E a \in 1 .. k : a \in DOMAIN r /\ t[i] = r[a]
      BY <2>3, <3>1, InsertedPlaces
    <3> QED
      BY <2>1, <2>2, <3>2 DEF Distinct
  <2> QED
    BY <2>3, Zenon DEF Distinct
<1>3. SortBy(s, less) \in G
  <2> HIDE DEF G
  <2> QED
    BY <1>1, <1>2, SortInduction, Zenon
<1> QED
  BY <1>3, Zenon

Has(t, e) == \E j \in DOMAIN t : e = t[j]

\* What one list has, a list with the same elements has too.
LEMMA AlsoListed ==
  ASSUME NEW s, NEW t, Range(s) = Range(t), NEW i \in DOMAIN s
  PROVE  Has(t, s[i])
<1>1. s[i] \in Range(s)
  BY Zenon DEF Range
<1>2. s[i] \in Range(t)
  BY <1>1, Zenon
<1> QED
  BY <1>2, Zenon DEF Range, Has

\* Two lists of the same elements, in the same strict order, are one list.
LEMMA OneOrder ==
  ASSUME NEW s, NEW t, IsSeq(s), IsSeq(t), Range(s) = Range(t), NEW less,
         \A x, y \in Range(s) : <<x, y>> \in less => <<y, x>> \notin less,
         \A i, j \in DOMAIN s : i < j => <<s[i], s[j]>> \in less,
         \A i, j \in DOMAIN t : i < j => <<t[i], t[j]>> \in less
  PROVE  s = t
<1>1. /\ Len(s) \in Nat /\ DOMAIN s = 1 .. Len(s) /\ s \in Seq(Range(s))
      /\ \A i \in DOMAIN s : s[i] \in Range(s)
  BY Lists, Zenon DEF Listing
<1>2. /\ Len(t) \in Nat /\ DOMAIN t = 1 .. Len(t) /\ t \in Seq(Range(s))
      /\ \A i \in DOMAIN t : t[i] \in Range(s)
  BY Lists, Zenon DEF Listing
<1> DEFINE T == {i \in DOMAIN s \cup DOMAIN t : ~(i \in DOMAIN s /\ i \in DOMAIN t /\ s[i] = t[i])}
<1>3. CASE T = {}
  <2>1. \A i \in DOMAIN s : i \in DOMAIN t /\ s[i] = t[i]
    BY <1>3, Zenon
  <2>2. \A i \in DOMAIN t : i \in DOMAIN s
    BY <1>3, Zenon
  <2> HIDE DEF T
  <2>3. Len(s) = Len(t)
    <3> DEFINE m == Len(s)
               n == Len(t)
    <3>1. m \in Nat /\ n \in Nat /\ (\A i \in 1 .. m : i \in 1 .. n) /\ \A i \in 1 .. n : i \in 1 .. m
      BY <1>1, <1>2, <2>1, <2>2, Zenon
    <3> HIDE DEF m, n
    <3>2. m = n
      BY <3>1
    <3> QED
      BY <3>2 DEF m, n
  <2> QED
    BY <1>1, <1>2, <2>1, <2>3, SeqEqual, Zenon
<1>4. CASE T # {}
  <2>1. T \subseteq Nat
    <3>1. \A i \in 1 .. Len(s) : i \in Nat
      BY <1>1
    <3>2. \A i \in 1 .. Len(t) : i \in Nat
      BY <1>2
    <3> QED
      BY <1>1, <1>2, <3>1, <3>2, Zenon
  <2>2. PICK i \in T : \A j \in T : i <= j
    <3> HIDE DEF T
    <3> QED
      BY <1>4, <2>1, LeastNat, Zenon
  <2>3. \A j \in DOMAIN s \cup DOMAIN t : j < i => j \in DOMAIN s /\ j \in DOMAIN t /\ s[j] = t[j]
    <3> SUFFICES ASSUME NEW j \in DOMAIN s \cup DOMAIN t, j < i, j \in T PROVE FALSE
      BY Zenon
    <3>1. i <= j /\ i \in Nat /\ j \in Nat
      BY <2>1, <2>2, Zenon
    <3> HIDE DEF T
    <3> QED
      BY <3>1
  <2>4. i \in DOMAIN s \cup DOMAIN t /\ ~(i \in DOMAIN s /\ i \in DOMAIN t /\ s[i] = t[i])
    BY <2>2, Zenon
  <2> HIDE DEF T
  <2>5. \A x, y \in Range(s) : <<x, y>> \in less => x # y
    BY Zenon
  <2>6. ASSUME i \in DOMAIN s PROVE \E j \in DOMAIN t : j > i /\ s[i] = t[j]
    <3>1. PICK j \in DOMAIN t : s[i] = t[j]
      <4>1. Has(t, s[i])
        BY <2>6, AlsoListed, Zenon
      <4> QED
        BY <4>1, Zenon DEF Has
    <3>2. ~(j < i)
      <4> SUFFICES ASSUME j < i PROVE FALSE
        OBVIOUS
      <4>1. j \in DOMAIN s /\ s[j] = t[j]
        BY <2>3, <3>1, Zenon
      <4> QED
        BY <1>1, <2>5, <2>6, <3>1, <4>1, Zenon
    <3>3. j # i
      BY <2>4, <2>6, <3>1, Zenon
    <3> QED
      BY <1>1, <1>2, <2>6, <3>1, <3>2, <3>3
  <2>7. ASSUME i \in DOMAIN t PROVE \E j \in DOMAIN s : j > i /\ t[i] = s[j]
    <3>1. PICK j \in DOMAIN s : t[i] = s[j]
      <4>1. Has(s, t[i])
        BY <2>7, AlsoListed, Zenon
      <4> QED
        BY <4>1, Zenon DEF Has
    <3>2. ~(j < i)
      <4> SUFFICES ASSUME j < i PROVE FALSE
        OBVIOUS
      <4>1. j \in DOMAIN t /\ s[j] = t[j]
        BY <2>3, <3>1, Zenon
      <4> QED
        BY <1>2, <2>5, <2>7, <3>1, <4>1, Zenon
    <3>3. j # i
      BY <2>4, <2>7, <3>1, Zenon
    <3> QED
      BY <1>1, <1>2, <2>7, <3>1, <3>2, <3>3
  <2>8. i \in DOMAIN s /\ i \in DOMAIN t
    BY <1>1, <1>2, <2>4, <2>6, <2>7
  <2>9. PICK j \in DOMAIN t : j > i /\ s[i] = t[j]
    BY <2>6, <2>8, Zenon
  <2>10. PICK k \in DOMAIN s : k > i /\ t[i] = s[k]
    BY <2>7, <2>8, Zenon
  <2>11. <<t[i], t[j]>> \in less /\ <<s[i], s[k]>> \in less
    BY <1>1, <1>2, <2>8, <2>9, <2>10, Zenon
  <2> QED
    BY <1>1, <1>2, <2>8, <2>9, <2>10, <2>11, Zenon
<1> QED
  BY <1>3, <1>4, Zenon

\* Any two distinct elements are in order.
Total(less, S) == \A x, y \in S : x # y => <<x, y>> \in less \/ <<y, x>> \in less

\* The order of a sorted list does not depend on the order before.
LEMMA SortUnique ==
  ASSUME NEW s, NEW t, IsSeq(s), IsSeq(t), Range(s) = Range(t), Distinct(s), Distinct(t),
         NEW less, StrictWeak(less, Range(s)), Total(less, Range(s))
  PROVE  SortBy(s, less) = SortBy(t, less)
<1>1. ASSUME NEW u, IsSeq(u), Range(u) = Range(s), Distinct(u)
      PROVE  /\ IsSeq(SortBy(u, less)) /\ Range(SortBy(u, less)) = Range(s)
             /\ \A i, j \in DOMAIN SortBy(u, less) :
                  i < j => <<SortBy(u, less)[i], SortBy(u, less)[j]>> \in less
  <2> DEFINE o == SortBy(u, less)
  <2>1. IsSeq(o) /\ Range(o) = Range(u)
    BY <1>1, SortRange, Zenon DEF Listing
  <2>2. Distinct(o)
    BY <1>1, SortDistinct, Zenon
  <2>3. \A i, j \in DOMAIN o : i < j => <<o[j], o[i]>> \notin less
    <3>1. StrictWeak(less, Range(u))
      BY <1>1, Zenon
    <3> QED
      BY <1>1, <3>1, SortSorts, Zenon
  <2> HIDE DEF o
  <2>4. \A i \in DOMAIN o : o[i] \in Range(s)
    BY <1>1, <2>1, Zenon DEF Range
  <2>5. \A i, j \in DOMAIN o : i < j => <<o[i], o[j]>> \in less
    BY <2>2, <2>3, <2>4, Zenon DEF Distinct, Total
  <2> QED
    BY <1>1, <2>1, <2>5, Zenon DEF o
<1> DEFINE a == SortBy(s, less)
           b == SortBy(t, less)
<1>2. /\ IsSeq(a) /\ Range(a) = Range(s)
      /\ \A i, j \in DOMAIN a : i < j => <<a[i], a[j]>> \in less
  BY <1>1, Zenon
<1>3. /\ IsSeq(b) /\ Range(b) = Range(s)
      /\ \A i, j \in DOMAIN b : i < j => <<b[i], b[j]>> \in less
  BY <1>1, Zenon
<1> HIDE DEF a, b
<1>4. \A x, y \in Range(a) : <<x, y>> \in less => <<y, x>> \notin less
  BY <1>2, Zenon DEF StrictWeak
<1>5. a = b
  BY <1>2, <1>3, <1>4, OneOrder
<1> QED
  BY <1>5 DEF a, b
-----------------------------------------------------------------------------
(* The order of BLS entries *)

Opt == Nat \cup {None}
Numbered(e) == e.id \in Nat /\ e.version \in Opt /\ e.machine \in Opt /\ e.sortKey \in Opt

\* A good entry is less than a bad one, whatever else they say.
LEMMA BadIsGreater ==
  ASSUME NEW x, NEW y, ~Bad(x), Bad(y)
  PROVE  BlsSortCompare(x, y) = Less /\ BlsSortCompare(y, x) # Less
BY DEF BlsSortCompare, Then, YesFirst, Less, Greater, Equal

\* The number comparisons.
LEMMA CmpFacts ==
  ASSUME NEW x \in Int, NEW y \in Int
  PROVE  /\ Cmp(x, y) = Less <=> x < y
         /\ Cmp(x, y) = Greater <=> y < x
         /\ Cmp(x, y) = Equal <=> x = y
BY DEF Cmp, Less, Greater, Equal

\* The comparison of values that may be absent: an absent one is last
\* (cmp_opt_str).
LEMMA CmpOptFacts ==
  ASSUME NEW x \in Opt, NEW y \in Opt
  PROVE  /\ CmpOpt(x, y) = Less <=> x # None /\ (y = None \/ x < y)
         /\ CmpOpt(x, y) = Greater <=> y # None /\ (x = None \/ y < x)
         /\ CmpOpt(x, y) = Equal <=> x = y
BY DEF CmpOpt, Cmp, Less, Greater, Equal, None, Opt

\* x is less than y, unfolded: the keys that decide, one after the other.
OptLess(x, y) == x # None /\ (y = None \/ x < y)
IdLess(x, y) == IF x.version # None /\ y.version # None THEN y.id < x.id ELSE x.id < y.id
TailLess(x, y) ==
  IF Policy.ignoreSortKey
  THEN \/ OptLess(x.machine, y.machine)
       \/ x.machine = y.machine
          /\ \/ x.version # None /\ y.version # None /\ y.version < x.version
             \/ (x.version = None \/ y.version = None \/ x.version = y.version) /\ IdLess(x, y)
  ELSE \/ x.sortKey # None /\ y.sortKey = None
       \/ x.sortKey = None /\ y.sortKey = None /\ IdLess(x, y)
       \/ x.sortKey # None /\ y.sortKey # None
          /\ \/ x.sortKey < y.sortKey
             \/ x.sortKey = y.sortKey
                /\ \/ OptLess(x.machine, y.machine)
                   \/ x.machine = y.machine
                      /\ (y.version < x.version \/ (x.version = y.version /\ IdLess(x, y)))

BlsBefore(x, y) == (~Bad(x) /\ Bad(y)) \/ ((Bad(x) <=> Bad(y)) /\ TailLess(x, y))

\* bls_sort_compare says Less exactly when the keys that decide say so.
LEMMA LessUnfolded ==
  ASSUME NEW x, NEW y, Numbered(x), Numbered(y)
  PROVE  BlsSortCompare(x, y) = Less <=> BlsBefore(x, y)
<1>1. Bad(x) \in BOOLEAN /\ Bad(y) \in BOOLEAN
  BY DEF Bad
<1>2. /\ x.id \in Int /\ y.id \in Int /\ x.version \in Int /\ y.version \in Int
      /\ x.sortKey \in Int /\ y.sortKey \in Int
      /\ x.machine \in Opt /\ y.machine \in Opt
  BY DEF Numbered, Opt, None
<1>3. CmpId(x, y) = Less <=> IdLess(x, y)
  BY <1>2, CmpFacts DEF CmpId, IdLess
<1>4. CASE Bad(x) # Bad(y)
  BY <1>1, <1>4 DEF BlsSortCompare, Then, YesFirst, Less, Greater, Equal, BlsBefore
<1>5. CASE Bad(x) = Bad(y) /\ Policy.ignoreSortKey
  <2>1. BlsSortCompare(x, y) = Then(CmpIgnoringSortKey(x, y), CmpId(x, y))
    BY <1>5 DEF BlsSortCompare, Then, YesFirst, Equal
  <2>2. CmpVersion(x, y) = Less <=> y.version < x.version
    BY <1>2, CmpFacts DEF CmpVersion
  <2>3. CmpVersion(x, y) = Equal <=> x.version = y.version
    BY <1>2, CmpFacts DEF CmpVersion
  <2>4. CmpOpt(x.machine, y.machine) = Less <=> OptLess(x.machine, y.machine)
    BY <1>2, CmpOptFacts, Zenon DEF OptLess
  <2>5. CmpOpt(x.machine, y.machine) = Equal <=> x.machine = y.machine
    BY <1>2, CmpOptFacts, Zenon
  <2> HIDE DEF Less, Equal
  <2>6. Less # Equal
    BY DEF Less, Equal
  <2>7. BlsSortCompare(x, y) = Less <=> TailLess(x, y)
    BY <1>3, <1>5, <2>1, <2>2, <2>3, <2>4, <2>5, <2>6, Zenon DEF CmpIgnoringSortKey, Then,
       TailLess
  <2> QED
    BY <1>5, <2>7 DEF BlsBefore
<1>6. CASE Bad(x) = Bad(y) /\ ~Policy.ignoreSortKey
  <2>1. BlsSortCompare(x, y) = Then(CmpBySortKey(x, y), CmpId(x, y))
    BY <1>6, Zenon DEF BlsSortCompare, Then, YesFirst, Equal
  <2>2. CmpVersion(x, y) = Less <=> y.version < x.version
    BY <1>2, CmpFacts DEF CmpVersion
  <2>3. CmpVersion(x, y) = Equal <=> x.version = y.version
    BY <1>2, CmpFacts DEF CmpVersion
  <2>4. CmpOpt(x.machine, y.machine) = Less <=> OptLess(x.machine, y.machine)
    BY <1>2, CmpOptFacts DEF OptLess
  <2>5. CmpOpt(x.machine, y.machine) = Equal <=> x.machine = y.machine
    BY <1>2, CmpOptFacts, Zenon
  <2>6. Cmp(x.sortKey, y.sortKey) = Less <=> x.sortKey < y.sortKey
    BY <1>2, CmpFacts
  <2>7. Cmp(x.sortKey, y.sortKey) = Equal <=> x.sortKey = y.sortKey
    BY <1>2, CmpFacts
  <2>8. Less # Equal /\ Greater # Equal /\ Greater # Less
    BY DEF Less, Equal, Greater
  <2> HIDE DEF Less, Equal
  <2>9. BlsSortCompare(x, y) = Less <=> TailLess(x, y)
    <3>1. CASE x.sortKey # None /\ y.sortKey # None
      BY <1>3, <1>6, <2>1, <2>2, <2>3, <2>4, <2>5, <2>6, <2>7, <2>8, <3>1, Zenon DEF
         CmpBySortKey, YesFirst, Then, TailLess
    <3>2. CASE x.sortKey = None /\ y.sortKey = None
      <4>1. CmpBySortKey(x, y) = Equal
        BY <3>2, Zenon DEF CmpBySortKey, YesFirst, Then
      <4> QED
        BY <1>3, <1>6, <2>1, <3>2, <4>1, Zenon DEF Then, TailLess
    <3>3. CASE x.sortKey # None /\ y.sortKey = None
      <4>1. CmpBySortKey(x, y) = Less
        BY <2>8, <3>3, Zenon DEF CmpBySortKey, YesFirst, Then
      <4> QED
        BY <1>6, <2>1, <2>8, <3>3, <4>1, Zenon DEF Then, TailLess
    <3>4. CASE x.sortKey = None /\ y.sortKey # None
      <4>1. CmpBySortKey(x, y) = Greater
        BY <2>8, <3>4, Zenon DEF CmpBySortKey, YesFirst, Then
      <4> QED
        BY <1>6, <2>1, <2>8, <3>4, <4>1, Zenon DEF Then, TailLess
    <3> QED
      BY <3>1, <3>2, <3>3, <3>4, Zenon
  <2> QED
    BY <1>6, <2>9 DEF BlsBefore
<1> QED
  BY <1>1, <1>4, <1>5, <1>6

\* Comparing by one rule.
OneRule(S) ==
  \/ \A e \in S : e.version # None
  \/ \A e \in S : e.version = None
  \/ ~Policy.ignoreSortKey /\ \A e \in S : e.sortKey # None

\* Among entries compared by one rule, what decides between two of equal tries
\* is an order, and total where ids differ.
LEMMA TailWeak ==
  ASSUME NEW x, NEW y, NEW z, Numbered(x), Numbered(y), Numbered(z), OneRule({x, y, z})
  PROVE  /\ TailLess(x, y) => ~TailLess(y, x)
         /\ ~TailLess(x, y) /\ ~TailLess(y, z) => ~TailLess(x, z)
         /\ x.id # y.id => TailLess(x, y) \/ TailLess(y, x)
<1>1. /\ x.id \in Int /\ y.id \in Int /\ z.id \in Int
      /\ x.version \in Int /\ y.version \in Int /\ z.version \in Int
      /\ x.sortKey \in Int /\ y.sortKey \in Int /\ z.sortKey \in Int
      /\ x.machine \in Int /\ y.machine \in Int /\ z.machine \in Int
  BY DEF Numbered, Opt, None
<1>2. CASE Policy.ignoreSortKey
  <2>1. \/ x.version # None /\ y.version # None /\ z.version # None
        \/ x.version = None /\ y.version = None /\ z.version = None
    BY <1>2, Zenon DEF OneRule
  <2>2. TailLess(x, y) => ~TailLess(y, x)
    BY <1>1, <1>2, <2>1 DEF TailLess, OptLess, IdLess
  <2>3. ~TailLess(x, y) /\ ~TailLess(y, z) => ~TailLess(x, z)
    BY <1>1, <1>2, <2>1 DEF TailLess, OptLess, IdLess
  <2>4. x.id # y.id => TailLess(x, y) \/ TailLess(y, x)
    BY <1>1, <1>2, <2>1 DEF TailLess, OptLess, IdLess
  <2> QED
    BY <2>2, <2>3, <2>4, Zenon
<1>3. CASE ~Policy.ignoreSortKey
  <2>1. \/ x.version # None /\ y.version # None /\ z.version # None
        \/ x.version = None /\ y.version = None /\ z.version = None
        \/ x.sortKey # None /\ y.sortKey # None /\ z.sortKey # None
    BY <1>3, Zenon DEF OneRule
  <2>2. TailLess(x, y) => ~TailLess(y, x)
    BY <1>1, <1>3, <2>1 DEF TailLess, OptLess, IdLess
  <2>3. ~TailLess(x, y) /\ ~TailLess(y, z) => ~TailLess(x, z)
    BY <1>1, <1>3, <2>1 DEF TailLess, OptLess, IdLess
  <2>4. x.id # y.id => TailLess(x, y) \/ TailLess(y, x)
    BY <1>1, <1>3, <2>1 DEF TailLess, OptLess, IdLess
  <2> QED
    BY <2>2, <2>3, <2>4, Zenon
<1> QED
  BY <1>2, <1>3, Zenon

BlsLess(S) == {p \in S \X S : BlsSortCompare(p[1], p[2]) = Less}

\* bls_sort_compare orders the entries of a list that are compared by one rule.
LEMMA LessIsWeak ==
  ASSUME NEW S, \A e \in S : Numbered(e), OneRule(S)
  PROVE  /\ StrictWeak(BlsLess(S), S)
         /\ (\A x, y \in S : x # y => x.id # y.id \/ Bad(x) # Bad(y)) => Total(BlsLess(S), S)
<1>1. \A x, y \in S : <<x, y>> \in BlsLess(S) <=> BlsSortCompare(x, y) = Less
  BY DEF BlsLess
<1>2. ASSUME NEW x \in S, NEW y \in S
      PROVE  <<x, y>> \in BlsLess(S) <=> BlsBefore(x, y)
  <2>1. Numbered(x) /\ Numbered(y)
    BY Zenon
  <2>2. BlsSortCompare(x, y) = Less <=> BlsBefore(x, y)
    BY <2>1, LessUnfolded
  <2> QED
    BY <1>1, <2>2
<1>3. \A x, y, z \in S : OneRule({x, y, z})
  BY DEF OneRule
<1>4. \A x, y, z \in S : /\ TailLess(x, y) => ~TailLess(y, x)
                         /\ ~TailLess(x, y) /\ ~TailLess(y, z) => ~TailLess(x, z)
                         /\ x.id # y.id => TailLess(x, y) \/ TailLess(y, x)
  BY <1>3, TailWeak, Zenon
<1>5. \A x, y \in S : <<x, y>> \in BlsLess(S) => <<y, x>> \notin BlsLess(S)
  BY <1>2, <1>4, Zenon DEF BlsBefore
<1>6. ASSUME NEW x \in S, NEW y \in S, NEW z \in S,
             <<x, y>> \notin BlsLess(S), <<y, z>> \notin BlsLess(S)
      PROVE  <<x, z>> \notin BlsLess(S)
  <2>1. ~TailLess(x, y) /\ ~TailLess(y, z) => ~TailLess(x, z)
    BY <1>4, Zenon
  <2>2. ~BlsBefore(x, y) /\ ~BlsBefore(y, z)
    BY <1>2, <1>6, Zenon
  <2>3. ~BlsBefore(x, z)
    BY <2>1, <2>2, Zenon DEF BlsBefore
  <2> QED
    BY <1>2, <2>3, Zenon
<1>7. ASSUME \A x, y \in S : x # y => x.id # y.id \/ Bad(x) # Bad(y)
      PROVE  Total(BlsLess(S), S)
  <2> SUFFICES ASSUME NEW x \in S, NEW y \in S, x # y
               PROVE  <<x, y>> \in BlsLess(S) \/ <<y, x>> \in BlsLess(S)
    BY Zenon DEF Total
  <2>1. x.id # y.id \/ Bad(x) # Bad(y)
    BY <1>7, Zenon
  <2>2. Bad(x) \in BOOLEAN /\ Bad(y) \in BOOLEAN
    BY Zenon DEF Bad
  <2>3. Bad(x) # Bad(y) => (Bad(x) /\ ~Bad(y)) \/ (Bad(y) /\ ~Bad(x))
    BY <2>2
  <2>4. Bad(x) = Bad(y) => (Bad(x) <=> Bad(y))
    BY <2>2
  <2>5. x.id # y.id => TailLess(x, y) \/ TailLess(y, x)
    BY <1>4, Zenon
  <2>6. BlsBefore(x, y) \/ BlsBefore(y, x)
    BY <2>1, <2>3, <2>4, <2>5, Zenon DEF BlsBefore
  <2> QED
    BY <1>2, <2>6, Zenon
<1> QED
  BY <1>5, <1>6, <1>7, Zenon DEF StrictWeak

\* What the sort of a volume's entries returns.
LEMMA SortBlsFacts ==
  ASSUME NEW s, IsSeq(s), \A k \in DOMAIN s : Numbered(s[k])
  PROVE  /\ Listing(SortBls(s), Len(s)) /\ Range(SortBls(s)) = Range(s)
         /\ \A i, j \in DOMAIN SortBls(s) : i < j /\ Bad(SortBls(s)[i]) => Bad(SortBls(s)[j])
         /\ OneRule(Range(s)) => \A i, j \in DOMAIN SortBls(s) :
              i < j => BlsSortCompare(SortBls(s)[j], SortBls(s)[i]) # Less
<1> DEFINE less == BlsLess(Range(s))
           o == SortBy(s, less)
           P == {e \in Range(s) : Bad(e)}
<1>1. SortBls(s) = o
  BY Zenon DEF SortBls, Pairs, BlsLess
<1>2. \A x, y \in Range(s) : <<x, y>> \in less <=> BlsSortCompare(x, y) = Less
  BY Zenon DEF BlsLess
<1> HIDE DEF less
<1>3. Listing(o, Len(s)) /\ Range(o) = Range(s)
  BY SortRange, Zenon
<1>4. \A x \in Range(s) \ P, y \in Range(s) \cap P : <<x, y>> \in less /\ <<y, x>> \notin less
  BY <1>2, BadIsGreater, Zenon
<1>5. \A i, j \in DOMAIN o : i < j /\ o[i] \in P => o[j] \in P
  <2> HIDE DEF P
  <2> QED
    BY <1>4, SortParts, Zenon
<1>6. \A i \in DOMAIN o : o[i] \in Range(s)
  BY <1>3, Zenon DEF Range
<1>7. \A i, j \in DOMAIN o : i < j /\ Bad(o[i]) => Bad(o[j])
  BY <1>5, <1>6, Zenon
<1>8. ASSUME OneRule(Range(s))
      PROVE  \A i, j \in DOMAIN o : i < j => BlsSortCompare(o[j], o[i]) # Less
  <2>1. \A e \in Range(s) : Numbered(e)
    BY Zenon DEF Range
  <2>2. StrictWeak(less, Range(s))
    BY <1>8, <2>1, LessIsWeak, Zenon DEF less
  <2>3. \A i, j \in DOMAIN o : i < j => <<o[j], o[i]>> \notin less
    BY <2>2, SortSorts, Zenon
  <2> HIDE DEF o
  <2> QED
    BY <1>2, <1>6, <2>3, Zenon
<1> HIDE DEF o
<1> QED
  BY <1>1, <1>3, <1>7, <1>8, Zenon

\* A list in another order.
Rearranges(p, t, s) ==
  /\ \A k \in DOMAIN t : p[k] \in DOMAIN s /\ t[k] = s[p[k]]
  /\ \A i, j \in DOMAIN t : p[i] = p[j] => i = j

\* A list in another order has the same elements, each from its own place.
LEMMA OrdersFacts ==
  ASSUME NEW s, IsSeq(s), NEW t \in Orders(s)
  PROVE  IsSeq(t) /\ Range(t) = Range(s) /\ \E p : Rearranges(p, t, s)
<1>1. PICK p \in Bijection(DOMAIN s, DOMAIN s) : t = [k \in DOMAIN s |-> s[p[k]]]
  BY Zenon DEF Orders
<1>2. /\ p \in [DOMAIN s -> DOMAIN s]
      /\ \A i, j \in DOMAIN s : p[i] = p[j] => i = j
      /\ \A k \in DOMAIN s : \E i \in DOMAIN s : p[i] = k
  BY Zenon DEF Bijection, Injection, Surjection, IsInjective
<1>3. DOMAIN t = DOMAIN s /\ \A k \in DOMAIN s : t[k] = s[p[k]] /\ p[k] \in DOMAIN s
  BY <1>1, <1>2, Zenon
<1>4. Len(s) \in Nat /\ DOMAIN s = 1 .. Len(s)
  BY Lists, Zenon DEF Listing
<1>5. t = [k \in 1 .. Len(s) |-> t[k]]
  BY <1>1, <1>3, <1>4, Zenon
<1>6. IsSeq(t)
  BY <1>4, <1>5, Tabulated, Zenon DEF Listing
<1>7. Range(t) = Range(s)
  <2>1. \A x \in Range(s) : x \in Range(t)
    <3> TAKE x \in Range(s)
    <3>1. PICK k \in DOMAIN s : x = s[k]
      BY Zenon DEF Range
    <3>2. PICK i \in DOMAIN s : p[i] = k
      BY <1>2, <3>1, Zenon
    <3>3. t[i] = x /\ i \in DOMAIN t
      BY <1>3, <3>1, <3>2, Zenon
    <3> QED
      BY <3>3, Zenon DEF Range
  <2>2. \A x \in Range(t) : x \in Range(s)
    <3> TAKE x \in Range(t)
    <3>1. PICK k \in DOMAIN t : x = t[k]
      BY Zenon DEF Range
    <3>2. p[k] \in DOMAIN s /\ x = s[p[k]]
      BY <1>3, <3>1, Zenon
    <3> QED
      BY <3>2, Zenon DEF Range
  <2> QED
    BY <2>1, <2>2, Zenon
<1>8. Rearranges(p, t, s)
  BY <1>2, <1>3, Zenon DEF Rearranges
<1> QED
  BY <1>6, <1>7, <1>8, Zenon

\* The sort of a volume's entries does not depend on the order of the directory.
LEMMA SortBlsUnique ==
  ASSUME NEW s, IsSeq(s), \A k \in DOMAIN s : Numbered(s[k]), Uniform(s),
         IsInjective([k \in DOMAIN s |-> <<s[k].id, Bad(s[k])>>]), NEW t \in Orders(s)
  PROVE  SortBls(t) = SortBls(s)
<1>1. \A i, j \in DOMAIN s : s[i].id = s[j].id /\ Bad(s[i]) = Bad(s[j]) => i = j
  <2> DEFINE f == [k \in DOMAIN s |-> <<s[k].id, Bad(s[k])>>]
  <2>1. DOMAIN f = DOMAIN s /\ \A k \in DOMAIN s : f[k] = <<s[k].id, Bad(s[k])>>
    BY Zenon
  <2>2. \A i, j \in DOMAIN f : f[i] = f[j] => i = j
    BY Zenon DEF IsInjective
  <2> HIDE DEF f
  <2> SUFFICES ASSUME NEW i \in DOMAIN s, NEW j \in DOMAIN s,
                      s[i].id = s[j].id, Bad(s[i]) = Bad(s[j])
               PROVE  i = j
    BY Zenon
  <2>3. f[i] = f[j]
    BY <2>1, Zenon
  <2> QED
    BY <2>1, <2>2, <2>3, Zenon
<1>2. PICK p : Rearranges(p, t, s)
  BY OrdersFacts, Zenon
<1>3. IsSeq(t) /\ Range(t) = Range(s)
  BY OrdersFacts, Zenon
<1>4. \A i, j \in DOMAIN s : s[i] = s[j] => i = j
  BY <1>1, Zenon
<1>5. Distinct(s)
  <2>1. \A i, j \in DOMAIN s : i < j => i # j
    BY Lists DEF Listing
  <2> QED
    BY <1>4, <2>1, Zenon DEF Distinct
<1>6. Distinct(t)
  <2>1. \A i, j \in DOMAIN t : i < j => i # j
    BY <1>3, Lists DEF Listing
  <2>2. \A i, j \in DOMAIN t : t[i] = t[j] => i = j
    BY <1>2, <1>4, Zenon DEF Rearranges
  <2> QED
    BY <2>1, <2>2, Zenon DEF Distinct
<1> DEFINE S == Range(s)
           less == BlsLess(S)
<1>7. \A e \in S : Numbered(e)
  BY Zenon DEF Range
<1>8. OneRule(S)
  <2>1. \A e \in S : \E k \in DOMAIN s : e = s[k]
    BY Zenon DEF Range
  <2> HIDE DEF S
  <2> QED
    BY <2>1, Zenon DEF Uniform, OneRule
<1>9. \A x, y \in S : x # y => x.id # y.id \/ Bad(x) # Bad(y)
  BY <1>1, Zenon DEF Range
<1>10. StrictWeak(less, S) /\ Total(less, S)
  BY <1>7, <1>8, <1>9, LessIsWeak, Zenon
<1>11. SortBls(s) = SortBy(s, less) /\ SortBls(t) = SortBy(t, less)
  BY <1>3, Zenon DEF SortBls, Pairs, BlsLess
<1> HIDE DEF less
<1>12. SortBy(s, less) = SortBy(t, less)
  BY <1>3, <1>5, <1>6, <1>10, SortUnique, Zenon
<1> QED
  BY <1>11, <1>12, Zenon
-----------------------------------------------------------------------------
(* Distro directories *)

\* An entry of the directory d: its kernel or the previous one.
OfDir(e, d) ==
  /\ e.id = <<"sdboot", d.rank, e.id[3]>> /\ e.id[2] = d.rank /\ e.id[3] \in {0, 1}
  /\ e.kind = "LinuxLegacy" /\ e.path # NoPath /\ e.file = <<>>
  /\ e.key = <<"name", e.path[2]>>

\* What one directory contributes: its kernel first, then the previous one.
LEMMA DirStyleEntriesFacts ==
  ASSUME NEW d
  PROVE  /\ IsSeq(DirStyleEntries(d))
         /\ \A k \in DOMAIN DirStyleEntries(d) :
              OfDir(DirStyleEntries(d)[k], d) /\ DirStyleEntries(d)[k].id[3] = k - 1
<1> DEFINE linux(n, name, there) ==
             [EspEntry(<<"sdboot", d.rank, n>>, "LinuxLegacy", <<d.name, name>>)
                EXCEPT !.initrd = IF there THEN <<<<d.name, name, "">>>> ELSE <<>>,
                       !.options = d.cmdline]
           a == linux(0, "vmlinuz", d.initrd)
           b == linux(1, "vmlinuz-previous", d.prevInitrd)
           E == DirStyleEntries(d)
<1>1. ASSUME NEW n, NEW name, NEW there
      PROVE  /\ linux(n, name, there).id = <<"sdboot", d.rank, n>>
             /\ linux(n, name, there).kind = "LinuxLegacy"
             /\ linux(n, name, there).path = <<d.name, name>>
             /\ linux(n, name, there).file = <<>>
             /\ linux(n, name, there).key = <<"name", <<d.name, name>>[2]>>
  BY DEF EspEntry, MenuEntry, ExtractFilename
<1>2. E = <<>> \/ E = <<a>> \o <<>> \/ E = <<a>> \o <<b>>
  BY Zenon DEF DirStyleEntries
<1>3. ASSUME NEW n, NEW name, NEW there
      PROVE  /\ linux(n, name, there).id[2] = d.rank /\ linux(n, name, there).id[3] = n
             /\ linux(n, name, there).id = <<"sdboot", d.rank, n>>
             /\ linux(n, name, there).kind = "LinuxLegacy"
             /\ linux(n, name, there).path # NoPath
             /\ linux(n, name, there).file = <<>>
             /\ linux(n, name, there).key = <<"name", linux(n, name, there).path[2]>>
  <2> DEFINE i == <<"sdboot", d.rank, n>>
             q == <<d.name, name>>
  <2>1. i[2] = d.rank /\ i[3] = n /\ q # NoPath
    BY DEF NoPath
  <2> DEFINE l == linux(n, name, there)
  <2>2. l.id = i /\ l.kind = "LinuxLegacy" /\ l.path = q /\ l.file = <<>> /\ l.key = <<"name", q[2]>>
    <3> HIDE DEF linux
    <3> QED
      BY <1>1
  <2> HIDE DEF l, i, q
  <2>3. l.id[2] = d.rank /\ l.id[3] = n /\ l.path # NoPath /\ l.key = <<"name", l.path[2]>>
    BY <2>1, <2>2, Zenon
  <2> QED
    BY <2>2, <2>3, Zenon DEF l, i
<1>4. OfDir(a, d) /\ a.id[3] = 0
  <2>1. a.id[2] = d.rank /\ a.id[3] = 0 /\ a.id = <<"sdboot", d.rank, 0>>
        /\ a.kind = "LinuxLegacy" /\ a.path # NoPath /\ a.file = <<>>
        /\ a.key = <<"name", a.path[2]>>
    <3> HIDE DEF linux
    <3> QED
      BY <1>3
  <2> HIDE DEF a
  <2> QED
    BY <2>1, Zenon DEF OfDir
<1>5. OfDir(b, d) /\ b.id[3] = 1
  <2>1. b.id[2] = d.rank /\ b.id[3] = 1 /\ b.id = <<"sdboot", d.rank, 1>>
        /\ b.kind = "LinuxLegacy" /\ b.path # NoPath /\ b.file = <<>>
        /\ b.key = <<"name", b.path[2]>>
    <3> HIDE DEF linux
    <3> QED
      BY <1>3
  <2> HIDE DEF b
  <2>2. b.id[3] \in {0, 1}
    BY <2>1
  <2> QED
    BY <2>1, <2>2, Zenon DEF OfDir
<1> HIDE DEF a, b, E
<1>6. CASE E = <<>>
  <2>1. IsSeq(<<>>) /\ DOMAIN <<>> = {}
    BY DEF IsSeq, Range
  <2> QED
    BY <1>6, <2>1, Zenon DEF E
<1>7. CASE E = <<a>> \o <<>>
  <2>1. E = <<a>>
    BY <1>7
  <2>2. <<a>> \in Seq({a}) /\ DOMAIN <<a>> = {1} /\ <<a>>[1] = a
    OBVIOUS
  <2>3. IsSeq(E)
    BY <2>1, <2>2, ListOf, Zenon DEF Listing
  <2>4. \A k \in DOMAIN E : k = 1 /\ E[k] = a
    BY <2>1, <2>2
  <2>5. \A k \in DOMAIN E : OfDir(E[k], d) /\ E[k].id[3] = k - 1
    BY <1>4, <2>4
  <2> QED
    BY <2>3, <2>5, Zenon DEF E
<1>8. CASE E = <<a>> \o <<b>>
  <2> DEFINE u == <<a>>
             v == <<b>>
  <2>1. /\ u \in Seq({a}) /\ DOMAIN u = {1} /\ u[1] = a /\ Len(u) = 1
        /\ v \in Seq({b}) /\ DOMAIN v = {1} /\ v[1] = b /\ Len(v) = 1
    OBVIOUS
  <2>2. E = u \o v
    BY <1>8
  <2> HIDE DEF u, v
  <2>3. IsSeq(u) /\ IsSeq(v)
    BY <2>1, ListOf, Zenon DEF Listing
  <2>4. IsSeq(E) /\ \A k \in DOMAIN E : (k = 1 /\ E[k] = a) \/ (k = 2 /\ E[k] = b)
    <3>1. /\ Listing(E, Len(u) + Len(v))
          /\ \A i \in DOMAIN u : E[i] = u[i]
          /\ \A i \in DOMAIN E : i \notin DOMAIN u => i - Len(u) \in DOMAIN v /\ E[i] = v[i - Len(u)]
      BY <2>2, <2>3, Joined, Zenon
    <3>2. IsSeq(E) /\ DOMAIN E = 1 .. 2
      BY <2>1, <3>1 DEF Listing
    <3>3. E[1] = a /\ E[2] = b
      BY <2>1, <3>1, <3>2
    <3> QED
      BY <3>2, <3>3
  <2>5. \A k \in DOMAIN E : OfDir(E[k], d) /\ E[k].id[3] = k - 1
    BY <1>4, <1>5, <2>4
  <2> QED
    BY <2>4, <2>5, Zenon DEF E
<1> QED
  BY <1>2, <1>6, <1>7, <1>8, Zenon

\* What all directories contribute.
Contributed(D) == UNION {Range(DirStyleEntries(d)) : d \in D}

\* The equations of AllDirEntries.
LEMMA DirEquations ==
  ASSUME NEW dirs, IsSeq(dirs)
  PROVE  \E up : /\ AllDirEntries(dirs) = up[Len(dirs)] /\ up[0] = <<>>
                 /\ \A n \in 1 .. Len(dirs) : up[n] = up[n - 1] \o DirStyleEntries(dirs[n])
                 /\ \A n \in 0 .. Len(dirs) : up[n] \in Seq(Contributed(Range(dirs)))
<1> DEFINE N == Len(dirs)
           R == Seq(Contributed(Range(dirs)))
           value(r, n) == r \o DirStyleEntries(dirs[n])
           step == [x \in R \X (1 .. N) |-> value(x[1], x[2])]
           Is(u) == u = [n \in 0 .. N |-> IF n = 0 THEN <<>> ELSE u[n - 1] \o DirStyleEntries(dirs[n])]
           up == CHOOSE u : Is(u)
<1>1. N \in Nat /\ \A n \in 1 .. N : dirs[n] \in Range(dirs)
  BY Lists, Zenon DEF Listing
<1>2. <<>> \in R
  BY EmptySeq
<1>3. \A r \in R, n \in 1 .. N : value(r, n) \in R
  <2> TAKE r \in R, n \in 1 .. N
  <2>1. Range(DirStyleEntries(dirs[n])) \subseteq Contributed(Range(dirs))
    BY <1>1, Zenon DEF Contributed
  <2>2. DirStyleEntries(dirs[n]) \in Seq(Range(DirStyleEntries(dirs[n])))
    BY DirStyleEntriesFacts, Zenon DEF IsSeq
  <2>3. DirStyleEntries(dirs[n]) \in R
    BY <2>1, <2>2, SeqMonotonic, Zenon
  <2> QED
    BY <2>3, ConcatProperties, Zenon
<1>4. step \in [R \X (1 .. N) -> R] /\ \A r \in R, n \in 1 .. N : step[<<r, n>>] = value(r, n)
  <2> HIDE DEF value, R, N
  <2>1. \A x \in R \X (1 .. N) : value(x[1], x[2]) \in R
    BY <1>3
  <2>2. step \in [R \X (1 .. N) -> R]
    BY <2>1
  <2>3. \A r \in R, n \in 1 .. N :
          <<r, n>> \in R \X (1 .. N) /\ <<r, n>>[1] = r /\ <<r, n>>[2] = n
    OBVIOUS
  <2> QED
    BY <2>2, <2>3, Zenon
<1>5. PICK g : Continues(g, N, R, <<>>, step)
  <2> HIDE DEF step, R, N
  <2> QED
    BY <1>1, <1>2, <1>4, RecursionExists, Zenon
<1>6. /\ g \in [0 .. N -> R] /\ g[0] = <<>>
      /\ \A n \in 1 .. N : g[n] = value(g[n - 1], n)
  <2>1. \A n \in 1 .. N : n - 1 \in 0 .. N
    BY <1>1
  <2> HIDE DEF step, R, value, N
  <2> QED
    BY <1>4, <1>5, <2>1, Zenon DEF Continues
<1>7. Is(g)
  <2> DEFINE e(n) == IF n = 0 THEN <<>> ELSE value(g[n - 1], n)
  <2>1. \A n \in 0 .. N : n # 0 => n \in 1 .. N
    BY <1>1
  <2>2. \A n \in 0 .. N : g[n] = e(n)
    <3> HIDE DEF value, R, N
    <3> QED
      BY <1>6, <2>1
  <2>3. g = [n \in 0 .. N |-> e(n)]
    <3> HIDE DEF e, R, N
    <3> QED
      BY <1>6, <2>2, Zenon
  <2> QED
    BY <2>3, Zenon
<1>8. Is(up)
  <2> HIDE DEF Is
  <2> QED
    BY <1>7, Zenon
<1>9. AllDirEntries(dirs) = up[N]
  BY DEF AllDirEntries
<1> HIDE DEF up
<1>10. up[0] = <<>> /\ \A n \in 1 .. N : up[n] = value(up[n - 1], n)
  <2> DEFINE e(n) == IF n = 0 THEN <<>> ELSE value(up[n - 1], n)
  <2>1. up = [n \in 0 .. N |-> e(n)]
    BY <1>8, Zenon
  <2>2. 0 \in 0 .. N /\ \A n \in 1 .. N : n \in 0 .. N /\ n # 0
    BY <1>1
  <2>3. \A n \in 0 .. N : up[n] = e(n)
    <3> HIDE DEF e, N
    <3> QED
      BY <2>1
  <2> HIDE DEF value, N
  <2> QED
    BY <2>2, <2>3, Zenon
<1>11. Obeys(up, N, R, <<>>, step)
  <2> HIDE DEF step, R, value, N
  <2> QED
    BY <1>4, <1>10 DEF Obeys
<1>12. \A n \in 0 .. N : up[n] \in R
  <2> HIDE DEF step, R, N
  <2> QED
    BY <1>1, <1>2, <1>4, <1>11, RecursionUnique, Zenon
<1> QED
  BY <1>9, <1>10, <1>12, Zenon

\* The elements of two lists, one after the other.
LEMMA JoinedRange ==
  ASSUME NEW s, NEW t, IsSeq(s), IsSeq(t)
  PROVE  /\ Range(s \o t) = Range(s) \cup Range(t)
         /\ Distinct(s) /\ Distinct(t) /\ Range(s) \cap Range(t) = {} => Distinct(s \o t)
<1> DEFINE u == s \o t
<1>1. /\ Listing(u, Len(s) + Len(t))
      /\ \A i \in DOMAIN s : u[i] = s[i]
      /\ \A i \in DOMAIN u : i \notin DOMAIN s => i - Len(s) \in DOMAIN t /\ u[i] = t[i - Len(s)]
  BY Joined, Zenon
<1> HIDE DEF u
<1>2. /\ Len(s) \in Nat /\ Len(t) \in Nat /\ DOMAIN s = 1 .. Len(s) /\ DOMAIN t = 1 .. Len(t)
      /\ DOMAIN u = 1 .. Len(s) + Len(t)
  BY <1>1, Lists, Zenon DEF Listing
<1>3. \A i \in DOMAIN u : u[i] \in Range(s) \cup Range(t)
  BY <1>1, Zenon DEF Range
<1>4. \A i \in DOMAIN s : i \in DOMAIN u /\ s[i] = u[i]
  BY <1>1, <1>2
<1>5. \A i \in DOMAIN t : i + Len(s) \in DOMAIN u /\ t[i] = u[i + Len(s)]
  BY <1>1, <1>2
<1>6. Range(u) = Range(s) \cup Range(t)
  <2>1. \A x \in Range(u) : x \in Range(s) \cup Range(t)
    BY <1>3, Zenon DEF Range
  <2>2. \A x \in Range(s) : x \in Range(u)
    BY <1>4, Zenon DEF Range
  <2>3. \A x \in Range(t) : x \in Range(u)
    BY <1>5, Zenon DEF Range
  <2> QED
    BY <2>1, <2>2, <2>3, Zenon
<1>7. ASSUME Distinct(s), Distinct(t), Range(s) \cap Range(t) = {}, NEW i \in DOMAIN u,
             NEW j \in DOMAIN u, i < j
      PROVE  u[i] # u[j]
  <2>1. CASE j \in DOMAIN s
    <3>1. i \in DOMAIN s
      BY <1>2, <1>7, <2>1
    <3> QED
      BY <1>1, <1>7, <2>1, <3>1, Zenon DEF Distinct
  <2>2. CASE i \notin DOMAIN s
    <3>1. j \notin DOMAIN s /\ i - Len(s) < j - Len(s)
      BY <1>2, <1>7, <2>2
    <3> QED
      <4>1. i - Len(s) \in DOMAIN t /\ j - Len(s) \in DOMAIN t
            /\ u[i] = t[i - Len(s)] /\ u[j] = t[j - Len(s)]
        BY <1>1, <2>2, <3>1, Zenon
      <4> QED
        BY <1>7, <3>1, <4>1, Zenon DEF Distinct
  <2>3. CASE i \in DOMAIN s /\ j \notin DOMAIN s
    <3>1. u[i] \in Range(s) /\ u[j] \in Range(t)
      BY <1>1, <2>3, Zenon DEF Range
    <3> QED
      BY <1>7, <3>1, Zenon
  <2> QED
    BY <2>1, <2>2, <2>3, Zenon
<1> QED
  BY <1>6, <1>7, Zenon DEF u, Distinct

\* The directories below /EFI have different names.
RanksDiffer(dirs) ==
  /\ \A i \in DOMAIN dirs : dirs[i].rank \in Nat
  /\ \A i, j \in DOMAIN dirs : dirs[i].rank = dirs[j].rank => i = j

\* The directories together contribute what each one does, and nothing twice.
LEMMA AllDirFacts ==
  ASSUME NEW dirs, IsSeq(dirs), RanksDiffer(dirs)
  PROVE  /\ IsSeq(AllDirEntries(dirs)) /\ Distinct(AllDirEntries(dirs))
         /\ Range(AllDirEntries(dirs)) = Contributed(Range(dirs))
<1> DEFINE N == Len(dirs)
           Of(i) == Range(DirStyleEntries(dirs[i]))
           Heads(n) == UNION {Of(i) : i \in 1 .. n}
<1>1. PICK up : /\ AllDirEntries(dirs) = up[N] /\ up[0] = <<>>
                /\ \A n \in 1 .. N : up[n] = up[n - 1] \o DirStyleEntries(dirs[n])
                /\ \A n \in 0 .. N : up[n] \in Seq(Contributed(Range(dirs)))
  BY DirEquations, Zenon
<1>2. N \in Nat /\ DOMAIN dirs = 1 .. N
  BY Lists, Zenon DEF Listing
<1> DEFINE G == {n \in 0 .. N : IsSeq(up[n]) /\ Distinct(up[n]) /\ Range(up[n]) = Heads(n)}
<1>3. 0 \in G
  <2>1. IsSeq(<<>>) /\ DOMAIN <<>> = {}
    <3>1. IsSeq(<<>>)
      BY EmptySeq, Zenon DEF IsSeq
    <3> QED
      BY <3>1
  <2>2. Distinct(up[0]) /\ Range(up[0]) = {}
    BY <1>1, <2>1, Zenon DEF Distinct, Range
  <2>3. 1 .. 0 = {} /\ 0 \in 0 .. N
    BY <1>2
  <2>4. Heads(0) = {}
    BY <2>3, Zenon
  <2> QED
    BY <1>1, <2>1, <2>2, <2>3, <2>4, Zenon
<1>4. ASSUME NEW n \in 1 .. N, n - 1 \in G PROVE n \in G
  <2>1. IsSeq(up[n - 1]) /\ Distinct(up[n - 1]) /\ Range(up[n - 1]) = Heads(n - 1)
    BY <1>4, Zenon
  <2> DEFINE E == DirStyleEntries(dirs[n])
  <2>2. IsSeq(E) /\ \A k \in DOMAIN E : OfDir(E[k], dirs[n]) /\ E[k].id[3] = k - 1
    BY DirStyleEntriesFacts, Zenon
  <2>3. Distinct(E)
    <3>1. \A i, j \in DOMAIN E : i < j => i - 1 # j - 1
      BY <2>2, Lists DEF Listing
    <3> HIDE DEF E
    <3> QED
      BY <2>2, <3>1, Zenon DEF Distinct
  <2>4. \A e \in Range(E) : e.id[2] = dirs[n].rank
    BY <2>2, Zenon DEF Range, OfDir
  <2>5. \A e \in Heads(n - 1) : \E i \in 1 .. n - 1 : e.id[2] = dirs[i].rank
    <3> SUFFICES ASSUME NEW i \in 1 .. n - 1, NEW e \in Of(i) PROVE e.id[2] = dirs[i].rank
      BY Zenon
    <3>1. PICK k \in DOMAIN DirStyleEntries(dirs[i]) : e = DirStyleEntries(dirs[i])[k]
      BY Zenon DEF Range
    <3>2. OfDir(e, dirs[i])
      BY <3>1, DirStyleEntriesFacts, Zenon
    <3> QED
      BY <3>2, Zenon DEF OfDir
  <2>6. \A i \in 1 .. n - 1 : i \in DOMAIN dirs /\ n \in DOMAIN dirs /\ i # n
    BY <1>2
  <2>7. Heads(n - 1) \cap Range(E) = {}
    <3> HIDE DEF Heads, E
    <3> SUFFICES ASSUME NEW e \in Heads(n - 1), e \in Range(E) PROVE FALSE
      BY Zenon
    <3>1. PICK i \in 1 .. n - 1 : e.id[2] = dirs[i].rank
      BY <2>5, Zenon
    <3>2. dirs[i].rank = dirs[n].rank
      BY <2>4, <3>1, Zenon
    <3> QED
      BY <2>6, <3>2, Zenon DEF RanksDiffer
  <2>8. up[n] = up[n - 1] \o E
    BY <1>1, Zenon
  <2>9. IsSeq(up[n]) /\ Distinct(up[n]) /\ Range(up[n]) = Heads(n - 1) \cup Range(E)
    <3> HIDE DEF Heads, E
    <3>1. IsSeq(up[n])
      <4>1. Listing(up[n - 1] \o E, Len(up[n - 1]) + Len(E))
        BY <2>1, <2>2, Joined, Zenon
      <4> QED
        BY <2>8, <4>1, Zenon DEF Listing
    <3>2. Range(up[n]) = Range(up[n - 1]) \cup Range(E)
      <4>1. Range(up[n - 1] \o E) = Range(up[n - 1]) \cup Range(E)
        BY <2>1, <2>2, JoinedRange, Zenon
      <4> QED
        BY <2>8, <4>1, Zenon
    <3>3. Distinct(up[n])
      <4>1. Range(up[n - 1]) \cap Range(E) = {}
        BY <2>1, <2>7, Zenon
      <4>2. Distinct(up[n - 1] \o E)
        BY <2>1, <2>2, <2>3, <4>1, JoinedRange, Zenon
      <4> QED
        BY <2>8, <4>2, Zenon
    <3> QED
      BY <2>1, <3>1, <3>2, <3>3, Zenon
  <2>10. Heads(n) = Heads(n - 1) \cup Of(n)
    <3>1. \A i : i \in 1 .. n <=> i \in 1 .. n - 1 \/ i = n
      BY <1>2
    <3> HIDE DEF Of
    <3> QED
      BY <3>1, Zenon
  <2>11. n \in 0 .. N
    BY <1>2
  <2> QED
    BY <2>9, <2>10, <2>11, Zenon
<1>5. N \in G
  <2>1. N \in 0 .. N
    BY <1>2
  <2> HIDE DEF G
  <2>2. 0 .. N \subseteq G
    BY <1>2, <1>3, <1>4, UpToInduction, Zenon
  <2> QED
    BY <2>1, <2>2, Zenon
<1>6. Heads(N) = Contributed(Range(dirs))
  <2>1. Range(dirs) = {dirs[i] : i \in 1 .. N}
    BY <1>2, Zenon DEF Range
  <2> HIDE DEF N
  <2>2. \A e : e \in Heads(N) <=> e \in Contributed(Range(dirs))
    BY <2>1, Zenon DEF Contributed
  <2> HIDE DEF Heads
  <2> QED
    BY <2>2, Zenon
<1> QED
  BY <1>1, <1>5, <1>6, Zenon

\* The order of the directories' entries: by name, the kernel before the
\* previous one.
DirBefore(x, y) ==
  \/ x.id[2] < y.id[2]
  \/ x.id[2] = y.id[2] /\ x.id[3] < y.id[3]
DirLess(S) == {p \in S \X S : DirBefore(p[1], p[2])}

\* The order of the directories' entries is total.
LEMMA DirLessOrders ==
  ASSUME NEW dirs, IsSeq(dirs), RanksDiffer(dirs)
  PROVE  LET S == Contributed(Range(dirs))
         IN  StrictWeak(DirLess(S), S) /\ Total(DirLess(S), S)
<1> DEFINE S == Contributed(Range(dirs))
<1>1. ASSUME NEW e \in S
      PROVE  \E i \in DOMAIN dirs : \E k \in DOMAIN DirStyleEntries(dirs[i]) :
               /\ e = DirStyleEntries(dirs[i])[k]
               /\ e.id[2] = dirs[i].rank /\ e.id[3] = k - 1 /\ e.id[3] \in {0, 1}
  <2>1. PICK d \in Range(dirs) : e \in Range(DirStyleEntries(d))
    BY Zenon DEF Contributed
  <2>2. PICK i \in DOMAIN dirs : d = dirs[i]
    BY Zenon DEF Range
  <2>3. PICK k \in DOMAIN DirStyleEntries(d) : e = DirStyleEntries(d)[k]
    BY <2>1, Zenon DEF Range
  <2>4. OfDir(e, d) /\ e.id[3] = k - 1
    BY <2>3, DirStyleEntriesFacts, Zenon
  <2> QED
    BY <2>2, <2>3, <2>4, Zenon DEF OfDir
<1> HIDE DEF S
<1>2. \A e \in S : e.id[2] \in Int /\ e.id[3] \in Int
  <2> TAKE e \in S
  <2>1. PICK i \in DOMAIN dirs : \E k \in DOMAIN DirStyleEntries(dirs[i]) :
               /\ e = DirStyleEntries(dirs[i])[k]
               /\ e.id[2] = dirs[i].rank /\ e.id[3] = k - 1 /\ e.id[3] \in {0, 1}
    BY <1>1, Zenon
  <2>2. e.id[2] \in Nat /\ e.id[3] \in {0, 1}
    BY <2>1, Zenon DEF RanksDiffer
  <2> QED
    BY <2>2
<1>3. ASSUME NEW x \in S, NEW y \in S, x.id[2] = y.id[2], x.id[3] = y.id[3] PROVE x = y
  <2>1. PICK i \in DOMAIN dirs : \E k \in DOMAIN DirStyleEntries(dirs[i]) :
               /\ x = DirStyleEntries(dirs[i])[k]
               /\ x.id[2] = dirs[i].rank /\ x.id[3] = k - 1 /\ x.id[3] \in {0, 1}
    BY <1>1, Zenon
  <2>2. PICK k \in DOMAIN DirStyleEntries(dirs[i]) :
               /\ x = DirStyleEntries(dirs[i])[k]
               /\ x.id[2] = dirs[i].rank /\ x.id[3] = k - 1
    BY <2>1, Zenon
  <2>3. PICK j \in DOMAIN dirs : \E l \in DOMAIN DirStyleEntries(dirs[j]) :
               /\ y = DirStyleEntries(dirs[j])[l]
               /\ y.id[2] = dirs[j].rank /\ y.id[3] = l - 1 /\ y.id[3] \in {0, 1}
    BY <1>1, Zenon
  <2>4. PICK l \in DOMAIN DirStyleEntries(dirs[j]) :
               /\ y = DirStyleEntries(dirs[j])[l]
               /\ y.id[2] = dirs[j].rank /\ y.id[3] = l - 1
    BY <2>3, Zenon
  <2>5. dirs[i].rank = dirs[j].rank /\ k - 1 = l - 1
    BY <1>3, <2>2, <2>4, Zenon
  <2>6. i = j
    BY <2>5, Zenon DEF RanksDiffer
  <2>7. \A d : \A n \in DOMAIN DirStyleEntries(d) : n \in Int
    <3> TAKE d
    <3>1. IsSeq(DirStyleEntries(d))
      BY DirStyleEntriesFacts, Zenon
    <3> QED
      BY <3>1, Lists DEF Listing
  <2>8. k \in Int /\ l \in Int
    BY <2>7, Zenon
  <2>9. k = l
    BY <2>5, <2>8
  <2> QED
    BY <2>2, <2>4, <2>6, <2>9, Zenon
<1>4. \A x, y \in S : <<x, y>> \in DirLess(S) <=> DirBefore(x, y)
  BY Zenon DEF DirLess
<1>5. \A x, y \in S : DirBefore(x, y) => ~DirBefore(y, x)
  BY <1>2 DEF DirBefore
<1>6. \A x, y, z \in S : ~DirBefore(x, y) /\ ~DirBefore(y, z) => ~DirBefore(x, z)
  BY <1>2 DEF DirBefore
<1>7. \A x, y \in S : x # y => DirBefore(x, y) \/ DirBefore(y, x)
  BY <1>2, <1>3 DEF DirBefore
<1> QED
  BY <1>4, <1>5, <1>6, <1>7, Zenon DEF StrictWeak, Total, S

\* The directories' entries are sorted in the same way however the file system
\* lists the directories.
LEMMA DirStyleUnique ==
  ASSUME NEW dirs, IsSeq(dirs), RanksDiffer(dirs), NEW t \in Orders(dirs)
  PROVE  DirStyle(t) = DirStyle(dirs)
<1> DEFINE S == Contributed(Range(dirs))
<1>1. IsSeq(t) /\ Range(t) = Range(dirs) /\ \E p : Rearranges(p, t, dirs)
  BY OrdersFacts
<1>2. PICK p : Rearranges(p, t, dirs)
  BY <1>1, Zenon
<1>3. RanksDiffer(t)
  <2>1. /\ \A i \in DOMAIN t : p[i] \in DOMAIN dirs /\ t[i] = dirs[p[i]]
        /\ \A i, j \in DOMAIN t : p[i] = p[j] => i = j
    BY <1>2, Zenon DEF Rearranges
  <2>2. \A i \in DOMAIN t : t[i].rank = dirs[p[i]].rank
    BY <2>1, Zenon
  <2>3. \A i \in DOMAIN t : t[i].rank \in Nat
    BY <2>1, <2>2, Zenon DEF RanksDiffer
  <2>4. ASSUME NEW i \in DOMAIN t, NEW j \in DOMAIN t, t[i].rank = t[j].rank PROVE i = j
    <3>1. dirs[p[i]].rank = dirs[p[j]].rank
      BY <2>2, <2>4, Zenon
    <3>2. p[i] = p[j]
      BY <2>1, <3>1, Zenon DEF RanksDiffer
    <3> QED
      BY <2>1, <3>2, Zenon
  <2> QED
    BY <2>3, <2>4, Zenon DEF RanksDiffer
<1>4. /\ IsSeq(AllDirEntries(dirs)) /\ Distinct(AllDirEntries(dirs))
      /\ Range(AllDirEntries(dirs)) = S
  BY AllDirFacts, Zenon
<1>5. /\ IsSeq(AllDirEntries(t)) /\ Distinct(AllDirEntries(t))
      /\ Range(AllDirEntries(t)) = S
  BY <1>1, <1>3, AllDirFacts, Zenon
<1>6. StrictWeak(DirLess(S), S) /\ Total(DirLess(S), S)
  BY DirLessOrders, Zenon
<1> HIDE DEF S
<1>7. SortBy(AllDirEntries(dirs), DirLess(S)) = SortBy(AllDirEntries(t), DirLess(S))
  BY <1>4, <1>5, <1>6, SortUnique, Zenon
<1>8. \A u : Range(AllDirEntries(u)) = S => DirStyle(u) = SortBy(AllDirEntries(u), DirLess(S))
  <2> SUFFICES ASSUME NEW u, Range(AllDirEntries(u)) = S
               PROVE  DirStyle(u) = SortBy(AllDirEntries(u), DirLess(S))
    BY Zenon
  <2> DEFINE T == Pairs(AllDirEntries(u))
             less == {q \in T : \/ q[1].id[2] < q[2].id[2]
                                \/ q[1].id[2] = q[2].id[2] /\ q[1].id[3] < q[2].id[3]}
  <2>1. DirStyle(u) = SortBy(AllDirEntries(u), less)
    BY Zenon DEF DirStyle
  <2>2. T = S \X S
    BY Zenon DEF Pairs
  <2> HIDE DEF T
  <2>3. less = DirLess(S)
    BY <2>2, Zenon DEF DirLess, DirBefore
  <2> HIDE DEF less
  <2> QED
    BY <2>1, <2>3, Zenon
<1> QED
  BY <1>4, <1>5, <1>7, <1>8, Zenon

\* What discover_systemd_boot_dir_style lists are entries of directories.
LEMMA DirStyleFacts ==
  ASSUME NEW dirs, IsSeq(dirs), RanksDiffer(dirs)
  PROVE  /\ IsSeq(DirStyle(dirs))
         /\ \A k \in DOMAIN DirStyle(dirs) : \E d : OfDir(DirStyle(dirs)[k], d)
<1> DEFINE all == AllDirEntries(dirs)
           less == {p \in Pairs(all) : \/ p[1].id[2] < p[2].id[2]
                                       \/ p[1].id[2] = p[2].id[2] /\ p[1].id[3] < p[2].id[3]}
           o == SortBy(all, less)
<1>1. DirStyle(dirs) = o
  BY Zenon DEF DirStyle
<1>2. IsSeq(all) /\ Range(all) = Contributed(Range(dirs))
  BY AllDirFacts, Zenon
<1> HIDE DEF less, all
<1>3. Listing(o, Len(all)) /\ Range(o) = Range(all)
  BY <1>2, SortRange, Zenon
<1> HIDE DEF o
<1>4. ASSUME NEW k \in DOMAIN o PROVE \E d : OfDir(o[k], d)
  <2>1. o[k] \in Contributed(Range(dirs))
    BY <1>2, <1>3, Zenon DEF Range
  <2>2. PICK d \in Range(dirs) : o[k] \in Range(DirStyleEntries(d))
    BY <2>1, Zenon DEF Contributed
  <2>3. PICK j \in DOMAIN DirStyleEntries(d) : o[k] = DirStyleEntries(d)[j]
    BY <2>2, Zenon DEF Range
  <2>4. OfDir(o[k], d)
    BY <2>3, DirStyleEntriesFacts, Zenon
  <2> QED
    BY <2>4, Zenon
<1> QED
  BY <1>1, <1>3, <1>4, Zenon DEF Listing
-----------------------------------------------------------------------------
(* The files *)

ConfOk(c) ==
  /\ c.file.base \in Nat /\ IsSeq(c.lines)
  /\ \A k \in DOMAIN c.lines :
       c.lines[k][1] \in {"version", "machine-id", "sort-key"} => c.lines[k][2] \in Nat

VolumeOk(v) ==
  /\ IsSeq(v.confs) /\ IsSeq(v.isos) /\ NoPath \notin v.files
  /\ \A j \in DOMAIN v.confs : ConfOk(v.confs[j])

DiskOk ==
  /\ IsSeq(Volumes) /\ \A i \in DOMAIN Volumes : VolumeOk(Volumes[i])
  /\ IsSeq(disk.optical) /\ IsSeq(Esp.ukis) /\ IsSeq(Esp.tools)
  /\ IsSeq(Esp.dirs) /\ RanksDiffer(Esp.dirs)

\* What DisksAssumption says of the disk at hand.
LEMMA DiskFacts ==
  ASSUME disk \in Disks
  PROVE  DiskOk
<1>1. /\ IsSeq(disk.volumes) /\ IsSeq(disk.optical)
      /\ IsSeq(disk.esp.ukis) /\ IsSeq(disk.esp.dirs) /\ IsSeq(disk.esp.tools)
  BY DisksAssumption, Zenon
<1>2. \A i \in DOMAIN disk.volumes : VolumeOk(disk.volumes[i])
  BY DisksAssumption, Zenon DEF VolumeOk, ConfOk
<1>3. RanksDiffer(disk.esp.dirs)
  BY DisksAssumption, Zenon DEF RanksDiffer
<1> QED
  BY <1>1, <1>2, <1>3, Zenon DEF DiskOk, Volumes, Esp

\* A line's value, or what stands for no line.
LEMMA FieldFacts ==
  ASSUME NEW lines, IsSeq(lines), NEW key, NEW S, NEW absent \in S,
         \A k \in DOMAIN lines : lines[k][1] = key => lines[k][2] \in S
  PROVE  Field(lines, key, absent) \in S
<1> DEFINE at == {k \in DOMAIN lines : lines[k][1] = key}
<1>1. Len(lines) \in Nat /\ DOMAIN lines = 1 .. Len(lines)
  BY Lists, Zenon DEF Listing
<1>2. at \subseteq 0 .. Len(lines)
  <2>1. \A i \in 1 .. Len(lines) : i \in 0 .. Len(lines)
    BY <1>1
  <2> QED
    BY <1>1, <2>1, Zenon
<1>3. Field(lines, key, absent) = IF at = {} THEN absent ELSE lines[Max(at)][2]
  BY Zenon DEF Field
<1>4. ASSUME at # {} PROVE lines[Max(at)][2] \in S
  <2>1. Max(at) \in at
    <3> HIDE DEF at
    <3> QED
      BY <1>1, <1>2, <1>4, MaxPlace, Zenon
  <2> QED
    BY <2>1, Zenon
<1> HIDE DEF at
<1> QED
  BY <1>3, <1>4, Zenon

\* The keys of a parsed entry are numbers or absent (BlsEntry::parse).
LEMMA ParseNumbered ==
  ASSUME NEW c, ConfOk(c), NEW home
  PROVE  Numbered(Parse(c, home))
<1> DEFINE v(key) == Field(c.lines, key, None)
           e == Parse(c, home)
<1>1. ASSUME NEW key \in {"version", "machine-id", "sort-key"} PROVE v(key) \in Opt
  <2>1. None \in Opt /\ Nat \subseteq Opt
    BY DEF Opt
  <2>2. IsSeq(c.lines) /\ \A k \in DOMAIN c.lines : c.lines[k][1] = key => c.lines[k][2] \in Opt
    BY <2>1, Zenon DEF ConfOk
  <2> QED
    BY <2>1, <2>2, FieldFacts, Zenon
<1>2. v("version") \in Opt /\ v("machine-id") \in Opt /\ v("sort-key") \in Opt
  <2> HIDE DEF v
  <2> QED
    BY <1>1
<1>3. e.id = c.file.base /\ e.version = v("version") /\ e.machine = v("machine-id")
      /\ e.sortKey = v("sort-key")
  BY DEF Parse
<1>4. c.file.base \in Nat
  BY Zenon DEF ConfOk
<1> HIDE DEF v, e
<1>5. Numbered(e)
  BY <1>2, <1>3, <1>4 DEF Numbered
<1> QED
  BY <1>5, Zenon DEF e

\* An entry read from the .conf file c of a volume.
From(e, c, files, home) == e = WithInitrd(Parse(c, home), files) /\ Valid(Parse(c, home))

\* All but the initrd is as parsed.
LEMMA FromFacts ==
  ASSUME NEW e, NEW c, NEW files, NEW home, From(e, c, files, home)
  PROVE  /\ e.home = home /\ e.file = c.file /\ Valid(e)
         /\ e.linux = Field(c.lines, "linux", NoPath) /\ e.efi = Field(c.lines, "efi", NoPath)
         /\ ConfOk(c) => Numbered(e)
         /\ \/ e.initrd = Values(c.lines, "initrd")
            \/ Values(c.lines, "initrd") = <<>> /\ e.initrd = FindInitrd(e.linux, files)
<1> DEFINE p == Parse(c, home)
           w == [p EXCEPT !.initrd = FindInitrd(p.linux, files)]
           ini == Values(c.lines, "initrd")
<1>1. p.home = home /\ p.file = c.file /\ p.initrd = ini
      /\ p.linux = Field(c.lines, "linux", NoPath) /\ p.efi = Field(c.lines, "efi", NoPath)
  BY DEF Parse
<1>2. /\ w.home = p.home /\ w.file = p.file /\ w.linux = p.linux /\ w.efi = p.efi
      /\ w.id = p.id /\ w.version = p.version /\ w.machine = p.machine /\ w.sortKey = p.sortKey
      /\ w.initrd = FindInitrd(p.linux, files)
  BY DEF Parse
<1>3. e = p \/ (e = w /\ ini = <<>>)
  <2> HIDE DEF p, ini
  <2>1. e = IF p.initrd = <<>> /\ p.linux # NoPath THEN w ELSE p
    BY DEF From, WithInitrd, p
  <2> HIDE DEF w
  <2> QED
    BY <1>1, <2>1, Zenon
<1>4. Valid(p) /\ (ConfOk(c) => Numbered(p))
  BY ParseNumbered, Zenon DEF From
<1> HIDE DEF p, w, ini
<1>5. CASE e = p
  BY <1>1, <1>4, <1>5, Zenon DEF ini
<1>6. CASE e = w /\ ini = <<>>
  <2>1. Valid(w)
    BY <1>2, <1>4, Zenon DEF Valid
  <2>2. Numbered(p) => Numbered(w)
    BY <1>2, Zenon DEF Numbered
  <2>3. w.initrd = FindInitrd(w.linux, files)
    BY <1>2, Zenon
  <2> QED
    BY <1>1, <1>2, <1>4, <1>6, <2>1, <2>2, <2>3, Zenon DEF ini
<1> QED
  BY <1>3, <1>5, <1>6, Zenon

\* An entry remembers the volume it was read from.
LEMMA FromHome ==
  ASSUME NEW e, NEW c, NEW files, NEW home, From(e, c, files, home)
  PROVE  e.home = home
BY FromFacts, Zenon

\* An entry read from a well-formed file has well-formed keys.
LEMMA FromNumbered ==
  ASSUME NEW e, NEW c, NEW files, NEW home, From(e, c, files, home), ConfOk(c)
  PROVE  Numbered(e)
BY FromFacts, Zenon

\* An entry's initrds are those its file names, or what find_initrd found.
LEMMA FromInitrd ==
  ASSUME NEW e, NEW c, NEW files, NEW home, From(e, c, files, home)
  PROVE  /\ e.file = c.file
         /\ \/ e.initrd = Values(c.lines, "initrd")
            \/ Values(c.lines, "initrd") = <<>> /\ e.initrd = FindInitrd(e.linux, files)
BY FromFacts, Zenon

\* The first of the names in s that are there, as find_initrd looks for one.
FirstThere(s, files) ==
  LET there == {k \in DOMAIN s : s[k] \in files}
  IN  IF there = {} THEN <<>> ELSE <<s[Min(there)]>>

Found(r, s, files) ==
  /\ IsSeq(r)
  /\ \A j \in DOMAIN r : \E k \in DOMAIN s :
       r[j] = s[k] /\ s[k] \in files /\ \A i \in DOMAIN s : i < k => s[i] \notin files

\* The file found is on the volume, and no earlier pattern is.
LEMMA FirstFound ==
  ASSUME NEW s, IsSeq(s), NEW files
  PROVE  Found(FirstThere(s, files), s, files)
<1> DEFINE there == {k \in DOMAIN s : s[k] \in files}
           m == Min(there)
           r == FirstThere(s, files)
<1>1. Len(s) \in Nat /\ DOMAIN s = 1 .. Len(s)
  BY Lists, Zenon DEF Listing
<1>2. r = IF there = {} THEN <<>> ELSE <<s[m]>>
  BY Zenon DEF FirstThere
<1> HIDE DEF r
<1>3. CASE there = {}
  <2>1. IsSeq(<<>>)
    BY EmptySeq, Zenon DEF IsSeq
  <2>2. DOMAIN <<>> = {}
    OBVIOUS
  <2>3. r = <<>>
    BY <1>2, <1>3, Zenon
  <2> QED
    BY <2>1, <2>2, <2>3, Zenon DEF Found, r
<1>4. CASE there # {}
  <2>1. r = <<s[m]>>
    BY <1>2, <1>4, Zenon
  <2> DEFINE x == s[m]
             q == <<x>>
  <2>2. q \in Seq({x}) /\ \A j \in DOMAIN q : q[j] = x
    <3> HIDE DEF x
    <3> QED
      OBVIOUS
  <2>3. IsSeq(q)
    <3> HIDE DEF q, x
    <3> QED
      BY <2>2, ListOf, Zenon DEF Listing
  <2>4. there \subseteq 1 .. Len(s)
    BY <1>1, Zenon
  <2>5. m \in there /\ \A i \in there : m <= i
    <3> HIDE DEF there
    <3> QED
      BY <1>1, <1>4, <2>4, MinPlace, Zenon
  <2>6. m \in DOMAIN s /\ s[m] \in files
    BY <2>5, Zenon
  <2>7. ASSUME NEW i \in DOMAIN s, i < m PROVE s[i] \notin files
    <3> SUFFICES ASSUME s[i] \in files PROVE FALSE
      OBVIOUS
    <3>1. m <= i
      BY <2>5, Zenon
    <3> HIDE DEF m
    <3> QED
      BY <1>1, <2>6, <2>7, <3>1
  <2> HIDE DEF m
  <2>8. \A j \in DOMAIN q : q[j] = s[m] /\ s[m] \in files /\ \A i \in DOMAIN s : i < m => s[i] \notin files
    BY <2>2, <2>6, <2>7, Zenon DEF x
  <2> QED
    BY <2>1, <2>3, <2>6, <2>8, Zenon DEF Found, r, x
<1> QED
  BY <1>3, <1>4, Zenon

\* What is found fits the kernel: it carries the kernel's version, or none, or
\* is the one of ArchBase when the kernel's own is not there.
LEMMA FindInitrdFits ==
  ASSUME NEW kernel, NEW files
  PROVE  \A j \in DOMAIN FindInitrd(kernel, files) :
           FitsKernel(FindInitrd(kernel, files)[j], kernel, files)
<1> DEFINE dir == kernel[1]
           ver == kernel[2]
           ucodes == <<<<dir, "intel-ucode", "">>, <<dir, "amd-ucode", "">>>>
           own == <<<<dir, "initramfs", ver>>, <<dir, "initrd.img", ver>>, <<dir, "initrd", ver>>,
                    <<dir, "fallback", ver>>, <<"boot", "initramfs", ver>>,
                    <<"boot", "initrd.img", ver>>, <<"boot", "initrd", ver>>,
                    <<"root", "initramfs", ver>>, <<"root", "initrd.img", ver>>>>
           arch == IF ver \in ArchNames THEN <<<<dir, "initramfs", ArchBase>>>> ELSE <<>>
           a == FirstThere(ucodes, files)
           b == FirstThere(own \o arch, files)
<1>1. FindInitrd(kernel, files) = a \o b
  BY Zenon DEF FindInitrd, FirstThere
<1>2. IsSeq(ucodes) /\ \A k \in DOMAIN ucodes : ucodes[k][3] = ""
  <2> DEFINE x == <<dir, "intel-ucode", "">>
             y == <<dir, "amd-ucode", "">>
             u == <<x, y>>
  <2>1. x[3] = "" /\ y[3] = ""
    OBVIOUS
  <2> HIDE DEF x, y
  <2>2. u \in Seq({x, y}) /\ \A k \in DOMAIN u : u[k] \in {x, y}
    OBVIOUS
  <2> HIDE DEF u
  <2>3. IsSeq(u) /\ \A k \in DOMAIN u : u[k][3] = ""
    BY <2>1, <2>2, ListOf, Zenon DEF Listing
  <2> QED
    BY <2>3, Zenon DEF u, x, y
<1>3. /\ IsSeq(own) /\ 1 \in DOMAIN own /\ own[1] = <<dir, "initramfs", ver>>
      /\ \A k \in DOMAIN own : own[k][3] = ver
  <2> DEFINE S == {f \in {dir, "boot", "root"}
                        \X {"initramfs", "initrd.img", "initrd", "fallback"} \X {ver} : TRUE}
  <2>1. own \in Seq(S)
    OBVIOUS
  <2>2. \A f \in S : f[3] = ver
    OBVIOUS
  <2>3. 1 \in DOMAIN own /\ own[1] = <<dir, "initramfs", ver>>
    OBVIOUS
  <2> HIDE DEF S, own
  <2> QED
    BY <2>1, <2>2, <2>3, ListOf, Zenon DEF Listing
<1>4. /\ IsSeq(arch)
      /\ \A k \in DOMAIN arch : k > 0 /\ ver \in ArchNames
  <2>1. CASE ver \in ArchNames
    <3> DEFINE x == <<dir, "initramfs", ArchBase>>
               u == <<x>>
    <3>1. arch = u
      BY <2>1, Zenon
    <3> HIDE DEF x
    <3>2. u \in Seq({x}) /\ \A k \in DOMAIN u : k > 0
      OBVIOUS
    <3> HIDE DEF u
    <3>3. IsSeq(u)
      BY <3>2, ListOf, Zenon DEF Listing
    <3> HIDE DEF arch
    <3> QED
      BY <2>1, <3>1, <3>2, <3>3, Zenon
  <2>2. CASE ver \notin ArchNames
    <3>1. arch = <<>>
      BY <2>2, Zenon
    <3>2. IsSeq(<<>>)
      BY EmptySeq, Zenon DEF IsSeq
    <3>3. DOMAIN <<>> = {}
      OBVIOUS
    <3> HIDE DEF arch
    <3> QED
      BY <3>1, <3>2, <3>3, Zenon
  <2> QED
    BY <2>1, <2>2, Zenon
<1> DEFINE p == own \o arch
<1> HIDE DEF own, arch, ucodes
<1>5. /\ IsSeq(p)
      /\ \A i \in DOMAIN own : p[i] = own[i]
      /\ \A i \in DOMAIN p : i \notin DOMAIN own => i - Len(own) \in DOMAIN arch
      /\ 1 \in DOMAIN p
  <2>1. /\ Listing(p, Len(own) + Len(arch))
        /\ \A i \in DOMAIN own : p[i] = own[i]
        /\ \A i \in DOMAIN p : i \notin DOMAIN own => i - Len(own) \in DOMAIN arch /\ p[i] = arch[i - Len(own)]
    BY <1>3, <1>4, Joined, Zenon
  <2>2. /\ Len(own) \in Nat /\ Len(arch) \in Nat /\ DOMAIN own = 1 .. Len(own)
    BY <1>3, <1>4, Lists, Zenon DEF Listing
  <2> HIDE DEF p
  <2>3. 1 \in DOMAIN p
    BY <1>3, <2>1, <2>2 DEF Listing
  <2> QED
    BY <2>1, <2>3, Zenon DEF Listing
<1> HIDE DEF p
<1>6. /\ IsSeq(a)
      /\ \A j \in DOMAIN a : \E k \in DOMAIN ucodes : a[j] = ucodes[k] /\ ucodes[k] \in files
  <2>1. Found(a, ucodes, files)
    BY <1>2, FirstFound, Zenon
  <2> HIDE DEF a
  <2> QED
    BY <2>1, Zenon DEF Found
<1>7. /\ IsSeq(b)
      /\ \A j \in DOMAIN b : \E k \in DOMAIN p :
           b[j] = p[k] /\ p[k] \in files /\ \A i \in DOMAIN p : i < k => p[i] \notin files
  <2>1. b = FirstThere(p, files)
    BY Zenon DEF p
  <2>2. Found(b, p, files)
    BY <1>5, <2>1, FirstFound, Zenon
  <2> HIDE DEF b
  <2> QED
    BY <2>2, Zenon DEF Found
<1> HIDE DEF a, b, dir, ver
<1>8. \A j \in DOMAIN a : FitsKernel(a[j], kernel, files)
  BY <1>2, <1>6, Zenon DEF FitsKernel
<1>9. ASSUME NEW j \in DOMAIN b PROVE FitsKernel(b[j], kernel, files)
  <2>1. PICK k \in DOMAIN p :
           b[j] = p[k] /\ p[k] \in files /\ \A i \in DOMAIN p : i < k => p[i] \notin files
    BY <1>7, Zenon
  <2>2. CASE k \in DOMAIN own
    BY <1>3, <1>5, <2>1, <2>2, Zenon DEF FitsKernel, ver
  <2>3. CASE k \notin DOMAIN own
    <3>1. ver \in ArchNames
      BY <1>4, <1>5, <2>3, Zenon
    <3>2. 1 < k
      <4>1. k \in Int /\ k >= 1 /\ 1 \in DOMAIN own
        BY <1>3, <1>5, Lists DEF Listing
      <4> QED
        BY <2>3, <4>1
    <3>3. p[1] \notin files
      BY <1>5, <2>1, <3>2, Zenon
    <3>4. <<dir, "initramfs", ver>> \notin files
      BY <1>3, <1>5, <3>3, Zenon
    <3> QED
      BY <2>1, <3>1, <3>4, Zenon DEF FitsKernel, dir, ver
  <2> QED
    BY <2>2, <2>3, Zenon
<1> DEFINE u == a \o b
<1>10. /\ \A i \in DOMAIN a : u[i] = a[i]
       /\ \A i \in DOMAIN u : i \notin DOMAIN a => i - Len(a) \in DOMAIN b /\ u[i] = b[i - Len(a)]
  <2>1. IsSeq(a) /\ IsSeq(b)
    BY <1>6, <1>7, Zenon
  <2> QED
    BY <2>1, Joined, Zenon
<1>11. FindInitrd(kernel, files) = u
  BY <1>1, Zenon DEF a, b
<1> HIDE DEF u
<1>12. \A j \in DOMAIN u : FitsKernel(u[j], kernel, files)
  BY <1>8, <1>9, <1>10, Zenon
<1> QED
  BY <1>11, <1>12, Zenon

\* What the scan of a volume accepts.
LEMMA AcceptedFacts ==
  ASSUME NEW confs, IsSeq(confs), NEW files, NEW home
  PROVE  LET s == Accepted(confs, files, home)
         IN  IsSeq(s) /\ \A k \in DOMAIN s : \E j \in DOMAIN confs : From(s[k], confs[j], files, home)
<1> DEFINE taken(c) == LET e == Parse(c, home)
                       IN  /\ c.named /\ c.readable
                           /\ Valid(e) /\ e.arch # "foreign"
                           /\ e.linux # NoPath => Allowed(e.linux)
           I == {k \in DOMAIN confs : taken(confs[k])}
           native == Keep(confs, I)
           s == [k \in DOMAIN native |-> WithInitrd(Parse(native[k], home), files)]
<1>1. Accepted(confs, files, home) = s
  BY Zenon DEF Accepted
<1>2. \A i \in I : i \in DOMAIN confs /\ Valid(Parse(confs[i], home))
  BY Zenon
<1> HIDE DEF I
<1>3. Listing(native, Len(native)) /\ \E f : Places(f, native, confs, I)
  BY KeepPlaces
<1>4. PICK f : Places(f, native, confs, I)
  BY <1>3, Zenon
<1>5. \A k \in DOMAIN native : f[k] \in I /\ f[k] \in DOMAIN confs /\ native[k] = confs[f[k]]
  BY <1>4, Zenon DEF Places
<1> HIDE DEF native
<1>6. DOMAIN s = DOMAIN native /\ \A k \in DOMAIN s : s[k] = WithInitrd(Parse(native[k], home), files)
  BY Zenon
<1>7. IsSeq(s)
  <2>1. s = [i \in 1 .. Len(native) |-> s[i]] /\ Len(native) \in Nat
    <3>1. DOMAIN native = 1 .. Len(native) /\ Len(native) \in Nat
      BY <1>3, Zenon DEF Listing
    <3> QED
      BY <3>1
  <2> HIDE DEF s
  <2> QED
    BY <2>1, Tabulated, Zenon DEF Listing
<1> HIDE DEF s
<1>8. ASSUME NEW k \in DOMAIN s PROVE From(s[k], confs[f[k]], files, home)
  BY <1>2, <1>5, <1>6, Zenon DEF From
<1>9. \A k \in DOMAIN s : \E j \in DOMAIN confs : From(s[k], confs[j], files, home)
  BY <1>5, <1>6, <1>8, Zenon
<1> QED
  BY <1>1, <1>7, <1>9, Zenon

\* What the scan of a volume returns: entries of its files, the bad ones last.
Scanned(s, v, home) ==
  /\ IsSeq(s)
  /\ \A k \in DOMAIN s : \E j \in DOMAIN v.confs : From(s[k], v.confs[j], v.initrds, home)
  /\ \A i, j \in DOMAIN s : i < j /\ Bad(s[i]) => Bad(s[j])
  /\ (\A k \in DOMAIN s : s[k].version # None) =>
       \A i, j \in DOMAIN s : i < j => BlsSortCompare(s[j], s[i]) # Less

\* scan_volume_for_bls returns entries of the volume's files, bad ones last,
\* and sorted when all have a version.
LEMMA ScanFacts ==
  ASSUME NEW v, VolumeOk(v), NEW home
  PROVE  Scanned(ScanVolumeForBls(v, home), v, home)
<1> DEFINE s == Accepted(v.confs, v.initrds, home)
           o == SortBls(s)
<1>1. o = ScanVolumeForBls(v, home)
  BY Zenon DEF ScanVolumeForBls
<1>2. IsSeq(v.confs) /\ \A j \in DOMAIN v.confs : ConfOk(v.confs[j])
  BY Zenon DEF VolumeOk
<1>3. IsSeq(s) /\ \A k \in DOMAIN s : \E j \in DOMAIN v.confs : From(s[k], v.confs[j], v.initrds, home)
  BY <1>2, AcceptedFacts, Zenon
<1> HIDE DEF s
<1>4. ASSUME NEW k \in DOMAIN s PROVE Numbered(s[k])
  <2>1. PICK j \in DOMAIN v.confs : From(s[k], v.confs[j], v.initrds, home)
    BY <1>3, Zenon
  <2> QED
    BY <1>2, <2>1, FromFacts, Zenon
<1>5. /\ Listing(o, Len(s)) /\ Range(o) = Range(s)
      /\ \A i, j \in DOMAIN o : i < j /\ Bad(o[i]) => Bad(o[j])
      /\ OneRule(Range(s)) => \A i, j \in DOMAIN o : i < j => BlsSortCompare(o[j], o[i]) # Less
  BY <1>3, <1>4, SortBlsFacts, Zenon
<1> HIDE DEF o
<1>6. ASSUME NEW k \in DOMAIN o PROVE \E j \in DOMAIN v.confs : From(o[k], v.confs[j], v.initrds, home)
  <2>1. o[k] \in Range(s)
    BY <1>5, Zenon DEF Range
  <2>2. PICK i \in DOMAIN s : o[k] = s[i]
    BY <2>1, Zenon DEF Range
  <2> QED
    BY <1>3, <2>2, Zenon
<1>7. ASSUME \A k \in DOMAIN o : o[k].version # None PROVE OneRule(Range(s))
  <2>1. \A e \in Range(s) : e.version # None
    <3> SUFFICES ASSUME NEW e \in Range(o) PROVE e.version # None
      BY <1>5, Zenon
    <3> QED
      BY <1>7, Zenon DEF Range
  <2> QED
    BY <2>1, Zenon DEF OneRule
<1>8. Scanned(o, v, home)
  BY <1>5, <1>6, <1>7, Zenon DEF Scanned, Listing
<1> QED
  BY <1>1, <1>8, Zenon
-----------------------------------------------------------------------------
(* Menu entries *)

\* The entry comes from a .conf file of the volume it names.
Sourced(e) ==
  LET v == Volumes[e.home + 1]
  IN  /\ e.home \in Nat /\ e.home + 1 \in DOMAIN Volumes
      /\ \E j \in DOMAIN v.confs : From(e, v.confs[j], v.initrds, e.home)

\* The key is the file name, or for what glob found the whole path; a disc's
\* key is no file's.
KeyFits(e) ==
  /\ e.kind = "IsoOptical" => \E l : e.key = <<"optical", l>>
  /\ e.kind # "IsoOptical" /\ Globbed(e) => e.key = <<"path", e.path>>
  /\ e.kind # "IsoOptical" /\ ~Globbed(e) => e.key = <<"name", e.path[2]>>

\* The .conf file or the ISO is on the entry's volume, the key is that of the
\* file, and what boots has somewhere to boot from.
Sound(e) ==
  LET v == Volumes[e.home + 1]
  IN  /\ e.file # <<>> => \E j \in DOMAIN v.confs :
           /\ v.confs[j].file = e.file[1]
           /\ e.path \in {Field(v.confs[j].lines, "efi", NoPath),
                          Field(v.confs[j].lines, "linux", NoPath)}
      /\ e.kind = "IsoFile" => e.path \in Range(v.isos)
      /\ KeyFits(e)
      /\ e.kind = "LinuxLegacy" => e.path # NoPath
      /\ e.kind \in {"Chainload", "Uki", "LinuxLegacy"} => Volumes # <<>>

SoundList(s) == IsSeq(s) /\ \A k \in DOMAIN s : Sound(s[k])

\* Nothing from a .conf file.
Plain(s) == SoundList(s) /\ \A k \in DOMAIN s : s[k].file = <<>>

FilesFirst(s) == \A i, j \in DOMAIN s : i < j /\ s[j].file # <<>> => s[i].file # <<>>

\* Appending what is not from .conf files keeps a list sound, and the entries
\* of .conf files in front.
LEMMA JoinSound ==
  ASSUME NEW s, NEW t, SoundList(s), Plain(t)
  PROVE  /\ SoundList(s \o t) /\ (FilesFirst(s) => FilesFirst(s \o t))
         /\ Plain(s) => Plain(s \o t)
<1> DEFINE u == s \o t
<1>1. IsSeq(s) /\ IsSeq(t)
  BY Zenon DEF Plain, SoundList
<1>2. /\ Listing(u, Len(s) + Len(t))
      /\ \A i \in DOMAIN s : u[i] = s[i]
      /\ \A i \in DOMAIN u : i \notin DOMAIN s => i - Len(s) \in DOMAIN t /\ u[i] = t[i - Len(s)]
  BY <1>1, Joined, Zenon
<1>3. Len(s) \in Nat /\ DOMAIN s = 1 .. Len(s) /\ DOMAIN u = 1 .. Len(u) /\ Len(u) \in Nat
  BY <1>1, <1>2, Lists, Zenon DEF Listing
<1> HIDE DEF u
<1>4. \A i \in DOMAIN u : i \in DOMAIN s \/ u[i].file = <<>>
  BY <1>2, Zenon DEF Plain
<1>5. \A i \in DOMAIN u : Sound(u[i])
  BY <1>2, Zenon DEF Plain, SoundList
<1>6. SoundList(u)
  BY <1>2, <1>5, Zenon DEF SoundList, Listing
<1>7. ASSUME FilesFirst(s), NEW i \in DOMAIN u, NEW j \in DOMAIN u, i < j, u[j].file # <<>>
      PROVE  u[i].file # <<>>
  <2>1. j \in DOMAIN s
    BY <1>4, <1>7, Zenon
  <2>2. i \in DOMAIN s
    BY <1>3, <1>7, <2>1
  <2> QED
    BY <1>2, <1>7, <2>1, <2>2, Zenon DEF FilesFirst
<1>8. FilesFirst(s) => FilesFirst(u)
  BY <1>7, Zenon DEF FilesFirst
<1>9. Plain(s) => Plain(u)
  BY <1>2, <1>4, <1>6, Zenon DEF Plain
<1> QED
  BY <1>6, <1>8, <1>9, Zenon DEF u

\* One element for each of a list is a list.
LEMMA Mapped ==
  ASSUME NEW t, IsSeq(t), NEW s, s = [k \in DOMAIN t |-> s[k]]
  PROVE  IsSeq(s) /\ DOMAIN s = DOMAIN t
<1>1. DOMAIN t = 1 .. Len(t) /\ Len(t) \in Nat
  BY Lists, Zenon DEF Listing
<1>2. Listing(s, Len(t))
  BY <1>1, Tabulated, Zenon
<1> QED
  BY <1>1, <1>2, Zenon DEF Listing

\* An entry that is not from a .conf file.
Fields(e, id, kind, path, key, home) ==
  /\ e.id = id /\ e.kind = kind /\ e.path = path /\ e.key = key /\ e.home = home
  /\ e.file = <<>>

\* The fields of an entry that is not from a .conf file.
LEMMA EntryFields ==
  ASSUME NEW id, NEW kind, NEW path, NEW key, NEW home
  PROVE  Fields(MenuEntry(id, kind, path, key, home), id, kind, path, key, home)
BY DEF MenuEntry, Fields

\* Only the ids of tools start with "tool".
LEMMA OtherIds ==
  /\ \A x : <<"bls", x>>[1] # "tool" /\ <<"uki", x>>[1] # "tool" /\ <<"tool", x>>[1] = "tool"
  /\ \A x, y : <<"sdboot", x, y>>[1] # "tool"
  /\ \A x : <<x>>[1] = x
OBVIOUS

\* The two ways to spell a path.
LEMMA FileNames ==
  ASSUME NEW path
  PROVE  /\ ExtractFilename(path, "backslash") = <<"name", path[2]>>
         /\ ExtractFilename(path, "slash") = <<"path", path>>
BY DEF ExtractFilename

\* What the scanners of the ESP offer is sound.
LEMMA EspSound ==
  ASSUME NEW e, e.file = <<>>, Volumes # <<>>, e.kind \in {"Chainload", "Uki", "LinuxLegacy"},
         e.kind = "LinuxLegacy" => e.path # NoPath, KeyFits(e)
  PROVE  Sound(e)
<1>1. e.kind # "IsoFile"
  OBVIOUS
<1> QED
  BY <1>1, Zenon DEF Sound

\* The fields of an entry made from a .conf file (to_boot_entry).
LEMMA BootEntryFields ==
  ASSUME NEW e
  PROVE  LET m == ToBootEntry(e)
         IN  /\ m.file = <<e.file>> /\ m.home = e.home /\ m.id = <<"bls", e.id>>
             /\ m.key = <<"name", m.path[2]>>
             /\ \/ m.kind = "Chainload" /\ m.path = e.efi
                \/ m.kind = "LinuxLegacy" /\ m.path = e.linux /\ e.efi = NoPath
<1> DEFINE a == [MenuEntry(<<"bls", e.id>>, "Chainload", e.efi, ExtractFilename(e.efi, "backslash"), e.home)
                   EXCEPT !.file = <<e.file>>]
           b == [MenuEntry(<<"bls", e.id>>, "LinuxLegacy", e.linux, ExtractFilename(e.linux, "backslash"), e.home)
                   EXCEPT !.file = <<e.file>>, !.initrd = NotGrub(e.initrd), !.options = NotGrub(e.options)]
           m == ToBootEntry(e)
<1>1. m = IF e.efi # NoPath THEN a ELSE b
  BY Zenon DEF ToBootEntry
<1>2. a.file = <<e.file>> /\ a.home = e.home /\ a.id = <<"bls", e.id>> /\ a.kind = "Chainload"
      /\ a.path = e.efi /\ a.key = ExtractFilename(e.efi, "backslash")
  BY DEF MenuEntry
<1>3. b.file = <<e.file>> /\ b.home = e.home /\ b.id = <<"bls", e.id>> /\ b.kind = "LinuxLegacy"
      /\ b.path = e.linux /\ b.key = ExtractFilename(e.linux, "backslash")
  BY DEF MenuEntry
<1> HIDE DEF a, b, m
<1>4. CASE e.efi # NoPath
  BY <1>1, <1>2, <1>4, FileNames, Zenon DEF m
<1>5. CASE e.efi = NoPath
  BY <1>1, <1>3, <1>5, FileNames, Zenon DEF m
<1> QED
  BY <1>4, <1>5, Zenon

\* The entries of .conf files are sound.
LEMMA BlsSound ==
  ASSUME NEW e, Sourced(e)
  PROVE  Sound(ToBootEntry(e)) /\ ToBootEntry(e).file # <<>>
<1> DEFINE m == ToBootEntry(e)
           v == Volumes[e.home + 1]
<1>1. /\ m.file = <<e.file>> /\ m.home = e.home /\ m.id = <<"bls", e.id>>
      /\ m.key = <<"name", m.path[2]>>
      /\ \/ m.kind = "Chainload" /\ m.path = e.efi
         \/ m.kind = "LinuxLegacy" /\ m.path = e.linux /\ e.efi = NoPath
  BY BootEntryFields, Zenon
<1> HIDE DEF m
<1>2. PICK j \in DOMAIN v.confs : From(e, v.confs[j], v.initrds, e.home)
  BY Zenon DEF Sourced
<1>3. /\ e.file = v.confs[j].file /\ Valid(e)
      /\ e.linux = Field(v.confs[j].lines, "linux", NoPath)
      /\ e.efi = Field(v.confs[j].lines, "efi", NoPath)
  BY <1>2, FromFacts, Zenon
<1>4. m.file # <<>> /\ m.file[1] = e.file
  <2>1. \A x : <<x>> # <<>> /\ <<x>>[1] = x
    OBVIOUS
  <2> QED
    BY <1>1, <2>1, Zenon
<1>5. KeyFits(m)
  <2>1. m.kind \notin {"Uki", "IsoFile"} /\ m.kind # "IsoOptical"
    BY <1>1
  <2>2. m.id[1] # "tool"
    BY <1>1, OtherIds, Zenon
  <2> QED
    BY <1>1, <2>1, <2>2, Zenon DEF KeyFits, Globbed
<1>6. m.kind # "IsoFile"
  BY <1>1
<1>7. m.kind = "LinuxLegacy" => m.path # NoPath
  BY <1>1, <1>3 DEF Valid
<1>8. Volumes # <<>>
  <2>1. e.home + 1 \in DOMAIN Volumes
    BY Zenon DEF Sourced
  <2>2. DOMAIN <<>> = {}
    OBVIOUS
  <2> QED
    BY <2>1, <2>2, Zenon
<1>9. Volumes[m.home + 1] = v
  BY <1>1, Zenon
<1> HIDE DEF v
<1>10. \E i \in DOMAIN v.confs :
         /\ v.confs[i].file = m.file[1]
         /\ m.path \in {Field(v.confs[i].lines, "efi", NoPath),
                        Field(v.confs[i].lines, "linux", NoPath)}
  BY <1>1, <1>3, <1>4, Zenon
<1>11. Sound(m)
  BY <1>5, <1>6, <1>7, <1>8, <1>9, <1>10, Zenon DEF Sound
<1> QED
  BY <1>4, <1>11, Zenon DEF m

\* Part of a list is a list.
LEMMA KeepIsSeq ==
  ASSUME NEW s, IsSeq(s), NEW I
  PROVE  IsSeq(Keep(s, I))
<1>1. Listing(Keep(s, I), Len(Keep(s, I)))
  BY KeepPlaces
<1> QED
  BY <1>1, Zenon DEF Listing

\* The entries discover_iso_files makes are sound: the ISO is on their volume.
LEMMA IsoPlain ==
  ASSUME DiskOk, NEW i \in DOMAIN Volumes,
         NEW t, t = [k \in DOMAIN Volumes[i].isos |->
                       MenuEntry(<<"iso", Volumes[i].isos[k]>>, "IsoFile", Volumes[i].isos[k],
                                 ExtractFilename(Volumes[i].isos[k], "slash"), i - 1)]
  PROVE  Plain(t)
<1> DEFINE isos == Volumes[i].isos
<1>1. IsSeq(isos) /\ i \in Int
  <2>1. IsSeq(Volumes) /\ IsSeq(isos)
    BY Zenon DEF DiskOk, VolumeOk
  <2> QED
    BY <2>1, Lists DEF Listing
<1>2. IsSeq(t) /\ DOMAIN t = DOMAIN isos
  BY <1>1, Mapped, Zenon
<1>3. ASSUME NEW k \in DOMAIN t
      PROVE  Fields(t[k], <<"iso", isos[k]>>, "IsoFile", isos[k], <<"path", isos[k]>>, i - 1)
  <2>1. t[k] = MenuEntry(<<"iso", isos[k]>>, "IsoFile", isos[k],
                         ExtractFilename(isos[k], "slash"), i - 1)
    BY <1>2, Zenon
  <2> QED
    BY <2>1, EntryFields, FileNames, Zenon
<1>4. \A k \in DOMAIN t : isos[k] \in Range(isos)
  BY <1>2, Zenon DEF Range
<1> HIDE DEF isos
<1>5. ASSUME NEW k \in DOMAIN t PROVE Sound(t[k])
  <2> DEFINE e == t[k]
  <2>1. e.id = <<"iso", isos[k]>> /\ e.kind = "IsoFile" /\ e.path = isos[k] /\ e.home = i - 1
        /\ e.key = <<"path", isos[k]>> /\ e.file = <<>>
    BY <1>3, Zenon DEF Fields
  <2> HIDE DEF e
  <2>2. e.home + 1 = i
    BY <1>1, <2>1
  <2>3. e.path \in Range(Volumes[e.home + 1].isos)
    BY <1>4, <2>1, <2>2, Zenon DEF isos
  <2>4. KeyFits(e)
    <3>1. e.kind # "IsoOptical" /\ e.kind \in {"Uki", "IsoFile"}
      BY <2>1
    <3> QED
      BY <2>1, <3>1, Zenon DEF KeyFits, Globbed
  <2>5. e.kind # "LinuxLegacy" /\ e.kind \notin {"Chainload", "Uki", "LinuxLegacy"}
    BY <2>1
  <2> QED
    BY <2>1, <2>3, <2>4, <2>5, Zenon DEF Sound, e
<1>6. \A k \in DOMAIN t : t[k].file = <<>>
  BY <1>3, Zenon DEF Fields
<1> QED
  BY <1>2, <1>5, <1>6, Zenon DEF Plain, SoundList

\* The entries discover_optical makes are sound.
LEMMA OpticalPlain ==
  ASSUME NEW labels, IsSeq(labels),
         NEW t, t = [k \in DOMAIN labels |->
                       MenuEntry(<<"optical", labels[k]>>, "IsoOptical", NoPath,
                                 <<"optical", labels[k]>>, 0)]
  PROVE  Plain(t)
<1>1. IsSeq(t) /\ DOMAIN t = DOMAIN labels
  BY Mapped, Zenon
<1>2. ASSUME NEW k \in DOMAIN t
      PROVE  Fields(t[k], <<"optical", labels[k]>>, "IsoOptical", NoPath, <<"optical", labels[k]>>, 0)
  <2>1. t[k] = MenuEntry(<<"optical", labels[k]>>, "IsoOptical", NoPath, <<"optical", labels[k]>>, 0)
    BY <1>1, Zenon
  <2> QED
    BY <2>1, EntryFields, Zenon
<1>3. ASSUME NEW k \in DOMAIN t PROVE Sound(t[k]) /\ t[k].file = <<>>
  <2> DEFINE e == t[k]
  <2>1. e.key = <<"optical", labels[k]>> /\ e.kind = "IsoOptical" /\ e.file = <<>>
    BY <1>2, Zenon DEF Fields
  <2> HIDE DEF e
  <2>2. KeyFits(e)
    BY <2>1, Zenon DEF KeyFits
  <2>3. e.kind # "IsoFile" /\ e.kind # "LinuxLegacy" /\ e.kind \notin {"Chainload", "Uki", "LinuxLegacy"}
    BY <2>1
  <2> QED
    BY <2>1, <2>2, <2>3, Zenon DEF Sound, e
<1> QED
  BY <1>1, <1>3, Zenon DEF Plain, SoundList

\* What a scanner of the ESP offers.
OnEsp(e) ==
  /\ e.file = <<>> /\ e.kind \in {"Chainload", "Uki", "LinuxLegacy"}
  /\ e.kind = "LinuxLegacy" => e.path # NoPath
  /\ KeyFits(e)

\* What the scanners of the ESP offer is sound.
LEMMA OnEspPlain ==
  ASSUME NEW t, IsSeq(t), Volumes # <<>>, \A k \in DOMAIN t : OnEsp(t[k])
  PROVE  Plain(t)
<1>1. ASSUME NEW k \in DOMAIN t PROVE Sound(t[k]) /\ t[k].file = <<>>
  <2>1. OnEsp(t[k])
    OBVIOUS
  <2> DEFINE e == t[k]
  <2> HIDE DEF e
  <2>2. OnEsp(e)
    BY <2>1, Zenon DEF e
  <2>3. Sound(e)
    BY <2>2, EspSound, Zenon DEF OnEsp
  <2> QED
    BY <2>2, <2>3, Zenon DEF OnEsp, e
<1> QED
  BY <1>1, Zenon DEF Plain, SoundList

\* A loader at a path of the program's may be offered.
LEMMA ChainloadOnEsp ==
  ASSUME NEW id, NEW path, id[1] # "tool"
  PROVE  OnEsp(EspEntry(id, "Chainload", path))
<1> DEFINE e == EspEntry(id, "Chainload", path)
<1>1. Fields(e, id, "Chainload", path, <<"name", path[2]>>, 0)
  BY EntryFields, FileNames, Zenon DEF EspEntry
<1> HIDE DEF e
<1>2. e.kind \in {"Chainload", "Uki", "LinuxLegacy"} /\ e.kind # "LinuxLegacy"
      /\ e.kind # "IsoOptical" /\ e.kind \notin {"Uki", "IsoFile"}
  BY <1>1 DEF Fields
<1>3. KeyFits(e)
  BY <1>1, <1>2, Zenon DEF KeyFits, Globbed, Fields
<1>4. OnEsp(e)
  BY <1>1, <1>2, <1>3, Zenon DEF OnEsp, Fields
<1> QED
  BY <1>4, Zenon DEF e

\* A tool that glob found may be offered.
LEMMA ToolOnEsp ==
  ASSUME NEW x, NEW path
  PROVE  OnEsp(GlobEntry(<<"tool", x>>, "Chainload", path))
<1> DEFINE id == <<"tool", x>>
           e == GlobEntry(id, "Chainload", path)
<1>1. Fields(e, id, "Chainload", path, <<"path", path>>, 0)
  BY EntryFields, FileNames, Zenon DEF GlobEntry
<1>2. id[1] = "tool"
  BY OtherIds, Zenon
<1> HIDE DEF e, id
<1>3. e.kind \in {"Chainload", "Uki", "LinuxLegacy"} /\ e.kind # "LinuxLegacy"
      /\ e.kind # "IsoOptical"
  BY <1>1 DEF Fields
<1>4. KeyFits(e)
  BY <1>1, <1>2, <1>3, Zenon DEF KeyFits, Globbed, Fields
<1>5. OnEsp(e)
  BY <1>1, <1>3, <1>4, Zenon DEF OnEsp, Fields
<1> QED
  BY <1>5, Zenon DEF e, id

\* What discover_windows offers is sound.
LEMMA WindowsPlain ==
  ASSUME Volumes # <<>>
  PROVE  Plain(DiscoverWindows)
<1> DEFINE path == <<"microsoft", "bootmgfw">>
           e == EspEntry(<<"windows">>, "Chainload", path)
           q == <<e>>
<1>1. DiscoverWindows = q \/ DiscoverWindows = <<>>
  BY Zenon DEF DiscoverWindows
<1>2. OnEsp(e)
  <2>1. <<"windows">>[1] # "tool"
    OBVIOUS
  <2> QED
    BY <2>1, ChainloadOnEsp, Zenon
<1> HIDE DEF e
<1>3. q \in Seq({e}) /\ \A k \in DOMAIN q : q[k] = e
  OBVIOUS
<1>4. IsSeq(<<>>)
  BY EmptySeq, Zenon DEF IsSeq
<1>5. DOMAIN <<>> = {}
  OBVIOUS
<1> HIDE DEF q
<1>6. IsSeq(q)
  BY <1>3, ListOf, Zenon DEF Listing
<1>7. IsSeq(DiscoverWindows) /\ \A k \in DOMAIN DiscoverWindows : OnEsp(DiscoverWindows[k])
  BY <1>1, <1>2, <1>3, <1>4, <1>5, <1>6, Zenon
<1> QED
  BY <1>7, OnEspPlain, Zenon

\* What discover_linux_uki offers is sound.
LEMMA UkiPlain ==
  ASSUME DiskOk, Volumes # <<>>
  PROVE  Plain(DiscoverLinuxUki)
<1> DEFINE shown == Keep(Esp.ukis, {k \in DOMAIN Esp.ukis : Allowed(Esp.ukis[k].path)})
           numbered == [k \in DOMAIN shown |-> [uki |-> shown[k], n |-> k - 1]]
           less == {p \in Pairs(numbered) : p[1].uki.version > p[2].uki.version}
           sorted == SortBy(numbered, less)
           entry(x) == [GlobEntry(<<"uki", x.n>>, "Uki", x.uki.path) EXCEPT !.options = x.uki.cmdline]
           t == [k \in DOMAIN sorted |-> entry(sorted[k])]
<1>1. DiscoverLinuxUki = t
  BY Zenon DEF DiscoverLinuxUki
<1>2. IsSeq(shown)
  BY KeepIsSeq, Zenon DEF DiskOk
<1>3. IsSeq(numbered)
  <2>1. numbered = [k \in DOMAIN shown |-> numbered[k]]
    <3> HIDE DEF shown
    <3> QED
      OBVIOUS
  <2> HIDE DEF numbered, shown
  <2> QED
    BY <1>2, <2>1, Mapped, Zenon
<1> HIDE DEF numbered, less
<1>4. IsSeq(sorted)
  BY <1>3, SortRange, Zenon DEF Listing
<1> HIDE DEF sorted
<1>5. ASSUME NEW x PROVE OnEsp(entry(x))
  <2> DEFINE f == entry(x)
  <2>1. f.file = <<>> /\ f.kind = "Uki" /\ f.key = <<"path", f.path>>
    BY DEF GlobEntry, MenuEntry, ExtractFilename
  <2> HIDE DEF f
  <2>2. KeyFits(f)
    <3>1. f.kind # "IsoOptical" /\ f.kind \in {"Uki", "IsoFile"}
      BY <2>1
    <3> QED
      BY <2>1, <3>1, Zenon DEF KeyFits, Globbed
  <2>3. f.kind # "LinuxLegacy" /\ f.kind \in {"Chainload", "Uki", "LinuxLegacy"}
    BY <2>1
  <2>4. OnEsp(f)
    BY <2>1, <2>2, <2>3, Zenon DEF OnEsp
  <2> QED
    BY <2>4, Zenon DEF f
<1> HIDE DEF entry
<1>6. IsSeq(t) /\ DOMAIN t = DOMAIN sorted
  <2>1. t = [k \in DOMAIN sorted |-> t[k]]
    OBVIOUS
  <2> HIDE DEF t
  <2> QED
    BY <1>4, <2>1, Mapped, Zenon
<1>7. \A k \in DOMAIN t : OnEsp(t[k])
  BY <1>5, <1>6, Zenon
<1> HIDE DEF t
<1>8. Plain(t)
  BY <1>6, <1>7, OnEspPlain, Zenon
<1> QED
  BY <1>1, <1>8, Zenon DEF t, entry

\* What discover_systemd_boot_dir_style offers is sound.
LEMMA DirsPlain ==
  ASSUME DiskOk, Volumes # <<>>
  PROVE  Plain(DirStyle(Esp.dirs))
<1> DEFINE t == DirStyle(Esp.dirs)
<1>1. IsSeq(t) /\ \A k \in DOMAIN t : \E d : OfDir(t[k], d)
  BY DirStyleFacts, Zenon DEF DiskOk
<1> HIDE DEF t
<1>2. ASSUME NEW k \in DOMAIN t PROVE OnEsp(t[k])
  <2>1. PICK d : OfDir(t[k], d)
    BY <1>1, Zenon
  <2> DEFINE e == t[k]
  <2>2. e.id = <<"sdboot", d.rank, e.id[3]>> /\ e.kind = "LinuxLegacy" /\ e.path # NoPath
        /\ e.file = <<>> /\ e.key = <<"name", e.path[2]>>
    BY <2>1, Zenon DEF OfDir
  <2> HIDE DEF e
  <2>3. KeyFits(e)
    <3>1. e.kind # "IsoOptical" /\ e.kind \notin {"Uki", "IsoFile"}
      BY <2>2
    <3>2. PICK n : e.id = <<"sdboot", d.rank, n>>
      BY <2>2, Zenon
    <3>3. e.id[1] # "tool"
      BY <3>2
    <3> QED
      BY <2>2, <3>1, <3>3, Zenon DEF KeyFits, Globbed
  <2>4. e.kind \in {"Chainload", "Uki", "LinuxLegacy"}
    BY <2>2
  <2>5. OnEsp(e)
    BY <2>2, <2>3, <2>4, Zenon DEF OnEsp
  <2> QED
    BY <2>5, Zenon DEF e
<1>3. Plain(t)
  BY <1>1, <1>2, OnEspPlain, Zenon
<1> QED
  BY <1>3, Zenon DEF t

\* What discover_other_loaders offers is sound.
LEMMA LoadersPlain ==
  ASSUME Volumes # <<>>
  PROVE  Plain(DiscoverOtherLoaders)
<1> DEFINE paths == <<<<"grub", "grubx64">>, <<"refind", "refind_x64">>, <<"boot", "bootx64">>>>
           I == {k \in DOMAIN paths :
                   /\ paths[k][1] \in Esp.loaders /\ Allowed(paths[k])
                   /\ paths[k][1] = "boot" => OffersFallback}
           shown == Keep(paths, I)
           t == [k \in DOMAIN shown |-> EspEntry(<<shown[k][1]>>, "Chainload", shown[k])]
<1>1. DiscoverOtherLoaders = t
  BY Zenon DEF DiscoverOtherLoaders
<1>2. IsSeq(paths)
  <2> DEFINE S == {<<"grub", "grubx64">>, <<"refind", "refind_x64">>, <<"boot", "bootx64">>}
  <2>1. paths \in Seq(S)
    OBVIOUS
  <2> HIDE DEF paths, S
  <2> QED
    BY <2>1, ListOf, Zenon DEF Listing
<1>3. \A k \in DOMAIN paths : paths[k][1] # "tool"
  OBVIOUS
<1> HIDE DEF paths, I
<1>4. Listing(shown, Len(shown)) /\ \E f : Places(f, shown, paths, I)
  BY <1>2, KeepPlaces
<1>5. PICK f : Places(f, shown, paths, I)
  BY <1>4, Zenon
<1>6. \A k \in DOMAIN shown : shown[k][1] # "tool"
  <2>1. \A k \in DOMAIN shown : f[k] \in DOMAIN paths /\ shown[k] = paths[f[k]]
    BY <1>5, Zenon DEF Places
  <2> HIDE DEF shown
  <2> QED
    BY <1>3, <2>1, Zenon
<1> HIDE DEF shown
<1>7. IsSeq(t) /\ DOMAIN t = DOMAIN shown
  <2>1. t = [k \in DOMAIN shown |-> t[k]]
    OBVIOUS
  <2>2. IsSeq(shown)
    BY <1>4, Zenon DEF Listing
  <2> HIDE DEF t
  <2> QED
    BY <2>1, <2>2, Mapped, Zenon
<1>8. ASSUME NEW k \in DOMAIN t PROVE OnEsp(t[k])
  <2> DEFINE x == shown[k][1]
  <2>1. <<x>>[1] # "tool"
    BY <1>6, <1>7, <1>8, OtherIds, Zenon
  <2>2. t[k] = EspEntry(<<x>>, "Chainload", shown[k])
    BY <1>7, <1>8, Zenon
  <2> HIDE DEF x
  <2> QED
    BY <2>1, <2>2, ChainloadOnEsp, Zenon
<1> HIDE DEF t
<1>9. Plain(t)
  BY <1>7, <1>8, OnEspPlain, Zenon
<1> QED
  BY <1>1, <1>9, Zenon DEF t, shown, paths, I

\* What discover_tools offers is sound.
LEMMA ToolsPlain ==
  ASSUME DiskOk, Volumes # <<>>
  PROVE  Plain(DiscoverTools)
<1> DEFINE I == {k \in DOMAIN Esp.tools : Allowed(Esp.tools[k])}
           shown == IF Policy.modulesEnabled THEN Keep(Esp.tools, I) ELSE <<>>
           t == [k \in DOMAIN shown |->
                   GlobEntry(<<"tool", ExtractFilename(shown[k], "slash")>>, "Chainload", shown[k])]
<1>1. DiscoverTools = t
  BY Zenon DEF DiscoverTools
<1> HIDE DEF I
<1>2. IsSeq(shown)
  <2>1. IsSeq(Keep(Esp.tools, I))
    BY KeepIsSeq, Zenon DEF DiskOk
  <2>2. IsSeq(<<>>)
    BY EmptySeq, Zenon DEF IsSeq
  <2> QED
    BY <2>1, <2>2, Zenon
<1> HIDE DEF shown
<1>3. IsSeq(t) /\ DOMAIN t = DOMAIN shown
  <2>1. t = [k \in DOMAIN shown |-> t[k]]
    OBVIOUS
  <2> HIDE DEF t
  <2> QED
    BY <1>2, <2>1, Mapped, Zenon
<1>4. \A k \in DOMAIN t : OnEsp(t[k])
  BY <1>3, ToolOnEsp, Zenon
<1> HIDE DEF t
<1>5. Plain(t)
  BY <1>3, <1>4, OnEspPlain, Zenon
<1> QED
  BY <1>1, <1>5, Zenon DEF t, shown, I
-----------------------------------------------------------------------------
(* Duplicates *)

\* Each key of s is in t once, and in an entry of a .conf file when there is one.
Once(t, s) ==
  \A k \in DOMAIN s :
    LET listed == {j \in DOMAIN t : t[j].key = s[k].key}
    IN  /\ \E j \in listed : listed = {j}
        /\ s[k].file # <<>> => \A j \in listed : t[j].file # <<>>

\* t lists each key of s once, and the keys of both are those of the files.
Listed(t, s) ==
  /\ Once(t, s)
  /\ \A k \in DOMAIN s : KeyFits(s[k])
  /\ \A k \in DOMAIN t : KeyFits(t[k])

\* Two entries have one key just when they are about one file.
LEMMA KeyTells ==
  ASSUME NEW x, NEW c, KeyFits(x), KeyFits(c), c.kind # "IsoOptical"
  PROVE  SameFile(x, c) <=> x.key = c.key
<1>1. /\ \A a, b : <<"optical", a>> # <<"path", b>> /\ <<"optical", a>> # <<"name", b>>
      /\ \A a, b : <<"path", a>> # <<"name", b>>
      /\ \A a, b : <<"path", a>> = <<"path", b>> => a = b
      /\ \A a, b : <<"name", a>> = <<"name", b>> => a = b
  OBVIOUS
<1>2. c.key = <<"path", c.path>> \/ c.key = <<"name", c.path[2]>>
  BY Zenon DEF KeyFits
<1>3. CASE x.kind = "IsoOptical"
  <2>1. PICK l : x.key = <<"optical", l>>
    BY <1>3, Zenon DEF KeyFits
  <2>2. x.key # c.key
    BY <1>1, <1>2, <2>1, Zenon
  <2> QED
    BY <1>3, <2>2, Zenon DEF SameFile
<1>4. CASE x.kind # "IsoOptical" /\ Globbed(x) /\ Globbed(c)
  <2>1. x.key = <<"path", x.path>> /\ c.key = <<"path", c.path>>
    BY <1>4, Zenon DEF KeyFits
  <2>2. SameFile(x, c) <=> x.path = c.path
    BY <1>4, Zenon DEF SameFile
  <2> QED
    BY <1>1, <2>1, <2>2, Zenon
<1>5. CASE x.kind # "IsoOptical" /\ ~Globbed(x) /\ ~Globbed(c)
  <2>1. x.key = <<"name", x.path[2]>> /\ c.key = <<"name", c.path[2]>>
    BY <1>5, Zenon DEF KeyFits
  <2>2. Globbed(x) = Globbed(c)
    BY <1>5 DEF Globbed
  <2>3. SameFile(x, c) <=> x.path[2] = c.path[2]
    BY <1>5, <2>2, Zenon DEF SameFile
  <2> QED
    BY <1>1, <2>1, <2>3, Zenon
<1>6. CASE x.kind # "IsoOptical" /\ Globbed(x) /\ ~Globbed(c)
  <2>1. x.key = <<"path", x.path>> /\ c.key = <<"name", c.path[2]>>
    BY <1>6, Zenon DEF KeyFits
  <2>2. x.key # c.key
    BY <2>1
  <2>3. ~SameFile(x, c)
    BY <1>6, Zenon DEF SameFile
  <2> QED
    BY <2>2, <2>3, Zenon
<1>7. CASE x.kind # "IsoOptical" /\ ~Globbed(x) /\ Globbed(c)
  <2>1. x.key = <<"name", x.path[2]>> /\ c.key = <<"path", c.path>>
    BY <1>7, Zenon DEF KeyFits
  <2>2. x.key # c.key
    BY <2>1
  <2>3. ~SameFile(x, c)
    BY <1>7, Zenon DEF SameFile
  <2> QED
    BY <2>2, <2>3, Zenon
<1> QED
  BY <1>3, <1>4, <1>5, <1>6, <1>7, Zenon

\* A list that has each key once has each file once.
LEMMA OnceByFile ==
  ASSUME NEW t, NEW s, Listed(t, s), NEW k \in DOMAIN s, s[k].kind # "IsoOptical"
  PROVE  LET listed == {j \in DOMAIN t : SameFile(t[j], s[k])}
         IN  /\ \E j \in listed : listed = {j}
             /\ s[k].file # <<>> => \A j \in listed : t[j].file # <<>>
<1> DEFINE files == {j \in DOMAIN t : SameFile(t[j], s[k])}
           keys == {j \in DOMAIN t : t[j].key = s[k].key}
<1>1. /\ \E j \in keys : keys = {j}
      /\ s[k].file # <<>> => \A j \in keys : t[j].file # <<>>
  BY Zenon DEF Listed, Once
<1>2. ASSUME NEW j \in DOMAIN t PROVE SameFile(t[j], s[k]) <=> t[j].key = s[k].key
  <2>1. KeyFits(t[j]) /\ KeyFits(s[k])
    BY Zenon DEF Listed
  <2> QED
    BY <2>1, KeyTells, Zenon
<1>3. files = keys
  BY <1>2, Zenon
<1> HIDE DEF files, keys
<1>4. /\ \E j \in files : files = {j}
      /\ s[k].file # <<>> => \A j \in files : t[j].file # <<>>
  BY <1>1, <1>3, Zenon
<1> QED
  BY <1>4, Zenon DEF files

\* Of every key the first entry stays.
LEMMA DedupOnce ==
  ASSUME NEW s, SoundList(s), FilesFirst(s), NEW t, t = DedupEntries(s)
  PROVE  /\ SoundList(t) /\ FilesFirst(t)
         /\ Once(t, s)
<1> DEFINE I == {k \in DOMAIN s : \A i \in 1 .. k - 1 : s[i].key # s[k].key}
<1>1. t = Keep(s, I)
  BY Zenon DEF DedupEntries
<1>2. IsSeq(s) /\ Len(s) \in Nat /\ DOMAIN s = 1 .. Len(s)
  BY Lists, Zenon DEF SoundList, Listing
<1>3. Listing(t, Len(t)) /\ \E f : Places(f, t, s, I)
  <2> HIDE DEF I
  <2> QED
    BY <1>1, <1>2, KeepPlaces
<1>4. PICK f : Places(f, t, s, I)
  BY <1>3, Zenon
<1>5. /\ \A k \in DOMAIN t : f[k] \in DOMAIN s /\ f[k] \in I /\ t[k] = s[f[k]]
      /\ \A j, k \in DOMAIN t : j < k => f[j] < f[k]
      /\ \A i \in I : \E k \in DOMAIN t : f[k] = i
  BY <1>4, Zenon DEF Places
<1>6. SoundList(t)
  BY <1>3, <1>5, Zenon DEF SoundList, Listing
<1>7. FilesFirst(t)
  <2> SUFFICES ASSUME NEW i \in DOMAIN t, NEW j \in DOMAIN t, i < j, t[j].file # <<>>
               PROVE  t[i].file # <<>>
    BY Zenon DEF FilesFirst
  <2>1. f[i] < f[j] /\ f[i] \in DOMAIN s /\ f[j] \in DOMAIN s /\ t[i] = s[f[i]] /\ t[j] = s[f[j]]
    BY <1>5, Zenon
  <2> QED
    BY <2>1, Zenon DEF FilesFirst
<1>8. ASSUME NEW i \in I, NEW j \in I, s[i].key = s[j].key PROVE i = j
  <2>1. \A a \in 1 .. i - 1 : s[a].key # s[i].key
    BY Zenon
  <2>2. \A a \in 1 .. j - 1 : s[a].key # s[j].key
    BY Zenon
  <2>3. i \in 1 .. Len(s) /\ j \in 1 .. Len(s)
    BY <1>2, Zenon
  <2>4. i \notin 1 .. j - 1 /\ j \notin 1 .. i - 1
    BY <1>8, <2>1, <2>2, Zenon
  <2> QED
    BY <1>2, <2>3, <2>4
<1>9. ASSUME NEW k \in DOMAIN s
      PROVE  LET listed == {j \in DOMAIN t : t[j].key = s[k].key}
             IN  /\ \E j \in listed : listed = {j}
                 /\ s[k].file # <<>> => \A j \in listed : t[j].file # <<>>
  <2> DEFINE T == {i \in DOMAIN s : s[i].key = s[k].key}
             listed == {j \in DOMAIN t : t[j].key = s[k].key}
             m == Min(T)
  <2>1. T \subseteq 1 .. Len(s) /\ T # {}
    BY <1>2, <1>9, Zenon
  <2>2. m \in T /\ \A i \in T : m <= i
    <3> HIDE DEF T
    <3> QED
      BY <1>2, <2>1, MinPlace, Zenon
  <2>3. m \in DOMAIN s /\ s[m].key = s[k].key
    BY <2>2, Zenon
  <2>4. m <= k /\ k \in DOMAIN s /\ m \in Int /\ k \in Int
    <3>1. k \in T
      BY <1>9, Zenon
    <3> HIDE DEF T, m
    <3> QED
      BY <1>2, <1>9, <2>2, <2>3, <3>1
  <2>5. ASSUME NEW i \in 1 .. m - 1 PROVE s[i].key # s[m].key
    <3> SUFFICES ASSUME s[i].key = s[m].key PROVE FALSE
      OBVIOUS
    <3>1. i \in DOMAIN s
      <4> HIDE DEF m
      <4> QED
        BY <1>2, <2>3
    <3>2. m <= i
      BY <2>2, <2>3, <3>1, Zenon
    <3> HIDE DEF m
    <3> QED
      BY <2>4, <3>2
  <2> HIDE DEF m
  <2>6. m \in I
    BY <2>3, <2>5, Zenon
  <2>7. PICK j \in DOMAIN t : f[j] = m
    BY <1>5, <2>6, Zenon
  <2>8. t[j].key = s[k].key /\ t[j] = s[m]
    BY <1>5, <2>3, <2>7, Zenon
  <2>9. ASSUME NEW l \in DOMAIN t, t[l].key = s[k].key PROVE l = j
    <3>1. f[l] \in I /\ s[f[l]].key = s[m].key
      BY <1>5, <2>3, <2>9, Zenon
    <3>2. f[l] = f[j]
      BY <1>8, <2>6, <2>7, <3>1, Zenon
    <3>3. l \in Int /\ j \in Int /\ f[j] \in Int
      BY <1>3, <2>4, <2>7 DEF Listing
    <3>4. ~(l < j) /\ ~(j < l)
      <4>1. l < j => f[l] < f[j]
        BY <1>5, <2>9, Zenon
      <4>2. j < l => f[j] < f[l]
        BY <1>5, <2>9, Zenon
      <4> QED
        BY <3>2, <3>3, <4>1, <4>2
    <3> QED
      BY <3>3, <3>4
  <2>10. listed = {j}
    BY <2>8, <2>9, Zenon
  <2>11. ASSUME s[k].file # <<>> PROVE s[m].file # <<>>
    <3>1. m = k \/ m < k
      BY <2>4
    <3> QED
      BY <2>3, <2>4, <2>11, <3>1, Zenon DEF FilesFirst
  <2> HIDE DEF listed
  <2>12. /\ \E l \in listed : listed = {l}
         /\ s[k].file # <<>> => \A l \in listed : t[l].file # <<>>
    BY <2>8, <2>10, <2>11, Zenon
  <2> QED
    BY <2>12, Zenon DEF listed
<1> QED
  BY <1>6, <1>7, <1>9, Zenon DEF Once

\* An entry says whether it has a version.
LEMMA FromHasVersion ==
  ASSUME NEW e, NEW c, NEW files, NEW home, From(e, c, files, home)
  PROVE  "version" \in DOMAIN e
<1> DEFINE p == Parse(c, home)
           w == [p EXCEPT !.initrd = FindInitrd(p.linux, files)]
<1>1. "version" \in DOMAIN p
  BY DEF Parse
<1> HIDE DEF p
<1>2. DOMAIN w = DOMAIN p
  OBVIOUS
<1>3. e = w \/ e = p
  BY Zenon DEF From, WithInitrd, p
<1> HIDE DEF w
<1> QED
  BY <1>1, <1>2, <1>3, Zenon

\* Entries of the same content have the same version.
LEMMA SameContentVersion ==
  ASSUME NEW x, NEW y, SameContent(x, y), "version" \in DOMAIN x, "version" \in DOMAIN y
  PROVE  x.version = y.version
<1> DEFINE a == [x EXCEPT !.home = 0]
           b == [y EXCEPT !.home = 0]
<1>1. a.version = x.version /\ b.version = y.version
  OBVIOUS
<1>2. a = b
  BY Zenon DEF SameContent
<1> HIDE DEF a, b
<1> QED
  BY <1>1, <1>2, Zenon

\* f leads from the places of t to places of s, in order.
Part(f, t, s) ==
  /\ \A k \in DOMAIN t : f[k] \in DOMAIN s /\ t[k] = s[f[k]]
  /\ \A j, k \in DOMAIN t : j < k => f[j] < f[k]

\* dedup_bls_entries keeps a part of the list, with every version of it.
LEMMA DedupBlsPart ==
  ASSUME NEW s, IsSeq(s), \A k \in DOMAIN s : "version" \in DOMAIN s[k],
         NEW t, t = DedupBlsEntries(s)
  PROVE  /\ IsSeq(t) /\ \E f : Part(f, t, s)
         /\ \A i \in DOMAIN s : \E k \in DOMAIN t : t[k].version = s[i].version
<1> DEFINE same(k) == {i \in DOMAIN s : s[i].file = s[k].file}
           first(k) == Min(same(k))
           I == {k \in DOMAIN s : first(k) = k \/ ~SameContent(s[first(k)], s[k])}
<1>1. t = Keep(s, I)
  BY Zenon DEF DedupBlsEntries
<1>2. Len(s) \in Nat /\ DOMAIN s = 1 .. Len(s)
  BY Lists, Zenon DEF Listing
<1>3. Listing(t, Len(t)) /\ \E f : Places(f, t, s, I)
  <2> HIDE DEF I
  <2> QED
    BY <1>1, KeepPlaces
<1>4. PICK f : Places(f, t, s, I)
  BY <1>3, Zenon
<1>5. Part(f, t, s) /\ \A i \in I : i \in DOMAIN s => \E k \in DOMAIN t : f[k] = i /\ t[k] = s[i]
  <2>1. /\ \A k \in DOMAIN t : f[k] \in DOMAIN s /\ t[k] = s[f[k]]
        /\ \A j, k \in DOMAIN t : j < k => f[j] < f[k]
        /\ \A i \in DOMAIN s : i \in I => \E k \in DOMAIN t : f[k] = i
    <3> HIDE DEF I
    <3> QED
      BY <1>4, Zenon DEF Places
  <2>2. Part(f, t, s)
    BY <2>1, Zenon DEF Part
  <2>3. ASSUME NEW i \in DOMAIN s, i \in I PROVE \E k \in DOMAIN t : f[k] = i /\ t[k] = s[i]
    <3>1. PICK k \in DOMAIN t : f[k] = i
      BY <2>1, <2>3, Zenon
    <3> QED
      BY <2>1, <3>1, Zenon
  <2> HIDE DEF I
  <2> QED
    BY <2>2, <2>3, Zenon
<1>6. ASSUME NEW i \in DOMAIN s PROVE first(i) \in same(i)
  <2>1. same(i) \subseteq 1 .. Len(s) /\ same(i) # {}
    BY <1>2, Zenon
  <2> HIDE DEF same
  <2> QED
    BY <1>2, <2>1, MinPlace, Zenon
<1>7. ASSUME NEW i \in DOMAIN s PROVE \E k \in DOMAIN t : t[k].version = s[i].version
  <2> DEFINE m == first(i)
  <2>1. m \in DOMAIN s /\ s[m].file = s[i].file
    BY <1>6, Zenon
  <2>2. same(m) = same(i)
    BY <2>1, Zenon
  <2>3. first(m) = m
    <3> HIDE DEF same
    <3> QED
      BY <2>2, Zenon
  <2> HIDE DEF m, same
  <2>4. m \in I
    BY <2>1, <2>3, Zenon
  <2>5. CASE i \in I
    BY <1>5, <2>5, Zenon
  <2>6. CASE i \notin I
    <3>1. SameContent(s[m], s[i])
      BY <2>6, Zenon DEF m
    <3>2. s[m].version = s[i].version
      BY <2>1, <3>1, SameContentVersion, Zenon
    <3>3. PICK k \in DOMAIN t : t[k] = s[m]
      BY <1>5, <2>1, <2>4, Zenon
    <3> QED
      BY <3>2, <3>3, Zenon
  <2> QED
    BY <2>5, <2>6, Zenon
<1> QED
  BY <1>3, <1>5, <1>7, Zenon DEF Listing
-----------------------------------------------------------------------------
(* Preflight and boot look for the same file *)

Errs(checks) == "error" \in checks

\* No check but that of the file's existence is an error.
LEMMA FileChecksErr ==
  ASSUME NEW path
  PROVE  Errs(FileChecks(path)) <=> FirstWith(path) = 0
<1>1. ASSUME NEW h PROVE CheckPeHeader(h) # "error" /\ CheckSecureBoot(h) # "error"
  BY DEF CheckPeHeader, CheckSecureBoot
<1> DEFINE h == Header(Resolved(path))
<1>2. CheckPeHeader(h) # "error" /\ CheckSecureBoot(h) # "error"
  <2> HIDE DEF h
  <2> QED
    BY <1>1, Zenon
<1>3. FileChecks(path) = IF FirstWith(path) = 0 THEN {"error"} ELSE {CheckPeHeader(h), CheckSecureBoot(h)}
  BY Zenon DEF FileChecks
<1> HIDE DEF h
<1> QED
  BY <1>2, <1>3, Zenon DEF Errs

\* Preflight finds an error in an entry exactly when no volume has its file.
LEMMA ChecksErr ==
  ASSUME NEW e, e.kind \in {"Chainload", "Uki", "LinuxLegacy"}
  PROVE  (FromChecks(Checks(e)) = "error") = (FirstWith(e.path) = 0)
<1>1. CASE e.kind \in {"Chainload", "Uki"}
  <2>1. Checks(e) = FileChecks(e.path)
    BY <1>1 DEF Checks
  <2> QED
    BY <2>1, FileChecksErr DEF Errs, FromChecks
<1>2. CASE e.kind = "LinuxLegacy"
  <2>1. Checks(e) = FileChecks(e.path) \cup InitrdChecks(e) \cup RootCheck(e)
    BY <1>2 DEF Checks
  <2>2. "error" \notin InitrdChecks(e) /\ "error" \notin RootCheck(e)
    <3>1. "error" \notin {"warning"} /\ "error" \notin {}
      OBVIOUS
    <3> QED
      BY <3>1, Zenon DEF InitrdChecks, RootCheck
  <2>3. Errs(Checks(e)) <=> FirstWith(e.path) = 0
    BY <2>1, <2>2, FileChecksErr, Zenon DEF Errs
  <2> QED
    BY <2>3 DEF Errs, FromChecks
<1> QED
  BY <1>1, <1>2

\* An entry whose kernel is looked for on every volume, or that is on the ESP.
LEMMA ResolvesAlike ==
  ASSUME DiskOk, Volumes # <<>>, NEW e, e.path # NoPath,
         \/ e.kind = "LinuxLegacy"
         \/ e.kind # "LinuxLegacy" /\ e.path \in Volumes[1].files
  PROVE  /\ Resolved(e.path) = BootResolves(e)
         /\ BootResolves(e)[1] = FirstWith(e.path)
<1> DEFINE p == e.path
           at(i) == ExistsWithBootFallback(Volumes[i], p)
           having == {i \in DOMAIN Volumes : at(i) # NoPath}
           rest == {i \in 2 .. Len(Volumes) : at(i) # NoPath}
           w == FirstWith(p)
<1>1. Len(Volumes) \in Nat /\ DOMAIN Volumes = 1 .. Len(Volumes) /\ 1 \in DOMAIN Volumes
  <2>1. IsSeq(Volumes)
    BY Zenon DEF DiskOk
  <2>2. Listing(Volumes, Len(Volumes)) /\ Volumes \in Seq(Range(Volumes))
    BY <2>1, Lists, Zenon
  <2>3. Len(Volumes) # 0
    BY <2>2, EmptySeq
  <2> QED
    BY <2>2, <2>3 DEF Listing
<1>2. w = IF having = {} THEN 0 ELSE Min(having)
  BY Zenon DEF FirstWith
<1>3. Resolved(p) = <<w, IF w = 0 THEN NoPath ELSE at(w)>>
  BY Zenon DEF Resolved
<1>4. having \subseteq 1 .. Len(Volumes)
  BY <1>1, Zenon
<1>5. having # {} => Min(having) \in having /\ \A i \in having : Min(having) <= i
  <2> HIDE DEF having
  <2> QED
    BY <1>1, <1>4, MinPlace, Zenon
<1>6. \A i \in having : i \in Int /\ i >= 1
  BY <1>1, <1>4
<1>7. ASSUME at(1) # NoPath PROVE w = 1
  <2>1. 1 \in having
    BY <1>1, <1>7, Zenon
  <2>2. Min(having) <= 1 /\ Min(having) >= 1 /\ Min(having) \in Int
    <3> HIDE DEF having
    <3> QED
      BY <1>5, <1>6, <2>1, Zenon
  <2>3. Min(having) = 1
    BY <2>2
  <2> HIDE DEF having
  <2> QED
    BY <1>2, <2>1, <2>3, Zenon
<1>8. ASSUME at(1) = NoPath PROVE rest = having
  <2>1. \A i \in DOMAIN Volumes : i = 1 \/ i \in 2 .. Len(Volumes)
    BY <1>1
  <2>2. \A i \in 2 .. Len(Volumes) : i \in DOMAIN Volumes
    BY <1>1
  <2> HIDE DEF at
  <2> QED
    BY <1>8, <2>1, <2>2, Zenon
<1>9. BootResolves(e) =
        IF e.kind # "LinuxLegacy"
        THEN IF p \in Volumes[1].files THEN <<1, p>> ELSE <<0, NoPath>>
        ELSE IF at(1) # NoPath THEN <<1, at(1)>>
        ELSE IF rest = {} THEN <<0, NoPath>> ELSE <<Min(rest), at(Min(rest))>>
  BY Zenon DEF BootResolves
<1>10. p \in Volumes[1].files => at(1) = p
  BY Zenon DEF ExistsWithBootFallback
<1>11. p # NoPath
  BY Zenon
<1> DEFINE pair(i) == <<i, IF i = 0 THEN NoPath ELSE at(i)>>
<1>12. 1 # 0 /\ \A i : <<i, NoPath>>[1] = i /\ \A x : <<i, x>>[1] = i
  OBVIOUS
<1> HIDE DEF at, having, rest, w, p
<1>13. CASE at(1) # NoPath
  <2>1. w = 1
    BY <1>7, <1>13, Zenon
  <2>2. BootResolves(e) = <<1, at(1)>>
    BY <1>9, <1>10, <1>13, Zenon DEF p
  <2>3. Resolved(p) = <<1, at(1)>>
    BY <1>3, <1>12, <2>1, Zenon
  <2> QED
    <3>1. BootResolves(e)[1] = 1
      BY <1>12, <2>2, Zenon
    <3> QED
      BY <2>1, <2>2, <2>3, <3>1, Zenon DEF p, w
<1>14. CASE at(1) = NoPath
  <2>1. e.kind = "LinuxLegacy"
    BY <1>10, <1>11, <1>14, Zenon DEF p
  <2>2. rest = having
    BY <1>8, <1>14, Zenon
  <2>3. CASE having = {}
    <3>1. w = 0
      BY <1>2, <2>3, Zenon
    <3>2. BootResolves(e) = <<0, NoPath>>
      BY <1>9, <1>14, <2>1, <2>2, <2>3, Zenon
    <3>3. Resolved(p) = <<0, NoPath>>
      BY <1>3, <3>1, Zenon
    <3> QED
      BY <1>12, <3>1, <3>2, <3>3, Zenon DEF p, w
  <2>4. CASE having # {}
    <3>1. w = Min(having)
      BY <1>2, <2>4, Zenon
    <3>2. w # 0
      BY <1>5, <1>6, <2>4, <3>1
    <3>3. BootResolves(e) = <<w, at(w)>>
      BY <1>9, <1>14, <2>1, <2>2, <2>4, <3>1, Zenon
    <3>4. Resolved(p) = <<w, at(w)>>
      BY <1>3, <3>2, Zenon
    <3> QED
      BY <1>12, <3>3, <3>4, Zenon DEF p, w
  <2> QED
    BY <2>3, <2>4, Zenon
<1> QED
  BY <1>13, <1>14, Zenon
-----------------------------------------------------------------------------
(* Lists of BLS entries *)

Versioned(s) == \A k \in DOMAIN s : s[k].version # None

NewestIn(s) ==
  Versioned(s) /\ Policy.ignoreSortKey =>
    \A i, j \in DOMAIN s :
      i < j /\ s[i].home = s[j].home /\ s[i].machine = s[j].machine /\ ~Bad(s[i]) /\ ~Bad(s[j])
        => s[i].version >= s[j].version

BadLastIn(s) ==
  \A i, j \in DOMAIN s : i < j /\ s[i].home = s[j].home /\ Bad(s[i]) => Bad(s[j])

BlsList(s) == IsSeq(s) /\ (\A k \in DOMAIN s : Sourced(s[k])) /\ NewestIn(s)

\* All from the volumes before the n-th.
Before(s, n) == \A k \in DOMAIN s : s[k].home + 1 < n

\* With bls_ignore_sort_key, of two good versioned entries of a machine the one
\* that is not less is not newer.
LEMMA NotLessIsNewer ==
  ASSUME NEW x, NEW y, Numbered(x), Numbered(y), Policy.ignoreSortKey, x.machine = y.machine,
         ~Bad(x), ~Bad(y), x.version # None, y.version # None, BlsSortCompare(y, x) # Less
  PROVE  x.version >= y.version
<1>1. x.version \in Int /\ y.version \in Int /\ x.machine \in Opt /\ y.machine \in Opt
  BY DEF Numbered, Opt, None
<1>2. CmpOpt(y.machine, x.machine) = Equal
  BY <1>1, CmpOptFacts, Zenon
<1>3. CmpVersion(y, x) = Less <=> x.version < y.version
  BY <1>1, CmpFacts, Zenon DEF CmpVersion
<1>4. CmpIgnoringSortKey(y, x) = CmpVersion(y, x)
  BY <1>2, Zenon DEF CmpIgnoringSortKey, Then
<1>5. BlsSortCompare(y, x) = Then(Equal, Then(CmpIgnoringSortKey(y, x), CmpId(y, x)))
  BY Zenon DEF BlsSortCompare, YesFirst
<1>6. Less # Equal
  BY DEF Less, Equal
<1>7. CmpIgnoringSortKey(y, x) = Less => BlsSortCompare(y, x) = Less
  BY <1>5, <1>6, Zenon DEF Then
<1>8. ~(x.version < y.version)
  BY <1>3, <1>4, <1>7, Zenon
<1> QED
  BY <1>1, <1>8

\* The scan of the next volume.
LEMMA ScanJoins ==
  ASSUME DiskOk, NEW n \in DOMAIN Volumes, NEW s, BlsList(s), Before(s, n), BadLastIn(s),
         NEW u, u = s \o ScanVolumeForBls(Volumes[n], n - 1)
  PROVE  BlsList(u) /\ Before(u, n + 1) /\ BadLastIn(u)
<1> DEFINE v == Volumes[n]
           t == ScanVolumeForBls(v, n - 1)
<1>1. n \in Nat /\ n - 1 \in Nat /\ n - 1 + 1 = n
  BY Lists DEF DiskOk, Listing
<1>2. VolumeOk(v) /\ \A j \in DOMAIN v.confs : ConfOk(v.confs[j])
  BY Zenon DEF DiskOk, VolumeOk
<1>3. Scanned(t, v, n - 1)
  BY <1>2, ScanFacts, Zenon
<1>4. u = s \o t
  OBVIOUS
<1> HIDE DEF t, v
<1>5. ASSUME NEW k \in DOMAIN t PROVE t[k].home = n - 1 /\ Sourced(t[k]) /\ Numbered(t[k])
  <2>1. PICK j \in DOMAIN v.confs : From(t[k], v.confs[j], v.initrds, n - 1)
    BY <1>3, Zenon DEF Scanned
  <2>2. t[k].home = n - 1 /\ Numbered(t[k])
    <3>1. t[k].home = n - 1
      BY <2>1, FromHome, Zenon
    <3>2. Numbered(t[k])
      BY <1>2, <2>1, FromNumbered, Zenon
    <3> QED
      BY <3>1, <3>2, Zenon
  <2>3. t[k].home \in Nat /\ t[k].home + 1 = n /\ Volumes[t[k].home + 1] = v
    BY <1>1, <2>2, Zenon DEF v
  <2> QED
    BY <2>1, <2>2, <2>3, Zenon DEF Sourced
<1>6. IsSeq(s) /\ IsSeq(t)
  BY <1>3, Zenon DEF BlsList, Scanned
<1>7. /\ Listing(u, Len(s) + Len(t))
      /\ \A i \in DOMAIN s : u[i] = s[i]
      /\ \A i \in DOMAIN u : i \notin DOMAIN s => i - Len(s) \in DOMAIN t /\ u[i] = t[i - Len(s)]
  <2> DEFINE w == s \o t
  <2>1. /\ Listing(w, Len(s) + Len(t))
        /\ \A i \in DOMAIN s : w[i] = s[i]
        /\ \A i \in DOMAIN w : i \notin DOMAIN s => i - Len(s) \in DOMAIN t /\ w[i] = t[i - Len(s)]
    BY <1>6, Joined, Zenon
  <2>2. w = u
    BY <1>4, Zenon
  <2> HIDE DEF w
  <2> QED
    BY <2>1, <2>2, Zenon
<1>8. /\ Len(s) \in Nat /\ DOMAIN s = 1 .. Len(s) /\ Len(t) \in Nat
      /\ DOMAIN u = 1 .. Len(s) + Len(t)
  BY <1>6, <1>7, Lists, Zenon DEF Listing
<1>9. \A k \in DOMAIN u : Sourced(u[k])
  <2>1. \A k \in DOMAIN s : Sourced(s[k])
    BY Zenon DEF BlsList
  <2> QED
    BY <1>5, <1>7, <2>1, Zenon
<1>10. \A k \in DOMAIN s : u[k].home + 1 < n
  BY <1>7, Zenon DEF Before
<1>11. \A k \in DOMAIN u : k \notin DOMAIN s => u[k].home + 1 = n
  <2>1. \A k \in DOMAIN u : k \notin DOMAIN s => u[k].home = n - 1
    BY <1>5, <1>7, Zenon
  <2> QED
    BY <1>1, <2>1
<1>12. Before(u, n + 1)
  <2>1. \A k \in DOMAIN u : u[k].home \in Nat
    BY <1>9, Zenon DEF Sourced
  <2>2. \A k \in DOMAIN u : u[k].home + 1 < n + 1
    BY <1>1, <1>10, <1>11, <2>1
  <2> QED
    BY <2>2, Zenon DEF Before
<1>13. ASSUME NEW i \in DOMAIN u, NEW j \in DOMAIN u, i < j, u[i].home = u[j].home
       PROVE  \/ i \in DOMAIN s /\ j \in DOMAIN s /\ u[i] = s[i] /\ u[j] = s[j]
              \/ \E a, b \in DOMAIN t : a < b /\ u[i] = t[a] /\ u[j] = t[b]
  <2>1. CASE j \in DOMAIN s
    <3>1. i \in DOMAIN s
      BY <1>8, <1>13, <2>1
    <3> QED
      BY <1>7, <2>1, <3>1, Zenon
  <2>2. CASE i \notin DOMAIN s
    <3>1. j \notin DOMAIN s /\ i - Len(s) < j - Len(s)
      BY <1>8, <1>13, <2>2
    <3> QED
      BY <1>7, <2>2, <3>1, Zenon
  <2>3. CASE i \in DOMAIN s /\ j \notin DOMAIN s
    <3>1. u[i].home + 1 < n /\ u[j].home + 1 = n
      BY <1>10, <1>11, <2>3, Zenon
    <3>2. n < n
      BY <1>13, <3>1, Zenon
    <3> QED
      BY <1>1, <3>2
  <2> QED
    BY <2>1, <2>2, <2>3, Zenon
<1>14. BadLastIn(u)
  <2> SUFFICES ASSUME NEW i \in DOMAIN u, NEW j \in DOMAIN u, i < j, u[i].home = u[j].home, Bad(u[i])
               PROVE  Bad(u[j])
    BY Zenon DEF BadLastIn
  <2>1. \A a, b \in DOMAIN t : a < b /\ Bad(t[a]) => Bad(t[b])
    BY <1>3, Zenon DEF Scanned
  <2>2. CASE i \in DOMAIN s /\ j \in DOMAIN s /\ u[i] = s[i] /\ u[j] = s[j]
    BY <2>2, Zenon DEF BadLastIn
  <2>3. CASE \E a, b \in DOMAIN t : a < b /\ u[i] = t[a] /\ u[j] = t[b]
    BY <2>1, <2>3, Zenon
  <2> QED
    BY <1>13, <2>2, <2>3, Zenon
<1>15. ASSUME Versioned(u) PROVE Versioned(s) /\ Versioned(t)
  <2>1. \A k \in DOMAIN s : k \in DOMAIN u
    BY <1>8
  <2>2. \A k \in DOMAIN t : k + Len(s) \in DOMAIN u /\ u[k + Len(s)] = t[k]
    <3> TAKE k \in DOMAIN t
    <3>1. k \in 1 .. Len(t)
      BY <1>6, Lists, Zenon DEF Listing
    <3>2. k + Len(s) \in DOMAIN u /\ k + Len(s) \notin DOMAIN s /\ k + Len(s) - Len(s) = k
      BY <1>8, <3>1
    <3> DEFINE m == k + Len(s)
    <3>3. u[m] = t[m - Len(s)]
      <4> HIDE DEF m
      <4> QED
        BY <1>7, <3>2, Zenon DEF m
    <3>4. m \in DOMAIN u /\ m - Len(s) = k
      BY <1>8, <3>1
    <3> HIDE DEF m
    <3>5. m \in DOMAIN u /\ u[m] = t[k]
      BY <3>3, <3>4, Zenon
    <3> QED
      BY <3>5, Zenon DEF m
  <2>3. Versioned(s)
    BY <1>7, <1>15, <2>1, Zenon DEF Versioned
  <2> QED
    BY <1>15, <2>2, <2>3, Zenon DEF Versioned
<1>16. NewestIn(u)
  <2> SUFFICES ASSUME Versioned(u), Policy.ignoreSortKey, NEW i \in DOMAIN u, NEW j \in DOMAIN u,
                      i < j, u[i].home = u[j].home, u[i].machine = u[j].machine,
                      ~Bad(u[i]), ~Bad(u[j])
               PROVE  u[i].version >= u[j].version
    BY Zenon DEF NewestIn
  <2>1. Versioned(s) /\ Versioned(t)
    BY <1>15, Zenon
  <2>2. CASE i \in DOMAIN s /\ j \in DOMAIN s /\ u[i] = s[i] /\ u[j] = s[j]
    <3>1. NewestIn(s)
      BY Zenon DEF BlsList
    <3> QED
      BY <2>1, <2>2, <3>1, Zenon DEF NewestIn
  <2>3. CASE \E a, b \in DOMAIN t : a < b /\ u[i] = t[a] /\ u[j] = t[b]
    <3>1. PICK a \in DOMAIN t : \E b \in DOMAIN t : a < b /\ u[i] = t[a] /\ u[j] = t[b]
      BY <2>3, Zenon
    <3>2. PICK b \in DOMAIN t : a < b /\ u[i] = t[a] /\ u[j] = t[b]
      BY <3>1, Zenon
    <3>3. BlsSortCompare(t[b], t[a]) # Less
      BY <1>3, <2>1, <3>2, Zenon DEF Scanned, Versioned
    <3>4. Numbered(t[a]) /\ Numbered(t[b])
      BY <1>5, Zenon
    <3>5. t[a].version # None /\ t[b].version # None
      BY <2>1, Zenon DEF Versioned
    <3> QED
      BY <3>2, <3>3, <3>4, <3>5, NotLessIsNewer, Zenon
  <2> QED
    BY <1>13, <2>2, <2>3, Zenon
<1> QED
  BY <1>7, <1>9, <1>12, <1>14, <1>16, Zenon DEF BlsList, Listing

\* Dropping copies.
LEMMA DedupKeepsBls ==
  ASSUME NEW s, BlsList(s), NEW t, t = DedupBlsEntries(s)
  PROVE  BlsList(t)
<1>1. IsSeq(s) /\ \A k \in DOMAIN s : "version" \in DOMAIN s[k]
  <2>1. IsSeq(s) /\ \A k \in DOMAIN s : Sourced(s[k])
    BY Zenon DEF BlsList
  <2> QED
    BY <2>1, FromHasVersion, Zenon DEF Sourced
<1>2. /\ IsSeq(t) /\ \E f : Part(f, t, s)
      /\ \A i \in DOMAIN s : \E k \in DOMAIN t : t[k].version = s[i].version
  BY <1>1, DedupBlsPart
<1>3. PICK f : Part(f, t, s)
  BY <1>2, Zenon
<1>4. \A k \in DOMAIN t : Sourced(t[k])
  BY <1>3, Zenon DEF Part, BlsList
<1>5. Versioned(t) => Versioned(s)
  BY <1>2, Zenon DEF Versioned
<1>6. NewestIn(t)
  <2> SUFFICES ASSUME Versioned(t), Policy.ignoreSortKey, NEW i \in DOMAIN t, NEW j \in DOMAIN t,
                      i < j, t[i].home = t[j].home, t[i].machine = t[j].machine,
                      ~Bad(t[i]), ~Bad(t[j])
               PROVE  t[i].version >= t[j].version
    BY Zenon DEF NewestIn
  <2>1. f[i] \in DOMAIN s /\ f[j] \in DOMAIN s /\ f[i] < f[j] /\ t[i] = s[f[i]] /\ t[j] = s[f[j]]
    BY <1>3, Zenon DEF Part
  <2>2. NewestIn(s)
    BY Zenon DEF BlsList
  <2> QED
    BY <1>5, <2>1, <2>2, Zenon DEF NewestIn
<1> QED
  BY <1>2, <1>4, <1>6, Zenon DEF BlsList
-----------------------------------------------------------------------------
(* The invariant *)

\* The BLS entries while they are collected, and after.
BlsInv ==
  /\ disk \in Disks /\ vol \in Nat \ {0} /\ BlsList(allBls)
  /\ dpc = "bls" => Before(allBls, vol) /\ BadLastIn(allBls)

\* The entries of the menu.
MenuInv ==
  /\ SoundList(entries) /\ FilesFirst(entries)
  /\ dpc = "menu" => Listed(entries, candidates)
  /\ dpc = "esp" => Volumes # <<>>

\* The marks.
MarksInv ==
  /\ dpc # "menu" => marks = <<>>
  /\ IsSeq(marks) /\ IsSeq(checked) /\ Len(checked) = Len(marks)
  /\ MarksWhatBoots

\* Entries stay what they are while the disk does.
LEMMA SameDisk ==
  ASSUME disk' = disk
  PROVE  /\ \A e : Sound(e)' <=> Sound(e)
         /\ \A s : BlsList(s)' <=> BlsList(s)
<1>1. Volumes' = Volumes /\ Esp' = Esp /\ Policy' = Policy
  BY Zenon DEF Volumes, Esp, Policy
<1>2. \A e : Sourced(e)' <=> Sourced(e)
  BY <1>1, Zenon DEF Sourced
<1>3. \A e : Sound(e)' <=> Sound(e)
  BY <1>1, Zenon DEF Sound
<1>4. \A s : NewestIn(s)' <=> NewestIn(s)
  BY <1>1, Zenon DEF NewestIn
<1>5. \A s : BlsList(s)' <=> BlsList(s)
  BY <1>2, <1>4, Zenon DEF BlsList
<1> QED
  BY <1>3, <1>5, Zenon

\* Soundness of the entries is about the disk, which no step changes.
LEMMA SoundStays ==
  ASSUME disk' = disk, SoundList(entries'), FilesFirst(entries')
  PROVE  SoundList(entries)' /\ FilesFirst(entries)'
<1>1. \A k \in DOMAIN entries' : Sound(entries[k])'
  BY SameDisk, Zenon DEF SoundList
<1> QED
  BY <1>1, Zenon DEF SoundList, FilesFirst

\* The same of the BLS entries.
LEMMA BlsStays ==
  ASSUME disk' = disk, BlsList(allBls')
  PROVE  BlsList(allBls)'
BY SameDisk, Zenon

\* Discovery starts with empty lists.
LEMMA BlsStart ==
  ASSUME DiscInit
  PROVE  BlsInv /\ MenuInv
<1>1. disk \in Disks /\ dpc = "bls" /\ vol = 1 /\ allBls = <<>> /\ entries = <<>>
  BY Zenon DEF DiscInit
<1>2. IsSeq(<<>>)
  BY EmptySeq, Zenon DEF IsSeq
<1>3. DOMAIN <<>> = {} /\ 1 \in Nat \ {0} /\ "bls" # "menu"
  OBVIOUS
<1>4. BlsList(allBls) /\ Before(allBls, vol) /\ BadLastIn(allBls)
  BY <1>1, <1>2, <1>3, Zenon DEF BlsList, NewestIn, Before, BadLastIn
<1>5. SoundList(entries) /\ FilesFirst(entries)
  BY <1>1, <1>2, <1>3, Zenon DEF SoundList, FilesFirst
<1>6. dpc # "menu"
  BY <1>1, <1>3, Zenon
<1> QED
  <2>1. dpc # "esp"
    BY <1>1
  <2> QED
    BY <1>1, <1>3, <1>4, <1>5, <1>6, <2>1, Zenon DEF BlsInv, MenuInv

\* Every step of discovery keeps BlsInv: a scan appends the sorted entries of
\* the next volume, and de-duplication keeps part of the list.
LEMMA BlsStep ==
  ASSUME BlsInv, DiscNext
  PROVE  BlsInv'
<1>1. disk \in Disks /\ vol \in Nat \ {0} /\ BlsList(allBls)
  BY Zenon DEF BlsInv
<1>2. DiskOk
  BY <1>1, DiskFacts, Zenon
<1>3. 1 \in Nat \ {0} /\ vol + 1 \in Nat \ {0}
  BY <1>1
<1>4. CASE ScanBls
  <2>1. /\ dpc = "bls" /\ vol <= Len(Volumes) /\ disk' = disk /\ vol' = vol + 1
        /\ allBls' = allBls \o ScanVolumeForBls(Volumes[vol], vol - 1)
    BY <1>4, Zenon DEF ScanBls
  <2>2. vol \in DOMAIN Volumes
    <3>1. Listing(Volumes, Len(Volumes))
      BY <1>2, Lists, Zenon DEF DiskOk
    <3> QED
      BY <1>1, <2>1, <3>1 DEF Listing
  <2>3. Before(allBls, vol) /\ BadLastIn(allBls)
    BY <2>1, Zenon DEF BlsInv
  <2>4. BlsList(allBls') /\ Before(allBls', vol + 1) /\ BadLastIn(allBls')
    BY <1>1, <1>2, <2>1, <2>2, <2>3, ScanJoins, Zenon
  <2>5. BlsList(allBls)'
    BY <2>1, <2>4, BlsStays, Zenon
  <2>6. Before(allBls, vol)' /\ BadLastIn(allBls)'
    BY <2>1, <2>4, Zenon DEF Before, BadLastIn, Bad
  <2> QED
    BY <1>1, <1>3, <2>1, <2>5, <2>6, Zenon DEF BlsInv
<1>5. ASSUME disk' = disk, allBls' = allBls, vol' \in Nat \ {0}, dpc' # "bls" PROVE BlsInv'
  <2>1. BlsList(allBls)'
    BY <1>1, <1>5, BlsStays, Zenon
  <2> QED
    BY <1>1, <1>5, <2>1, Zenon DEF BlsInv
<1>6. CASE ScanBlsDone
  <2>1. disk' = disk /\ allBls' = allBls /\ vol' = vol /\ dpc' = "dedup"
    BY <1>6, Zenon DEF ScanBlsDone
  <2> QED
    BY <1>1, <1>5, <2>1
<1>7. CASE DedupBls
  <2>1. disk' = disk /\ allBls' = DedupBlsEntries(allBls) /\ vol' = 1 /\ dpc' = "iso"
    BY <1>7, Zenon DEF DedupBls
  <2>2. BlsList(allBls')
    BY <1>1, <2>1, DedupKeepsBls, Zenon
  <2>3. BlsList(allBls)'
    BY <2>1, <2>2, BlsStays, Zenon
  <2>4. dpc' # "bls"
    BY <2>1
  <2> QED
    BY <1>1, <1>3, <2>1, <2>3, <2>4, Zenon DEF BlsInv
<1>8. CASE DiscoverIso
  <2>1. disk' = disk /\ allBls' = allBls /\ vol' = vol + 1 /\ dpc' = dpc /\ dpc = "iso"
    BY <1>8, Zenon DEF DiscoverIso
  <2> QED
    BY <1>3, <1>5, <2>1
<1>9. CASE DiscoverIsoDone
  <2>1. disk' = disk /\ allBls' = allBls /\ vol' = vol /\ dpc' = "optical"
    BY <1>9, Zenon DEF DiscoverIsoDone
  <2> QED
    BY <1>1, <1>5, <2>1
<1>10. CASE DiscoverOptical
  <2>1. disk' = disk /\ allBls' = allBls /\ vol' = vol /\ (dpc' = "unique" \/ dpc' = "esp")
    BY <1>10, Zenon DEF DiscoverOptical
  <2> QED
    BY <1>1, <1>5, <2>1
<1>11. CASE ScanEsp
  <2>1. disk' = disk /\ allBls' = allBls /\ vol' = vol /\ dpc' = "unique"
    BY <1>11, Zenon DEF ScanEsp
  <2> QED
    BY <1>1, <1>5, <2>1
<1>12. CASE Unique
  <2>1. disk' = disk /\ allBls' = allBls /\ vol' = vol /\ dpc' = "menu"
    BY <1>12, Zenon DEF Unique
  <2> QED
    BY <1>1, <1>5, <2>1
<1> QED
  BY <1>4, <1>6, <1>7, <1>8, <1>9, <1>10, <1>11, <1>12, Zenon DEF DiscNext

\* The scanners of the ESP add sound entries.
LEMMA EspJoins ==
  ASSUME DiskOk, Volumes # <<>>, NEW s, SoundList(s), FilesFirst(s)
  PROVE  LET u == s \o DiscoverWindows \o DiscoverLinuxUki \o DirStyle(Esp.dirs)
                    \o DiscoverOtherLoaders \o DiscoverTools
         IN  SoundList(u) /\ FilesFirst(u)
<1> DEFINE a == s \o DiscoverWindows
           b == a \o DiscoverLinuxUki
           c == b \o DirStyle(Esp.dirs)
           d == c \o DiscoverOtherLoaders
           u == d \o DiscoverTools
<1>1. SoundList(a) /\ FilesFirst(a)
  BY WindowsPlain, JoinSound, Zenon
<1> HIDE DEF a
<1>2. SoundList(b) /\ FilesFirst(b)
  BY <1>1, UkiPlain, JoinSound, Zenon
<1> HIDE DEF b
<1>3. SoundList(c) /\ FilesFirst(c)
  BY <1>2, DirsPlain, JoinSound, Zenon
<1> HIDE DEF c
<1>4. SoundList(d) /\ FilesFirst(d)
  BY <1>3, LoadersPlain, JoinSound, Zenon
<1> HIDE DEF d
<1>5. SoundList(u) /\ FilesFirst(u)
  BY <1>4, ToolsPlain, JoinSound, Zenon
<1> QED
  BY <1>5, Zenon DEF a, b, c, d

\* Every step of discovery keeps MenuInv: the scanners append sound entries,
\* and dedup_entries leaves each key once.
LEMMA MenuStep ==
  ASSUME BlsInv, MenuInv, DiscNext
  PROVE  MenuInv'
<1>1. DiskOk /\ BlsList(allBls) /\ vol \in Nat \ {0}
  BY DiskFacts, Zenon DEF BlsInv
<1>2. SoundList(entries) /\ FilesFirst(entries)
  BY Zenon DEF MenuInv
<1>3. ASSUME disk' = disk, SoundList(entries'), FilesFirst(entries'), dpc' # "menu",
             dpc' = "esp" => Volumes # <<>>
      PROVE  MenuInv'
  <2>1. SoundList(entries)' /\ FilesFirst(entries)'
    BY <1>3, SoundStays, Zenon
  <2>2. Volumes' = Volumes
    BY <1>3, Zenon DEF Volumes
  <2> QED
    BY <1>3, <2>1, <2>2, Zenon DEF MenuInv
<1>4. CASE ScanBls
  <2>1. disk' = disk /\ entries' = entries /\ dpc' = dpc /\ dpc = "bls"
    BY <1>4, Zenon DEF ScanBls
  <2>2. dpc' # "menu" /\ dpc' # "esp"
    BY <2>1
  <2> QED
    BY <1>2, <1>3, <2>1, <2>2, Zenon
<1>5. CASE ScanBlsDone
  <2>1. disk' = disk /\ entries' = entries /\ dpc' = "dedup"
    BY <1>5, Zenon DEF ScanBlsDone
  <2>2. dpc' # "menu" /\ dpc' # "esp"
    BY <2>1
  <2> QED
    BY <1>2, <1>3, <2>1, <2>2, Zenon
<1>6. CASE DedupBls
  <2> DEFINE kept == DedupBlsEntries(allBls)
             t == [k \in DOMAIN kept |-> ToBootEntry(kept[k])]
  <2>1. disk' = disk /\ entries' = t /\ dpc' = "iso"
    BY <1>6, Zenon DEF DedupBls
  <2>2. dpc' # "menu" /\ dpc' # "esp"
    BY <2>1
  <2>3. BlsList(kept)
    BY <1>1, DedupKeepsBls, Zenon
  <2> HIDE DEF kept
  <2>4. IsSeq(t) /\ DOMAIN t = DOMAIN kept
    <3>1. t = [k \in DOMAIN kept |-> t[k]]
      OBVIOUS
    <3> HIDE DEF t
    <3> QED
      BY <2>3, <3>1, Mapped, Zenon DEF BlsList
  <2>5. \A k \in DOMAIN t : t[k] = ToBootEntry(kept[k])
    BY <2>4, Zenon
  <2> HIDE DEF t
  <2>6. \A k \in DOMAIN t : Sound(t[k]) /\ t[k].file # <<>>
    BY <2>3, <2>4, <2>5, BlsSound, Zenon DEF BlsList
  <2>7. SoundList(t) /\ FilesFirst(t)
    BY <2>4, <2>6, Zenon DEF SoundList, FilesFirst
  <2> QED
    BY <1>3, <2>1, <2>2, <2>7, Zenon
<1>7. CASE DiscoverIso
  <2> DEFINE isos == Volumes[vol].isos
             t == [k \in DOMAIN isos |->
                     MenuEntry(<<"iso", isos[k]>>, "IsoFile", isos[k],
                               ExtractFilename(isos[k], "slash"), vol - 1)]
  <2>1. disk' = disk /\ entries' = entries \o t /\ dpc' = dpc /\ dpc = "iso" /\ vol <= Len(Volumes)
    BY <1>7, Zenon DEF DiscoverIso
  <2>2. dpc' # "menu" /\ dpc' # "esp"
    BY <2>1
  <2>3. vol \in DOMAIN Volumes
    <3>1. Listing(Volumes, Len(Volumes))
      BY <1>1, Lists, Zenon DEF DiskOk
    <3> QED
      BY <1>1, <2>1, <3>1 DEF Listing
  <2>4. Plain(t)
    BY <1>1, <2>3, IsoPlain, Zenon
  <2> HIDE DEF t
  <2>5. SoundList(entries \o t) /\ FilesFirst(entries \o t)
    BY <1>2, <2>4, JoinSound, Zenon
  <2> QED
    BY <1>3, <2>1, <2>2, <2>5, Zenon
<1>8. CASE DiscoverIsoDone
  <2>1. disk' = disk /\ entries' = entries /\ dpc' = "optical"
    BY <1>8, Zenon DEF DiscoverIsoDone
  <2>2. dpc' # "menu" /\ dpc' # "esp"
    BY <2>1
  <2> QED
    BY <1>2, <1>3, <2>1, <2>2, Zenon
<1>9. CASE DiscoverOptical
  <2> DEFINE labels == IF Policy.opticalEnabled THEN disk.optical ELSE <<>>
             t == [k \in DOMAIN labels |->
                     MenuEntry(<<"optical", labels[k]>>, "IsoOptical", NoPath,
                               <<"optical", labels[k]>>, 0)]
  <2>1. /\ disk' = disk /\ entries' = entries \o t
        /\ dpc' = IF Volumes = <<>> THEN "unique" ELSE "esp"
    BY <1>9, Zenon DEF DiscoverOptical
  <2>2. dpc' # "menu" /\ (dpc' = "esp" => Volumes # <<>>)
    BY <2>1
  <2>3. IsSeq(labels)
    <3>1. IsSeq(<<>>)
      BY EmptySeq, Zenon DEF IsSeq
    <3> QED
      BY <1>1, <3>1, Zenon DEF DiskOk
  <2> HIDE DEF labels
  <2>4. Plain(t)
    BY <2>3, OpticalPlain, Zenon
  <2> HIDE DEF t
  <2>5. SoundList(entries \o t) /\ FilesFirst(entries \o t)
    BY <1>2, <2>4, JoinSound, Zenon
  <2> QED
    BY <1>3, <2>1, <2>2, <2>5, Zenon
<1>10. CASE ScanEsp
  <2>1. /\ disk' = disk /\ dpc' = "unique" /\ dpc = "esp"
        /\ entries' = entries \o DiscoverWindows \o DiscoverLinuxUki \o DirStyle(Esp.dirs)
                              \o DiscoverOtherLoaders \o DiscoverTools
    BY <1>10, Zenon DEF ScanEsp
  <2>2. dpc' # "menu" /\ dpc' # "esp"
    BY <2>1
  <2>3. Volumes # <<>>
    BY <2>1, Zenon DEF MenuInv
  <2>4. SoundList(entries') /\ FilesFirst(entries')
    BY <1>1, <1>2, <2>1, <2>3, EspJoins, Zenon
  <2> QED
    BY <1>3, <2>1, <2>2, <2>4, Zenon
<1>11. CASE Unique
  <2>1. disk' = disk /\ candidates' = entries /\ entries' = DedupEntries(entries)
    BY <1>11, Zenon DEF Unique
  <2>2. SoundList(entries') /\ FilesFirst(entries') /\ Once(entries', candidates')
    BY <1>2, <2>1, DedupOnce, Zenon
  <2>3. SoundList(entries)' /\ FilesFirst(entries)'
    BY <2>1, <2>2, SoundStays, Zenon
  <2>4. Listed(entries', candidates')
    BY <1>2, <2>1, <2>2, Zenon DEF Listed, SoundList, Sound
  <2> QED
    <3>1. dpc' # "esp"
      BY <1>11 DEF Unique
    <3> QED
      BY <2>3, <2>4, <3>1, Zenon DEF MenuInv
<1> QED
  BY <1>4, <1>5, <1>6, <1>7, <1>8, <1>9, <1>10, <1>11, Zenon DEF DiscNext

\* t is s with x at the end.
Longer(t, s, x) ==
  /\ IsSeq(t) /\ Len(t) = Len(s) + 1 /\ DOMAIN t = 1 .. Len(s) + 1
  /\ t[Len(s) + 1] = x /\ \A k \in DOMAIN s : t[k] = s[k]

\* The list with one more element.
LEMMA Appended ==
  ASSUME NEW s, IsSeq(s), NEW x, NEW t, t = Append(s, x)
  PROVE  Longer(t, s, x)
<1> DEFINE S == Range(s) \cup {x}
<1>1. s \in Seq(S) /\ x \in S
  BY SeqMonotonic DEF IsSeq
<1> HIDE DEF S
<1>2. t \in Seq(S) /\ Len(t) = Len(s) + 1 /\ t[Len(s) + 1] = x /\ \A k \in 1 .. Len(s) : t[k] = s[k]
  BY <1>1, AppendProperties
<1>3. DOMAIN s = 1 .. Len(s) /\ Listing(t, Len(t))
  BY <1>2, Lists, ListOf, Zenon DEF Listing
<1> QED
  BY <1>2, <1>3, Zenon DEF Listing, Longer

\* The mark m and the file c are what MarksWhatBoots asks of the entry e.
Marked(e, m, c) ==
  e.kind = "LinuxLegacy" \/ (e.kind \in {"Chainload", "Uki"} /\ e.path \in Volumes[1].files) =>
    c = BootResolves(e) /\ (m = "error") = (BootResolves(e)[1] = 0)

\* MarksWhatBoots, entry by entry.
LEMMA MarkedUnfolds ==
  MarksWhatBoots <=> \A k \in DOMAIN marks : Marked(entries[k], marks[k], checked[k])
BY Zenon DEF MarksWhatBoots, Marked

\* What a mark must be depends on the disk alone.
LEMMA MarkedStays ==
  ASSUME disk' = disk
  PROVE  \A e, m, c : Marked(e, m, c)' <=> Marked(e, m, c)
<1>1. Volumes' = Volumes
  BY Zenon DEF Volumes
<1>2. \A e : BootResolves(e)' = BootResolves(e)
  BY <1>1, Zenon DEF BootResolves
<1> QED
  BY <1>1, <1>2, Zenon DEF Marked

\* The ESP is a volume like the others.
LEMMA FirstVolume ==
  ASSUME DiskOk, Volumes # <<>>
  PROVE  VolumeOk(Volumes[1])
<1>1. IsSeq(Volumes)
  BY Zenon DEF DiskOk
<1>2. Listing(Volumes, Len(Volumes)) /\ Volumes \in Seq(Range(Volumes))
  BY <1>1, Lists, Zenon
<1>3. Len(Volumes) # 0
  BY <1>2, EmptySeq
<1>4. 1 \in DOMAIN Volumes
  BY <1>2, <1>3 DEF Listing
<1> QED
  BY <1>4, Zenon DEF DiskOk

\* The mark that preflight gives a sound entry is about the file that boots.
LEMMA MarkNew ==
  ASSUME DiskOk, NEW e, Sound(e)
  PROVE  Marked(e, FromChecks(Checks(e)), IF e.path = NoPath THEN <<0, NoPath>> ELSE Resolved(e.path))
<1> SUFFICES ASSUME e.kind = "LinuxLegacy" \/ (e.kind \in {"Chainload", "Uki"} /\ e.path \in Volumes[1].files)
             PROVE  /\ (IF e.path = NoPath THEN <<0, NoPath>> ELSE Resolved(e.path)) = BootResolves(e)
                    /\ (FromChecks(Checks(e)) = "error") = (BootResolves(e)[1] = 0)
  BY Zenon DEF Marked
<1>1. e.kind \in {"Chainload", "Uki", "LinuxLegacy"}
  OBVIOUS
<1>2. Volumes # <<>>
  BY <1>1, Zenon DEF Sound
<1>3. NoPath \notin Volumes[1].files
  BY <1>2, FirstVolume, Zenon DEF VolumeOk
<1>4. e.path # NoPath
  BY <1>3, Zenon DEF Sound
<1>5. e.kind = "LinuxLegacy" \/ (e.kind # "LinuxLegacy" /\ e.path \in Volumes[1].files)
  BY Zenon
<1>6. Resolved(e.path) = BootResolves(e) /\ BootResolves(e)[1] = FirstWith(e.path)
  BY <1>2, <1>4, <1>5, ResolvesAlike
<1>7. (FromChecks(Checks(e)) = "error") = (FirstWith(e.path) = 0)
  BY <1>1, ChecksErr
<1> QED
  BY <1>4, <1>6, <1>7, Zenon

\* Discovery ends with the menu, and never changes the disk.
LEMMA NoDiscoveryAfterMenu ==
  ASSUME DiscNext
  PROVE  dpc # "menu" /\ disk' = disk
<1>1. \A p \in {"bls", "dedup", "iso", "optical", "esp", "unique"} : p # "menu"
  OBVIOUS
<1>2. dpc \in {"bls", "dedup", "iso", "optical", "esp", "unique"} /\ disk' = disk
  BY Zenon DEF DiscNext, ScanBls, ScanBlsDone, DedupBls, DiscoverIso, DiscoverIsoDone,
               DiscoverOptical, ScanEsp, Unique
<1> QED
  BY <1>1, <1>2, Zenon

\* Every step keeps MarksInv: preflight marks the next entry, and discovery does
\* not move once there are marks.
LEMMA MarksStep ==
  ASSUME BlsInv, MenuInv, MarksInv, PreflightNext
  PROVE  MarksInv'
<1>1. DiskOk /\ SoundList(entries)
  BY DiskFacts, Zenon DEF BlsInv, MenuInv
<1>2. IsSeq(marks) /\ IsSeq(checked) /\ Len(checked) = Len(marks)
  BY Zenon DEF MarksInv
<1>3. \A k \in DOMAIN marks : Marked(entries[k], marks[k], checked[k])
  BY MarkedUnfolds, Zenon DEF MarksInv
<1>4. CASE Discover
  <2>1. dpc # "menu" /\ marks' = marks /\ checked' = checked
    BY <1>4, NoDiscoveryAfterMenu, Zenon DEF Discover
  <2>2. marks' = <<>>
    BY <2>1, Zenon DEF MarksInv
  <2>3. DOMAIN <<>> = {}
    OBVIOUS
  <2>4. MarksWhatBoots'
    BY <2>2, <2>3, Zenon DEF MarksWhatBoots
  <2> QED
    BY <1>2, <2>1, <2>2, <2>4, Zenon DEF MarksInv
<1>5. CASE RunPreflight
  <2> DEFINE n == Len(marks)
             e == entries[n + 1]
             m == FromChecks(Checks(e))
             c == IF e.path = NoPath THEN <<0, NoPath>> ELSE Resolved(e.path)
  <2>1. /\ dpc = "menu" /\ n < Len(entries) /\ disk' = disk /\ dpc' = dpc /\ entries' = entries
        /\ \/ marks' = marks /\ checked' = checked
           \/ marks' = Append(marks, m) /\ checked' = Append(checked, c)
    BY <1>5, Zenon DEF RunPreflight, discVars
  <2>2. MarksWhatBoots' <=> \A k \in DOMAIN marks' : Marked(entries[k], marks'[k], checked'[k])
    <3>1. MarksWhatBoots' <=> \A k \in DOMAIN marks' : Marked(entries[k], marks[k], checked[k])'
      BY Zenon DEF MarksWhatBoots, Marked
    <3>2. \A k : Marked(entries[k], marks[k], checked[k])' <=> Marked(entries[k], marks'[k], checked'[k])
      BY <2>1, MarkedStays, Zenon
    <3> QED
      BY <3>1, <3>2, Zenon
  <2>3. CASE marks' = marks /\ checked' = checked
    <3>1. MarksWhatBoots'
      BY <1>3, <2>2, <2>3, Zenon
    <3> QED
      BY <1>2, <2>1, <2>3, <3>1, Zenon DEF MarksInv
  <2>4. CASE marks' = Append(marks, m) /\ checked' = Append(checked, c)
    <3>1. Listing(entries, Len(entries)) /\ n \in Nat
      BY <1>1, <1>2, Lists, Zenon DEF SoundList, Listing
    <3>2. n + 1 \in DOMAIN entries
      BY <2>1, <3>1 DEF Listing
    <3>3. Marked(e, m, c)
      BY <1>1, <3>2, MarkNew, Zenon DEF SoundList
    <3> HIDE DEF m, c, e
    <3>4. /\ IsSeq(marks') /\ Len(marks') = n + 1 /\ DOMAIN marks' = 1 .. n + 1
          /\ marks'[n + 1] = m /\ \A k \in DOMAIN marks : marks'[k] = marks[k]
      <4>1. Longer(marks', marks, m)
        BY <1>2, <2>4, Appended, Zenon
      <4> QED
        BY <4>1, Zenon DEF Longer
    <3>5. /\ IsSeq(checked') /\ Len(checked') = n + 1
          /\ checked'[n + 1] = c /\ \A k \in DOMAIN checked : checked'[k] = checked[k]
      <4>1. Longer(checked', checked, c)
        BY <1>2, <2>4, Appended, Zenon
      <4> QED
        BY <1>2, <4>1, Zenon DEF Longer
    <3>6. DOMAIN marks = 1 .. n /\ DOMAIN checked = 1 .. n
      BY <1>2, Lists, Zenon DEF Listing
    <3>7. \A k \in 1 .. n + 1 : k \in 1 .. n \/ k = n + 1
      BY <3>1
    <3>8. ASSUME NEW k \in DOMAIN marks' PROVE Marked(entries[k], marks'[k], checked'[k])
      <4>1. CASE k \in 1 .. n
        BY <1>3, <3>4, <3>5, <3>6, <4>1, Zenon
      <4>2. CASE k = n + 1
        BY <3>3, <3>4, <3>5, <4>2, Zenon DEF e
      <4> QED
        BY <3>4, <3>7, <4>1, <4>2, Zenon
    <3>9. MarksWhatBoots'
      BY <2>2, <3>8, Zenon
    <3> QED
      BY <2>1, <3>4, <3>5, <3>9, Zenon DEF MarksInv
  <2> QED
    BY <2>1, <2>3, <2>4, Zenon
<1> QED
  BY <1>4, <1>5, Zenon DEF PreflightNext
-----------------------------------------------------------------------------
(* The theorems *)

StartupInv == BlsInv /\ MenuInv /\ MarksInv

\* A step that leaves discovery's variables alone keeps its invariants.
LEMMA StartupStutter ==
  ASSUME StartupInv, UNCHANGED discVars
  PROVE  BlsInv' /\ MenuInv'
<1>1. /\ disk' = disk /\ dpc' = dpc /\ vol' = vol /\ allBls' = allBls
      /\ entries' = entries /\ candidates' = candidates
  BY Zenon DEF discVars
<1>2. /\ disk \in Disks /\ vol \in Nat \ {0} /\ BlsList(allBls)
      /\ SoundList(entries) /\ FilesFirst(entries)
      /\ dpc = "menu" => Listed(entries, candidates)
      /\ dpc = "esp" => Volumes # <<>>
      /\ dpc = "bls" => Before(allBls, vol) /\ BadLastIn(allBls)
  BY Zenon DEF StartupInv, BlsInv, MenuInv
<1>3. BlsList(allBls)'
  BY <1>1, <1>2, BlsStays, Zenon
<1>4. dpc' = "bls" => Before(allBls, vol)' /\ BadLastIn(allBls)'
  BY <1>1, <1>2, Zenon DEF Before, BadLastIn, Bad
<1>5. SoundList(entries)' /\ FilesFirst(entries)'
  BY <1>1, <1>2, SoundStays, Zenon
<1>6. dpc' = "menu" => Listed(entries', candidates')
  BY <1>1, <1>2, Zenon
<1>7. dpc' = "esp" => Volumes' # <<>>
  BY <1>1, <1>2, Zenon DEF Volumes
<1> QED
  BY <1>1, <1>2, <1>3, <1>4, <1>5, <1>6, <1>7, Zenon DEF BlsInv, MenuInv

\* StartupInv holds throughout discovery and preflight.
LEMMA StartupInvariant ==
  PreflightSpec => []StartupInv
<1>1. PreflightInit => StartupInv
  <2> SUFFICES ASSUME PreflightInit PROVE StartupInv
    OBVIOUS
  <2>1. DiscInit /\ marks = <<>> /\ checked = <<>>
    BY Zenon DEF PreflightInit
  <2>2. IsSeq(<<>>)
    BY EmptySeq, Zenon DEF IsSeq
  <2>3. DOMAIN <<>> = {}
    OBVIOUS
  <2>4. MarksWhatBoots
    BY <2>1, <2>3, Zenon DEF MarksWhatBoots
  <2>5. MarksInv
    BY <2>1, <2>2, <2>4, Zenon DEF MarksInv
  <2> QED
    BY <2>1, <2>5, BlsStart, Zenon DEF StartupInv
<1>2. StartupInv /\ [PreflightNext]_preflightVars => StartupInv'
  <2> SUFFICES ASSUME StartupInv, [PreflightNext]_preflightVars PROVE StartupInv'
    OBVIOUS
  <2>1. BlsInv /\ MenuInv /\ MarksInv
    BY Zenon DEF StartupInv
  <2>2. CASE Discover
    <3>1. DiscNext /\ PreflightNext
      BY <2>2, Zenon DEF Discover, PreflightNext
    <3>2. BlsInv'
      BY <2>1, <3>1, BlsStep, Zenon
    <3>3. MenuInv'
      BY <2>1, <3>1, MenuStep, Zenon
    <3>4. MarksInv'
      BY <2>1, <3>1, MarksStep, Zenon
    <3> QED
      BY <3>2, <3>3, <3>4, Zenon DEF StartupInv
  <2>3. CASE RunPreflight
    <3>1. UNCHANGED discVars /\ PreflightNext
      BY <2>3, Zenon DEF RunPreflight, PreflightNext
    <3>2. BlsInv' /\ MenuInv'
      BY <3>1, StartupStutter, Zenon
    <3>3. MarksInv'
      BY <2>1, <3>1, MarksStep, Zenon
    <3> QED
      BY <3>2, <3>3, Zenon DEF StartupInv
  <2>4. CASE UNCHANGED preflightVars
    <3>1. UNCHANGED discVars /\ marks' = marks /\ checked' = checked
      BY <2>4, Zenon DEF preflightVars
    <3>2. BlsInv' /\ MenuInv'
      BY <3>1, StartupStutter, Zenon
    <3>3. disk' = disk /\ dpc' = dpc /\ entries' = entries
      BY <3>1, Zenon DEF discVars
    <3>4. \A k \in DOMAIN marks' : Marked(entries[k], marks[k], checked[k])'
      <4>1. \A k \in DOMAIN marks : Marked(entries[k], marks[k], checked[k])
        BY <2>1, MarkedUnfolds, Zenon DEF MarksInv
      <4> QED
        BY <3>1, <3>3, <4>1, MarkedStays, Zenon
    <3>5. MarksWhatBoots'
      BY <3>4, Zenon DEF MarksWhatBoots, Marked
    <3>6. MarksInv'
      BY <2>1, <3>1, <3>3, <3>5, Zenon DEF MarksInv
    <3> QED
      BY <3>2, <3>6, Zenon DEF StartupInv
  <2> QED
    BY <2>2, <2>3, <2>4, Zenon DEF PreflightNext
<1> QED
  BY <1>1, <1>2, PTL DEF PreflightSpec

\* The order of the BLS entries of a volume does not depend on its directory.
LEMMA BlsOrderIsFixed ==
  ASSUME disk \in Disks
  PROVE  BlsOrderDeterministic
<1>1. DiskOk
  BY DiskFacts, Zenon
<1>2. ASSUME NEW i \in DOMAIN Volumes, Uniform(AcceptedOn(i)),
             IsInjective([k \in DOMAIN AcceptedOn(i) |-> <<AcceptedOn(i)[k].id, Bad(AcceptedOn(i)[k])>>]),
             NEW t \in Orders(AcceptedOn(i))
      PROVE  SortBls(t) = SortBls(AcceptedOn(i))
  <2> DEFINE v == Volumes[i]
             s == AcceptedOn(i)
  <2>1. IsSeq(v.confs) /\ \A j \in DOMAIN v.confs : ConfOk(v.confs[j])
    BY <1>1, Zenon DEF DiskOk, VolumeOk
  <2>2. s = Accepted(v.confs, v.initrds, i - 1)
    BY Zenon DEF AcceptedOn
  <2>3. IsSeq(s) /\ \A k \in DOMAIN s : \E j \in DOMAIN v.confs : From(s[k], v.confs[j], v.initrds, i - 1)
    BY <2>1, <2>2, AcceptedFacts, Zenon
  <2>4. \A k \in DOMAIN s : Numbered(s[k])
    <3> TAKE k \in DOMAIN s
    <3>1. PICK j \in DOMAIN v.confs : From(s[k], v.confs[j], v.initrds, i - 1)
      BY <2>3, Zenon
    <3> QED
      BY <2>1, <3>1, FromNumbered, Zenon
  <2> QED
    BY <1>2, <2>3, <2>4, SortBlsUnique, Zenon
<1> QED
  BY <1>2, Zenon DEF BlsOrderDeterministic

\* Whatever lies on the volumes, the menu's order is one of the entries: it
\* does not depend on the order of the directories, entries without tries left
\* stand last among those of their volume, and newer versions first
\* (bls_sort_compare, discover_systemd_boot_dir_style).
THEOREM MenuOrderedHolds ==
  PreflightSpec => []MenuOrdered
<1>1. StartupInv => MenuOrdered
  <2> SUFFICES ASSUME StartupInv PROVE MenuOrdered
    OBVIOUS
  <2>1. disk \in Disks /\ BlsList(allBls) /\ (dpc = "bls" => BadLastIn(allBls))
    BY Zenon DEF StartupInv, BlsInv
  <2>2. BadLast
    BY <2>1, Zenon DEF BadLast, BadLastIn
  <2>3. NewestFirstIfVersioned
    BY <2>1, Zenon DEF NewestFirstIfVersioned, NewestFirst, BlsList, NewestIn, Versioned
  <2>4. DirOrderDeterministic
    BY <2>1, DiskFacts, DirStyleUnique, Zenon DEF DirOrderDeterministic, DiskOk
  <2> QED
    BY <2>1, <2>2, <2>3, <2>4, BlsOrderIsFixed, Zenon DEF MenuOrdered
<1> QED
  BY <1>1, StartupInvariant, PTL

\* Every entry's volume holds the files it was made from, however the lists
\* were joined and thinned out, and an initrd that was searched for is the
\* kernel's (discover_all_entries, find_initrd).
THEOREM EntriesSoundHolds ==
  PreflightSpec => []EntriesSound
<1>1. StartupInv => EntriesSound
  <2> SUFFICES ASSUME StartupInv PROVE EntriesSound
    OBVIOUS
  <2>1. /\ \A k \in DOMAIN allBls : Sourced(allBls[k])
        /\ \A k \in DOMAIN entries : Sound(entries[k])
    BY Zenon DEF StartupInv, BlsInv, MenuInv, BlsList, SoundList
  <2>2. SourceVolumeHolds
    BY <2>1, Zenon DEF SourceVolumeHolds, Sound
  <2>3. InitrdFitsKernel
    <3> SUFFICES ASSUME NEW k \in DOMAIN allBls
                 PROVE  LET e == allBls[k]
                            v == Volumes[e.home + 1]
                        IN  \E i \in DOMAIN v.confs :
                              LET named == Values(v.confs[i].lines, "initrd")
                              IN  /\ v.confs[i].file = e.file
                                  /\ \/ e.initrd = named
                                     \/ /\ named = <<>>
                                        /\ \A j \in DOMAIN e.initrd :
                                             FitsKernel(e.initrd[j], e.linux, v.initrds)
      BY Zenon DEF InitrdFitsKernel
    <3> DEFINE e == allBls[k]
               v == Volumes[e.home + 1]
    <3>1. PICK i \in DOMAIN v.confs : From(e, v.confs[i], v.initrds, e.home)
      BY <2>1, Zenon DEF Sourced
    <3> HIDE DEF e
    <3> DEFINE named == Values(v.confs[i].lines, "initrd")
    <3>2. /\ e.file = v.confs[i].file
          /\ \/ e.initrd = named
             \/ named = <<>> /\ e.initrd = FindInitrd(e.linux, v.initrds)
      BY <3>1, FromInitrd, Zenon
    <3> HIDE DEF v, named
    <3>3. \/ e.initrd = named
          \/ named = <<>> /\ \A j \in DOMAIN e.initrd : FitsKernel(e.initrd[j], e.linux, v.initrds)
      BY <3>2, FindInitrdFits, Zenon
    <3> QED
      BY <3>2, <3>3, Zenon DEF e, v, named
  <2> QED
    BY <2>2, <2>3, Zenon DEF EntriesSound
<1> QED
  BY <1>1, StartupInvariant, PTL

\* In the menu, each file the scanners found is listed just once, by the entry
\* of a .conf file when there is one: dedup_entries compares keys, and two
\* entries have one key just when they are about one file, as far as the paths
\* are spelt alike (dedup_entries, extract_filename_lower).
THEOREM KernelOnceHolds ==
  PreflightSpec => []KernelOnce
<1>1. StartupInv => KernelOnce
  <2> SUFFICES ASSUME StartupInv, InMenu PROVE KernelOnce
    BY Zenon DEF KernelOnce
  <2>1. Listed(entries, candidates)
    BY Zenon DEF StartupInv, MenuInv, InMenu
  <2> QED
    BY <2>1, OnceByFile, Zenon DEF KernelOnce
<1> QED
  BY <1>1, StartupInvariant, PTL

\* Preflight's mark and the header it looked at are those of the file the boot
\* will read, on whatever volume that is (run_preflight, boot_linux).
THEOREM MarksWhatBootsHolds ==
  PreflightSpec => []MarksWhatBoots
<1>1. StartupInv => MarksWhatBoots
  BY Zenon DEF StartupInv, MarksInv
<1> QED
  BY <1>1, StartupInvariant, PTL
=============================================================================
