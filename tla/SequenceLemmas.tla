--------------------------- MODULE SequenceLemmas ---------------------------
(***************************************************************************)
(* Facts about numbers, sequences and functions defined by recursion that  *)
(* the proofs of several components use.                                   *)
(***************************************************************************)
EXTENDS Integers, Sequences, FiniteSetsExt, SequencesExt, WellFoundedInduction, TLAPS

-----------------------------------------------------------------------------
(* Numbers *)

(* A set of natural numbers that is not empty has a least one. *)
LEMMA LeastNatural ==
  ASSUME NEW T, T \subseteq Nat, T # {}
  PROVE  Min(T) \in T /\ \A y \in T : Min(T) <= y
<1> DEFINE R == OpToRel(<, Nat)
<1>1. IsWellFoundedOn(R, Nat)
  BY NatLessThanWellFounded
<1>2. \A x, y \in Nat : <<y, x>> \in R <=> y < x
  BY DEF OpToRel
<1> HIDE DEF R
<1>3. PICK x \in T : \A y \in T : ~(<<y, x>> \in R)
  BY <1>1, WFMin
<1>4. \A y \in T : ~(y < x)
  BY <1>2, <1>3
<1>5. \A y \in T : x <= y
  BY <1>4
<1>. QED  BY <1>5 DEF Min

(* A bounded one has a greatest. *)
LEMMA GreatestNatural ==
  ASSUME NEW m \in Nat, NEW T, T \subseteq 0 .. m, T # {}
  PROVE  Max(T) \in T /\ \A y \in T : y <= Max(T)
<1> DEFINE U == {n \in Nat : \A y \in T : y <= n}
<1>1. U \subseteq Nat /\ m \in U
  OBVIOUS
<1>2. Min(U) \in U /\ \A y \in U : Min(U) <= y
  <2> HIDE DEF U
  <2>. QED  BY <1>1, LeastNatural
<1> DEFINE x == Min(U)
<1>3. x \in Nat /\ (\A y \in T : y <= x) /\ \A n \in Nat : (\A y \in T : y <= n) => x <= n
  BY <1>2
<1> HIDE DEF x
<1>4. x \in T
  <2> SUFFICES ASSUME x \notin T PROVE FALSE
    OBVIOUS
  <2>1. \A y \in T : y \in Nat /\ y < x
    BY <1>3
  <2>3. PICK z : z \in T
    OBVIOUS
  <2>4. x - 1 \in Nat
    BY <1>3, <2>1, <2>3
  <2>2. x - 1 \in Nat /\ \A y \in T : y <= x - 1
    BY <1>3, <2>1, <2>4
  <2>. QED  BY <1>3, <2>2
<1>. QED  BY <1>3, <1>4 DEF Max

(* Induction up to m, for a property given as the set of its numbers *)
LEMMA UpTo ==
  ASSUME NEW m \in Nat, NEW S, 0 \in S, \A i \in 0 .. m - 1 : i \in S => i + 1 \in S
  PROVE  0 .. m \subseteq S
<1> SUFFICES ASSUME (0 .. m) \ S # {} PROVE FALSE
  OBVIOUS
<1> DEFINE T == (0 .. m) \ S
           x == Min(T)
<1>1. T \subseteq Nat /\ T # {}
  OBVIOUS
<1> HIDE DEF T
<1>2. x \in T /\ \A y \in T : x <= y
  BY <1>1, LeastNatural
<1> HIDE DEF x
<1> USE DEF T
<1>3. x # 0 /\ x - 1 \in 0 .. m - 1
  BY <1>2
<1>4. x - 1 \in S
  BY <1>2, <1>3
<1>. QED  BY <1>2, <1>3, <1>4

-----------------------------------------------------------------------------
(* Recursion *)

(* Values that start at x and go on by G *)
Iteration(f, m, S, x, G) ==
  f \in [0 .. m -> S] /\ f[0] = x /\ \A n \in 1 .. m : f[n] = G[<<n, f[n - 1]>>]

(* There are such values. *)
LEMMA Iterates ==
  ASSUME NEW m \in Nat, NEW S, NEW x \in S, NEW G \in [(1 .. m) \X S -> S]
  PROVE  \E f : Iteration(f, m, S, x, G)
<1> DEFINE Good(f, k) == f[0] = x /\ \A n \in 1 .. k : f[n] = G[<<n, f[n - 1]>>]
           K == {k \in 0 .. m : \E f \in [0 .. m -> S] : Good(f, k)}
<1>1. 0 \in K
  <2> DEFINE f == [n \in 0 .. m |-> x]
  <2>1. f \in [0 .. m -> S] /\ f[0] = x
    OBVIOUS
  <2> HIDE DEF f
  <2>2. Good(f, 0)
    BY <2>1
  <2>3. 0 \in 0 .. m
    OBVIOUS
  <2> HIDE DEF Good
  <2>. QED  BY <2>1, <2>2, <2>3
<1>2. ASSUME NEW k \in 0 .. m - 1, k \in K PROVE k + 1 \in K
  <2>1. PICK f \in [0 .. m -> S] : Good(f, k)
    BY <1>2
  <2> DEFINE v == G[<<k + 1, f[k]>>]
             g == [f EXCEPT ![k + 1] = v]
  <2>2. v \in S
    OBVIOUS
  <2> HIDE DEF v
  <2>3. g \in [0 .. m -> S] /\ g[k + 1] = v /\ \A n \in 0 .. k : g[n] = f[n]
    BY <2>2
  <2> HIDE DEF g
  <2>4. g[0] = x
    BY <2>1, <2>3
  <2>5. ASSUME NEW n \in 1 .. k + 1 PROVE g[n] = G[<<n, g[n - 1]>>]
    <3>1. CASE n = k + 1
      <4>1. n - 1 = k /\ k \in 0 .. k
        BY <3>1
      <4>. QED  BY <2>3, <3>1, <4>1 DEF v
    <3>2. CASE n # k + 1
      <4>1. n \in 1 .. k /\ n \in 0 .. k /\ n - 1 \in 0 .. k
        BY <3>2
      <4>. QED  BY <2>1, <2>3, <4>1
    <3>. QED  BY <3>1, <3>2
  <2>6. Good(g, k + 1)
    BY <2>4, <2>5
  <2> HIDE DEF Good
  <2>. QED  BY <2>3, <2>6
<1>3. 0 .. m \subseteq K
  <2> HIDE DEF K
  <2>. QED  BY <1>1, <1>2, UpTo
<1>4. m \in K
  <2> HIDE DEF K
  <2>. QED  BY <1>3
<1>. QED  BY <1>4 DEF Iteration

(* Values that each depend on all later ones, given by G *)
IterationDown(f, m, S, G) == f \in [1 .. m -> S] /\ \A n \in 1 .. m : f[n] = G[<<n, f>>]

(* The same from the end: a value may depend on all later ones. *)
LEMMA IteratesDown ==
  ASSUME NEW m \in Nat, NEW S, S # {}, NEW G \in [(1 .. m) \X [1 .. m -> S] -> S],
         \A n \in 1 .. m : \A f, g \in [1 .. m -> S] :
           (\A j \in n + 1 .. m : f[j] = g[j]) => G[<<n, f>>] = G[<<n, g>>]
  PROVE  \E f : IterationDown(f, m, S, G)
<1> DEFINE Good(f, k) == \A n \in (m - k) + 1 .. m : f[n] = G[<<n, f>>]
           K == {k \in 0 .. m : \E f \in [1 .. m -> S] : Good(f, k)}
<1>1. 0 \in K
  <2>1. PICK s : s \in S
    OBVIOUS
  <2> DEFINE f == [n \in 1 .. m |-> s]
  <2>2. f \in [1 .. m -> S]
    BY <2>1, Zenon
  <2> HIDE DEF f
  <2>3. Good(f, 0)
    <3>1. \A n \in (m - 0) + 1 .. m : FALSE
      OBVIOUS
    <3>. QED  BY <3>1
  <2>4. 0 \in 0 .. m
    OBVIOUS
  <2> HIDE DEF Good
  <2>. QED  BY <2>2, <2>3, <2>4
<1>2. ASSUME NEW k \in 0 .. m - 1, k \in K PROVE k + 1 \in K
  <2>1. PICK f \in [1 .. m -> S] : Good(f, k)
    BY <1>2
  <2> DEFINE i == m - k
             v == G[<<i, f>>]
             g == [f EXCEPT ![i] = v]
  <2>2. i \in 1 .. m /\ v \in S
    OBVIOUS
  <2> HIDE DEF v, i
  <2>3. g \in [1 .. m -> S] /\ g[i] = v /\ \A n \in i + 1 .. m : g[n] = f[n]
    BY <2>2
  <2> HIDE DEF g
  <2>5. ASSUME NEW n \in i .. m PROVE g[n] = G[<<n, g>>]
    <3>1. \A j \in n + 1 .. m : g[j] = f[j]
      BY <2>2, <2>3
    <3>2. G[<<n, f>>] = G[<<n, g>>]
      <4>1. n \in 1 .. m
        BY <2>2
      <4>2. \A j \in n + 1 .. m : f[j] = g[j]
        BY <3>1
      <4>. QED  BY <2>3, <4>1, <4>2
    <3>3. CASE n = i
      BY <2>3, <3>2, <3>3 DEF v
    <3>4. CASE n # i
      <4>1. n \in i + 1 .. m /\ n \in (m - k) + 1 .. m
        BY <2>2, <3>4 DEF i
      <4>. QED  BY <2>1, <2>3, <3>2, <4>1
    <3>. QED  BY <3>3, <3>4
  <2>6. (m - (k + 1)) + 1 = i
    BY DEF i
  <2>7. Good(g, k + 1)
    BY <2>5, <2>6
  <2> HIDE DEF Good
  <2>. QED  BY <2>3, <2>7
<1>3. 0 .. m \subseteq K
  <2> HIDE DEF K
  <2>. QED  BY <1>1, <1>2, UpTo
<1>4. m \in K
  <2> HIDE DEF K
  <2>. QED  BY <1>3
<1>5. PICK f \in [1 .. m -> S] : Good(f, m)
  BY <1>4
<1>6. (m - m) + 1 = 1
  OBVIOUS
<1>. QED  BY <1>5, <1>6 DEF IterationDown

(* What each step keeps, the last value has. *)
LEMMA Stays ==
  ASSUME NEW m \in Nat, NEW S, NEW z, z[0] \in S, \A n \in 1 .. m : z[n - 1] \in S => z[n] \in S
  PROVE  \A n \in 0 .. m : z[n] \in S
<1> DEFINE E == {n \in 0 .. m : z[n] \in S}
<1>1. 0 \in E
  OBVIOUS
<1>2. ASSUME NEW i \in 0 .. m - 1, i \in E PROVE i + 1 \in E
  <2>1. i + 1 \in 1 .. m /\ (i + 1) - 1 = i /\ i + 1 \in 0 .. m
    OBVIOUS
  <2>. QED  BY <1>2, <2>1
<1>3. 0 .. m \subseteq E
  <2> HIDE DEF E
  <2>. QED  BY <1>1, <1>2, UpTo
<1>. QED  BY <1>3

(* The same from the end *)
LEMMA StaysDown ==
  ASSUME NEW m \in Nat, NEW S, NEW z, \A n \in 1 .. m : (\A j \in n + 1 .. m : z[j] \in S) => z[n] \in S
  PROVE  \A n \in 1 .. m : z[n] \in S
<1> DEFINE E == {k \in 0 .. m : \A j \in (m - k) + 1 .. m : z[j] \in S}
<1>1. 0 \in E
  OBVIOUS
<1>2. ASSUME NEW k \in 0 .. m - 1, k \in E PROVE k + 1 \in E
  <2>1. m - k \in 1 .. m /\ (m - (k + 1)) + 1 = m - k /\ k + 1 \in 0 .. m
    OBVIOUS
  <2>2. \A j \in (m - k) + 1 .. m : z[j] \in S
    BY <1>2
  <2>3. z[m - k] \in S
    BY <2>1, <2>2
  <2>4. \A j \in m - k .. m : j = m - k \/ j \in (m - k) + 1 .. m
    OBVIOUS
  <2>. QED  BY <2>1, <2>2, <2>3, <2>4
<1>3. 0 .. m \subseteq E
  <2> HIDE DEF E
  <2>. QED  BY <1>1, <1>2, UpTo
<1>4. m \in E /\ (m - m) + 1 = 1
  <2> HIDE DEF E
  <2>. QED  BY <1>3
<1>. QED  BY <1>4

-----------------------------------------------------------------------------
(* Sequences *)

LEMMA Concat ==
  ASSUME NEW S, NEW u \in Seq(S), NEW v \in Seq(S)
  PROVE  /\ u \o v \in Seq(S) /\ Len(u \o v) = Len(u) + Len(v)
         /\ \A i \in 1 .. Len(u) : (u \o v)[i] = u[i]
         /\ \A i \in Len(u) + 1 .. Len(u) + Len(v) : (u \o v)[i] = v[i - Len(u)]
  OBVIOUS

LEMMA IsSequence ==
  ASSUME NEW S, NEW m \in Nat, NEW f \in [1 .. m -> S]
  PROVE  f \in Seq(S) /\ Len(f) = m
  OBVIOUS

(* The elements of two sequences together are those of both. *)
LEMMA ConcatElements ==
  ASSUME NEW S, NEW u \in Seq(S), NEW v \in Seq(S)
  PROVE  Range(u \o v) = Range(u) \cup Range(v)
<1> DEFINE w == u \o v
<1>1. /\ w \in Seq(S) /\ Len(w) = Len(u) + Len(v)
      /\ \A i \in 1 .. Len(u) : w[i] = u[i]
      /\ \A i \in Len(u) + 1 .. Len(u) + Len(v) : w[i] = v[i - Len(u)]
  BY Concat
<1> HIDE DEF w
<1>2. Len(u) \in Nat /\ Len(v) \in Nat /\ DOMAIN u = 1 .. Len(u) /\ DOMAIN v = 1 .. Len(v)
      /\ DOMAIN w = 1 .. Len(u) + Len(v)
  BY <1>1
<1>3. ASSUME NEW i \in DOMAIN u PROVE \E j \in DOMAIN w : w[j] = u[i]
  BY <1>1, <1>2
<1>4. ASSUME NEW i \in DOMAIN v PROVE \E j \in DOMAIN w : w[j] = v[i]
  <2>1. i + Len(u) \in Len(u) + 1 .. Len(u) + Len(v) /\ (i + Len(u)) - Len(u) = i
    BY <1>2
  <2>2. w[i + Len(u)] = v[i] /\ i + Len(u) \in DOMAIN w
    BY <1>1, <1>2, <2>1
  <2>. QED  BY <2>2
<1>5. ASSUME NEW j \in DOMAIN w
      PROVE  (\E i \in DOMAIN u : w[j] = u[i]) \/ \E i \in DOMAIN v : w[j] = v[i]
  <2>1. CASE j <= Len(u)
    BY <1>1, <1>2, <2>1
  <2>2. CASE ~(j <= Len(u))
    <3>1. j \in Len(u) + 1 .. Len(u) + Len(v) /\ j - Len(u) \in DOMAIN v
      BY <1>2, <2>2
    <3>. QED  BY <1>1, <3>1
  <2>. QED  BY <2>1, <2>2
<1>6. Range(w) = Range(u) \cup Range(v)
  BY <1>3, <1>4, <1>5 DEF Range
<1>. QED  BY <1>6 DEF w

(* The elements of sequences put one after another are theirs. *)
LEMMA Flatten ==
  ASSUME NEW S, NEW m \in Nat, NEW u \in [1 .. m -> Seq(S)]
  PROVE  FlattenSeq(u) \in Seq(S) /\ Range(FlattenSeq(u)) = UNION {Range(u[i]) : i \in 1 .. m}
<1>0. u \in Seq(Seq(S)) /\ Len(u) = m
  BY IsSequence
<1>1. CASE m = 0
  <2>1. FlattenSeq(u) = u /\ u = <<>> /\ 1 .. m = {}
    BY <1>0, <1>1 DEF FlattenSeq
  <2>. QED  BY <2>1 DEF Range
<1>2. CASE m # 0
  <2> DEFINE T == Seq(S)
             e == <<>>
             G == [p \in (1 .. m) \X T |-> IF p[1] = 1 THEN u[p[1]] ELSE p[2] \o u[p[1]]]
             F(y) == [i \in 1 .. m |-> IF i = 1 THEN u[i] ELSE y[i - 1] \o u[i]]
             z == CHOOSE y : y = F(y)
  <2>1. G \in [(1 .. m) \X T -> T] /\ e \in T
    <3> SUFFICES ASSUME NEW p \in (1 .. m) \X T
                 PROVE  (IF p[1] = 1 THEN u[p[1]] ELSE p[2] \o u[p[1]]) \in T
      OBVIOUS
    <3>1. p[1] \in 1 .. m /\ p[2] \in Seq(S) /\ u[p[1]] \in Seq(S)
      OBVIOUS
    <3>. QED  BY <3>1, Concat
  <2>2. \A n \in 1 .. m : \A s \in T : G[<<n, s>>] = IF n = 1 THEN u[n] ELSE s \o u[n]
    OBVIOUS
  <2> HIDE DEF G, T, e
  <2>3. PICK f : Iteration(f, m, T, e, G)
    BY <2>1, Iterates
  <2>4. \A n \in 1 .. m : f[n] = IF n = 1 THEN u[n] ELSE f[n - 1] \o u[n]
    <3> SUFFICES ASSUME NEW n \in 1 .. m PROVE f[n] = IF n = 1 THEN u[n] ELSE f[n - 1] \o u[n]
      OBVIOUS
    <3>1. n - 1 \in 0 .. m
      OBVIOUS
    <3>2. f[n - 1] \in T /\ f[n] = G[<<n, f[n - 1]>>]
      BY <2>3, <3>1 DEF Iteration
    <3>. QED  BY <2>2, <3>2
  <2> DEFINE h == [i \in 1 .. m |-> f[i]]
  <2>5. h = F(h)
    <3>1. \A i \in 1 .. m : (IF i = 1 THEN u[i] ELSE f[i - 1] \o u[i]) = (IF i = 1 THEN u[i] ELSE h[i - 1] \o u[i])
      OBVIOUS
    <3>2. \A i \in 1 .. m : f[i] = IF i = 1 THEN u[i] ELSE h[i - 1] \o u[i]
      BY <2>4, <3>1
    <3>. QED  BY <3>2, Zenon
  <2>6. z = F(z)
    <3> HIDE DEF F
    <3>. QED  BY <2>5
  <2>7. FlattenSeq(u) = z[m]
    BY <1>0, <1>2 DEF FlattenSeq
  <2> HIDE DEF z, h
  <2>8. \A n \in 1 .. m : z[n] = IF n = 1 THEN u[n] ELSE z[n - 1] \o u[n]
    BY <2>6
  <2> HIDE DEF F
  <2> DEFINE R(n) == UNION {Range(u[i]) : i \in 1 .. n}
             E == {n \in 0 .. m : n = 0 \/ (z[n] \in Seq(S) /\ Range(z[n]) = R(n))}
  <2>9. 0 \in E
    OBVIOUS
  <2>10. ASSUME NEW n \in 0 .. m - 1, n \in E PROVE n + 1 \in E
    <3>1. n + 1 \in 1 .. m /\ n + 1 \in 0 .. m /\ (n + 1) - 1 = n
      OBVIOUS
    <3>2. u[n + 1] \in Seq(S)
      BY <3>1
    <3>3. CASE n = 0
      <4>1. z[n + 1] = u[1] /\ n + 1 = 1 /\ 1 .. 1 = {1} /\ 1 \in 1 .. m
        BY <2>8, <3>1, <3>3
      <4>2. R(1) = Range(u[1])
        BY <4>1
      <4> HIDE DEF R
      <4>. QED  BY <3>1, <4>1, <4>2
    <3>4. CASE n # 0
      <4>1. z[n] \in Seq(S) /\ Range(z[n]) = R(n)
        BY <2>10, <3>4
      <4>2. n + 1 # 1
        BY <3>4
      <4>3. z[n + 1] = z[(n + 1) - 1] \o u[n + 1]
        BY <2>8, <3>1, <4>2
      <4>4. z[n + 1] = z[n] \o u[n + 1]
        BY <3>1, <4>3
      <4>5. z[n] \o u[n + 1] \in Seq(S)
        BY <3>2, <4>1, Concat
      <4>6. Range(z[n] \o u[n + 1]) = Range(z[n]) \cup Range(u[n + 1])
        BY <3>2, <4>1, ConcatElements
      <4>7. 1 .. n + 1 = (1 .. n) \cup {n + 1}
        OBVIOUS
      <4>8. R(n + 1) = R(n) \cup Range(u[n + 1])
        BY <4>7, Zenon
      <4> HIDE DEF R
      <4>. QED  BY <3>1, <4>1, <4>4, <4>5, <4>6, <4>8
    <3>. QED  BY <3>3, <3>4
  <2>11. 0 .. m \subseteq E
    <3> HIDE DEF E
    <3>. QED  BY <2>9, <2>10, UpTo
  <2>12. m \in 0 .. m
    OBVIOUS
  <2>13. z[m] \in Seq(S) /\ Range(z[m]) = R(m)
    <3> HIDE DEF R
    <3>. QED  BY <1>2, <2>11, <2>12
  <2>. QED  BY <2>7, <2>13
<1>. QED  BY <1>1, <1>2

(* w is u with x at m. *)
Inserted(w, u, m, x) ==
  /\ Len(w) = Len(u) + 1 /\ w[m] = x
  /\ \A i \in 1 .. m - 1 : w[i] = u[i]
  /\ \A i \in m + 1 .. Len(u) + 1 : w[i] = u[i - 1]

(* InsertAt puts an element between the ones that are there. *)
LEMMA InsertionPlaces ==
  ASSUME NEW S, NEW u \in Seq(S), NEW m \in 1 .. Len(u) + 1, NEW x \in S
  PROVE  InsertAt(u, m, x) \in Seq(S) /\ Inserted(InsertAt(u, m, x), u, m, x)
<1> DEFINE f == SubSeq(u, 1, m - 1)
           t == SubSeq(u, m, Len(u))
           w == (f \o <<x>>) \o t
<1>1. /\ f \in Seq(S) /\ Len(f) = m - 1 /\ \A i \in 1 .. m - 1 : f[i] = u[i]
      /\ t \in Seq(S) /\ Len(t) = Len(u) - m + 1 /\ \A i \in 1 .. Len(u) - m + 1 : t[i] = u[i + m - 1]
  OBVIOUS
<1>2. InsertAt(u, m, x) = w
  BY DEF InsertAt
<1> HIDE DEF f, t
<1> DEFINE v == <<x>>
           g == f \o v
<1>3. v \in Seq(S) /\ Len(v) = 1 /\ v[1] = x
  OBVIOUS
<1> HIDE DEF v
<1>8. g \in Seq(S) /\ Len(g) = m /\ g[m] = x /\ \A i \in 1 .. m - 1 : g[i] = u[i]
  <2>1. /\ g \in Seq(S) /\ Len(g) = Len(f) + Len(v)
        /\ \A i \in 1 .. Len(f) : g[i] = f[i]
        /\ \A i \in Len(f) + 1 .. Len(f) + Len(v) : g[i] = v[i - Len(f)]
    <3>1. f \in Seq(S) /\ v \in Seq(S)
      BY <1>1, <1>3
    <3>. QED  BY <3>1, Concat
  <2> HIDE DEF g
  <2>2. Len(g) = m /\ m \in Len(f) + 1 .. Len(f) + Len(v) /\ m - Len(f) = 1
    BY <1>1, <1>3, <2>1
  <2>3. g[m] = v[1]
    BY <2>1, <2>2
  <2>. QED  BY <1>1, <1>3, <2>1, <2>2, <2>3
<1>4. /\ w \in Seq(S) /\ Len(w) = Len(u) + 1 /\ w[m] = x
      /\ \A i \in 1 .. m - 1 : w[i] = u[i]
      /\ \A i \in m + 1 .. Len(u) + 1 : w[i] = u[i - 1]
  <2>1. w = g \o t
    BY DEF v
  <2> HIDE DEF g
  <2>2. /\ g \o t \in Seq(S) /\ Len(g \o t) = Len(g) + Len(t)
        /\ \A i \in 1 .. Len(g) : (g \o t)[i] = g[i]
        /\ \A i \in Len(g) + 1 .. Len(g) + Len(t) : (g \o t)[i] = t[i - Len(g)]
    BY <1>1, <1>8, Concat
  <2> HIDE DEF w
  <2>3. w \in Seq(S) /\ Len(w) = Len(u) + 1
    BY <1>1, <1>8, <2>1, <2>2
  <2>4. \A i \in 1 .. m : w[i] = g[i]
    BY <1>8, <2>1, <2>2
  <2>5. ASSUME NEW i \in m + 1 .. Len(u) + 1 PROVE w[i] = u[i - 1]
    <3>1. w[i] = t[i - m]
      BY <1>1, <1>8, <2>1, <2>2
    <3>2. i - m \in 1 .. Len(u) - m + 1 /\ (i - m) + m - 1 = i - 1
      OBVIOUS
    <3>3. t[i - m] = u[(i - m) + m - 1]
      BY <1>1, <3>2
    <3>. QED  BY <3>1, <3>2, <3>3
  <2>. QED  BY <1>8, <2>3, <2>4, <2>5
<1>. QED  BY <1>2, <1>4 DEF Inserted

(* Its elements are theirs and the new one. *)
LEMMA Insertion ==
  ASSUME NEW S, NEW u \in Seq(S), NEW m \in 1 .. Len(u) + 1, NEW x \in S
  PROVE  /\ InsertAt(u, m, x) \in Seq(S)
         /\ \A i \in DOMAIN u : \E j \in DOMAIN InsertAt(u, m, x) : InsertAt(u, m, x)[j] = u[i]
         /\ \E j \in DOMAIN InsertAt(u, m, x) : InsertAt(u, m, x)[j] = x
         /\ \A j \in DOMAIN InsertAt(u, m, x) :
              InsertAt(u, m, x)[j] = x \/ \E i \in DOMAIN u : InsertAt(u, m, x)[j] = u[i]
<1> DEFINE w == InsertAt(u, m, x)
<1>4. /\ w \in Seq(S) /\ Len(w) = Len(u) + 1 /\ w[m] = x
      /\ \A i \in 1 .. m - 1 : w[i] = u[i]
      /\ \A i \in m + 1 .. Len(u) + 1 : w[i] = u[i - 1]
  <2>1. w \in Seq(S) /\ Inserted(w, u, m, x)
    BY InsertionPlaces
  <2> HIDE DEF w
  <2>. QED  BY <2>1 DEF Inserted
<1> HIDE DEF w
<1>5. ASSUME NEW i \in DOMAIN u PROVE \E j \in DOMAIN w : w[j] = u[i]
  <2>1. CASE i < m
    BY <1>4, <2>1
  <2>2. CASE i >= m
    <3>1. i + 1 \in DOMAIN w /\ w[i + 1] = u[i]
      BY <1>4, <2>2
    <3>. QED  BY <3>1
  <2>. QED  BY <2>1, <2>2
<1>6. ASSUME NEW j \in DOMAIN w PROVE w[j] = x \/ \E i \in DOMAIN u : w[j] = u[i]
  <2>1. CASE j < m
    BY <1>4, <2>1
  <2>2. CASE j > m
    <3>1. j - 1 \in DOMAIN u /\ w[j] = u[j - 1]
      BY <1>4, <2>2
    <3>. QED  BY <3>1
  <2>3. CASE j = m
    BY <1>4, <2>3
  <2>. QED  BY <1>4, <2>1, <2>2, <2>3
<1>7. m \in DOMAIN w
  BY <1>4
<1>. QED  BY <1>4, <1>5, <1>6, <1>7 DEF w

=============================================================================
