--------------------------- MODULE DmhcHashProofs ---------------------------
(***************************************************************************)
(* The hash functions of the dMHC for every permutation, every number of   *)
(* bits and every table: the walk reaches every bit once, and the fold     *)
(* keeps to the bits that index the table.                                 *)
(***************************************************************************)
EXTENDS DmhcHash, FiniteSetTheorems, SequenceLemmas

(* The walk of compute_hash from x to y: p follows the permutation and is  *)
(* outside the bit vector in between.                                      *)
Path(p, k, x, y) ==
  /\ k \in Nat \ {0} /\ p \in [0 .. k -> DOMAIN perm]
  /\ p[0] = x /\ p[k] = y
  /\ \A j \in 0 .. k - 1 : p[j + 1] = perm[p[j]]
  /\ \A j \in 1 .. k - 1 : p[j] >= num_fields

Leads(x, y) == \E k, p : Path(p, k, x, y)

(* What compute_hash is called with *)
Args == /\ num_fields \in Nat \ {0} /\ fields \in [0 .. num_fields - 1 -> 0 .. 1]
        /\ \E m \in Nat : /\ DOMAIN perm = 0 .. m - 1 /\ num_fields <= m
                          /\ perm \in Permutation(m)

(* The inductive invariant: the bits taken so far are those the walks from *)
(* their places end at, and tmp is on the walk from i.                     *)
WalkInv ==
  /\ Args
  /\ pc \in {"walk", "fold", "done"}
  /\ pc = "walk" => /\ i \in 0 .. num_fields - 1 /\ tmp \in DOMAIN perm /\ Leads(i, tmp)
                    /\ sized_perm \in [0 .. i - 1 -> 0 .. num_fields - 1]
                    /\ \A x \in 0 .. i - 1 : Leads(x, sized_perm[x])
  /\ pc # "walk" => /\ sized_perm \in [0 .. num_fields - 1 -> 0 .. num_fields - 1]
                    /\ \A x \in 0 .. num_fields - 1 : Leads(x, sized_perm[x])

LEMMA PermFacts ==
  ASSUME Args
  PROVE  /\ DOMAIN perm \subseteq Nat
         /\ 0 .. num_fields - 1 \subseteq DOMAIN perm
         /\ perm \in [DOMAIN perm -> DOMAIN perm]
         /\ \A x, y \in DOMAIN perm : perm[x] = perm[y] => x = y
<1>1. PICK m \in Nat : /\ DOMAIN perm = 0 .. m - 1 /\ num_fields <= m
                       /\ perm \in Permutation(m)
  BY DEF Args
<1>2. /\ perm \in [0 .. m - 1 -> 0 .. m - 1]
      /\ \A x, y \in 0 .. m - 1 : perm[x] = perm[y] => x = y
  BY <1>1 DEF Permutation
<1>3. num_fields \in Nat /\ num_fields <= m /\ DOMAIN perm = 0 .. m - 1
  BY <1>1 DEF Args
<1>4. 0 .. m - 1 \subseteq Nat /\ 0 .. num_fields - 1 \subseteq 0 .. m - 1
  BY <1>3
<1>. QED  BY <1>2, <1>3, <1>4, Zenon

LEMMA FirstStep ==
  ASSUME Args, NEW x \in 0 .. num_fields - 1
  PROVE  perm[x] \in DOMAIN perm /\ Leads(x, perm[x])
<1> DEFINE p == [j \in 0 .. 1 |-> IF j = 0 THEN x ELSE perm[x]]
<1>1. x \in DOMAIN perm /\ perm[x] \in DOMAIN perm
  BY PermFacts
<1>2. p \in [0 .. 1 -> DOMAIN perm] /\ p[0] = x /\ p[1] = perm[x]
  BY <1>1
<1> HIDE DEF p
<1>3. Path(p, 1, x, perm[x])
  BY <1>2 DEF Path
<1>. QED  BY <1>1, <1>2, <1>3 DEF Leads

LEMMA NextStep ==
  ASSUME Args, NEW x, NEW y \in DOMAIN perm, Leads(x, y), y >= num_fields
  PROVE  perm[y] \in DOMAIN perm /\ Leads(x, perm[y])
<1>1. PICK k, p : Path(p, k, x, y)
  BY DEF Leads
<1>6. k \in Nat /\ p \in [0 .. k -> DOMAIN perm]
  BY <1>1 DEF Path
<1> DEFINE q == [j \in 0 .. k + 1 |-> IF j = k + 1 THEN perm[y] ELSE p[j]]
<1>2. perm[y] \in DOMAIN perm
  BY PermFacts
<1>3. q \in [0 .. k + 1 -> DOMAIN perm]
  BY <1>2, <1>6
<1>4. q[k + 1] = perm[y] /\ \A j \in 0 .. k : q[j] = p[j]
  BY <1>6
<1> HIDE DEF q
<1>5. Path(q, k + 1, x, perm[y])
  <2>1. k \in Nat \ {0} /\ p[0] = x /\ p[k] = y
    BY <1>1 DEF Path
  <2>2. ASSUME NEW j \in 0 .. (k + 1) - 1 PROVE q[j + 1] = perm[q[j]]
    <3>1. CASE j = k
      BY <1>4, <2>1, <3>1
    <3>2. CASE j # k
      <4>1. j \in 0 .. k - 1 /\ j \in 0 .. k /\ j + 1 \in 0 .. k
        BY <2>1, <3>2
      <4>. QED  BY <1>1, <1>4, <4>1 DEF Path
    <3>. QED  BY <3>1, <3>2
  <2>3. ASSUME NEW j \in 1 .. (k + 1) - 1 PROVE q[j] >= num_fields
    <3>1. CASE j = k
      BY <1>4, <2>1, <3>1
    <3>2. CASE j # k
      <4>1. j \in 1 .. k - 1 /\ j \in 0 .. k
        BY <2>1, <3>2
      <4>. QED  BY <1>1, <1>4, <4>1 DEF Path
    <3>. QED  BY <3>1, <3>2
  <2>4. q[0] = x
    BY <1>4, <2>1
  <2>. QED  BY <1>3, <1>4, <2>1, <2>2, <2>3, <2>4 DEF Path
<1>. QED  BY <1>2, <1>3, <1>5 DEF Leads

(* Two walks to the same place, followed backwards, are the same as far as *)
(* the shorter one goes.                                                   *)
LEMMA Backwards ==
  ASSUME Args, NEW k \in Nat, NEW p, NEW l \in Nat, NEW q, NEW x, NEW y, NEW t,
         Path(p, k, x, t), Path(q, l, y, t), k <= l
  PROVE  p[0] = q[l - k]
<1> DEFINE S == {j \in 0 .. k : p[k - j] = q[l - j]}
<1>1. 0 \in S
  BY DEF Path
<1>2. \A j \in 0 .. k - 1 : j \in S => j + 1 \in S
  <2> SUFFICES ASSUME NEW j \in 0 .. k - 1, p[k - j] = q[l - j]
               PROVE  p[k - (j + 1)] = q[l - (j + 1)]
    OBVIOUS
  <2> DEFINE a == k - (j + 1)
             b == l - (j + 1)
  <2>1. a \in 0 .. k - 1 /\ b \in 0 .. l - 1 /\ a + 1 = k - j /\ b + 1 = l - j
    OBVIOUS
  <2> HIDE DEF a, b
  <2>2. p[a + 1] = perm[p[a]] /\ q[b + 1] = perm[q[b]]
    BY <2>1 DEF Path
  <2>3. p[a] \in DOMAIN perm /\ q[b] \in DOMAIN perm
    BY <2>1 DEF Path
  <2>4. p[a] = q[b]
    BY <2>1, <2>2, <2>3, PermFacts
  <2>. QED  BY <2>4 DEF a, b
<1>3. 0 .. k \subseteq S
  <2> HIDE DEF S
  <2>. QED  BY <1>1, <1>2, UpTo
<1>4. k \in S
  <2> HIDE DEF S
  <2>. QED  BY <1>3
<1>. QED  BY <1>4

(* No two walks from bits of the vector end at the same bit. *)
LEMMA WalksApart ==
  ASSUME Args, NEW x \in 0 .. num_fields - 1, NEW y \in 0 .. num_fields - 1, NEW t,
         Leads(x, t), Leads(y, t)
  PROVE  x = y
<1>1. ASSUME NEW k, NEW p, NEW l, NEW q, NEW u \in 0 .. num_fields - 1, NEW v,
             Path(p, k, u, t), Path(q, l, v, t), k <= l
      PROVE  u = v
  <2>1. k \in Nat \ {0} /\ l \in Nat \ {0} /\ p[0] = u /\ q[0] = v
    BY <1>1 DEF Path
  <2>2. p[0] = q[l - k]
    BY <1>1, <2>1, Backwards
  <2>3. CASE k = l
    BY <2>1, <2>2, <2>3
  <2>4. CASE k < l
    <3>1. l - k \in 1 .. l - 1
      BY <2>1, <2>4
    <3>2. q[l - k] >= num_fields
      BY <1>1, <3>1 DEF Path
    <3>. QED  BY <2>1, <2>2, <3>2 DEF Args
  <2>. QED  BY <1>1, <2>1, <2>3, <2>4
<1>2. PICK k, p : Path(p, k, x, t)
  BY DEF Leads
<1>3. PICK l, q : Path(q, l, y, t)
  BY DEF Leads
<1>4. k \in Nat /\ l \in Nat
  BY <1>2, <1>3 DEF Path
<1>5. CASE k <= l
  BY <1>1, <1>2, <1>3, <1>5
<1>6. CASE l <= k
  BY <1>1, <1>2, <1>3, <1>6
<1>. QED  BY <1>4, <1>5, <1>6

-----------------------------------------------------------------------------
LEMMA InitArgs == Init => Args
<1> SUFFICES ASSUME Init PROVE Args
  OBVIOUS
<1>1. PICK c \in Cases : perm = c.perm /\ fields = c.fields
  BY DEF Init
<1> DEFINE m == Cardinality(DOMAIN perm)
<1>2. m \in Nat /\ perm \in Permutation(m)
  BY <1>1, HashAssumption, FS_CardinalityType
<1>3. PICK n \in 1 .. m : fields \in [0 .. n - 1 -> 0 .. 1]
  BY <1>1, HashAssumption
<1> HIDE DEF m
<1>4. DOMAIN perm = 0 .. m - 1
  BY <1>2 DEF Permutation
<1>5. num_fields = n
  <2>1. n \in Nat
    BY <1>2, <1>3
  <2>2. Cardinality(0 .. n - 1) = n
    BY <2>1, FS_Interval
  <2>. QED  BY <1>3, <2>2 DEF num_fields
<1>. QED  BY <1>2, <1>3, <1>4, <1>5 DEF Args

LEMMA KeepArgs == Args /\ UNCHANGED args => Args' /\ \A x, y : Leads(x, y) => Leads(x, y)'
  BY DEF Args, args, num_fields, Leads, Path

LEMMA WalkInvInit == Init => WalkInv
<1> SUFFICES ASSUME Init PROVE WalkInv
  OBVIOUS
<1>1. Args
  BY InitArgs
<1>2. 0 \in 0 .. num_fields - 1
  BY <1>1 DEF Args
<1>3. tmp = perm[0] /\ i = 0 /\ pc = "walk" /\ sized_perm = << >>
  BY DEF Init
<1>4. tmp \in DOMAIN perm /\ Leads(i, tmp)
  BY <1>1, <1>2, <1>3, FirstStep
<1>5. sized_perm \in [0 .. i - 1 -> 0 .. num_fields - 1] /\ \A x \in 0 .. i - 1 : FALSE
  BY <1>3
<1>. QED  BY <1>1, <1>2, <1>3, <1>4, <1>5 DEF WalkInv

LEMMA WalkInvStep == WalkInv /\ [Next]_vars => WalkInv'
<1> SUFFICES ASSUME WalkInv, [Next]_vars PROVE WalkInv'
  OBVIOUS
<1>1. Args
  BY DEF WalkInv
<1>2. UNCHANGED args
  BY DEF Next, Walk, Take, Fold, vars, args
<1>3. /\ Args' /\ num_fields' = num_fields /\ perm' = perm
      /\ \A x, y : Leads(x, y) => Leads(x, y)'
  BY <1>1, <1>2, KeepArgs DEF args, num_fields
<1>4. CASE UNCHANGED vars
  BY <1>3, <1>4 DEF WalkInv, vars
<1>5. CASE Walk
  <2>1. tmp \in DOMAIN perm /\ tmp >= num_fields /\ Leads(i, tmp)
    BY <1>5 DEF Walk, WalkInv
  <2>2. tmp' \in DOMAIN perm' /\ Leads(i, tmp')
    BY <1>1, <1>3, <1>5, <2>1, NextStep DEF Walk
  <2>3. i' = i /\ sized_perm' = sized_perm /\ pc = "walk" /\ pc' = "walk"
    BY <1>5 DEF Walk
  <2>4. Leads(i, tmp)'
    BY <1>3, <2>2, <2>3
  <2>. QED  BY <1>3, <2>2, <2>3, <2>4 DEF WalkInv
<1>6. CASE Take
  <2>1. /\ pc = "walk" /\ tmp < num_fields /\ tmp \in DOMAIN perm /\ Leads(i, tmp)
        /\ i \in 0 .. num_fields - 1 /\ sized_perm \in [0 .. i - 1 -> 0 .. num_fields - 1]
        /\ \A x \in 0 .. i - 1 : Leads(x, sized_perm[x])
    BY <1>6 DEF Take, WalkInv
  <2>2. tmp \in 0 .. num_fields - 1
    BY <1>1, <2>1, PermFacts DEF Args
  <2>3. sized_perm' = [x \in 0 .. i |-> IF x = i THEN tmp ELSE sized_perm[x]]
    BY <1>6 DEF Take
  <2>4. sized_perm' \in [0 .. i -> 0 .. num_fields - 1]
    BY <2>1, <2>2, <2>3
  <2>5. \A x \in 0 .. i : Leads(x, sized_perm'[x])
    BY <2>1, <2>3
  <2>6. \A x \in 0 .. i : Leads(x, sized_perm[x])'
    BY <1>3, <2>5
  <2>7. CASE i + 1 < num_fields
    <3>1. i' = i + 1 /\ tmp' = perm[i + 1] /\ pc' = "walk"
      BY <1>6, <2>1, <2>7 DEF Take
    <3>2. i + 1 \in 0 .. num_fields - 1 /\ (i + 1) - 1 = i
      BY <1>1, <2>1, <2>7 DEF Args
    <3>3. tmp' \in DOMAIN perm' /\ Leads(i + 1, tmp')
      BY <1>1, <1>3, <3>1, <3>2, FirstStep
    <3>4. Leads(i, tmp)'
      BY <1>3, <3>1, <3>3
    <3>. QED  BY <1>3, <2>4, <2>6, <3>1, <3>2, <3>3, <3>4 DEF WalkInv
  <2>8. CASE ~(i + 1 < num_fields)
    <3>1. pc' = "fold"
      BY <1>6, <2>8 DEF Take
    <3>2. i = num_fields - 1
      BY <1>1, <2>1, <2>8 DEF Args
    <3>. QED  BY <1>3, <2>4, <2>6, <3>1, <3>2 DEF WalkInv
  <2>. QED  BY <2>7, <2>8
<1>7. CASE Fold
  <2>1. pc = "fold" /\ pc' \in {"fold", "done"} /\ sized_perm' = sized_perm
    BY <1>7 DEF Fold
  <2>. QED  BY <1>3, <2>1 DEF WalkInv
<1>. QED  BY <1>4, <1>5, <1>6, <1>7 DEF Next

(* For every permutation, every bit vector it can be cut down to and every *)
(* table: the walk of compute_hash gives each bit of the operands one      *)
(* place in the hash, so that no operand bit is lost or counts twice.      *)
THEOREM HashEveryBitOnce == Spec => []EveryBitOnce
<1>1. WalkInv => EveryBitOnce
  <2> SUFFICES ASSUME WalkInv, pc \in {"fold", "done"} PROVE sized_perm \in Permutation(num_fields)
    BY DEF EveryBitOnce
  <2>1. /\ Args /\ sized_perm \in [0 .. num_fields - 1 -> 0 .. num_fields - 1]
        /\ \A x \in 0 .. num_fields - 1 : Leads(x, sized_perm[x])
    BY DEF WalkInv
  <2>2. \A x, y \in 0 .. num_fields - 1 : sized_perm[x] = sized_perm[y] => x = y
    BY <2>1, WalksApart
  <2>. QED  BY <2>1, <2>2 DEF Permutation
<1>. QED  BY <1>1, WalkInvInit, WalkInvStep, PTL DEF Spec

-----------------------------------------------------------------------------
(* Powers of two, counted as the subsets of 1 .. n *)
LEMMA Powers ==
  ASSUME NEW m \in Nat, NEW n \in Nat
  PROVE  /\ 2 ^ n \in Nat \ {0}
         /\ m < n => 2 ^ m < 2 ^ n
<1>1. ASSUME NEW k \in Nat
      PROVE  IsFiniteSet(SUBSET (1 .. k)) /\ Cardinality(SUBSET (1 .. k)) = 2 ^ k
  <2>1. IsFiniteSet(1 .. k) /\ Cardinality(1 .. k) = k
    <3>1. Cardinality(1 .. k) = IF 1 > k THEN 0 ELSE k - 1 + 1
      BY FS_Interval
    <3>2. k = IF 1 > k THEN 0 ELSE k - 1 + 1
      OBVIOUS
    <3>. QED  BY <3>1, <3>2, FS_Interval
  <2>. QED  BY <2>1, FS_SUBSET
<1>2. 2 ^ n \in Nat /\ 2 ^ m \in Nat
  BY <1>1, FS_CardinalityType
<1>3. 2 ^ n # 0
  <2>1. {} \in SUBSET (1 .. n)
    OBVIOUS
  <2>2. SUBSET (1 .. n) # {}
    BY <2>1
  <2>. QED  BY <1>1, <2>2, FS_EmptySet
<1>4. ASSUME m < n PROVE 2 ^ m < 2 ^ n
  <2>1. SUBSET (1 .. m) \in SUBSET (SUBSET (1 .. n))
    <3>1. 1 .. m \subseteq 1 .. n
      BY <1>4
    <3>. QED  BY <3>1
  <2>2. {n} \in SUBSET (1 .. n) /\ {n} \notin SUBSET (1 .. m)
    BY <1>4
  <2>3. Cardinality(SUBSET (1 .. m)) <= Cardinality(SUBSET (1 .. n))
    BY <1>1, <2>1, FS_Subset
  <2>4. Cardinality(SUBSET (1 .. n)) # Cardinality(SUBSET (1 .. m))
    BY <1>1, <2>1, <2>2, FS_Subset
  <2>5. 2 ^ m <= 2 ^ n /\ 2 ^ n # 2 ^ m
    BY <1>1, <2>3, <2>4
  <2> DEFINE pm == 2 ^ m
             pn == 2 ^ n
  <2>6. pm \in Nat /\ pn \in Nat /\ pm <= pn /\ pn # pm
    BY <1>2, <2>5
  <2> HIDE DEF pm, pn
  <2>7. pm < pn
    BY <2>6
  <2>. QED  BY <2>7 DEF pm, pn
<1>. QED  BY <1>2, <1>3, <1>4

(* log2 of a power of two is its exponent. *)
LEMMA Log2OfPower ==
  ASSUME NEW size \in Nat \ {0, 1}, PowerOfTwo(size)
  PROVE  log2(size) \in Nat \ {0} /\ 2 ^ log2(size) = size
<1>1. PICK r \in 1 .. size : size = 2 ^ r
  BY DEF PowerOfTwo
<1> DEFINE Good(k) == 2 ^ k >= size /\ (k = 0 \/ 2 ^ (k - 1) < size)
<1>2. \A k \in Nat : Good(k) => k = r
  <2> SUFFICES ASSUME NEW k \in Nat, Good(k) PROVE k = r
    OBVIOUS
  <2>1. r \in Nat /\ size \in Nat
    BY <1>1
  <2>2. ~(k < r)
    <3> SUFFICES ASSUME k < r PROVE FALSE
      OBVIOUS
    <3>1. 2 ^ k < 2 ^ r /\ 2 ^ k \in Nat
      BY <2>1, Powers
    <3> DEFINE pk == 2 ^ k
    <3>2. pk < size /\ pk >= size /\ pk \in Nat
      BY <1>1, <3>1
    <3> HIDE DEF pk
    <3>. QED  BY <2>1, <3>2
  <2>3. ~(r < k)
    <3> SUFFICES ASSUME r < k PROVE FALSE
      OBVIOUS
    <3> DEFINE j == k - 1
               pj == 2 ^ j
    <3>1. j \in Nat /\ r <= j /\ k # 0
      BY <2>1
    <3>2. pj < size /\ pj \in Nat
      BY <3>1, Powers
    <3>3. r < j => size < pj
      BY <1>1, <2>1, <3>1, Powers
    <3>4. r = j => size = pj
      BY <1>1
    <3> HIDE DEF pj, j
    <3>. QED  BY <2>1, <3>1, <3>2, <3>3, <3>4
  <2>. QED  BY <2>1, <2>2, <2>3
<1>3. Good(r)
  <2> DEFINE j == r - 1
  <2>1. j \in Nat /\ j < r /\ r \in Nat
    BY <1>1
  <2>2. 2 ^ j < 2 ^ r
    BY <2>1, Powers
  <2>3. 2 ^ r >= size
    BY <1>1
  <2>. QED  BY <1>1, <2>2, <2>3
<1>4. log2(size) = CHOOSE k \in 0 .. size : Good(k)
  BY DEF log2
<1>5. r \in 0 .. size /\ 0 .. size \subseteq Nat
  BY <1>1
<1> HIDE DEF Good
<1>6. log2(size) = r
  BY <1>2, <1>3, <1>4, <1>5
<1>. QED  BY <1>1, <1>6

(* The inductive invariant of the fold: the chunk and the result have as   *)
(* many bits as index the table.                                           *)
FoldInv ==
  /\ hash_table_size \in TableSizes
  /\ PowerOfTwo(hash_table_size) =>
       /\ result \in 0 .. hash_table_size - 1 /\ chunk \in 0 .. hash_table_size - 1
       /\ final_pos \in 0 .. log2(hash_table_size) - 1
  /\ pc = "fold" => i \in 0 .. num_fields - 1

LEMMA FoldInvInit == Init => FoldInv
<1> SUFFICES ASSUME Init PROVE FoldInv
  OBVIOUS
<1>1. hash_table_size \in TableSizes /\ result = 0 /\ chunk = 0 /\ final_pos = 0 /\ pc = "walk"
  BY DEF Init
<1>2. hash_table_size \in Nat \ {0, 1}
  BY <1>1, HashAssumption
<1>3. PowerOfTwo(hash_table_size) => log2(hash_table_size) \in Nat \ {0}
  BY <1>2, Log2OfPower
<1>. QED  BY <1>1, <1>2, <1>3 DEF FoldInv

LEMMA FoldInvStep == WalkInv /\ FoldInv /\ [Next]_vars => FoldInv'
<1> SUFFICES ASSUME WalkInv, FoldInv, [Next]_vars PROVE FoldInv'
  OBVIOUS
<1>1. UNCHANGED args
  BY DEF Next, Walk, Take, Fold, vars, args
<1>2. hash_table_size' = hash_table_size /\ fields' = fields /\ num_fields' = num_fields
  BY <1>1 DEF args, num_fields
<1>3. num_fields \in Nat \ {0} /\ fields \in [0 .. num_fields - 1 -> 0 .. 1]
  BY DEF WalkInv, Args
<1>4. CASE UNCHANGED vars
  BY <1>2, <1>4 DEF FoldInv, vars
<1>5. CASE Walk
  BY <1>2, <1>5 DEF FoldInv, Walk
<1>6. CASE Take
  <2>1. pc' = "fold" => i' = 0
    BY <1>6 DEF Take
  <2>2. UNCHANGED <<result, chunk, final_pos>>
    BY <1>6 DEF Take
  <2>. QED  BY <1>2, <1>3, <2>1, <2>2 DEF FoldInv
<1>7. CASE Fold
  <2> DEFINE size == hash_table_size
             w == log2(size)
             bit == fields[sized_perm[i]]
             c == BitXor(chunk, bit * 2 ^ final_pos)
             full == final_pos + 1 >= w
             last == i + 1 = num_fields
  <2>1. /\ result' = IF full \/ last THEN BitXor(result, c) ELSE result
        /\ chunk' = IF full \/ last THEN 0 ELSE c
        /\ final_pos' = IF full \/ last THEN 0 ELSE final_pos + 1
        /\ i' = IF last THEN 0 ELSE i + 1
        /\ pc' = IF last THEN "done" ELSE pc
        /\ pc = "fold"
    BY <1>7 DEF Fold
  <2>2. i \in 0 .. num_fields - 1 /\ size \in TableSizes /\ size \in Nat \ {0, 1}
    BY <2>1, HashAssumption DEF FoldInv
  <2>3. bit \in 0 .. 1
    BY <1>3, <2>1, <2>2 DEF WalkInv
  <2>4. pc' = "fold" => i' \in 0 .. num_fields' - 1
    BY <1>2, <1>3, <2>1, <2>2
  <2>5. ASSUME PowerOfTwo(size)
        PROVE  /\ result' \in 0 .. size - 1 /\ chunk' \in 0 .. size - 1
               /\ final_pos' \in 0 .. w - 1
    <3>1. w \in Nat \ {0} /\ 2 ^ w = size
      BY <2>2, <2>5, Log2OfPower
    <3>2. result \in 0 .. size - 1 /\ chunk \in 0 .. size - 1 /\ final_pos \in 0 .. w - 1
      BY <2>5 DEF FoldInv
    <3> DEFINE p == 2 ^ final_pos
    <3>3. p \in Nat /\ p < size
      BY <3>1, <3>2, Powers
    <3>4. bit * p \in 0 .. size - 1
      <4> HIDE DEF p, bit, size
      <4>1. bit = 0 \/ bit = 1
        BY <2>3
      <4>. QED  BY <2>2, <3>3, <4>1
    <3>5. \A a, b \in 0 .. size - 1 : BitXor(a, b) \in 0 .. size - 1
      BY <2>2, <2>5, HashAssumption
    <3>6. c \in 0 .. size - 1
      BY <3>2, <3>4, <3>5
    <3> HIDE DEF c, w
    <3>7. BitXor(result, c) \in 0 .. size - 1 /\ 0 \in 0 .. size - 1
      BY <2>2, <3>2, <3>5, <3>6
    <3>8. result' \in 0 .. size - 1 /\ chunk' \in 0 .. size - 1
      BY <2>1, <3>2, <3>6, <3>7
    <3>9. final_pos' \in 0 .. w - 1
      BY <2>1, <3>1, <3>2
    <3>. QED  BY <3>8, <3>9
  <2>. QED  BY <1>2, <2>2, <2>4, <2>5 DEF FoldInv
<1>. QED  BY <1>4, <1>5, <1>6, <1>7 DEF Next

(* For every permutation, bit vector and table whose size is a power of    *)
(* two: the hash indexes an entry of the table.  The assumption is that    *)
(* exclusive or keeps to that many bits.                                   *)
THEOREM HashIndexesTable == Spec => []HashInTable
<1>1. FoldInv => HashInTable
  <2> SUFFICES ASSUME FoldInv, pc = "done", PowerOfTwo(hash_table_size)
               PROVE  result < hash_table_size
    BY DEF HashInTable
  <2>1. result \in 0 .. hash_table_size - 1 /\ hash_table_size \in TableSizes
    BY DEF FoldInv
  <2>2. hash_table_size \in Nat
    BY <2>1, HashAssumption
  <2>. QED  BY <2>1, <2>2
<1>2. Init => WalkInv /\ FoldInv
  BY WalkInvInit, FoldInvInit
<1>3. WalkInv /\ FoldInv /\ [Next]_vars => (WalkInv /\ FoldInv)'
  BY WalkInvStep, FoldInvStep
<1>. QED  BY <1>1, <1>2, <1>3, PTL DEF Spec

=============================================================================
