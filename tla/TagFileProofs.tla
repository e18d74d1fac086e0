---------------------------- MODULE TagFileProofs ----------------------------
(***************************************************************************)
(* What holds of the tag file for every program and policy: both writers   *)
(* write bytes, a validator that allows an instruction has applied exactly *)
(* what the file gives each word, and the state of the tool and the host   *)
(* keeps its types.                                                        *)
(***************************************************************************)
EXTENDS TaggingProofs

-----------------------------------------------------------------------------
(* Runs *)

Run == [start : Nat, end : Nat, md : Entry]

LEMMA RunEnds ==
  ASSUME NEW mem \in Seq(Entry), NEW i \in DOMAIN mem
  PROVE  /\ RunEnd(mem, i) \in i + 1 .. Len(mem) + 1
         /\ RunEnd(mem, i) \in RunStarts(mem) \cup {Len(mem) + 1}
         /\ \A j \in RunStarts(mem) : j > i => RunEnd(mem, i) <= j
<1> DEFINE T == {j \in RunStarts(mem) : j > i} \cup {Len(mem) + 1}
<1>1. Len(mem) \in Nat /\ DOMAIN mem = 1 .. Len(mem) /\ RunStarts(mem) \subseteq 1 .. Len(mem)
  BY DEF RunStarts
<1>2. T \subseteq Nat /\ T # {}
  BY <1>1
<1>3. RunEnd(mem, i) = Min(T)
  BY DEF RunEnd
<1>4. RunEnd(mem, i) \in T /\ \A y \in T : RunEnd(mem, i) <= y
  <2> HIDE DEF T
  <2>. QED  BY <1>2, <1>3, LeastNatural
<1>. QED  BY <1>1, <1>4

LEMMA RunFromType ==
  ASSUME NEW r \in Region, NEW i \in DOMAIN r.mem
  PROVE  RunFrom(r, i) \in Run
<1>1. r.start \in Nat /\ r.end \in Nat /\ r.mem \in Seq(Entry)
  BY DEF Region
<1> DEFINE next == RunEnd(r.mem, i)
<1>2. next \in Nat /\ next > 0 /\ i \in Nat /\ i > 0 /\ r.mem[i] \in Entry
  BY <1>1, RunEnds
<1>3. RunFrom(r, i) = [start |-> r.start + (i - 1) * 4,
                       end |-> IF next > Len(r.mem) THEN r.end ELSE r.start + (next - 1) * 4, md |-> r.mem[i]]
  BY DEF RunFrom, stride
<1> HIDE DEF next
<1>4. r.start + (i - 1) * 4 \in Nat /\ r.start + (next - 1) * 4 \in Nat
  BY <1>1, <1>2
<1>. QED  BY <1>1, <1>2, <1>3, <1>4 DEF Run

LEMMA RegionRunsAre ==
  ASSUME NEW r \in Region
  PROVE  RegionRuns(r) \in Seq(Run) /\ Range(RegionRuns(r)) = {RunFrom(r, i) : i \in RunStarts(r.mem)}
<1> DEFINE n == Len(r.mem)
           one(i) == Where(i \in RunStarts(r.mem), RunFrom(r, i))
           u == [i \in DOMAIN r.mem |-> one(i)]
<1>1. n \in Nat /\ DOMAIN r.mem = 1 .. n
  BY DEF Region
<1>2. RegionRuns(r) = FlattenSeq(u)
  BY DEF RegionRuns
<1>3. \A i \in 1 .. n : one(i) \in Seq(Run)
  BY <1>1, RunFromType, WhereType
<1>4. \A i \in 1 .. n : Range(one(i)) = IF i \in RunStarts(r.mem) THEN {RunFrom(r, i)} ELSE {}
  BY DEF Where, Range
<1>5. RunStarts(r.mem) \subseteq 1 .. n
  BY <1>1 DEF RunStarts
<1> HIDE DEF one, n
<1>6. u \in [1 .. n -> Seq(Run)] /\ \A i \in 1 .. n : u[i] = one(i)
  BY <1>1, <1>3
<1> HIDE DEF u
<1>7. FlattenSeq(u) \in Seq(Run) /\ Range(FlattenSeq(u)) = UNION {Range(u[i]) : i \in 1 .. n}
  BY <1>1, <1>6, Flatten
<1>8. UNION {Range(u[i]) : i \in 1 .. n} = {RunFrom(r, i) : i \in RunStarts(r.mem)}
  BY <1>4, <1>5, <1>6
<1>. QED  BY <1>2, <1>7, <1>8

LEMMA RunsAre ==
  ASSUME NEW mrs \in Map
  PROVE  Runs(mrs) \in Seq(Run) /\ Range(Runs(mrs)) = UNION {Range(RegionRuns(mrs[i])) : i \in DOMAIN mrs}
<1> DEFINE n == Len(mrs)
           u == [i \in DOMAIN mrs |-> RegionRuns(mrs[i])]
<1>1. n \in Nat /\ DOMAIN mrs = 1 .. n /\ \A i \in 1 .. n : mrs[i] \in Region
  BY DEF Map
<1>2. Runs(mrs) = FlattenSeq(u)
  BY DEF Runs
<1> HIDE DEF n
<1>3. u \in [1 .. n -> Seq(Run)] /\ \A i \in 1 .. n : u[i] = RegionRuns(mrs[i])
  BY <1>1, RegionRunsAre
<1> HIDE DEF u
<1>4. FlattenSeq(u) \in Seq(Run) /\ Range(FlattenSeq(u)) = UNION {Range(u[i]) : i \in 1 .. n}
  BY <1>1, <1>3, Flatten
<1>5. {Range(u[i]) : i \in 1 .. n} = {Range(RegionRuns(mrs[i])) : i \in DOMAIN mrs}
  BY <1>1, <1>3
<1>. QED  BY <1>2, <1>4, <1>5

-----------------------------------------------------------------------------
(* Bytes *)

Byte == 0 .. 255

LEMMA UlebType ==
  ASSUME NEW n \in Nat
  PROVE  write_uleb(n) \in Seq(Byte)
<1> DEFINE K == MaxBytes
           step(y) == y \div 128
           G == [p \in (1 .. K) \X Nat |-> step(p[2])]
           F(y) == [k \in 0 .. K |-> IF k = 0 THEN n ELSE step(y[k - 1])]
           z == CHOOSE y : y = F(y)
           T == {k \in 1 .. K : z[k] = 0} \cup {K}
           last == Min(T)
           b(k) == (z[k - 1] % 128) + (IF k < last THEN 128 ELSE 0)
<1>1. K \in Nat /\ K > 0 /\ \A y \in Nat : step(y) \in Nat
  BY DEF MaxBytes
<1>2. write_uleb(n) = [k \in 1 .. last |-> b(k)]
  BY DEF write_uleb
<1> HIDE DEF step, z, K
<1>3. G \in [(1 .. K) \X Nat -> Nat]
  <2> SUFFICES ASSUME NEW p \in (1 .. K) \X Nat PROVE step(p[2]) \in Nat
    OBVIOUS
  <2>1. p[2] \in Nat
    OBVIOUS
  <2>. QED  BY <1>1, <2>1
<1>4. \A k \in 1 .. K : \A y \in Nat : G[<<k, y>>] = step(y)
  OBVIOUS
<1> HIDE DEF G
<1>5. PICK f : Iteration(f, K, Nat, n, G)
  BY <1>1, <1>3, Iterates
<1>6. f \in [0 .. K -> Nat] /\ f[0] = n /\ \A k \in 1 .. K : f[k] = step(f[k - 1])
  <2>1. f \in [0 .. K -> Nat] /\ f[0] = n /\ \A k \in 1 .. K : f[k] = G[<<k, f[k - 1]>>]
    BY <1>5 DEF Iteration
  <2>2. \A k \in 1 .. K : f[k - 1] \in Nat
    <3>1. \A k \in 1 .. K : k - 1 \in 0 .. K
      BY <1>1
    <3>. QED  BY <2>1, <3>1, Zenon
  <2>. QED  BY <1>4, <2>1, <2>2
<1>7. f = F(f)
  <2>1. \A i \in 0 .. K : f[i] = IF i = 0 THEN n ELSE step(f[i - 1])
    BY <1>1, <1>6
  <2>. QED  BY <1>6, <2>1, Zenon
<1>8. z = F(z)
  <2> HIDE DEF F
  <2>. QED  BY <1>7 DEF z
<1>9. z[0] = n /\ \A k \in 1 .. K : z[k] = step(z[k - 1])
  <2>1. \A k \in 0 .. K : z[k] = IF k = 0 THEN n ELSE step(z[k - 1])
    BY <1>8, Zenon
  <2>2. 0 \in 0 .. K /\ \A k \in 1 .. K : k \in 0 .. K /\ k # 0
    BY <1>1
  <2>. QED  BY <2>1, <2>2
<1> HIDE DEF F
<1>10. \A k \in 0 .. K : z[k] \in Nat
  <2>1. z[0] \in Nat /\ \A k \in 1 .. K : z[k - 1] \in Nat => z[k] \in Nat
    BY <1>1, <1>9
  <2>. QED  BY <1>1, <2>1, Stays
<1>11. last \in 1 .. K
  <2>1. T \subseteq Nat /\ T # {} /\ T \subseteq 1 .. K
    BY <1>1
  <2> HIDE DEF T
  <2>. QED  BY <2>1, LeastNatural
<1> HIDE DEF last
<1>12. \A k \in 1 .. last : b(k) \in Byte
  <2> SUFFICES ASSUME NEW k \in 1 .. last PROVE b(k) \in Byte
    OBVIOUS
  <2>1. k - 1 \in 0 .. K
    BY <1>1, <1>11
  <2>2. z[k - 1] \in Nat
    BY <1>10, <2>1
  <2>. QED  BY <2>2 DEF Byte
<1> HIDE DEF b
<1>13. [k \in 1 .. last |-> b(k)] \in [1 .. last -> Byte] /\ last \in Nat
  BY <1>1, <1>11, <1>12
<1>. QED  BY <1>2, <1>13, IsSequence

LEMMA BytesType ==
  ASSUME NEW values \in Seq(Nat)
  PROVE  Bytes(values) \in Seq(Byte)
<1> DEFINE n == Len(values)
           u == [i \in DOMAIN values |-> write_uleb(values[i])]
<1>1. n \in Nat /\ DOMAIN values = 1 .. n /\ \A i \in 1 .. n : values[i] \in Nat
  OBVIOUS
<1>2. Bytes(values) = FlattenSeq(u)
  BY DEF Bytes
<1> HIDE DEF n
<1>3. u \in [1 .. n -> Seq(Byte)]
  BY <1>1, UlebType
<1> HIDE DEF u
<1>. QED  BY <1>1, <1>2, <1>3, Flatten

LEMMA SortedIdsType ==
  ASSUME NEW md \in Ids
  PROVE  SortedIds(md) \in Seq(Nat) /\ Cardinality(md) \in Nat
<1> DEFINE K == Cardinality(md)
           S == SUBSET md
           step(y) == y \ {Min(y)}
           G == [p \in (1 .. K) \X S |-> step(p[2])]
           F(y) == [k \in 0 .. K |-> IF k = 0 THEN md ELSE step(y[k - 1])]
           z == CHOOSE y : y = F(y)
<1>1. K \in Nat /\ md \in S /\ IsFiniteSet(md) /\ md \subseteq Nat
  BY FS_CardinalityType DEF Ids
<1>2. SortedIds(md) = [k \in 1 .. K |-> Min(z[k - 1])]
  BY DEF SortedIds
<1>3. \A y \in S : step(y) \in S
  OBVIOUS
<1>4. ASSUME NEW y \in S, y # {} PROVE Min(y) \in y /\ IsFiniteSet(y) /\ Cardinality(step(y)) = Cardinality(y) - 1
  <2>1. y \subseteq Nat
    BY <1>1
  <2>2. Min(y) \in y
    BY <1>4, <2>1, LeastNatural
  <2>3. IsFiniteSet(y)
    BY <1>1, FS_Subset
  <2>. QED  BY <2>2, <2>3, FS_RemoveElement
<1>5. ASSUME NEW y \in S, Cardinality(y) # 0 PROVE y # {}
  BY <1>5, FS_EmptySet
<1> HIDE DEF step, z, K, S
<1>6. G \in [(1 .. K) \X S -> S]
  <2> SUFFICES ASSUME NEW p \in (1 .. K) \X S PROVE step(p[2]) \in S
    OBVIOUS
  <2>1. p[2] \in S
    OBVIOUS
  <2>. QED  BY <1>3, <2>1
<1>7. \A k \in 1 .. K : \A y \in S : G[<<k, y>>] = step(y)
  OBVIOUS
<1> HIDE DEF G
<1>8. PICK f : Iteration(f, K, S, md, G)
  BY <1>1, <1>6, Iterates
<1>9. f \in [0 .. K -> S] /\ f[0] = md /\ \A k \in 1 .. K : f[k] = step(f[k - 1])
  <2>1. f \in [0 .. K -> S] /\ f[0] = md /\ \A k \in 1 .. K : f[k] = G[<<k, f[k - 1]>>]
    BY <1>8 DEF Iteration
  <2>2. \A k \in 1 .. K : f[k - 1] \in S
    BY <1>1, <2>1
  <2>. QED  BY <1>7, <2>1, <2>2
<1>10. f = F(f)
  <2>1. \A i \in 0 .. K : f[i] = IF i = 0 THEN md ELSE step(f[i - 1])
    BY <1>1, <1>9
  <2>. QED  BY <1>9, <2>1, Zenon
<1>11. z = F(z)
  <2> HIDE DEF F
  <2>. QED  BY <1>10 DEF z
<1>12. z[0] = md /\ \A k \in 1 .. K : z[k] = step(z[k - 1])
  <2>1. \A k \in 0 .. K : z[k] = IF k = 0 THEN md ELSE step(z[k - 1])
    BY <1>11, Zenon
  <2>2. 0 \in 0 .. K /\ \A k \in 1 .. K : k \in 0 .. K /\ k # 0
    BY <1>1
  <2>. QED  BY <2>1, <2>2
<1> HIDE DEF F
<1>13. \A k \in 0 .. K : z[k] \in S
  <2>1. z[0] \in S /\ \A k \in 1 .. K : z[k - 1] \in S => z[k] \in S
    BY <1>1, <1>3, <1>12
  <2>. QED  BY <1>1, <2>1, Stays
<1>14. \A k \in 0 .. K : Cardinality(z[k]) = K - k
  <2> DEFINE E == {k \in 0 .. K : Cardinality(z[k]) = K - k}
  <2>1. 0 \in E
    <3>1. Cardinality(md) = K
      BY DEF K
    <3>. QED  BY <1>1, <1>12, <3>1
  <2>2. ASSUME NEW k \in 0 .. K - 1, k \in E PROVE k + 1 \in E
    <3>1. k + 1 \in 1 .. K /\ (k + 1) - 1 = k /\ k \in 0 .. K /\ k + 1 \in 0 .. K /\ K - k # 0
      BY <1>1
    <3>2. z[k] \in S /\ z[k + 1] = step(z[k]) /\ Cardinality(z[k]) = K - k
      BY <1>12, <1>13, <2>2, <3>1
    <3>3. Cardinality(z[k + 1]) = (K - k) - 1
      BY <1>4, <1>5, <3>1, <3>2
    <3>4. (K - k) - 1 = K - (k + 1)
      BY <1>1
    <3>. QED  BY <3>1, <3>3, <3>4
  <2>3. 0 .. K \subseteq E
    <3> HIDE DEF E
    <3>. QED  BY <1>1, <2>1, <2>2, UpTo
  <2>. QED  BY <2>3
<1>15. ASSUME NEW k \in 1 .. K PROVE Min(z[k - 1]) \in Nat
  <2>1. k - 1 \in 0 .. K /\ K - (k - 1) # 0
    BY <1>1
  <2>2. z[k - 1] \in S /\ Cardinality(z[k - 1]) # 0
    BY <1>13, <1>14, <2>1
  <2>3. Min(z[k - 1]) \in z[k - 1]
    BY <1>4, <1>5, <2>2
  <2>. QED  BY <1>1, <2>2, <2>3 DEF S
<1>16. [k \in 1 .. K |-> Min(z[k - 1])] \in [1 .. K -> Nat]
  BY <1>15
<1>17. SortedIds(md) \in Seq(Nat)
  BY <1>1, <1>2, <1>16, IsSequence
<1>. QED  BY <1>1, <1>17 DEF K

LEMMA RunValuesType ==
  ASSUME NEW run \in Run, run.md # null
  PROVE  RunValues(run) \in Seq(Nat)
<1>1. run.start \in Nat /\ run.end \in Nat /\ run.md[1] \in Ids
  BY DEF Run, Entry, entry
<1>2. Cardinality(run.md[1]) \in Nat /\ SortedIds(run.md[1]) \in Seq(Nat)
  BY <1>1, SortedIdsType
<1> DEFINE u == <<run.start, run.end, Cardinality(run.md[1])>>
           v == SortedIds(run.md[1])
<1>3. u \in Seq(Nat)
  BY <1>1, <1>2
<1>4. RunValues(run) = u \o v
  BY DEF RunValues
<1> HIDE DEF u, v
<1>5. u \o v \in Seq(Nat)
  BY <1>2, <1>3 DEF v
<1>. QED  BY <1>4, <1>5

LEMMA SaveType ==
  ASSUME NEW mrs \in Map, ~RunsFault(mrs), NEW xlen \in Nat
  PROVE  save_metadata(mrs, xlen) \in Seq(Byte)
<1> DEFINE rs == Runs(mrs)
           n == Len(rs)
           u == [i \in DOMAIN rs |-> RunValues(rs[i])]
           v == FlattenSeq(u)
<1>1. rs \in Seq(Run)
  BY RunsAre
<1>2. \A i \in DOMAIN rs : rs[i].md # null
  BY DEF RunsFault
<1>3. save_metadata(mrs, xlen) = Bytes(<<xlen>> \o v)
  BY DEF save_metadata
<1> HIDE DEF rs
<1>4. n \in Nat /\ DOMAIN rs = 1 .. n /\ \A i \in 1 .. n : rs[i] \in Run
  BY <1>1
<1> HIDE DEF n
<1>5. u \in [1 .. n -> Seq(Nat)]
  BY <1>2, <1>4, RunValuesType
<1> HIDE DEF u
<1>6. v \in Seq(Nat)
  BY <1>4, <1>5, Flatten
<1> HIDE DEF v
<1>7. <<xlen>> \o v \in Seq(Nat)
  BY <1>6
<1>. QED  BY <1>3, <1>7, BytesType

(* What is read back from bytes: numbers, and ranges *)
LEMMA ReadType ==
  ASSUME NEW bytes \in Seq(Byte)
  PROVE  read_ulebs(bytes).values \in Seq(Addr) /\ read_ulebs(bytes).rest \in BOOLEAN
<1> DEFINE K == Len(bytes)
           first(i) == i = 1 \/ bytes[i - 1] < 128
           Fs(y) == [i \in DOMAIN bytes |-> IF first(i) THEN 1 ELSE 128 * y[i - 1]]
           scale == CHOOSE y : y = Fs(y)
           d(i) == (bytes[i] % 128) * scale[i]
           Fn(y) == [i \in DOMAIN bytes |-> uint64((IF first(i) THEN 0 ELSE y[i - 1]) + d(i))]
           number == CHOOSE y : y = Fn(y)
           u == [i \in DOMAIN bytes |-> Where(bytes[i] < 128, number[i])]
<1>1. K \in Nat /\ DOMAIN bytes = 1 .. K /\ \A i \in 1 .. K : bytes[i] \in Nat
  <2>1. K \in Nat /\ DOMAIN bytes = 1 .. K /\ \A i \in 1 .. K : bytes[i] \in Byte
    OBVIOUS
  <2>2. \A b \in Byte : b \in Nat
    BY DEF Byte
  <2>. QED  BY <2>1, <2>2
<1>2. read_ulebs(bytes).values = FlattenSeq(u) /\ read_ulebs(bytes).rest = (bytes # <<>> /\ Last(bytes) >= 128)
  BY DEF read_ulebs
<1> HIDE DEF K
<1>3. first(1)
  OBVIOUS
<1> HIDE DEF first
<1>4. \A i \in 1 .. K : scale[i] \in Nat
  <2> DEFINE step(y, i) == IF first(i) THEN 1 ELSE 128 * y
             G == [p \in (1 .. K) \X Nat |-> step(p[2], p[1])]
  <2>1. \A y \in Nat : \A i \in 1 .. K : step(y, i) \in Nat
    OBVIOUS
  <2> HIDE DEF scale, step
  <2>2. G \in [(1 .. K) \X Nat -> Nat]
    <3> SUFFICES ASSUME NEW p \in (1 .. K) \X Nat PROVE step(p[2], p[1]) \in Nat
      OBVIOUS
    <3>1. p[1] \in 1 .. K /\ p[2] \in Nat
      OBVIOUS
    <3>. QED  BY <2>1, <3>1
  <2>3. \A i \in 1 .. K : \A y \in Nat : G[<<i, y>>] = step(y, i)
    OBVIOUS
  <2> HIDE DEF G
  <2>4. PICK f : Iteration(f, K, Nat, 1, G)
    BY <1>1, <2>2, Iterates
  <2>5. f \in [0 .. K -> Nat] /\ \A i \in 1 .. K : f[i] = step(f[i - 1], i)
    <3>1. f \in [0 .. K -> Nat] /\ \A i \in 1 .. K : f[i] = G[<<i, f[i - 1]>>]
      BY <2>4 DEF Iteration
    <3>2. \A i \in 1 .. K : f[i - 1] \in Nat
      BY <1>1, <3>1
    <3>. QED  BY <2>3, <3>1, <3>2
  <2> DEFINE g == [i \in 1 .. K |-> f[i]]
  <2>6. g = Fs(g)
    <3>1. \A i \in 1 .. K : g[i] = IF first(i) THEN 1 ELSE 128 * g[i - 1]
      <4> SUFFICES ASSUME NEW i \in 1 .. K PROVE g[i] = IF first(i) THEN 1 ELSE 128 * g[i - 1]
        OBVIOUS
      <4>1. ~first(i) => i - 1 \in 1 .. K
        BY <1>1, <1>3
      <4>. QED  BY <2>5, <4>1 DEF step
    <3>. QED  BY <1>1, <3>1, Zenon
  <2>7. scale = Fs(scale)
    <3> HIDE DEF Fs, g
    <3>. QED  BY <2>6 DEF scale
  <2>8. \A i \in 1 .. K : scale[i] = IF first(i) THEN 1 ELSE 128 * scale[i - 1]
    BY <1>1, <2>7, Zenon
  <2> HIDE DEF Fs
  <2> DEFINE E == {n \in 0 .. K : n # 0 => scale[n] \in Nat}
  <2>9. 0 \in E
    BY <1>1
  <2>10. ASSUME NEW n \in 0 .. K - 1, n \in E PROVE n + 1 \in E
    <3>1. n + 1 \in 1 .. K /\ (n + 1) - 1 = n /\ n + 1 \in 0 .. K
      BY <1>1
    <3>2. ~first(n + 1) => n # 0
      BY <1>3
    <3>3. scale[n + 1] \in Nat
      BY <2>8, <2>10, <3>1, <3>2
    <3>. QED  BY <3>1, <3>3
  <2>11. 0 .. K \subseteq E
    <3> HIDE DEF E
    <3>. QED  BY <1>1, <2>9, <2>10, UpTo
  <2>. QED  BY <2>11
<1> HIDE DEF scale, Fs
<1>5. \A i \in 1 .. K : d(i) \in Nat
  BY <1>1, <1>4
<1> HIDE DEF d
<1>6. \A i \in 1 .. K : number[i] \in Addr
  <2> DEFINE step(y, i) == uint64((IF first(i) THEN 0 ELSE y) + d(i))
             G == [p \in (1 .. K) \X Addr |-> step(p[2], p[1])]
  <2>0. 0 \in Addr
    BY AddrSpaceAssumption DEF Addr
  <2>1. \A y \in Addr : \A i \in 1 .. K : step(y, i) \in Addr
    <3> SUFFICES ASSUME NEW y \in Addr, NEW i \in 1 .. K PROVE step(y, i) \in Addr
      OBVIOUS
    <3>1. (IF first(i) THEN 0 ELSE y) + d(i) \in Int
      BY <1>5, AddrNat
    <3>. QED  BY <3>1, Uint64Type
  <2> HIDE DEF number, step
  <2>2. G \in [(1 .. K) \X Addr -> Addr]
    <3> SUFFICES ASSUME NEW p \in (1 .. K) \X Addr PROVE step(p[2], p[1]) \in Addr
      OBVIOUS
    <3>1. p[1] \in 1 .. K /\ p[2] \in Addr
      OBVIOUS
    <3>. QED  BY <2>1, <3>1
  <2>3. \A i \in 1 .. K : \A y \in Addr : G[<<i, y>>] = step(y, i)
    OBVIOUS
  <2> HIDE DEF G
  <2>4. PICK f : Iteration(f, K, Addr, 0, G)
    BY <1>1, <2>0, <2>2, Iterates
  <2>5. f \in [0 .. K -> Addr] /\ \A i \in 1 .. K : f[i] = step(f[i - 1], i)
    <3>1. f \in [0 .. K -> Addr] /\ \A i \in 1 .. K : f[i] = G[<<i, f[i - 1]>>]
      BY <2>4 DEF Iteration
    <3>2. \A i \in 1 .. K : f[i - 1] \in Addr
      BY <1>1, <3>1
    <3>. QED  BY <2>3, <3>1, <3>2
  <2> DEFINE g == [i \in 1 .. K |-> f[i]]
  <2>6. g = Fn(g)
    <3>1. \A i \in 1 .. K : g[i] = uint64((IF first(i) THEN 0 ELSE g[i - 1]) + d(i))
      <4> SUFFICES ASSUME NEW i \in 1 .. K PROVE g[i] = uint64((IF first(i) THEN 0 ELSE g[i - 1]) + d(i))
        OBVIOUS
      <4>1. ~first(i) => i - 1 \in 1 .. K
        BY <1>1, <1>3
      <4>. QED  BY <2>5, <4>1 DEF step
    <3>. QED  BY <1>1, <3>1, Zenon
  <2>7. number = Fn(number)
    <3> HIDE DEF Fn, g
    <3>. QED  BY <2>6 DEF number
  <2>8. \A i \in 1 .. K : number[i] = step(number[i - 1], i)
    BY <1>1, <2>7, Zenon DEF step
  <2> HIDE DEF Fn
  <2> DEFINE E == {n \in 0 .. K : n # 0 => number[n] \in Addr}
  <2>9. 0 \in E
    BY <1>1
  <2>10. ASSUME NEW n \in 0 .. K - 1, n \in E PROVE n + 1 \in E
    <3>1. n + 1 \in 1 .. K /\ (n + 1) - 1 = n /\ n + 1 \in 0 .. K
      BY <1>1
    <3>2. number[n + 1] = step(number[n], n + 1)
      BY <2>8, <3>1
    <3>3. CASE first(n + 1)
      <4>1. step(number[n], n + 1) = step(0, n + 1)
        BY <3>3 DEF step
      <4>. QED  BY <2>0, <2>1, <3>1, <3>2, <4>1
    <3>4. CASE ~first(n + 1)
      <4>1. number[n] \in Addr
        BY <1>3, <2>10, <3>4
      <4>. QED  BY <2>1, <3>1, <3>2, <4>1
    <3>. QED  BY <3>3, <3>4
  <2>11. 0 .. K \subseteq E
    <3> HIDE DEF E
    <3>. QED  BY <1>1, <2>9, <2>10, UpTo
  <2>. QED  BY <2>11
<1> HIDE DEF number, Fn
<1>7. \A i \in 1 .. K : Where(bytes[i] < 128, number[i]) \in Seq(Addr)
  BY <1>6, WhereType
<1>8. u \in [1 .. K -> Seq(Addr)]
  BY <1>1, <1>7
<1> HIDE DEF u
<1>9. FlattenSeq(u) \in Seq(Addr)
  BY <1>1, <1>8, Flatten
<1>. QED  BY <1>2, <1>9

LEMMA RangesFromType ==
  ASSUME NEW values \in Seq(Addr), values # <<>>, NEW rest \in BOOLEAN
  PROVE  RangesFrom(values, rest).ok \in BOOLEAN /\ RangesFrom(values, rest).adds \in Seq(TagRange)
<1> DEFINE S == [ok : BOOLEAN, adds : Seq(TagRange)]
           n == Len(values)
           m == n + 1
           cut(p) == p + 2 > n \/ p + 2 + values[p + 2] > n
           md(p) == {values[i] : i \in p + 3 .. p + 2 + values[p + 2]}
           add(p) == Add(values[p], values[p + 1], md(p))
           next(p) == p + 3 + values[p + 2]
           more(p, t) == [t EXCEPT !.adds = <<add(p)>> \o @]
           body(p, y) == IF p > n THEN [ok |-> ~rest, adds |-> <<>>]
                         ELSE IF cut(p) THEN [ok |-> FALSE, adds |-> <<>>]
                         ELSE more(p, y[next(p)])
           F(y) == [p \in 2 .. m |-> body(p, y)]
           z == CHOOSE y : y = F(y)
           none_ == [ok |-> FALSE, adds |-> <<>>]
           G == [q \in (1 .. m) \X [1 .. m -> S] |-> IF q[1] = 1 THEN none_ ELSE body(q[1], q[2])]
<1>1. RangesFrom(values, rest) = z[2]
  BY DEF RangesFrom
<1>2. n \in Nat /\ n > 0 /\ m \in Nat /\ \A i \in 1 .. n : values[i] \in Addr /\ values[i] \in Nat
  BY AddrNat
<1>3. ASSUME NEW p \in 1 .. n, ~cut(p)
      PROVE  add(p) \in TagRange /\ next(p) \in p + 1 .. m
  <2>1. p + 2 \in 1 .. n /\ p + 1 \in 1 .. n /\ values[p + 2] \in Nat /\ p + 2 + values[p + 2] <= n
    BY <1>2, <1>3
  <2>2. next(p) \in p + 1 .. m
    BY <1>2, <2>1
  <2>3. md(p) \in Ids
    <3> DEFINE k == values[p + 2]
               f == [i \in 1 .. k |-> values[p + 2 + i]]
    <3>1. k \in Nat /\ p + 2 + k <= n
      BY <2>1
    <3> HIDE DEF k
    <3>2. \A i \in 1 .. k : p + 2 + i \in 1 .. n
      BY <1>2, <3>1
    <3>3. f \in [1 .. k -> Nat] /\ \A i \in 1 .. k : f[i] = values[p + 2 + i]
      BY <1>2, <3>2
    <3>4. \A i \in p + 3 .. p + 2 + k : i - (p + 2) \in 1 .. k /\ p + 2 + (i - (p + 2)) = i
      BY <1>2, <3>1
    <3>5. \A i \in 1 .. k : p + 2 + i \in p + 3 .. p + 2 + k
      BY <1>2, <3>1
    <3> HIDE DEF f
    <3>6. md(p) = {f[i] : i \in 1 .. k}
      BY <3>3, <3>4, <3>5 DEF k
    <3>7. IsFiniteSet({f[i] : i \in 1 .. k})
      BY <3>1, <3>3, FiniteElements
    <3>8. {f[i] : i \in 1 .. k} \subseteq Nat
      BY <3>3
    <3> HIDE DEF md
    <3>. QED  BY <3>6, <3>7, <3>8 DEF Ids
  <2> HIDE DEF md
  <2>4. values[p] \in Addr /\ values[p + 1] \in Nat
    BY <1>2, <2>1
  <2>5. add(p) \in TagRange
    BY <2>3, <2>4 DEF Add, TagRange, Addr
  <2>. QED  BY <2>2, <2>5
<1> HIDE DEF n
<1>4. ASSUME NEW p \in 1 .. n, ~cut(p), NEW t \in S PROVE more(p, t) \in S
  <2>1. add(p) \in TagRange
    BY <1>3, <1>4
  <2> HIDE DEF add
  <2>2. <<add(p)>> \in Seq(TagRange) /\ t.adds \in Seq(TagRange)
    BY <2>1
  <2>3. <<add(p)>> \o t.adds \in Seq(TagRange)
    BY <2>2, Concat
  <2>. QED  BY <2>3
<1>5. none_ \in S /\ [ok |-> ~rest, adds |-> <<>>] \in S
  OBVIOUS
<1>6. 2 \in 2 .. m
  BY <1>2
<1>7. \A r \in S : r.ok \in BOOLEAN /\ r.adds \in Seq(TagRange)
  OBVIOUS
<1>8. \A p \in 1 .. m : p > n \/ p \in 1 .. n
  BY <1>2
<1> HIDE DEF S, add, next, cut, more, none_, m
<1>9. G \in [(1 .. m) \X [1 .. m -> S] -> S]
  <2> SUFFICES ASSUME NEW q \in (1 .. m) \X [1 .. m -> S]
               PROVE  (IF q[1] = 1 THEN none_ ELSE body(q[1], q[2])) \in S
    OBVIOUS
  <2> DEFINE p == q[1]
             y == q[2]
  <2>1. p \in 1 .. m /\ y \in [1 .. m -> S]
    OBVIOUS
  <2> HIDE DEF p, y
  <2>2. CASE p > n
    BY <1>5, <2>2 DEF p, none_
  <2>3. CASE p \in 1 .. n /\ cut(p)
    BY <1>5, <2>3 DEF p, none_
  <2>4. CASE p \in 1 .. n /\ ~cut(p)
    <3>1. next(p) \in p + 1 .. m
      BY <1>3, <2>4
    <3>2. next(p) \in 1 .. m
      BY <1>2, <2>4, <3>1
    <3>3. y[next(p)] \in S
      BY <2>1, <3>2
    <3>4. more(p, y[next(p)]) \in S
      BY <1>4, <2>4, <3>3
    <3>5. ~(p > n)
      BY <1>2, <2>4
    <3>. QED  BY <1>5, <2>4, <3>4, <3>5 DEF p, y
  <2>. QED  BY <1>8, <2>1, <2>2, <2>3, <2>4
<1>10. \A p \in 1 .. m : \A y \in [1 .. m -> S] : G[<<p, y>>] = IF p = 1 THEN none_ ELSE body(p, y)
  OBVIOUS
<1> HIDE DEF G
<1>11. \A p \in 1 .. m : \A f, g \in [1 .. m -> S] : (\A j \in p + 1 .. m : f[j] = g[j]) => G[<<p, f>>] = G[<<p, g>>]
  <2> SUFFICES ASSUME NEW p \in 1 .. m, NEW f \in [1 .. m -> S], NEW g \in [1 .. m -> S],
                      \A j \in p + 1 .. m : f[j] = g[j]
               PROVE  G[<<p, f>>] = G[<<p, g>>]
    OBVIOUS
  <2>1. CASE p > n \/ cut(p)
    BY <1>10, <2>1
  <2>2. CASE p \in 1 .. n /\ ~cut(p)
    <3>1. next(p) \in p + 1 .. m
      BY <1>3, <2>2
    <3>2. f[next(p)] = g[next(p)]
      BY <3>1
    <3>3. body(p, f) = body(p, g)
      BY <3>2
    <3> HIDE DEF body
    <3>. QED  BY <1>10, <3>3
  <2>. QED  BY <1>8, <2>1, <2>2
<1>12. S # {}
  BY <1>5
<1>13. m \in Nat
  BY <1>2
<1>14. PICK f : IterationDown(f, m, S, G)
  BY <1>9, <1>11, <1>12, <1>13, IteratesDown
<1>15. f \in [1 .. m -> S] /\ \A p \in 1 .. m : f[p] = G[<<p, f>>]
  BY <1>14 DEF IterationDown
<1> DEFINE g == [p \in 2 .. m |-> f[p]]
<1>16. g = F(g)
  <2>1. ASSUME NEW p \in 2 .. m PROVE g[p] = body(p, g)
    <3>1. p \in 1 .. m /\ p # 1
      BY <1>13
    <3>2. f[p] = body(p, f)
      BY <1>10, <1>15, <3>1
    <3>3. CASE p > n \/ cut(p)
      BY <3>2, <3>3
    <3>4. CASE p \in 1 .. n /\ ~cut(p)
      <4>1. next(p) \in p + 1 .. m
        BY <1>3, <3>4
      <4>2. next(p) \in 2 .. m
        BY <1>13, <4>1
      <4>3. g[next(p)] = f[next(p)]
        BY <4>2
      <4>. QED  BY <3>2, <4>3
    <3>. QED  BY <1>8, <3>1, <3>3, <3>4
  <2>. QED  BY <2>1, Zenon
<1>17. z = F(z)
  <2> HIDE DEF F, g
  <2>. QED  BY <1>16
<1> HIDE DEF z
<1>18. \A p \in 2 .. m : z[p] = body(p, z)
  BY <1>17, Zenon
<1> HIDE DEF F
<1> DEFINE w == [p \in 1 .. m |-> IF p = 1 THEN none_ ELSE z[p]]
<1>19. ASSUME NEW p \in 1 .. m, \A j \in p + 1 .. m : w[j] \in S PROVE w[p] \in S
  <2>1. CASE p = 1
    BY <1>5, <2>1
  <2>2. CASE p # 1
    <3>1. w[p] = body(p, z)
      BY <1>18, <2>2, <1>13
    <3>2. CASE p > n
      BY <1>5, <3>1, <3>2
    <3>3. CASE p \in 1 .. n /\ cut(p)
      BY <1>5, <3>1, <3>3 DEF none_
    <3>4. CASE p \in 1 .. n /\ ~cut(p)
      <4>1. next(p) \in p + 1 .. m
        BY <1>3, <3>4
      <4>2. next(p) \in 1 .. m /\ next(p) # 1
        BY <1>13, <4>1
      <4>3. z[next(p)] \in S
        BY <1>19, <4>1, <4>2
      <4>4. more(p, z[next(p)]) \in S
        BY <1>4, <3>4, <4>3
      <4>5. ~(p > n)
        BY <1>2, <3>4
      <4>. QED  BY <3>1, <3>4, <4>4, <4>5
    <3>. QED  BY <1>8, <3>2, <3>3, <3>4
  <2>. QED  BY <2>1, <2>2
<1>20. \A p \in 1 .. m : w[p] \in S
  <2> HIDE DEF w
  <2>. QED  BY <1>13, <1>19, StaysDown
<1>21. z[2] \in S
  <2>1. 2 \in 1 .. m
    BY <1>6, <1>13
  <2>2. w[2] = z[2]
    BY <2>1
  <2>. QED  BY <1>20, <2>1, <2>2
<1>. QED  BY <1>1, <1>7, <1>21

(* What e_v_set_callbacks loads is a map, or nothing. *)
LEMMA LoadType ==
  ASSUME NEW file, file = <<>> \/ file[1] \in Seq(Byte), NEW xlen
  PROVE  load_metadata(file, xlen).map \in Map
<1>1. <<>> \in Map
  BY EmptyMap
<1>2. CASE file = <<>>
  BY <1>1, <1>2 DEF load_metadata
<1>3. CASE file # <<>>
  <2> DEFINE read == read_ulebs(file[1])
             ranges == RangesFrom(read.values, read.rest)
  <2>1. read.values \in Seq(Addr) /\ read.rest \in BOOLEAN
    BY <1>3, ReadType
  <2>2. CASE read.values = <<>>
    BY <1>1, <1>3, <2>2 DEF load_metadata
  <2>3. CASE read.values # <<>>
    <3>1. load_metadata(file, xlen).map = AddAll(<<>>, ranges.adds)
      BY <1>3, <2>3 DEF load_metadata
    <3> HIDE DEF read
    <3>2. ranges.adds \in Seq(TagRange)
      BY <2>1, <2>3, RangesFromType
    <3> HIDE DEF ranges
    <3>. QED  BY <1>1, <3>1, <3>2, AddAllType
  <2>. QED  BY <2>2, <2>3
<1>. QED  BY <1>2, <1>3

-----------------------------------------------------------------------------
(* The index maps of the firmware file *)

(* The keys of the index of memory *)
Spot == [start : Nat, end : Nat]

LEMMA LeastRangeIn ==
  ASSUME NEW R, R \subseteq Spot, R # {}
  PROVE  LeastRange(R) \in R
<1> DEFINE T == {r.start : r \in R}
           s == Min(T)
           U == {r.end : r \in {q \in R : q.start = s}}
           e == Min(U)
<1>1. T \subseteq Nat /\ T # {}
  BY DEF Spot
<1>2. s \in T /\ \A y \in T : s <= y
  <2> HIDE DEF T
  <2>. QED  BY <1>1, LeastNatural
<1> HIDE DEF s
<1>3. U \subseteq Nat /\ U # {}
  BY <1>2 DEF Spot
<1>4. e \in U /\ \A y \in U : e <= y
  <2> HIDE DEF U
  <2>. QED  BY <1>3, LeastNatural
<1> HIDE DEF e
<1>5. PICK r \in R : r.start = s /\ r.end = e
  BY <1>4
<1>6. ASSUME NEW q \in R PROVE ~RangeLess(q, r)
  <2>1. q.start \in Nat /\ q.end \in Nat /\ s \in Nat /\ e \in Nat
    BY <1>5 DEF Spot
  <2>2. s <= q.start /\ (q.start = s => e <= q.end)
    BY <1>2, <1>4
  <2>. QED  BY <1>5, <2>1, <2>2 DEF RangeLess
<1>. QED  BY <1>5, <1>6 DEF LeastRange

LEMMA SortedRangesType ==
  ASSUME NEW R, R \subseteq Spot, IsFiniteSet(R)
  PROVE  SortedRanges(R) \in Seq(R) /\ Cardinality(R) \in Nat
<1> DEFINE K == Cardinality(R)
           S == SUBSET R
           step(y) == y \ {LeastRange(y)}
           G == [p \in (1 .. K) \X S |-> step(p[2])]
           F(y) == [k \in 0 .. K |-> IF k = 0 THEN R ELSE step(y[k - 1])]
           z == CHOOSE y : y = F(y)
<1>1. K \in Nat /\ R \in S /\ IsFiniteSet(R) /\ R \subseteq Spot
  BY FS_CardinalityType
<1>2. SortedRanges(R) = [k \in 1 .. K |-> LeastRange(z[k - 1])]
  BY DEF SortedRanges
<1>3. \A y \in S : step(y) \in S
  OBVIOUS
<1>4. ASSUME NEW y \in S, y # {} PROVE LeastRange(y) \in y /\ IsFiniteSet(y) /\ Cardinality(step(y)) = Cardinality(y) - 1
  <2>1. y \subseteq Spot
    BY <1>1
  <2>2. LeastRange(y) \in y
    BY <1>4, <2>1, LeastRangeIn
  <2>3. IsFiniteSet(y)
    BY <1>1, FS_Subset
  <2>. QED  BY <2>2, <2>3, FS_RemoveElement
<1>5. ASSUME NEW y \in S, Cardinality(y) # 0 PROVE y # {}
  BY <1>5, FS_EmptySet
<1> HIDE DEF step, z, K, S
<1>6. G \in [(1 .. K) \X S -> S]
  <2> SUFFICES ASSUME NEW p \in (1 .. K) \X S PROVE step(p[2]) \in S
    OBVIOUS
  <2>1. p[2] \in S
    OBVIOUS
  <2>. QED  BY <1>3, <2>1
<1>7. \A k \in 1 .. K : \A y \in S : G[<<k, y>>] = step(y)
  OBVIOUS
<1> HIDE DEF G
<1>8. PICK f : Iteration(f, K, S, R, G)
  BY <1>1, <1>6, Iterates
<1>9. f \in [0 .. K -> S] /\ f[0] = R /\ \A k \in 1 .. K : f[k] = step(f[k - 1])
  <2>1. f \in [0 .. K -> S] /\ f[0] = R /\ \A k \in 1 .. K : f[k] = G[<<k, f[k - 1]>>]
    BY <1>8 DEF Iteration
  <2>2. \A k \in 1 .. K : f[k - 1] \in S
    BY <1>1, <2>1
  <2>. QED  BY <1>7, <2>1, <2>2
<1>10. f = F(f)
  <2>1. \A i \in 0 .. K : f[i] = IF i = 0 THEN R ELSE step(f[i - 1])
    BY <1>1, <1>9
  <2>. QED  BY <1>9, <2>1, Zenon
<1>11. z = F(z)
  <2> HIDE DEF F
  <2>. QED  BY <1>10 DEF z
<1>12. z[0] = R /\ \A k \in 1 .. K : z[k] = step(z[k - 1])
  <2>1. \A k \in 0 .. K : z[k] = IF k = 0 THEN R ELSE step(z[k - 1])
    BY <1>11, Zenon
  <2>2. 0 \in 0 .. K /\ \A k \in 1 .. K : k \in 0 .. K /\ k # 0
    BY <1>1
  <2>. QED  BY <2>1, <2>2
<1> HIDE DEF F
<1>13. \A k \in 0 .. K : z[k] \in S
  <2>1. z[0] \in S /\ \A k \in 1 .. K : z[k - 1] \in S => z[k] \in S
    BY <1>1, <1>3, <1>12
  <2>. QED  BY <1>1, <2>1, Stays
<1>14. \A k \in 0 .. K : Cardinality(z[k]) = K - k
  <2> DEFINE E == {k \in 0 .. K : Cardinality(z[k]) = K - k}
  <2>1. 0 \in E
    <3>1. Cardinality(R) = K
      BY DEF K
    <3>. QED  BY <1>1, <1>12, <3>1
  <2>2. ASSUME NEW k \in 0 .. K - 1, k \in E PROVE k + 1 \in E
    <3>1. k + 1 \in 1 .. K /\ (k + 1) - 1 = k /\ k \in 0 .. K /\ k + 1 \in 0 .. K /\ K - k # 0
      BY <1>1
    <3>2. z[k] \in S /\ z[k + 1] = step(z[k]) /\ Cardinality(z[k]) = K - k
      BY <1>12, <1>13, <2>2, <3>1
    <3>3. Cardinality(z[k + 1]) = (K - k) - 1
      BY <1>4, <1>5, <3>1, <3>2
    <3>4. (K - k) - 1 = K - (k + 1)
      BY <1>1
    <3>. QED  BY <3>1, <3>3, <3>4
  <2>3. 0 .. K \subseteq E
    <3> HIDE DEF E
    <3>. QED  BY <1>1, <2>1, <2>2, UpTo
  <2>. QED  BY <2>3
<1>15. ASSUME NEW k \in 1 .. K PROVE LeastRange(z[k - 1]) \in R
  <2>1. k - 1 \in 0 .. K /\ K - (k - 1) # 0
    BY <1>1
  <2>2. z[k - 1] \in S /\ Cardinality(z[k - 1]) # 0
    BY <1>13, <1>14, <2>1
  <2>3. LeastRange(z[k - 1]) \in z[k - 1]
    BY <1>4, <1>5, <2>2
  <2>. QED  BY <1>1, <2>2, <2>3 DEF S
<1>16. [k \in 1 .. K |-> LeastRange(z[k - 1])] \in [1 .. K -> R]
  BY <1>15
<1>17. SortedRanges(R) \in Seq(R)
  BY <1>1, <1>2, <1>16, IsSequence
<1>. QED  BY <1>1, <1>17 DEF K

(* An index of keys, and what an index map holds *)
Index_t(K) == UNION {[D -> Nat] : D \in {E \in SUBSET K : IsFiniteSet(E)}}
IndexMap_t(K) == [index : Index_t(K), metadata : Seq(Ids)]
Pair(K) == [key : K, md : Ids]

LEMMA IndexFacts ==
  ASSUME NEW K, NEW f \in Index_t(K)
  PROVE  IsFiniteSet(DOMAIN f) /\ DOMAIN f \subseteq K /\ f \in [DOMAIN f -> Nat]
<1>1. PICK D \in {E \in SUBSET K : IsFiniteSet(E)} : f \in [D -> Nat]
  BY DEF Index_t
<1>2. DOMAIN f = D
  BY <1>1
<1>. QED  BY <1>1, <1>2

LEMMA IndexIs ==
  ASSUME NEW K, NEW D \in SUBSET K, IsFiniteSet(D), NEW f \in [D -> Nat]
  PROVE  f \in Index_t(K)
  BY DEF Index_t

LEMMA IndexedType ==
  ASSUME NEW K, NEW m \in IndexMap_t(K), NEW pair \in Pair(K)
  PROVE  Indexed(m, pair) \in IndexMap_t(K)
<1> DEFINE n == Len(m.metadata)
           T == {i \in DOMAIN m.metadata : m.metadata[i] = pair.md} \cup {n + 1}
           at == Min(T)
           D == DOMAIN m.index \cup {pair.key}
           f == [k \in D |-> IF k = pair.key THEN at - 1 ELSE m.index[k]]
           u == IF at > n THEN Append(m.metadata, pair.md) ELSE m.metadata
<1>1. m.index \in Index_t(K) /\ m.metadata \in Seq(Ids) /\ pair.key \in K /\ pair.md \in Ids
  BY DEF IndexMap_t, Pair
<1>2. IsFiniteSet(DOMAIN m.index) /\ DOMAIN m.index \subseteq K /\ m.index \in [DOMAIN m.index -> Nat]
  BY <1>1, IndexFacts
<1>3. T \subseteq Nat /\ T # {} /\ \A y \in T : y > 0
  BY <1>1
<1>4. Indexed(m, pair) = [index |-> f, metadata |-> u]
  BY DEF Indexed
<1> HIDE DEF T
<1>5. at \in Nat /\ at > 0
  BY <1>3, LeastNatural
<1> HIDE DEF at
<1>6. u \in Seq(Ids)
  BY <1>1
<1>7. D \in SUBSET K /\ IsFiniteSet(D)
  BY <1>1, <1>2, FS_AddElement
<1>8. f \in [D -> Nat]
  BY <1>2, <1>5
<1> HIDE DEF D, f, u
<1>9. f \in Index_t(K)
  BY <1>7, <1>8, IndexIs
<1>. QED  BY <1>4, <1>6, <1>9 DEF IndexMap_t

LEMMA IndexMapType ==
  ASSUME NEW K, NEW pairs \in Seq(Pair(K)), NEW initial \in Seq(Ids)
  PROVE  IndexMap(pairs, initial) \in IndexMap_t(K)
<1> DEFINE N == Len(pairs)
           S == IndexMap_t(K)
           x == [index |-> <<>>, metadata |-> initial]
           step(y, n) == Indexed(y, pairs[n])
           G == [p \in (1 .. N) \X S |-> step(p[2], p[1])]
           F(y) == [n \in 0 .. N |-> IF n = 0 THEN x ELSE step(y[n - 1], n)]
           z == CHOOSE y : y = F(y)
<1>1. N \in Nat /\ \A n \in 1 .. N : pairs[n] \in Pair(K)
  OBVIOUS
<1>2. x \in S
  <2>1. <<>> \in [{} -> Nat]
    OBVIOUS
  <2>2. <<>> \in Index_t(K)
    BY <2>1, FS_EmptySet, IndexIs
  <2>. QED  BY <2>2 DEF IndexMap_t
<1>3. \A n \in 1 .. N : \A y \in S : step(y, n) \in S
  BY <1>1, IndexedType
<1>4. IndexMap(pairs, initial) = z[N]
  BY DEF IndexMap
<1> HIDE DEF step, z, N, S, x
<1>5. G \in [(1 .. N) \X S -> S]
  <2> SUFFICES ASSUME NEW p \in (1 .. N) \X S PROVE step(p[2], p[1]) \in S
    OBVIOUS
  <2>1. p[2] \in S /\ p[1] \in 1 .. N
    OBVIOUS
  <2>. QED  BY <1>3, <2>1
<1>6. \A n \in 1 .. N : \A y \in S : G[<<n, y>>] = step(y, n)
  OBVIOUS
<1> HIDE DEF G
<1>7. PICK f : Iteration(f, N, S, x, G)
  BY <1>1, <1>2, <1>5, Iterates
<1>8. f \in [0 .. N -> S] /\ f[0] = x /\ \A n \in 1 .. N : f[n] = step(f[n - 1], n)
  <2>1. f \in [0 .. N -> S] /\ f[0] = x /\ \A n \in 1 .. N : f[n] = G[<<n, f[n - 1]>>]
    BY <1>7 DEF Iteration
  <2>2. \A n \in 1 .. N : f[n - 1] \in S
    BY <1>1, <2>1
  <2>. QED  BY <1>6, <2>1, <2>2
<1>9. f = F(f)
  <2>1. \A i \in 0 .. N : f[i] = IF i = 0 THEN x ELSE step(f[i - 1], i)
    BY <1>1, <1>8
  <2>. QED  BY <1>8, <2>1, Zenon
<1>10. z = F(z)
  <2> HIDE DEF F
  <2>. QED  BY <1>9 DEF z
<1>11. z[0] = x /\ \A n \in 1 .. N : z[n] = step(z[n - 1], n)
  <2>1. \A n \in 0 .. N : z[n] = IF n = 0 THEN x ELSE step(z[n - 1], n)
    BY <1>10, Zenon
  <2>2. 0 \in 0 .. N /\ \A n \in 1 .. N : n \in 0 .. N /\ n # 0
    BY <1>1
  <2>. QED  BY <2>1, <2>2
<1> HIDE DEF F
<1>12. \A n \in 0 .. N : z[n] \in S
  <2>1. z[0] \in S /\ \A n \in 1 .. N : z[n - 1] \in S => z[n] \in S
    BY <1>2, <1>3, <1>11
  <2>. QED  BY <1>1, <2>1, Stays
<1>13. N \in 0 .. N
  BY <1>1
<1>. QED  BY <1>4, <1>12, <1>13 DEF S

(* What the index maps are made from *)
LEMMA RunPairsType ==
  ASSUME NEW mrs \in Map, ~RunsFault(mrs)
  PROVE  RunPairs(mrs) \in Seq(Pair(Spot))
<1> DEFINE rs == Runs(mrs)
           n == Len(rs)
           pair(i) == [key |-> Range_t(rs[i].start, rs[i].end), md |-> rs[i].md[1]]
<1>1. rs \in Seq(Run)
  BY RunsAre
<1>2. \A i \in DOMAIN rs : rs[i].md # null
  BY DEF RunsFault
<1>3. RunPairs(mrs) = [i \in DOMAIN rs |-> pair(i)]
  BY DEF RunPairs
<1> HIDE DEF rs
<1>4. n \in Nat /\ DOMAIN rs = 1 .. n /\ \A i \in 1 .. n : rs[i] \in Run
  BY <1>1
<1>5. ASSUME NEW i \in 1 .. n PROVE pair(i) \in Pair(Spot)
  <2>1. rs[i] \in Run /\ rs[i].md # null
    BY <1>2, <1>4
  <2>2. rs[i].start \in Nat /\ rs[i].end \in Nat /\ rs[i].md[1] \in Ids
    BY <2>1 DEF Run, Entry, entry
  <2>. QED  BY <2>2 DEF Range_t, Spot, Pair
<1> HIDE DEF n, pair
<1>6. RunPairs(mrs) \in [1 .. n -> Pair(Spot)]
  BY <1>3, <1>4, <1>5
<1>. QED  BY <1>4, <1>6, IsSequence

(* The paths there are *)
Path == Range(NameOrder)

LEMMA PathPairsType ==
  ASSUME NEW c \in Inputs, NEW path
  PROVE  PathPairs(c.policy, path) \in Seq(Pair(Path))
<1> DEFINE N == Len(NameOrder)
           D == DOMAIN entity_initializers(c.policy)
           taken(i) == NameOrder[i] \in D /\ IsPrefix(path, NameOrder[i])
           u == [i \in DOMAIN NameOrder |-> Where(taken(i), NameOrder[i])]
           paths == lookup_metadata_map(c.policy, path)
           n == Len(paths)
           pair(i) == [key |-> paths[i], md |-> lookup_metadata(c.policy, paths[i])[1]]
<1>1. N \in Nat /\ DOMAIN NameOrder = 1 .. N
  <2>1. Sequence(NameOrder)
    BY InputsAssumption
  <2>. QED  BY <2>1 DEF Sequence
<1>2. paths = FlattenSeq(u)
  BY DEF lookup_metadata_map
<1>3. \A i \in 1 .. N : Where(taken(i), NameOrder[i]) \in Seq(Path \cap D)
  <2> SUFFICES ASSUME NEW i \in 1 .. N PROVE Where(taken(i), NameOrder[i]) \in Seq(Path \cap D)
    OBVIOUS
  <2>1. taken(i) => NameOrder[i] \in Path \cap D
    BY <1>1 DEF Path, Range
  <2> HIDE DEF taken, D
  <2>. QED  BY <2>1, WhereType
<1> HIDE DEF taken, N, D
<1>4. u \in [1 .. N -> Seq(Path \cap D)]
  BY <1>1, <1>3
<1> HIDE DEF u
<1>5. paths \in Seq(Path \cap D)
  BY <1>1, <1>2, <1>4, Flatten
<1>6. PathPairs(c.policy, path) = [i \in DOMAIN paths |-> pair(i)]
  BY DEF PathPairs
<1> HIDE DEF paths
<1>7. n \in Nat /\ DOMAIN paths = 1 .. n /\ \A i \in 1 .. n : paths[i] \in Path /\ paths[i] \in D
  BY <1>5
<1>8. ASSUME NEW i \in 1 .. n PROVE pair(i) \in Pair(Path)
  <2> DEFINE p == paths[i]
             md == {encoding_map(c.policy, name) : name \in entity_initializers(c.policy)[p]}
  <2>1. p \in Path /\ p \in D
    BY <1>7
  <2> HIDE DEF p
  <2>2. lookup_metadata(c.policy, p) = entry(md)
    BY <2>1 DEF lookup_metadata, D
  <2>3. md \in Ids
    BY EncodingType, SubsetIds
  <2> HIDE DEF md
  <2>4. lookup_metadata(c.policy, p)[1] \in Ids
    BY <2>2, <2>3 DEF entry
  <2>. QED  BY <2>1, <2>4 DEF Pair, p
<1> HIDE DEF n, pair
<1>9. PathPairs(c.policy, path) \in [1 .. n -> Pair(Path)]
  BY <1>6, <1>7, <1>8
<1>. QED  BY <1>7, <1>9, IsSequence

LEMMA IndexesType ==
  ASSUME NEW mrs \in Map, ~RunsFault(mrs), NEW c \in Inputs
  PROVE  Indexes(mrs, c.policy) \in [memory : Index_t(Spot), registers : Index_t(Path), csrs : Index_t(Path),
                                     metadata : Seq(Ids)]
<1> DEFINE reg == PathPairs(c.policy, <<"ISA", "RISCV", "Reg">>)
           soc == PathPairs(c.policy, <<"SOC">>)
           csr == PathPairs(c.policy, <<"ISA", "RISCV", "CSR">>)
           memory == IndexMap(RunPairs(mrs), <<>>)
           registers == IndexMap(reg, memory.metadata)
           socs == IndexMap(soc, registers.metadata)
           csrs == IndexMap(csr, socs.metadata)
<1>1. reg \in Seq(Pair(Path)) /\ soc \in Seq(Pair(Path)) /\ csr \in Seq(Pair(Path))
  BY PathPairsType
<1>2. Indexes(mrs, c.policy) = [memory |-> memory.index, registers |-> registers.index, csrs |-> csrs.index,
                                metadata |-> csrs.metadata]
  BY DEF Indexes
<1> HIDE DEF reg, soc, csr
<1>3. memory \in IndexMap_t(Spot)
  <2> DEFINE pairs == RunPairs(mrs)
  <2>1. pairs \in Seq(Pair(Spot)) /\ <<>> \in Seq(Ids)
    BY RunPairsType
  <2> HIDE DEF pairs
  <2>2. IndexMap(pairs, <<>>) \in IndexMap_t(Spot)
    BY <2>1, IndexMapType
  <2>. QED  BY <2>2 DEF pairs
<1> HIDE DEF memory
<1>4. memory.index \in Index_t(Spot) /\ memory.metadata \in Seq(Ids)
  BY <1>3 DEF IndexMap_t
<1>5. registers \in IndexMap_t(Path)
  BY <1>1, <1>4, IndexMapType
<1> HIDE DEF registers
<1>6. registers.index \in Index_t(Path) /\ registers.metadata \in Seq(Ids)
  BY <1>5 DEF IndexMap_t
<1>7. socs \in IndexMap_t(Path)
  BY <1>1, <1>6, IndexMapType
<1> HIDE DEF socs
<1>8. socs.metadata \in Seq(Ids)
  BY <1>7 DEF IndexMap_t
<1>9. csrs \in IndexMap_t(Path)
  BY <1>1, <1>8, IndexMapType
<1> HIDE DEF csrs
<1>10. csrs.index \in Index_t(Path) /\ csrs.metadata \in Seq(Ids)
  BY <1>9 DEF IndexMap_t
<1>. QED  BY <1>2, <1>4, <1>6, <1>10

-----------------------------------------------------------------------------
(* The numbers of registers and CSRs *)

LEMMA SequenceConcat ==
  ASSUME NEW u, NEW v, Sequence(u), Sequence(v)
  PROVE  Sequence(u \o v)
<1> DEFINE A == {u[i] : i \in DOMAIN u}
           B == {v[i] : i \in DOMAIN v}
<1>1. u \in Seq(A) /\ v \in Seq(B)
  BY DEF Sequence
<1> HIDE DEF A, B
<1>2. u \in Seq(A \cup B) /\ v \in Seq(A \cup B)
  BY <1>1
<1> DEFINE w == u \o v
<1>3. w \in Seq(A \cup B)
  BY <1>2
<1> HIDE DEF w
<1>4. w \in Seq({w[i] : i \in DOMAIN w})
  BY <1>3
<1>. QED  BY <1>4 DEF Sequence, w

LEMMA SeriesSequence ==
  ASSUME NEW prefix, NEW from \in Nat, NEW to \in Nat, from <= to
  PROVE  Sequence(Series(prefix, from, to))
<1> DEFINE n == to - from + 1
           s == Series(prefix, from, to)
           S == {s[i] : i \in DOMAIN s}
<1>1. n \in Nat
  OBVIOUS
<1>2. s = [i \in 1 .. n |-> prefix \o ToString(from + i - 1)]
  BY DEF Series
<1> HIDE DEF n, s
<1>3. DOMAIN s = 1 .. n
  BY <1>2
<1>4. s \in [1 .. n -> S]
  BY <1>2, <1>3, Zenon
<1> HIDE DEF S
<1>5. s \in Seq(S)
  BY <1>1, <1>4, IsSequence
<1>. QED  BY <1>5 DEF Sequence, S, s

LEMMA RegistersSequence == Sequence(Registers)
<1> DEFINE a == <<"RZero", "RA", "SP", "GP", "TP">>
           b == Series("T", 0, 2)
           d == Series("S", 0, 1)
           e == Series("A", 0, 7)
           f == Series("S", 2, 11)
           g == Series("T", 3, 6)
           h == Series("FT", 0, 7)
           i == Series("FS", 0, 1)
           j == Series("FA", 0, 7)
           k == Series("FS", 2, 11)
           l == Series("FT", 8, 11)
           m == <<"PC">>
<1>1. Registers = a \o b \o d \o e \o f \o g \o h \o i \o j \o k \o l \o m
  BY DEF Registers
<1>2. Sequence(a) /\ Sequence(m)
  BY DEF Sequence
<1>3. Sequence(b) /\ Sequence(d) /\ Sequence(e)
  BY SeriesSequence
<1>4. Sequence(f) /\ Sequence(g) /\ Sequence(h)
  BY SeriesSequence
<1>5. Sequence(i) /\ Sequence(j) /\ Sequence(k) /\ Sequence(l)
  BY SeriesSequence
<1> HIDE DEF a, b, d, e, f, g, h, i, j, k, l, m
<1>6. Sequence(a \o b \o d \o e)
  BY <1>2, <1>3, SequenceConcat, Zenon
<1>7. Sequence(a \o b \o d \o e \o f \o g \o h)
  BY <1>4, <1>6, SequenceConcat, Zenon
<1>8. Sequence(a \o b \o d \o e \o f \o g \o h \o i \o j \o k \o l \o m)
  BY <1>2, <1>5, <1>7, SequenceConcat, Zenon
<1>. QED  BY <1>1, <1>8

LEMMA RegisterNumbers == \A name \in DOMAIN register_name_map : register_name_map[name] \in Int
<1> DEFINE R == Registers
           position(name) == CHOOSE i \in DOMAIN R : R[i] = name
<1>1. register_name_map = [name \in {R[i] : i \in DOMAIN R} |-> position(name) - 1]
  BY DEF register_name_map
<1>2. DOMAIN R \subseteq Int
  <2>1. Sequence(R)
    BY RegistersSequence
  <2> HIDE DEF R
  <2>. QED  BY <2>1 DEF Sequence
<1> HIDE DEF R
<1>3. \A name \in {R[i] : i \in DOMAIN R} : position(name) \in DOMAIN R
  OBVIOUS
<1> HIDE DEF position
<1>. QED  BY <1>1, <1>2, <1>3

LEMMA CsrNumbers == \A name \in DOMAIN csr_name_map : csr_name_map[name] \in Int
<1> DEFINE C == CsrSlots
           slot(name) == CHOOSE i \in DOMAIN C : name \in C[i]
<1>1. csr_name_map = [name \in UNION {C[i] : i \in DOMAIN C} |-> slot(name) - 1]
  BY DEF csr_name_map
<1>2. DOMAIN C \subseteq Int
  BY DEF CsrSlots
<1> HIDE DEF C
<1>3. \A name \in UNION {C[i] : i \in DOMAIN C} : slot(name) \in DOMAIN C
  OBVIOUS
<1> HIDE DEF slot
<1>. QED  BY <1>1, <1>2, <1>3

-----------------------------------------------------------------------------
(* The numbers of the firmware file; only those that stop the writer are   *)
(* negative.                                                               *)

LEMMA IndexValuesType ==
  ASSUME NEW K, NEW index \in Index_t(K), NEW name_map, \A name \in DOMAIN name_map : name_map[name] \in Int
  PROVE  IndexValues(index, name_map) \in Seq(Int)
<1> DEFINE N == Len(NameOrder)
           values(path) == IF path \in DOMAIN index THEN <<Number(name_map, path), index[path]>> ELSE <<>>
           u == [i \in DOMAIN NameOrder |-> values(NameOrder[i])]
<1>1. N \in Nat /\ DOMAIN NameOrder = 1 .. N
  <2>1. Sequence(NameOrder)
    BY InputsAssumption
  <2>. QED  BY <2>1 DEF Sequence
<1>2. IndexValues(index, name_map) = FlattenSeq(u)
  BY DEF IndexValues
<1>3. ASSUME NEW path PROVE values(path) \in Seq(Int)
  <2>1. Number(name_map, path) \in Int
    BY DEF Number, throws
  <2>2. path \in DOMAIN index => index[path] \in Int
    BY IndexFacts
  <2>. QED  BY <2>1, <2>2
<1> HIDE DEF values, N
<1>4. u \in [1 .. N -> Seq(Int)]
  BY <1>1, <1>3
<1> HIDE DEF u
<1>. QED  BY <1>1, <1>2, <1>4, Flatten

LEMMA WithoutType ==
  ASSUME NEW K, NEW index \in Index_t(K), NEW keys
  PROVE  Without(index, keys) \in Index_t(K) /\ Cardinality(DOMAIN Without(index, keys)) \in Nat
<1> DEFINE D == DOMAIN index \ keys
           f == [k \in D |-> index[k]]
<1>1. IsFiniteSet(DOMAIN index) /\ DOMAIN index \subseteq K /\ index \in [DOMAIN index -> Nat]
  BY IndexFacts
<1>2. D \in SUBSET K /\ IsFiniteSet(D) /\ f \in [D -> Nat] /\ DOMAIN f = D
  BY <1>1, FS_Subset
<1> HIDE DEF D
<1>3. Cardinality(D) \in Nat
  BY <1>2, FS_CardinalityType
<1>4. Without(index, keys) = f
  BY DEF Without, D
<1> HIDE DEF f
<1>. QED  BY <1>2, <1>3, <1>4, IndexIs

LEMMA SaveIndexesType ==
  ASSUME NEW x \in [memory : Index_t(Spot), registers : Index_t(Path), csrs : Index_t(Path), metadata : Seq(Ids)],
         Reg("Env") \in DOMAIN x.registers
  PROVE  save_tag_indexes(x) \in Seq(Int)
<1> DEFINE registers == Without(x.registers, {Reg("Default"), Reg("Env")})
           csrs == Without(x.csrs, {Csr("Default")})
           ranges == SortedRanges(DOMAIN x.memory)
           one(i) == <<Cardinality(x.metadata[i])>> \o SortedIds(x.metadata[i])
           a == [i \in DOMAIN x.metadata |-> one(i)]
           place(i) == <<ranges[i].start, ranges[i].end, x.memory[ranges[i]]>>
           b == [i \in DOMAIN ranges |-> place(i)]
           u1 == <<Len(x.metadata)>>
           u2 == FlattenSeq(a)
           u3 == <<Cardinality(DOMAIN registers), Default(x.registers, Reg("Default"))>>
           u4 == IndexValues(registers, register_name_map)
           u5 == <<Cardinality(DOMAIN csrs), Default(x.csrs, Csr("Default"))>>
           u6 == IndexValues(csrs, csr_name_map)
           u7 == <<x.registers[Reg("Env")], Len(ranges)>>
           u8 == FlattenSeq(b)
<1>0. save_tag_indexes(x) = u1 \o u2 \o u3 \o u4 \o u5 \o u6 \o u7 \o u8
  BY DEF save_tag_indexes
<1>1. x.memory \in Index_t(Spot) /\ x.registers \in Index_t(Path) /\ x.csrs \in Index_t(Path) /\ x.metadata \in Seq(Ids)
  OBVIOUS
<1>2. registers \in Index_t(Path) /\ Cardinality(DOMAIN registers) \in Nat
  BY <1>1, WithoutType
<1>3. csrs \in Index_t(Path) /\ Cardinality(DOMAIN csrs) \in Nat
  BY <1>1, WithoutType
<1>4. ASSUME NEW index \in Index_t(Path), NEW path
      PROVE  Default(index, path) \in Int /\ (path \in DOMAIN index => index[path] \in Int)
  BY IndexFacts DEF Default, endless
<1>5. u1 \in Seq(Int)
  BY <1>1
<1>6. u2 \in Seq(Int)
  <2> DEFINE n == Len(x.metadata)
  <2>1. n \in Nat /\ DOMAIN x.metadata = 1 .. n /\ \A i \in 1 .. n : x.metadata[i] \in Ids
    BY <1>1
  <2>2. ASSUME NEW i \in 1 .. n PROVE one(i) \in Seq(Int)
    <3> DEFINE md == x.metadata[i]
               s == SortedIds(md)
    <3>1. md \in Ids
      BY <2>1
    <3> HIDE DEF md
    <3>2. s \in Seq(Nat) /\ Cardinality(md) \in Nat
      BY <3>1, SortedIdsType
    <3> HIDE DEF s
    <3>3. s \in Seq(Int) /\ <<Cardinality(md)>> \in Seq(Int)
      BY <3>2
    <3>4. <<Cardinality(md)>> \o s \in Seq(Int)
      BY <3>3
    <3>. QED  BY <3>4 DEF s, md
  <2> HIDE DEF one, n
  <2>3. a \in [1 .. n -> Seq(Int)]
    BY <2>1, <2>2
  <2> HIDE DEF a
  <2>. QED  BY <2>1, <2>3, Flatten
<1>7. u3 \in Seq(Int)
  <2>1. Default(x.registers, Reg("Default")) \in Int
    BY <1>1, <1>4
  <2>. QED  BY <1>2, <2>1
<1>8. u4 \in Seq(Int)
  <2> HIDE DEF registers
  <2>. QED  BY <1>2, RegisterNumbers, IndexValuesType
<1>9. u5 \in Seq(Int)
  <2>1. Default(x.csrs, Csr("Default")) \in Int
    BY <1>1, <1>4
  <2>. QED  BY <1>3, <2>1
<1>10. u6 \in Seq(Int)
  <2> HIDE DEF csrs
  <2>. QED  BY <1>3, CsrNumbers, IndexValuesType
<1>11. IsFiniteSet(DOMAIN x.memory) /\ DOMAIN x.memory \subseteq Spot /\ x.memory \in [DOMAIN x.memory -> Nat]
  BY <1>1, IndexFacts
<1>12. ranges \in Seq(DOMAIN x.memory)
  BY <1>11, SortedRangesType
<1> HIDE DEF ranges
<1>13. u7 \in Seq(Int)
  <2>1. x.registers[Reg("Env")] \in Int
    BY <1>1, <1>4
  <2>2. Len(ranges) \in Int
    BY <1>12
  <2>. QED  BY <2>1, <2>2
<1>14. u8 \in Seq(Int)
  <2> DEFINE n == Len(ranges)
  <2>1. n \in Nat /\ DOMAIN ranges = 1 .. n /\ \A i \in 1 .. n : ranges[i] \in DOMAIN x.memory
    BY <1>12
  <2>2. ASSUME NEW i \in 1 .. n PROVE place(i) \in Seq(Int)
    <3> DEFINE r == ranges[i]
    <3>1. r \in DOMAIN x.memory
      BY <2>1
    <3> HIDE DEF r
    <3>2. r.start \in Int /\ r.end \in Int /\ x.memory[r] \in Int
      BY <1>11, <3>1 DEF Spot
    <3>3. <<r.start, r.end, x.memory[r]>> \in Seq(Int)
      BY <3>2
    <3>. QED  BY <3>3 DEF r
  <2> HIDE DEF place, n
  <2>3. b \in [1 .. n -> Seq(Int)]
    BY <2>1, <2>2
  <2> HIDE DEF b
  <2>. QED  BY <2>1, <2>3, Flatten
<1> HIDE DEF u1, u2, u3, u4, u5, u6, u7, u8
<1>15. u1 \o u2 \o u3 \o u4 \in Seq(Int)
  BY <1>5, <1>6, <1>7, <1>8
<1>16. u1 \o u2 \o u3 \o u4 \o u5 \o u6 \o u7 \o u8 \in Seq(Int)
  <2> DEFINE v == u1 \o u2 \o u3 \o u4
  <2> HIDE DEF v
  <2>1. v \o u5 \o u6 \o u7 \o u8 \in Seq(Int)
    BY <1>9, <1>10, <1>13, <1>14, <1>15 DEF v
  <2>. QED  BY <2>1 DEF v
<1>. QED  BY <1>0, <1>16

LEMMA GranularityType ==
  ASSUME NEW c \in Inputs, NEW range, NEW default \in Nat
  PROVE  get_soc_granularity(c.soc, range, default) \in Nat
<1> DEFINE soc == c.soc
           same == {i \in DOMAIN soc : soc[i].start = range.start /\ soc[i].end = range.end}
           e == soc[Min(same)]
<1>1. Sequence(soc)
  BY InputsAssumption
<1>2. \A i \in DOMAIN soc : "tag_granularity" \in DOMAIN soc[i] => soc[i].tag_granularity \in Nat
  BY InputsAssumption
<1>3. get_soc_granularity(c.soc, range, default) =
        IF same # {} /\ "tag_granularity" \in DOMAIN e THEN e.tag_granularity % 256 ELSE default
  BY DEF get_soc_granularity
<1>4. same \subseteq Nat /\ same \subseteq DOMAIN soc
  <2> HIDE DEF soc
  <2>. QED  BY <1>1 DEF Sequence
<1>5. same # {} => Min(same) \in DOMAIN soc
  <2> HIDE DEF same
  <2>. QED  BY <1>4, LeastNatural
<1>6. same # {} /\ "tag_granularity" \in DOMAIN e => e.tag_granularity \in Nat
  BY <1>2, <1>5
<1> HIDE DEF same, e
<1>7. same # {} /\ "tag_granularity" \in DOMAIN e => e.tag_granularity % 256 \in Nat
  BY <1>6
<1>. QED  BY <1>3, <1>7

LEMMA HeadersType ==
  ASSUME NEW c \in Inputs
  PROVE  /\ Headers(c.image, c.policy, c.soc).code \in Seq(Span)
         /\ Headers(c.image, c.policy, c.soc).data \in Seq(Seq(Int))
<1> DEFINE g == get_soc_ranges(c.soc, c.policy)
           s == SectionRanges(c.image, FALSE)
           t == SectionRanges(c.image, TRUE)
           data == coalesce_ranges(g \o s)
           size(i) == get_soc_granularity(c.soc, data[i], word_bytes(c.image))
           row(i) == <<data[i].start, data[i].end, size(i)>>
           h == Headers(c.image, c.policy, c.soc)
<1>1. h.code = coalesce_ranges(t) /\ h.data = [i \in DOMAIN data |-> row(i)]
  BY DEF Headers
<1>2. g \in Seq(Span) /\ s \in Seq(Span) /\ t \in Seq(Span)
  BY GivenSpans
<1> HIDE DEF g, s, t, h
<1>3. g \o s \in Seq(Span)
  BY <1>2
<1>4. data \in Seq(Span) /\ coalesce_ranges(t) \in Seq(Span)
  BY <1>2, <1>3, CoalesceCovers
<1> HIDE DEF data
<1> DEFINE n == Len(data)
<1>5. n \in Nat /\ DOMAIN data = 1 .. n /\ \A i \in 1 .. n : data[i] \in Span
  BY <1>4
<1>6. ASSUME NEW i \in 1 .. n PROVE row(i) \in Seq(Int)
  <2>1. word_bytes(c.image) \in Nat
    BY DEF word_bytes
  <2>2. size(i) \in Nat
    BY <2>1, GranularityType
  <2>3. data[i].start \in Nat /\ data[i].end \in Nat
    BY <1>5, SpanNumbers
  <2> HIDE DEF size
  <2>. QED  BY <2>2, <2>3
<1> HIDE DEF row, n
<1>7. h.data \in [1 .. n -> Seq(Int)]
  BY <1>1, <1>5, <1>6
<1>8. h.data \in Seq(Seq(Int))
  BY <1>5, <1>7, IsSequence
<1>. QED  BY <1>1, <1>4, <1>8 DEF h

LEMMA WriteHeadersType ==
  ASSUME NEW image_, NEW h, h.code \in Seq(Span), h.data \in Seq(Seq(Int))
  PROVE  write_headers(image_, h) \in Seq(Int)
<1> DEFINE row(i) == <<h.code[i].start, h.code[i].end>>
           a == [i \in DOMAIN h.code |-> row(i)]
           u1 == <<IF word_bytes(image_) = 8 THEN 1 ELSE 0, Len(h.code)>>
           u2 == FlattenSeq(a)
           u3 == <<Len(h.data)>>
           u4 == FlattenSeq(h.data)
<1>0. write_headers(image_, h) = u1 \o u2 \o u3 \o u4
  BY DEF write_headers
<1>1. Len(h.code) \in Int /\ Len(h.data) \in Int
  OBVIOUS
<1>2. u1 \in Seq(Int) /\ u3 \in Seq(Int)
  BY <1>1
<1>3. u2 \in Seq(Int)
  <2> DEFINE n == Len(h.code)
  <2>1. n \in Nat /\ DOMAIN h.code = 1 .. n /\ \A i \in 1 .. n : h.code[i] \in Span
    OBVIOUS
  <2>2. ASSUME NEW i \in 1 .. n PROVE row(i) \in Seq(Int)
    <3>1. h.code[i].start \in Nat /\ h.code[i].end \in Nat
      BY <2>1, SpanNumbers
    <3>. QED  BY <3>1
  <2> HIDE DEF row, n
  <2>3. a \in [1 .. n -> Seq(Int)]
    BY <2>1, <2>2
  <2> HIDE DEF a
  <2>. QED  BY <2>1, <2>3, Flatten
<1>4. u4 \in Seq(Int)
  <2> DEFINE n == Len(h.data)
  <2>1. n \in Nat /\ h.data \in [1 .. n -> Seq(Int)]
    OBVIOUS
  <2> HIDE DEF n
  <2>. QED  BY <2>1, Flatten
<1> HIDE DEF u1, u2, u3, u4
<1>5. u1 \o u2 \o u3 \o u4 \in Seq(Int)
  BY <1>2, <1>3, <1>4
<1>. QED  BY <1>0, <1>5

LEMMA WriteTagFileType ==
  ASSUME NEW mrs \in Map, ~RunsFault(mrs), NEW c \in Inputs
  PROVE  write_tag_file(mrs, c.image, c.policy, c.soc).bytes \in Seq(Byte)
<1> DEFINE h == Headers(c.image, c.policy, c.soc)
           header == write_headers(c.image, h)
           x == Indexes(mrs, c.policy)
           rest == IndexPart(x)
           values == header \o rest
           T == {i \in DOMAIN values : values[i] < 0} \cup {Len(values) + 1}
           stop == Min(T)
           v == SubSeq(values, 1, stop - 1)
<1>1. write_tag_file(mrs, c.image, c.policy, c.soc).bytes = Bytes(v)
  BY DEF write_tag_file, Emitted
<1>2. header \in Seq(Int)
  <2>1. h.code \in Seq(Span) /\ h.data \in Seq(Seq(Int))
    BY HeadersType
  <2> HIDE DEF h
  <2>. QED  BY <2>1, WriteHeadersType
<1> HIDE DEF header
<1>3. rest \in Seq(Int)
  <2>1. x \in [memory : Index_t(Spot), registers : Index_t(Path), csrs : Index_t(Path), metadata : Seq(Ids)]
    BY IndexesType
  <2> HIDE DEF x
  <2>2. CASE Reg("Env") \in DOMAIN x.registers
    BY <2>1, <2>2, SaveIndexesType DEF IndexPart
  <2>3. CASE Reg("Env") \notin DOMAIN x.registers
    BY <2>3 DEF IndexPart, throws
  <2>. QED  BY <2>2, <2>3
<1> HIDE DEF rest
<1>4. values \in Seq(Int)
  BY <1>2, <1>3
<1> HIDE DEF values
<1>5. T \subseteq Nat /\ T # {} /\ \A y \in T : y \in 1 .. Len(values) + 1
  BY <1>4
<1>6. stop \in T /\ \A y \in T : stop <= y
  <2> HIDE DEF T
  <2>. QED  BY <1>5, LeastNatural
<1> HIDE DEF stop
<1>7. stop \in 1 .. Len(values) + 1 /\ Len(values) \in Nat
  BY <1>4, <1>5, <1>6
<1>8. \A i \in 1 .. stop - 1 : values[i] \in Nat
  <2> SUFFICES ASSUME NEW i \in 1 .. stop - 1 PROVE values[i] \in Nat
    OBVIOUS
  <2>1. i \in DOMAIN values /\ values[i] \in Int /\ i \in Int /\ ~(stop <= i)
    BY <1>4, <1>7
  <2>2. i \notin T
    BY <1>6, <2>1
  <2>. QED  BY <2>1, <2>2
<1> HIDE DEF T
<1>9. v \in [1 .. stop - 1 -> Nat]
  <2>1. v = [i \in 1 .. stop - 1 |-> values[i]]
    BY <1>4, <1>7
  <2>. QED  BY <1>8, <2>1
<1>10. v \in Seq(Nat)
  <2>1. stop - 1 \in Nat
    BY <1>7
  <2> HIDE DEF v
  <2>. QED  BY <1>9, <2>1, IsSequence
<1> HIDE DEF v
<1>. QED  BY <1>1, <1>10, BytesType

-----------------------------------------------------------------------------
(* While the listing and the file are written, embed_tags has been through *)
(* all runs; what is in a file are bytes.                                   *)
Writing == {"annotate", "write", "writing"}
FileInv == /\ stage \in Writing => ~RunsFault(md_memory_map)
           /\ tag_file = <<>> \/ tag_file[1] \in Seq(Byte)

FileStep == /\ UNCHANGED input
            /\ stage' \in Writing => /\ UNCHANGED md_memory_map
                                     /\ stage \in Writing \/ ~RunsFault(md_memory_map)
            /\ \/ UNCHANGED tag_file
               \/ tag_file' = <<>>
               \/ tag_file' = <<(<<>>)>>
               \/ \E t \in ObjdumpTexts : tag_file' = <<t>>
               \/ stage = "writing" /\ tag_file' = <<Output.bytes>>
               \/ stage = "writing" /\ \E n \in Nat : tag_file' = <<SubSeq(Output.bytes, 1, n)>> /\ n <= Len(Output.bytes)
               \/ stage = "writing" /\ tag_file' = <<Output.bytes \o <<255, 255>>>>

LEMMA FileSteps == TaggingNext \/ UNCHANGED all => FileStep
<1> SUFFICES ASSUME TaggingNext \/ UNCHANGED all PROVE FileStep
  OBVIOUS
<1>1. CASE UNCHANGED all
  BY <1>1 DEF all, vars, FileStep
<1>2. CASE Host
  BY <1>2, Zenon DEF Host, HostNext, FileStep
<1>3. CASE ToolNext
  <2>1. CASE Start
    <3>1. UNCHANGED input /\ (tag_file' = <<>> \/ UNCHANGED tag_file) /\ stage' \in {"rwx", "apply", "throws"}
      BY <2>1 DEF Start
    <3>. QED  BY <3>1 DEF FileStep, Writing
  <2>2. CASE ApplyTags \/ TagOpcodes \/ TagEntities
    <3>1. UNCHANGED <<input, tag_file>> /\ stage' \in {"throws", "opcodes", "entities", "embed"}
      BY <2>2 DEF ApplyTags, TagOpcodes, TagEntities, Tagged
    <3>. QED  BY <3>1 DEF FileStep, Writing
  <2>3. CASE AddRwxRanges \/ GeneratePolicyRanges \/ AddSocRanges
    <3>1. UNCHANGED <<input, tag_file>> /\ stage' \in {"throws", "llvm", "soc", "tag_array"}
      BY <2>3 DEF AddRwxRanges, GeneratePolicyRanges, AddSocRanges, Ranges
    <3>. QED  BY <3>1 DEF FileStep, Writing
  <2>4. ASSUME NEW works \in BOOLEAN, AddTagArray(works) PROVE FileStep
    <3>1. UNCHANGED <<input, tag_file>> /\ stage' \in {"throws", "apply"}
      BY <2>4 DEF AddTagArray
    <3>. QED  BY <3>1 DEF FileStep, Writing
  <2>5. ASSUME NEW works \in BOOLEAN, EmbedTags(works) PROVE FileStep
    <3>1. /\ UNCHANGED <<input, tag_file, md_memory_map>>
          /\ stage' \in {"throws", "crash"} \/ ~RunsFault(md_memory_map)
      BY <2>5, Zenon DEF EmbedTags
    <3>. QED  BY <3>1 DEF FileStep, Writing
  <2>6. ASSUME NEW works \in BOOLEAN, Annotate(works) PROVE FileStep
    <3>1. /\ UNCHANGED <<input, md_memory_map>> /\ stage = "annotate"
          /\ UNCHANGED tag_file \/ (\E t \in ObjdumpTexts : tag_file' = <<t>>)
      BY <2>6, Zenon DEF Annotate
    <3>2. stage \in Writing
      BY <3>1 DEF Writing
    <3>3. CASE UNCHANGED tag_file
      BY <3>1, <3>2, <3>3 DEF FileStep
    <3>4. CASE \E t \in ObjdumpTexts : tag_file' = <<t>>
      BY <3>1, <3>2, <3>4, Zenon DEF FileStep
    <3>. QED  BY <3>1, <3>3, <3>4
  <2>7. ASSUME NEW works \in BOOLEAN, OpenTagFile(works) PROVE FileStep
    <3>1. /\ UNCHANGED <<input, md_memory_map>> /\ stage = "write"
          /\ UNCHANGED tag_file \/ tag_file' = <<(<<>>)>>
      BY <2>7 DEF OpenTagFile
    <3>. QED  BY <3>1 DEF FileStep, Writing
  <2>8. CASE WriteBytes
    <3>1. UNCHANGED <<input, md_memory_map>> /\ stage = "writing"
      BY <2>8, Zenon DEF WriteBytes
    <3>2. \/ UNCHANGED tag_file
          \/ tag_file' = <<Output.bytes>>
          \/ \E n \in Len(tag_file[1]) + 1 .. Len(Output.bytes) : tag_file' = <<SubSeq(Output.bytes, 1, n)>>
          \/ tag_file' = <<Output.bytes \o <<255, 255>>>>
      BY <2>8, Zenon DEF WriteBytes
    <3>. QED  BY <3>1, <3>2 DEF FileStep, Writing
  <2>9. CASE RunAgain
    <3>1. UNCHANGED <<input, tag_file>> /\ stage' = "start"
      BY <2>9, Zenon DEF RunAgain
    <3>. QED  BY <3>1 DEF FileStep, Writing
  <2>. QED  BY <1>3, <2>1, <2>2, <2>3, <2>4, <2>5, <2>6, <2>7, <2>8, <2>9 DEF ToolNext
<1>. QED  BY <1>1, <1>2, <1>3 DEF TaggingNext, Tool

LEMMA FileInvStep == FileInv /\ RangeInv /\ MapInv /\ FileStep => FileInv'
<1> SUFFICES ASSUME FileInv, RangeInv, MapInv, FileStep PROVE FileInv'
  OBVIOUS
<1>1. stage' \in Writing => ~RunsFault(md_memory_map)'
  <2> SUFFICES ASSUME stage' \in Writing PROVE ~RunsFault(md_memory_map)'
    OBVIOUS
  <2>1. md_memory_map' = md_memory_map /\ ~RunsFault(md_memory_map)
    BY DEF FileStep, FileInv
  <2>. QED  BY <2>1
<1>2. tag_file' = <<>> \/ tag_file'[1] \in Seq(Byte)
  <2> DEFINE out == Output.bytes
  <2>1. CASE UNCHANGED tag_file \/ tag_file' = <<>>
    BY <2>1 DEF FileInv
  <2>2. CASE tag_file' = <<(<<>>)>> \/ (\E t \in ObjdumpTexts : tag_file' = <<t>>)
    <3>1. ObjdumpTexts \subseteq Seq(Byte) /\ <<>> \in Seq(Byte)
      BY InputsAssumption DEF Byte
    <3>2. CASE tag_file' = <<(<<>>)>>
      BY <3>1, <3>2
    <3>3. CASE \E t \in ObjdumpTexts : tag_file' = <<t>>
      <4>1. PICK t \in ObjdumpTexts : tag_file' = <<t>>
        BY <3>3
      <4>2. tag_file'[1] = t
        BY <4>1
      <4>. QED  BY <3>1, <4>2
    <3>. QED  BY <2>2, <3>2, <3>3
  <2>3. CASE stage = "writing"
    <3>1. md_memory_map \in Map /\ ~RunsFault(md_memory_map)
      BY <2>3 DEF MapInv, FileInv, Writing
    <3>2. ASSUME ~input.firmware PROVE out \in Seq(Byte)
      <4>1. out = save_metadata(md_memory_map, 8 * word_bytes(image))
        BY <3>2 DEF Output
      <4>2. 8 * word_bytes(image) \in Nat
        BY DEF word_bytes
      <4>. QED  BY <3>1, <4>1, <4>2, SaveType
    <3>3. ASSUME input.firmware PROVE out \in Seq(Byte)
      <4>1. out = write_tag_file(md_memory_map, input.image, input.policy, input.soc).bytes
        BY <3>3 DEF Output, image, policy
      <4>2. input \in Inputs
        BY DEF RangeInv
      <4>. QED  BY <3>1, <4>1, <4>2, WriteTagFileType
    <3>4. out \in Seq(Byte)
      BY <3>2, <3>3, Zenon
    <3> HIDE DEF out
    <3>5. CASE tag_file' = <<out>>
      BY <3>4, <3>5
    <3>6. CASE tag_file' = <<out \o <<255, 255>>>>
      <4>1. <<255, 255>> \in Seq(Byte)
        BY DEF Byte
      <4>2. out \o <<255, 255>> \in Seq(Byte)
        BY <3>4, <4>1, Concat
      <4>. QED  BY <3>6, <4>2
    <3>7. CASE \E n \in Nat : tag_file' = <<SubSeq(out, 1, n)>> /\ n <= Len(out)
      <4>1. PICK n \in Nat : tag_file' = <<SubSeq(out, 1, n)>> /\ n <= Len(out)
        BY <3>7
      <4>2. SubSeq(out, 1, n) \in Seq(Byte)
        BY <3>4, <4>1
      <4>. QED  BY <4>1, <4>2
    <3>. QED  BY <2>1, <2>2, <3>5, <3>6, <3>7, Zenon DEF FileStep, out
  <2>. QED  BY <2>1, <2>2, <2>3, Zenon DEF FileStep
<1>. QED  BY <1>1, <1>2 DEF FileInv

LEMMA FileInvariant == TaggingSpec => []FileInv
<1>1. TaggingInit => FileInv
  BY DEF TaggingInit, Init, FileInv, Writing
<1>2. FileInv /\ RangeInv /\ MapInv /\ [TaggingNext]_all => FileInv'
  BY FileSteps, FileInvStep
<1>. QED  BY <1>1, <1>2, RangeInvariant, MapInvariant, PTL DEF TaggingSpec

-----------------------------------------------------------------------------
(* The entries of a run are equal. *)
LEMMA RunConstant ==
  ASSUME NEW mem \in Seq(Entry), NEW i \in RunStarts(mem), NEW j \in i .. RunEnd(mem, i) - 1
  PROVE  j \in DOMAIN mem /\ mem[j] = mem[i]
<1> DEFINE next == RunEnd(mem, i)
           m == (next - 1) - i
           E == {k \in 0 .. m : mem[i + k] = mem[i]}
<1>1. Len(mem) \in Nat /\ DOMAIN mem = 1 .. Len(mem) /\ i \in 1 .. Len(mem)
  BY DEF RunStarts
<1>2. next \in i + 1 .. Len(mem) + 1 /\ \A s \in RunStarts(mem) : s > i => next <= s
  BY <1>1, RunEnds
<1> HIDE DEF next
<1>3. m \in Nat
  BY <1>1, <1>2
<1>4. 0 \in E
  BY <1>1, <1>3
<1>5. ASSUME NEW k \in 0 .. m - 1, k \in E PROVE k + 1 \in E
  <2>1. i + (k + 1) \in DOMAIN mem /\ i + (k + 1) > i /\ ~(next <= i + (k + 1)) /\ k + 1 \in 0 .. m
    BY <1>1, <1>2, <1>3
  <2>2. i + (k + 1) \notin RunStarts(mem)
    BY <1>2, <2>1
  <2>3. mem[i + (k + 1)] = mem[(i + (k + 1)) - 1]
    BY <2>1, <2>2 DEF RunStarts
  <2>4. (i + (k + 1)) - 1 = i + k
    BY <1>1
  <2>. QED  BY <1>5, <2>1, <2>3, <2>4
<1>6. 0 .. m \subseteq E
  <2> HIDE DEF E, m
  <2>. QED  BY <1>3, <1>4, <1>5, UpTo
<1>7. j - i \in 0 .. m /\ i + (j - i) = j
  BY <1>1, <1>2 DEF next
<1>8. mem[j] = mem[i]
  BY <1>6, <1>7
<1>9. j \in DOMAIN mem
  BY <1>1, <1>2 DEF next
<1>. QED  BY <1>8, <1>9

(* Every entry is in a run. *)
LEMMA InSomeRun ==
  ASSUME NEW mem \in Seq(Entry), NEW j \in DOMAIN mem
  PROVE  \E i \in RunStarts(mem) : j \in i .. RunEnd(mem, i) - 1
<1> DEFINE T == {s \in RunStarts(mem) : s <= j}
           i == Max(T)
<1>1. Len(mem) \in Nat /\ DOMAIN mem = 1 .. Len(mem) /\ j \in 1 .. Len(mem)
  OBVIOUS
<1>2. RunStarts(mem) \subseteq 1 .. Len(mem) /\ 1 \in T
  BY <1>1 DEF RunStarts
<1>3. T \subseteq 0 .. j /\ T # {}
  BY <1>1, <1>2
<1>4. i \in T /\ \A y \in T : y <= i
  <2> HIDE DEF T
  <2>1. j \in Nat
    BY <1>1
  <2>. QED  BY <1>3, <2>1, GreatestNatural
<1>5. i \in RunStarts(mem) /\ i <= j /\ \A s \in RunStarts(mem) : s <= j => s <= i
  BY <1>4
<1> HIDE DEF i
<1>6. i \in DOMAIN mem
  BY <1>1, <1>2, <1>5
<1>7. /\ RunEnd(mem, i) \in i + 1 .. Len(mem) + 1
      /\ RunEnd(mem, i) \in RunStarts(mem) \cup {Len(mem) + 1}
  BY <1>6, RunEnds
<1> DEFINE next == RunEnd(mem, i)
<1> HIDE DEF next
<1>8. next \in i + 1 .. Len(mem) + 1 /\ next \in RunStarts(mem) \cup {Len(mem) + 1}
  BY <1>7 DEF next
<1>9. ~(next <= j)
  BY <1>1, <1>2, <1>5, <1>6, <1>8
<1>10. j \in i .. next - 1
  BY <1>1, <1>5, <1>6, <1>8, <1>9
<1>. QED  BY <1>5, <1>10 DEF next

-----------------------------------------------------------------------------
(* The words of a region of whole words are its entries. *)
Word == [cell : {InsnCell(b) : b \in Int}, md : Entry]
WordOf(r, j) == [cell |-> InsnCell(r.start + 4 * (j - 1)), md |-> r.mem[j]]
WholeWords(r) == r.start % 4 = 0 /\ (r.mem # <<>> => r.end = r.start + 4 * Len(r.mem))

LEMMA RunWords ==
  ASSUME NEW r \in Region, WholeWords(r), NEW i \in RunStarts(r.mem)
  PROVE  /\ Words(RunFrom(r, i)) \in Seq(Word)
         /\ Range(Words(RunFrom(r, i))) = {WordOf(r, j) : j \in i .. RunEnd(r.mem, i) - 1}
<1> DEFINE next == RunEnd(r.mem, i)
           run == RunFrom(r, i)
           n == (run.end - run.start + 3) \div 4
           word(w) == [cell |-> InsnCell(run.start + 4 * (w - 1)), md |-> run.md]
<1>1. /\ r.start \in Nat /\ r.end \in Nat /\ r.mem \in Seq(Entry) /\ Len(r.mem) \in Nat
      /\ DOMAIN r.mem = 1 .. Len(r.mem) /\ i \in 1 .. Len(r.mem)
  BY DEF Region, RunStarts
<1>2. next \in i + 1 .. Len(r.mem) + 1
  BY <1>1, RunEnds
<1>3. r.end = r.start + 4 * Len(r.mem)
  BY <1>1 DEF WholeWords
<1>4. ASSUME NEW j \in i .. next - 1 PROVE r.mem[j] = r.mem[i]
  BY <1>1, RunConstant
<1>5. run.start = r.start + (i - 1) * 4 /\ run.md = r.mem[i]
      /\ run.end = IF next > Len(r.mem) THEN r.end ELSE r.start + (next - 1) * 4
  BY DEF RunFrom, stride
<1>6. Words(run) = [w \in 1 .. n |-> word(w)]
  BY DEF Words
<1> HIDE DEF next, run
<1>7. run.end = r.start + (next - 1) * 4
  <2>1. CASE next > Len(r.mem)
    <3>1. next = Len(r.mem) + 1
      BY <1>1, <1>2, <2>1
    <3>. QED  BY <1>1, <1>3, <1>5, <3>1
  <2>2. CASE ~(next > Len(r.mem))
    BY <1>5, <2>2
  <2>. QED  BY <2>1, <2>2
<1>8. run.end - run.start = 4 * (next - i)
  BY <1>1, <1>2, <1>5, <1>7
<1>9. n = next - i
  BY <1>1, <1>2, <1>8
<1> HIDE DEF n
<1>10. ASSUME NEW w \in 1 .. n PROVE word(w) = WordOf(r, w + (i - 1)) /\ w + (i - 1) \in i .. next - 1
  <2>1. w + (i - 1) \in i .. next - 1
    BY <1>1, <1>2, <1>9
  <2>2. run.start + 4 * (w - 1) = r.start + 4 * ((w + (i - 1)) - 1)
    <3>1. w \in Int /\ i \in Int /\ r.start \in Int
      BY <1>1, <1>2, <1>9
    <3>2. run.start = r.start + (i - 1) * 4
      BY <1>5
    <3>. QED  BY <3>1, <3>2
  <2>3. r.mem[w + (i - 1)] = run.md
    BY <1>4, <1>5, <2>1
  <2>. QED  BY <2>1, <2>2, <2>3 DEF WordOf
<1>11. ASSUME NEW j \in i .. next - 1 PROVE j - (i - 1) \in 1 .. n /\ (j - (i - 1)) + (i - 1) = j
  BY <1>1, <1>2, <1>9
<1>14. Words(run) \in Seq(Word)
  <2>1. ASSUME NEW w \in 1 .. n PROVE word(w) \in Word
    <3>1. run.start + 4 * (w - 1) \in Int /\ run.md \in Entry
      BY <1>1, <1>5, <1>9
    <3>. QED  BY <3>1 DEF Word
  <2>2. n \in Nat
    BY <1>1, <1>2, <1>9
  <2> HIDE DEF word
  <2>3. Words(run) \in [1 .. n -> Word]
    BY <1>6, <2>1
  <2>. QED  BY <2>2, <2>3, IsSequence
<1> HIDE DEF word
<1>12. Range(Words(run)) = {word(w) : w \in 1 .. n}
  BY <1>6 DEF Range
<1>13. {word(w) : w \in 1 .. n} = {WordOf(r, j) : j \in i .. next - 1}
  <2>1. ASSUME NEW w \in 1 .. n PROVE word(w) \in {WordOf(r, j) : j \in i .. next - 1}
    BY <1>10
  <2>2. ASSUME NEW j \in i .. next - 1 PROVE WordOf(r, j) \in {word(w) : w \in 1 .. n}
    <3>1. word(j - (i - 1)) = WordOf(r, j)
      BY <1>10, <1>11
    <3>. QED  BY <1>11, <3>1
  <2>. QED  BY <2>1, <2>2
<1>. QED  BY <1>12, <1>13, <1>14 DEF run, next

LEMMA RegionWords ==
  ASSUME NEW r \in Region, WholeWords(r)
  PROVE  UNION {Range(Words(run)) : run \in Range(RegionRuns(r))} = {WordOf(r, j) : j \in DOMAIN r.mem}
<1> DEFINE part(i) == {WordOf(r, j) : j \in i .. RunEnd(r.mem, i) - 1}
           whole == {WordOf(r, j) : j \in DOMAIN r.mem}
           S == RunStarts(r.mem)
<1>1. r.mem \in Seq(Entry)
  BY DEF Region
<1>2. Range(RegionRuns(r)) = {RunFrom(r, i) : i \in S}
  BY RegionRunsAre
<1>3. \A i \in S : Range(Words(RunFrom(r, i))) = part(i)
  BY RunWords
<1>4. \A i \in S : part(i) \subseteq whole
  BY <1>1, RunConstant
<1>5. \A x \in whole : \E i \in S : x \in part(i)
  BY <1>1, InSomeRun
<1> HIDE DEF part, whole, S
<1>6. UNION {Range(Words(run)) : run \in Range(RegionRuns(r))} = UNION {part(i) : i \in S}
  BY <1>2, <1>3
<1>7. UNION {part(i) : i \in S} = whole
  BY <1>4, <1>5
<1>. QED  BY <1>6, <1>7 DEF whole

(* All words of a map, in the order of apply_metadata *)
MapWords(map) == FlattenSeq([i \in DOMAIN Runs(map) |-> Words(Runs(map)[i])])

LEMMA MapWordsAre ==
  ASSUME NEW map \in Map, \A i \in DOMAIN map : WholeWords(map[i])
  PROVE  /\ MapWords(map) \in Seq(Word)
         /\ Range(MapWords(map)) = UNION {{WordOf(map[i], j) : j \in DOMAIN map[i].mem} : i \in DOMAIN map}
<1> DEFINE rs == Runs(map)
           n == Len(rs)
           u == [i \in DOMAIN rs |-> Words(rs[i])]
           D == DOMAIN map
<1>1. rs \in Seq(Run) /\ Range(rs) = UNION {Range(RegionRuns(map[i])) : i \in D}
  BY RunsAre
<1>2. \A i \in D : map[i] \in Region
  BY DEF Map
<1>3. MapWords(map) = FlattenSeq(u)
  BY DEF MapWords
<1> HIDE DEF rs
<1>4. n \in Nat /\ DOMAIN rs = 1 .. n /\ Range(rs) = {rs[i] : i \in 1 .. n}
  BY <1>1 DEF Range
<1> HIDE DEF n
<1>5. ASSUME NEW run \in Range(rs) PROVE Words(run) \in Seq(Word)
  <2>1. PICK i \in D : run \in Range(RegionRuns(map[i]))
    BY <1>1, <1>5
  <2>2. PICK s \in RunStarts(map[i].mem) : run = RunFrom(map[i], s)
    BY <1>2, <2>1, RegionRunsAre
  <2>. QED  BY <1>2, <2>2, RunWords
<1>6. u \in [1 .. n -> Seq(Word)] /\ \A i \in 1 .. n : u[i] = Words(rs[i])
  BY <1>4, <1>5
<1> HIDE DEF u
<1>7. FlattenSeq(u) \in Seq(Word) /\ Range(FlattenSeq(u)) = UNION {Range(u[i]) : i \in 1 .. n}
  BY <1>4, <1>6, Flatten
<1>8. UNION {Range(u[i]) : i \in 1 .. n} = UNION {Range(Words(run)) : run \in Range(rs)}
  BY <1>4, <1>6
<1> DEFINE W(i) == UNION {Range(Words(run)) : run \in Range(RegionRuns(map[i]))}
<1>9. UNION {Range(Words(run)) : run \in Range(rs)} = UNION {W(i) : i \in D}
  BY <1>1
<1>10. \A i \in D : W(i) = {WordOf(map[i], j) : j \in DOMAIN map[i].mem}
  BY <1>2, RegionWords
<1> HIDE DEF W
<1>11. UNION {W(i) : i \in D} = UNION {{WordOf(map[i], j) : j \in DOMAIN map[i].mem} : i \in D}
  BY <1>10
<1>. QED  BY <1>3, <1>7, <1>8, <1>9, <1>11

-----------------------------------------------------------------------------
(* The tags of a bus without metadata *)
NoTags == [c \in Cell |-> null]

(* The tag of a cell is what a word put there, or still null if none did. *)
LEMMA Applies ==
  ASSUME NEW map, MapWords(map) \in Seq(Word), ~apply_metadata(NoTags, map).throws, NEW c \in Cell
  PROVE  \/ /\ apply_metadata(NoTags, map).tags[c] = null
            /\ \A w \in Range(MapWords(map)) : w.cell # c
         \/ \E w \in Range(MapWords(map)) : w.cell = c /\ apply_metadata(NoTags, map).tags[c] = w.md
<1> DEFINE words == MapWords(map)
           m == Len(words)
           S == [Cell -> Entry]
           T == {i \in DOMAIN words : words[i].cell = NoCell} \cup {Len(words) + 1}
           stop == Min(T)
           step(n, y) == [y EXCEPT ![words[n].cell] = words[n].md]
           F(y) == [n \in 0 .. m |-> IF n = 0 THEN NoTags ELSE step(n, y[n - 1])]
           z == CHOOSE y : y = F(y)
           G == [p \in (1 .. m) \X S |-> step(p[1], p[2])]
<1>1. apply_metadata(NoTags, map) = [throws |-> stop <= m, tags |-> z[stop - 1]]
  BY DEF apply_metadata, MapWords
<1>0. ~(stop <= m)
  <2> HIDE DEF stop, m, z
  <2>1. apply_metadata(NoTags, map).throws = (stop <= m)
    BY <1>1
  <2>. QED  BY <2>1
<1> HIDE DEF z, words
<1>2. /\ m \in Nat /\ DOMAIN words = 1 .. m /\ Range(words) = {words[n] : n \in 1 .. m}
      /\ \A n \in 1 .. m : words[n] \in Word
  BY DEF words, Range
<1>3. \A n \in 1 .. m : words[n].md \in Entry
  BY <1>2 DEF Word
<1> HIDE DEF m
<1>4. stop = m + 1 /\ stop - 1 = m
  <2>1. T \subseteq Nat /\ T # {} /\ \A y \in T : y <= m + 1
    BY <1>2 DEF m
  <2> HIDE DEF T
  <2>2. stop \in T
    BY <2>1, LeastNatural
  <2> HIDE DEF stop
  <2>. QED  BY <1>0, <1>2, <2>1, <2>2
<1> HIDE DEF stop
<1>5. \A n \in 1 .. m : \A y \in S : step(n, y) \in S
  BY <1>3
<1>6. NoTags \in S
  BY DEF NoTags, Entry
<1>7. ASSUME NEW n \in 1 .. m, NEW y \in S
      PROVE  step(n, y)[c] = IF words[n].cell = c THEN words[n].md ELSE y[c]
  OBVIOUS
<1> HIDE DEF step, S
<1>8. G \in [(1 .. m) \X S -> S]
  <2> SUFFICES ASSUME NEW p \in (1 .. m) \X S PROVE step(p[1], p[2]) \in S
    OBVIOUS
  <2>1. p[1] \in 1 .. m /\ p[2] \in S
    OBVIOUS
  <2>. QED  BY <1>5, <2>1
<1>9. \A n \in 1 .. m : \A y \in S : G[<<n, y>>] = step(n, y)
  OBVIOUS
<1> HIDE DEF G
<1>10. PICK f : Iteration(f, m, S, NoTags, G)
  BY <1>2, <1>6, <1>8, Iterates
<1>11. f \in [0 .. m -> S] /\ f[0] = NoTags /\ \A n \in 1 .. m : f[n] = step(n, f[n - 1])
  <2>1. f \in [0 .. m -> S] /\ f[0] = NoTags /\ \A n \in 1 .. m : f[n] = G[<<n, f[n - 1]>>]
    BY <1>10 DEF Iteration
  <2>2. \A n \in 1 .. m : f[n - 1] \in S
    BY <1>2, <2>1
  <2>. QED  BY <1>9, <2>1, <2>2
<1>12. f = F(f)
  BY <1>2, <1>11
<1>13. z = F(z)
  <2> HIDE DEF F
  <2>. QED  BY <1>12 DEF z
<1>14. \A n \in 0 .. m : z[n] = IF n = 0 THEN NoTags ELSE step(n, z[n - 1])
  BY <1>13, Zenon
<1> HIDE DEF F
<1>15. z[0] = NoTags /\ \A n \in 1 .. m : z[n] = step(n, z[n - 1])
  BY <1>2, <1>14
<1>16. \A n \in 0 .. m : z[n] \in S
  <2>1. z[0] \in S /\ \A n \in 1 .. m : z[n - 1] \in S => z[n] \in S
    BY <1>5, <1>6, <1>15
  <2>. QED  BY <1>2, <2>1, Stays
<1> DEFINE Good(n) == \/ z[n][c] = null /\ \A k \in 1 .. n : words[k].cell # c
                      \/ \E k \in 1 .. n : words[k].cell = c /\ z[n][c] = words[k].md
           E == {n \in 0 .. m : Good(n)}
<1>17. 0 \in E
  <2>1. z[0][c] = null
    BY <1>15 DEF NoTags
  <2>. QED  BY <1>2, <2>1
<1>18. ASSUME NEW n \in 0 .. m - 1, n \in E PROVE n + 1 \in E
  <2>1. n + 1 \in 1 .. m /\ n + 1 \in 0 .. m /\ (n + 1) - 1 = n /\ n \in 0 .. m /\ n \in Nat
    BY <1>2
  <2>2. z[n] \in S /\ z[n + 1] = step(n + 1, z[n])
    BY <1>15, <1>16, <2>1
  <2>3. z[n + 1][c] = IF words[n + 1].cell = c THEN words[n + 1].md ELSE z[n][c]
    BY <1>7, <2>1, <2>2
  <2>4. Good(n)
    BY <1>18
  <2>5. CASE words[n + 1].cell = c
    <3>1. z[n + 1][c] = words[n + 1].md /\ n + 1 \in 1 .. n + 1
      BY <2>1, <2>3, <2>5
    <3>. QED  BY <2>1, <2>5, <3>1
  <2>6. CASE words[n + 1].cell # c
    <3>1. z[n + 1][c] = z[n][c]
      BY <2>3, <2>6
    <3>2. \A k \in 1 .. n + 1 : k = n + 1 \/ k \in 1 .. n
      BY <2>1
    <3>3. \A k \in 1 .. n : k \in 1 .. n + 1
      BY <2>1
    <3>4. Good(n + 1)
      BY <2>4, <2>6, <3>1, <3>2, <3>3
    <3>. QED  BY <2>1, <3>4
  <2>. QED  BY <2>5, <2>6
<1>19. 0 .. m \subseteq E
  <2> HIDE DEF E
  <2>. QED  BY <1>2, <1>17, <1>18, UpTo
<1>20. Good(m)
  BY <1>2, <1>19
<1>21. apply_metadata(NoTags, map).tags = z[m]
  BY <1>1, <1>4
<1>. QED  BY <1>2, <1>20, <1>21 DEF words

-----------------------------------------------------------------------------
(* Two words of one heterogeneous provider have cells of their own. *)
LEMMA Provider ==
  ASSUME NEW a \in Nat, Below(a) # {}
  PROVE  get_provider(a) \in Soc /\ get_provider(a).start <= a
<1> DEFINE T == {e.start : e \in Below(a)}
<1>1. T \subseteq 0 .. a /\ T # {}
  BY SocAssumption DEF Below
<1>2. Max(T) \in T /\ \A y \in T : y <= Max(T)
  <2> HIDE DEF T
  <2>. QED  BY <1>1, GreatestNatural
<1>3. PICK e \in Below(a) : \A f \in Below(a) : f.start <= e.start
  <2> DEFINE x == Max(T)
  <2>1. x \in T /\ \A y \in T : y <= x
    BY <1>2
  <2> HIDE DEF x
  <2>. QED  BY <2>1
<1>4. get_provider(a) \in Below(a)
  BY <1>3 DEF get_provider
<1>. QED  BY <1>4 DEF Below

LEMMA OwnCell ==
  ASSUME NEW a \in Nat, NEW b \in Nat, a % 4 = 0, b % 4 = 0,
         InProvider(a), get_provider(a).heterogeneous, InsnCell(b) = InsnCell(a)
  PROVE  a = b
<1> DEFINE e == get_provider(a)
           f == get_provider(b)
<1>1. e \in Soc /\ e.start <= a
  BY Provider DEF InProvider
<1>2. InsnCell(a) = <<e.start, (a - e.start) \div 4>>
  BY DEF InsnCell, MinTagGranularity
<1>3. e.start \in Nat
  BY <1>1, SocAssumption
<1> HIDE DEF e
<1>4. InsnCell(a) # NoCell
  BY <1>2, <1>3 DEF NoCell
<1>5. InProvider(b)
  BY <1>4 DEF InsnCell
<1>6. f \in Soc /\ f.start <= b
  BY <1>5, Provider DEF InProvider
<1>7. InsnCell(b) = IF f.heterogeneous THEN <<f.start, (b - f.start) \div 4>> ELSE <<f.start, 0>>
  BY <1>5 DEF InsnCell, MinTagGranularity
<1> HIDE DEF f
<1>8. f.start = e.start
  BY <1>2, <1>7
<1>9. f = e
  BY <1>1, <1>6, <1>8, SocAssumption
<1>10. (b - e.start) \div 4 = (a - e.start) \div 4
  BY <1>2, <1>7, <1>9 DEF e
<1>. QED  BY <1>3, <1>10

(* No word of a map that iterates safely is without metadata. *)
LEMMA WordsHaveMetadata ==
  ASSUME NEW map \in Map, ~RunsFault(map), NEW i \in DOMAIN map, NEW j \in DOMAIN map[i].mem
  PROVE  map[i].mem[j] # null
<1> DEFINE r == map[i]
<1>0. r \in Region
  BY DEF Map
<1>1. r \in Region /\ r.mem \in Seq(Entry)
  BY <1>0 DEF Region
<1>2. PICK s \in RunStarts(r.mem) : j \in s .. RunEnd(r.mem, s) - 1
  BY <1>1, InSomeRun
<1>3. r.mem[j] = r.mem[s]
  BY <1>1, <1>2, RunConstant
<1>4. RunFrom(r, s) \in Range(RegionRuns(r))
  BY <1>1, RegionRunsAre
<1>5. RunFrom(r, s) \in Range(Runs(map))
  BY <1>4, RunsAre
<1>6. RunFrom(r, s).md # null
  BY <1>5 DEF RunsFault, Range
<1>7. RunFrom(r, s).md = r.mem[s]
  BY DEF RunFrom
<1>. QED  BY <1>3, <1>6, <1>7

(* Regions of whole words, as the lemmas on words and on lookups take them *)
LEMMA AlignedRegions ==
  ASSUME NEW map \in Map, AlignedMap(map), NEW i \in DOMAIN map
  PROVE  /\ map[i] \in Region /\ map[i].start \in Nat /\ map[i].end \in Nat /\ map[i].mem \in Seq(Entry)
         /\ map[i].start % 4 = 0
         /\ map[i].mem # <<>> => map[i].end = map[i].start + 4 * Len(map[i].mem)
         /\ Len(map[i].mem) \in Nat /\ DOMAIN map[i].mem = 1 .. Len(map[i].mem)
<1>1. map[i] \in Region
  BY DEF Map
<1>2. map[i].start \in Nat /\ map[i].end \in Nat /\ map[i].mem \in Seq(Entry)
  BY <1>1 DEF Region
<1>3. map[i].start % 4 = 0 /\ (map[i].mem # <<>> => map[i].end = map[i].start + 4 * Len(map[i].mem))
  BY DEF AlignedMap
<1>. QED  BY <1>1, <1>2, <1>3

LEMMA AlignedWords ==
  ASSUME NEW map \in Map, AlignedMap(map)
  PROVE  /\ MapWords(map) \in Seq(Word)
         /\ Range(MapWords(map)) = UNION {{WordOf(map[i], j) : j \in DOMAIN map[i].mem} : i \in DOMAIN map}
  BY AlignedRegions, MapWordsAre DEF WholeWords

(* An entry for an address is a word of the map that goes to its cell. *)
LEMMA EntryIsWord ==
  ASSUME NEW map \in Map, AlignedMap(map), NEW a \in WordAddrs, EntriesAt(map, a) # {}
  PROVE  \E w \in Range(MapWords(map)) : w.cell = InsnCell(a)
<1>1. a \in Nat /\ a % 4 = 0
  BY WordAssumption DEF stride
<1>2. PICK i \in DOMAIN map : contains(map[i], a) /\ Index(map[i], a) <= Len(map[i].mem)
  BY DEF EntriesAt
<1> DEFINE s == map[i].start
           n == Len(map[i].mem)
           j == Index(map[i], a)
<1>3. s \in Nat /\ s % 4 = 0 /\ n \in Nat /\ s <= a /\ j = (a - s) \div 4 + 1 /\ j <= n
  BY <1>2, AlignedRegions DEF contains, Index, stride
<1>4. DOMAIN map[i].mem = 1 .. n
  BY AlignedRegions
<1> HIDE DEF s, n, j
<1>5. j \in 1 .. n /\ s + 4 * (j - 1) = a
  BY <1>1, <1>3
<1>6. WordOf(map[i], j) \in Range(MapWords(map))
  <2>1. WordOf(map[i], j) \in {WordOf(map[i], k) : k \in DOMAIN map[i].mem}
    BY <1>4, <1>5, Zenon
  <2> DEFINE of(h) == {WordOf(map[h], k) : k \in DOMAIN map[h].mem}
  <2>2. WordOf(map[i], j) \in of(i)
    BY <2>1
  <2>3. Range(MapWords(map)) = UNION {of(h) : h \in DOMAIN map}
    BY AlignedWords, Zenon
  <2> HIDE DEF of
  <2>. QED  BY <2>2, <2>3
<1>7. WordOf(map[i], j).cell = InsnCell(a)
  BY <1>5 DEF WordOf, s
<1>. QED  BY <1>6, <1>7

(* A word of the map, and with it what is in its cell, has metadata. *)
LEMMA WordHasMetadata ==
  ASSUME NEW map \in Map, ~RunsFault(map), AlignedMap(map), NEW w \in Range(MapWords(map))
  PROVE  w.md # null
<1>1. PICK i \in DOMAIN map : w \in {WordOf(map[i], j) : j \in DOMAIN map[i].mem}
  BY AlignedWords
<1>2. PICK j \in DOMAIN map[i].mem : w = WordOf(map[i], j)
  BY <1>1
<1>3. w.md = map[i].mem[j]
  BY <1>2 DEF WordOf
<1>. QED  BY <1>3, WordsHaveMetadata

LEMMA EntryMakesTag ==
  ASSUME NEW map \in Map, ~RunsFault(map), AlignedMap(map), ~apply_metadata(NoTags, map).throws,
         NEW a \in WordAddrs, InsnCell(a) # NoCell, EntriesAt(map, a) # {}
  PROVE  apply_metadata(NoTags, map).tags[InsnCell(a)] # null
<1> DEFINE c == InsnCell(a)
           t == apply_metadata(NoTags, map).tags[c]
<1>1. c \in Cell
  BY WordAssumption DEF Cell
<1>2. PICK w \in Range(MapWords(map)) : w.cell = c
  BY EntryIsWord
<1>3. \E x \in Range(MapWords(map)) : x.cell = c /\ t = x.md
  BY <1>1, <1>2, AlignedWords, Applies
<1> HIDE DEF c, t
<1>4. t # null
  BY <1>3, WordHasMetadata
<1>. QED  BY <1>4 DEF c, t

LEMMA TaggedByMap ==
  ASSUME NEW map \in Map, ~RunsFault(map), AlignedMap(map), ~apply_metadata(NoTags, map).throws,
         NEW a \in WordAddrs, InProvider(a), get_provider(a).heterogeneous
  PROVE  apply_metadata(NoTags, map).tags[InsnCell(a)]
           \in (IF EntriesAt(map, a) = {} THEN {null} ELSE EntriesAt(map, a) \ {null})
<1> DEFINE c == InsnCell(a)
           W == Range(MapWords(map))
           t == apply_metadata(NoTags, map).tags[c]
           X == EntriesAt(map, a)
<1>1. a \in Nat /\ a % 4 = 0 /\ a \in Address
  BY WordAssumption DEF stride
<1>2. c \in Cell /\ c # NoCell
  <2>1. c # NoCell
    <3>1. get_provider(a) \in Soc
      BY <1>1, Provider DEF InProvider
    <3>2. get_provider(a).start \in Nat
      BY <3>1, SocAssumption
    <3>. QED  BY <3>2 DEF InsnCell, NoCell
  <2>. QED  BY <1>1, <2>1 DEF Cell
<1>3. MapWords(map) \in Seq(Word) /\ W = UNION {{WordOf(map[i], j) : j \in DOMAIN map[i].mem} : i \in DOMAIN map}
  BY AlignedWords
<1> HIDE DEF W
<1>4. ASSUME NEW w \in W, w.cell = c PROVE w.md \in X
  <2>0. PICK i \in DOMAIN map : w \in {WordOf(map[i], j) : j \in DOMAIN map[i].mem}
    BY <1>3
  <2>1. PICK j \in DOMAIN map[i].mem : w = WordOf(map[i], j)
    BY <2>0
  <2> DEFINE b == map[i].start + 4 * (j - 1)
             s == map[i].start
             n == Len(map[i].mem)
  <2>2. w.cell = InsnCell(b) /\ w.md = map[i].mem[j]
    BY <2>1 DEF WordOf
  <2>3. s \in Nat /\ s % 4 = 0 /\ n \in Nat /\ j \in 1 .. n /\ map[i].end = s + 4 * n
    BY AlignedRegions
  <2>4. b = s + 4 * (j - 1)
    OBVIOUS
  <2> HIDE DEF b, s, n
  <2>5. b \in Nat /\ b % 4 = 0
    BY <2>3, <2>4
  <2>6. a = b
    BY <1>1, <1>4, <2>2, <2>5, OwnCell
  <2>7. s <= a /\ a < s + 4 * n /\ (a - s) \div 4 + 1 = j
    BY <2>3, <2>4, <2>6
  <2>8. contains(map[i], a) /\ Index(map[i], a) = j /\ Index(map[i], a) <= Len(map[i].mem)
    BY <2>3, <2>7 DEF contains, Index, stride, s, n
  <2>. QED  BY <2>2, <2>8 DEF EntriesAt
<1>5. \/ t = null /\ \A w \in W : w.cell # c
      \/ \E w \in W : w.cell = c /\ t = w.md
  BY <1>2, <1>3, Applies DEF W
<1>6. X # {} => t # null
  BY <1>2, EntryMakesTag
<1>7. X # {} => \E w \in W : w.cell = c
  BY EntryIsWord DEF W
<1> HIDE DEF c, t, X
<1>8. t \in (IF X = {} THEN {null} ELSE X \ {null})
  <2>1. CASE t = null /\ \A w \in W : w.cell # c
    <3>1. X = {}
      BY <1>7, <2>1
    <3>. QED  BY <2>1, <3>1
  <2>2. CASE \E w \in W : w.cell = c /\ t = w.md
    <3>1. t \in X
      BY <1>4, <2>2
    <3>. QED  BY <1>6, <3>1
  <2>. QED  BY <1>5, <2>1, <2>2
<1>. QED  BY <1>8 DEF c, t, X

-----------------------------------------------------------------------------
(* The validator that is there holds a map; while nothing has made the     *)
(* host DOA it has applied all of it, and nobody crashed over it.          *)
Applied(v) == /\ ~apply_metadata(NoTags, v.map).throws
              /\ v.tags = apply_metadata(NoTags, v.map).tags

ValidatorInv ==
  /\ rv_validator # <<>> => /\ rv_validator[1].map \in Map
                            /\ ~DOA => Applied(rv_validator[1])
                            /\ reply # "crash" => ~RunsFault(rv_validator[1].map)
  /\ reply = "allowed" => ~DOA /\ rv_validator # <<>>
  /\ DOA \in BOOLEAN

(* What is missing when a running validator is crashed by a call *)
Missing(what) == \/ \E addr : what = <<"mem", addr>> /\ (DataCell(addr) = NoCell \/ Untagged(addr))
                 \/ \E kind \in {"pc", "csr", "reg"} \ StartTags : what = <<kind>>
                 \/ what = <<"ops">> /\ ~evaluated

(* Every call other than the two that set the validator up: it is answered *)
(* without looking, it evaluates, or it crashes.                           *)
CallStep ==
  /\ reply # "crash" /\ UNCHANGED <<rv_validator, started>>
  /\ \/ reply' \in {"none", "denied"} /\ DOA' \in {DOA, TRUE} /\ UNCHANGED <<evaluated, untagged>>
     \/ /\ rv_validator # <<>> /\ ~DOA /\ reply' \in {"allowed", "denied"}
        /\ evaluated' = TRUE /\ UNCHANGED <<DOA, untagged>>
     \/ rv_validator = <<>> /\ reply' = "crash" /\ UNCHANGED <<DOA, evaluated, untagged>>
     \/ /\ rv_validator # <<>> /\ reply' = "crash" /\ UNCHANGED <<DOA, evaluated>>
        /\ Missing(untagged')

LEMMA AnsweredIsCall ==
  ASSUME reply # "crash", UNCHANGED <<rv_validator, started>>,
         \/ Answers({"none"}) \/ OutOfRange
         \/ rv_validator = <<>> /\ Answers({"crash"})
  PROVE  CallStep
  BY DEF Answers, OutOfRange, CallStep

LEMMA CrashIsCall ==
  ASSUME reply # "crash", UNCHANGED <<rv_validator, started>>,
         rv_validator # <<>>, NEW what, Missing(what), CrashesOver(what)
  PROVE  CallStep
<1>1. reply' = "crash" /\ UNCHANGED <<DOA, evaluated>> /\ untagged' = what
  BY Zenon DEF CrashesOver
<1>2. Missing(untagged')
  BY <1>1
<1>. QED  BY <1>1, <1>2, Zenon DEF CallStep

LEMMA ValidatesIsCall ==
  ASSUME reply # "crash", UNCHANGED <<rv_validator, started>>,
         rv_validator # <<>>, NEW access, Validates(access)
  PROVE  CallStep
<1>1. CASE DOA
  <2>1. reply' = "denied" /\ UNCHANGED <<DOA, evaluated, untagged>>
    BY <1>1 DEF Validates, Answers
  <2>. QED  BY <2>1 DEF CallStep
<1>2. CASE ~DOA /\ \E m \in access : Untagged(m) /\ CrashesOver(<<"mem", m>>)
  <2>1. PICK m \in access : Untagged(m) /\ CrashesOver(<<"mem", m>>)
    BY <1>2
  <2>2. Missing(<<"mem", m>>)
    BY <2>1, Zenon DEF Missing
  <2>. QED  BY <2>1, <2>2, CrashIsCall
<1>3. CASE ~DOA /\ reply' \in {"allowed", "denied"} /\ evaluated' = TRUE /\ UNCHANGED <<DOA, untagged>>
  BY <1>3, Zenon DEF CallStep
<1>. QED  BY <1>1, <1>2, <1>3, Zenon DEF Validates

LEMMA HostSteps ==
  ASSUME HostNext
  PROVE  (\E keys \in Configs : e_v_set_metadata(keys)) \/ e_v_set_callbacks \/ CallStep
<1>1. ASSUME NEW pc, NEW access, e_v_validate(pc, access) PROVE CallStep
  <2>1. /\ reply # "crash" /\ UNCHANGED <<rv_validator, started>>
        /\ Uses(IF Beyond(pc) THEN OutOfRange ELSE Validates(access))
    BY <1>1, Zenon DEF e_v_validate, HostCall
  <2>2. \/ rv_validator = <<>> /\ Answers({"crash"})
        \/ rv_validator # <<>> /\ (OutOfRange \/ Validates(access))
    BY <2>1, Zenon DEF Uses
  <2>. QED  BY <2>1, <2>2, AnsweredIsCall, ValidatesIsCall
<1>2. ASSUME NEW pc, NEW addr, NEW access, e_v_validate_cached(pc, addr, access) PROVE CallStep
  <2>1. /\ reply # "crash" /\ UNCHANGED <<rv_validator, started>>
        /\ Uses(IF Beyond(pc) \/ Beyond(addr) THEN OutOfRange ELSE Validates(access))
    BY <1>2, Zenon DEF e_v_validate_cached, HostCall
  <2>2. \/ rv_validator = <<>> /\ Answers({"crash"})
        \/ rv_validator # <<>> /\ (OutOfRange \/ Validates(access))
    BY <2>1, Zenon DEF Uses
  <2>. QED  BY <2>1, <2>2, AnsweredIsCall, ValidatesIsCall
<1>3. ASSUME NEW addr, e_v_mem_tag(addr) PROVE CallStep
  <2> DEFINE what == <<"mem", addr>>
             bare == DataCell(addr) = NoCell \/ Untagged(addr)
  <2>1. /\ reply # "crash" /\ UNCHANGED <<rv_validator, started>>
        /\ Uses(IF ~Beyond(addr) /\ bare THEN CrashesOver(what) ELSE Answers({"none"}))
    BY <1>3, Zenon DEF e_v_mem_tag, HostCall
  <2>2. bare => Missing(what)
    BY Zenon DEF Missing
  <2>3. \/ rv_validator = <<>> /\ Answers({"crash"})
        \/ Answers({"none"})
        \/ rv_validator # <<>> /\ bare /\ CrashesOver(what)
    BY <2>1, Zenon DEF Uses
  <2> HIDE DEF what, bare
  <2>. QED  BY <2>1, <2>2, <2>3, AnsweredIsCall, CrashIsCall
<1>4. ASSUME NEW kind \in {"pc", "csr", "reg"}, e_v_state_tag(kind) PROVE CallStep
  <2>1. /\ reply # "crash" /\ UNCHANGED <<rv_validator, started>>
        /\ \/ Answers({"none"})
           \/ Uses(Answers({"none"}) \/ (kind \notin StartTags /\ CrashesOver(<<kind>>)))
    BY <1>4, Zenon DEF e_v_state_tag, HostCall
  <2>2. \/ rv_validator = <<>> /\ Answers({"crash"})
        \/ Answers({"none"})
        \/ rv_validator # <<>> /\ kind \notin StartTags /\ CrashesOver(<<kind>>)
    BY <2>1, Zenon DEF Uses
  <2>3. kind \notin StartTags => Missing(<<kind>>)
    BY Zenon DEF Missing
  <2>. QED  BY <2>1, <2>2, <2>3, AnsweredIsCall, CrashIsCall
<1>5. ASSUME \/ HostCall(Answers({"none"}))
             \/ HostCall(Uses(Answers({"none"})))
             \/ HostCall(Uses(IF evaluated THEN Answers({"none"}) ELSE CrashesOver(<<"ops">>)))
             \/ HostCall(Uses(Answers({"none"}) \/ (~evaluated /\ CrashesOver(<<"ops">>))))
      PROVE  CallStep
  <2>1. reply # "crash" /\ UNCHANGED <<rv_validator, started>>
    BY <1>5, Zenon DEF HostCall
  <2>2. \/ rv_validator = <<>> /\ Answers({"crash"})
        \/ Answers({"none"})
        \/ rv_validator # <<>> /\ ~evaluated /\ CrashesOver(<<"ops">>)
    BY <1>5, Zenon DEF HostCall, Uses
  <2>3. ~evaluated => Missing(<<"ops">>)
    BY Zenon DEF Missing
  <2>. QED  BY <2>1, <2>2, <2>3, AnsweredIsCall, CrashIsCall
<1>6. e_v_commit => CallStep
  <2> SUFFICES ASSUME e_v_commit PROVE CallStep
    OBVIOUS
  <2>1. HostCall(IF DOA THEN Answers({"none"}) ELSE Uses(Answers({"none"})))
    BY Zenon DEF e_v_commit
  <2>2. HostCall(Answers({"none"})) \/ HostCall(Uses(Answers({"none"})))
    BY <2>1, Zenon DEF HostCall
  <2>. QED  BY <1>5, <2>2, Zenon
<1>7. e_v_rule_eval_log \/ e_v_meta_log_short \/ e_v_flush_rule_cache => CallStep
  BY <1>5, Zenon DEF e_v_rule_eval_log, e_v_meta_log_short, e_v_flush_rule_cache
<1>. QED  BY <1>1, <1>2, <1>3, <1>4, <1>6, <1>7 DEF HostNext

(* What a call does to the validator: it leaves it and never takes DOA     *)
(* back, or makes a new one.                                               *)
KeepStep == /\ UNCHANGED rv_validator /\ (DOA => DOA') /\ reply # "crash" /\ DOA' \in BOOLEAN
            /\ reply' = "allowed" => ~DOA' /\ rv_validator # <<>>

NewStep == \E v \in {new_validator(load_metadata(IF "tags_file" \in config THEN tag_file ELSE <<>>, 32))} :
             /\ rv_validator' = <<[v EXCEPT !.tags = apply_metadata(v.tags, v.map).tags]>>
             /\ DOA' \in BOOLEAN /\ (apply_metadata(v.tags, v.map).throws => DOA')
             /\ reply' = IF RunsFault(v.map) THEN "crash" ELSE "none"

LEMMA ValidatorSteps ==
  ASSUME ValidatorInv, HostNext
  PROVE  KeepStep \/ NewStep
<1>0. DOA \in BOOLEAN
  BY DEF ValidatorInv
<1>1. ASSUME NEW keys, e_v_set_metadata(keys) PROVE KeepStep
  <2>1. reply' = "none" /\ UNCHANGED rv_validator /\ reply # "crash"
    BY <1>1, Zenon DEF e_v_set_metadata
  <2>2. (DOA => DOA') /\ DOA' \in BOOLEAN
    BY <1>1, Zenon DEF e_v_set_metadata
  <2>. QED  BY <2>1, <2>2 DEF KeepStep
<1>2. CASE e_v_set_callbacks
  <2>0. reply # "crash"
    BY <1>2, Zenon DEF e_v_set_callbacks
  <2>1. CASE DOA
    <3>1. reply' = "none" /\ UNCHANGED <<DOA, rv_validator>>
      BY <1>2, <2>1, Zenon DEF e_v_set_callbacks
    <3>. QED  BY <1>0, <2>0, <3>1 DEF KeepStep
  <2>2. CASE ~DOA /\ ~({"policy_dir", "soc_cfg_path"} \subseteq config)
    <3>1. DOA' = TRUE /\ reply' = "none" /\ UNCHANGED rv_validator
      BY <1>2, <2>2, Zenon DEF e_v_set_callbacks
    <3>. QED  BY <2>0, <3>1 DEF KeepStep
  <2>3. CASE ~DOA /\ {"policy_dir", "soc_cfg_path"} \subseteq config
    <3> DEFINE load == load_metadata(IF "tags_file" \in config THEN tag_file ELSE <<>>, 32)
               v == new_validator(load)
    <3>1. Construct(load)
      BY <1>2, <2>3, Zenon DEF e_v_set_callbacks
    <3>2. /\ rv_validator' = <<[v EXCEPT !.tags = apply_metadata(v.tags, v.map).tags]>>
          /\ DOA' = (apply_metadata(v.tags, v.map).throws \/ "rule_cache_name" \in config)
          /\ reply' = IF RunsFault(v.map) THEN "crash" ELSE "none"
      BY <3>1, Zenon DEF Construct
    <3> HIDE DEF v
    <3>3. DOA' \in BOOLEAN /\ (apply_metadata(v.tags, v.map).throws => DOA')
      BY <3>2, Zenon
    <3>. QED  BY <3>2, <3>3, Zenon DEF NewStep, v
  <2>. QED  BY <2>1, <2>2, <2>3
<1>3. CASE CallStep
  <2>1. UNCHANGED rv_validator /\ reply # "crash"
    BY <1>3, Zenon DEF CallStep
  <2>2. DOA' \in {DOA, TRUE}
    BY <1>3 DEF CallStep
  <2>3. reply' = "allowed" => ~DOA' /\ rv_validator # <<>>
    BY <1>3 DEF CallStep
  <2>. QED  BY <1>0, <2>1, <2>2, <2>3 DEF KeepStep
<1>. QED  BY <1>1, <1>2, <1>3, HostSteps, Zenon

LEMMA ValidatorInvStep ==
  ValidatorInv /\ FileInv /\ ((~input.firmware /\ HostNext) \/ UNCHANGED host) => ValidatorInv'
<1> SUFFICES ASSUME ValidatorInv, FileInv, (~input.firmware /\ HostNext) \/ UNCHANGED host PROVE ValidatorInv'
  OBVIOUS
<1>1. CASE UNCHANGED host
  BY <1>1 DEF host, ValidatorInv
<1>2. CASE KeepStep
  <2>1. /\ rv_validator' = rv_validator
        /\ reply # "crash" /\ (~DOA' => ~DOA) /\ DOA' \in BOOLEAN
        /\ (reply' = "allowed" => ~DOA' /\ rv_validator # <<>>)
    BY <1>2 DEF KeepStep
  <2>2. rv_validator # <<>> => /\ rv_validator[1].map \in Map
                               /\ ~DOA => Applied(rv_validator[1])
                               /\ ~RunsFault(rv_validator[1].map)
    BY <2>1 DEF ValidatorInv
  <2>. QED  BY <2>1, <2>2 DEF ValidatorInv
<1>3. CASE ~input.firmware /\ NewStep
  <2> DEFINE load == load_metadata(IF "tags_file" \in config THEN tag_file ELSE <<>>, 32)
             v == new_validator(load)
             w == [v EXCEPT !.tags = apply_metadata(v.tags, v.map).tags]
  <2>1. load.map \in Map
    BY <1>3, LoadType DEF FileInv
  <2> HIDE DEF load
  <2>2. v.map = (IF load.loaded THEN load.map ELSE <<>>) /\ v.tags = NoTags
    BY DEF new_validator, NoTags
  <2>3. v.map \in Map
    BY <2>1, <2>2, EmptyMap
  <2>4. w.map = v.map /\ w.tags = apply_metadata(v.tags, v.map).tags
    BY DEF new_validator
  <2>5. /\ rv_validator' = <<w>>
        /\ DOA' \in BOOLEAN /\ (apply_metadata(v.tags, v.map).throws => DOA')
        /\ reply' = IF RunsFault(v.map) THEN "crash" ELSE "none"
    BY <1>3, Zenon DEF NewStep, load
  <2> HIDE DEF w, v
  <2>6. rv_validator'[1] = w
    BY <2>5
  <2>7. ~DOA' => Applied(w)
    BY <2>2, <2>4, <2>5 DEF Applied
  <2>8. reply' # "crash" => ~RunsFault(w.map)
    BY <2>4, <2>5
  <2>9. reply' # "allowed"
    BY <2>5
  <2>. QED  BY <2>3, <2>4, <2>5, <2>6, <2>7, <2>8, <2>9 DEF ValidatorInv
<1>. QED  BY <1>1, <1>2, <1>3, ValidatorSteps

(* Whatever the host calls and however the tool and its file came to be:   *)
(* whenever the validator allows an instruction, every word has what the   *)
(* loaded file gives it, and nothing where it gives nothing.               *)
THEOREM TaggingTaggedWhole == TaggingSpec => []TaggedWhole
<1>1. TaggingInit => ValidatorInv
  BY DEF TaggingInit, HostInit, ValidatorInv
<1>2. ValidatorInv /\ FileInv /\ [TaggingNext]_all => ValidatorInv'
  <2>1. TaggingNext => (~input.firmware /\ HostNext) \/ UNCHANGED host
    BY DEF TaggingNext, Tool, Host
  <2>2. UNCHANGED all => UNCHANGED host
    BY DEF all
  <2>. QED  BY <2>1, <2>2, ValidatorInvStep
<1>3. ValidatorInv => TaggedWhole
  <2> SUFFICES ASSUME ValidatorInv, reply = "allowed", AlignedMap(rv_validator[1].map),
                      NEW a \in WordAddrs, InProvider(a), get_provider(a).heterogeneous
               PROVE  \E given \in {EntriesAt(rv_validator[1].map, a)} :
                        rv_validator[1].tags[InsnCell(a)] \in (IF given = {} THEN {null} ELSE given \ {null})
    BY DEF TaggedWhole
  <2> DEFINE v == rv_validator[1]
  <2>1. v.map \in Map /\ Applied(v) /\ ~RunsFault(v.map)
    BY DEF ValidatorInv
  <2>2. AlignedMap(v.map)
    OBVIOUS
  <2> HIDE DEF v
  <2>3. v.tags[InsnCell(a)] \in (IF EntriesAt(v.map, a) = {} THEN {null} ELSE EntriesAt(v.map, a) \ {null})
    BY <2>1, <2>2, TaggedByMap DEF Applied
  <2>. QED  BY <2>3 DEF v
<1>. QED  BY <1>1, <1>2, <1>3, FileInvariant, PTL DEF TaggingSpec

-----------------------------------------------------------------------------
(* What crashes the process *)

(* What CrashOnlyUntagged says of the state of the host after a crash *)
Explained(rv, doa, st, ev, what) ==
  /\ rv = <<>> => (st => doa)
  /\ rv # <<>> /\ what = <<>> => RunsFault(rv[1].map)
  /\ rv # <<>> /\ what # <<>> /\ what[1] = "mem" =>
       (~doa /\ AlignedMap(rv[1].map) =>
          \A a \in {w \in WordAddrs : InsnCell(w) # NoCell /\ InsnCell(w) = DataCell(what[2])} :
            EntriesAt(rv[1].map, a) = {})
  /\ what # <<>> /\ what[1] # "mem" =>
       what[1] \in {"pc", "csr", "reg"} \ StartTags \/ (what[1] = "ops" /\ ~ev)

(* The inductive invariant: nothing follows a crash, what it was over is    *)
(* known from then on, and e_v_set_callbacks leaves a validator or DOA.     *)
CrashInv ==
  /\ started /\ ~DOA => rv_validator # <<>>
  /\ reply # "crash" => untagged = <<>>
  /\ reply = "crash" => Explained(rv_validator, DOA, started, evaluated, untagged)

(* Where a validator that has applied its map meets memory without a tag,   *)
(* the map has no entry for that memory.                                    *)
LEMMA BareMemory ==
  ASSUME NEW v, NEW addr, v.map \in Map, ~RunsFault(v.map), Applied(v), AlignedMap(v.map),
         \/ DataCell(addr) = NoCell
         \/ DataCell(addr) # NoCell /\ v.tags[DataCell(addr)] = null,
         NEW a \in WordAddrs, InsnCell(a) # NoCell, InsnCell(a) = DataCell(addr)
  PROVE  EntriesAt(v.map, a) = {}
<1>1. v.tags[InsnCell(a)] = null
  OBVIOUS
<1>2. ~apply_metadata(NoTags, v.map).throws /\ apply_metadata(NoTags, v.map).tags[InsnCell(a)] = null
  BY <1>1 DEF Applied
<1>. QED  BY <1>2, EntryMakesTag

LEMMA MissingExplains ==
  ASSUME ValidatorInv, reply # "crash", rv_validator # <<>>, NEW what, Missing(what)
  PROVE  Explained(rv_validator, DOA, started, evaluated, what)
<1>1. CASE \E addr : what = <<"mem", addr>> /\ (DataCell(addr) = NoCell \/ Untagged(addr))
  <2>1. PICK addr : what = <<"mem", addr>> /\ (DataCell(addr) = NoCell \/ Untagged(addr))
    BY <1>1
  <2>2. what # <<>> /\ what[1] = "mem" /\ what[2] = addr
    BY <2>1
  <2> DEFINE v == rv_validator[1]
  <2>3. ASSUME ~DOA, AlignedMap(v.map), NEW a \in WordAddrs,
               InsnCell(a) # NoCell, InsnCell(a) = DataCell(addr)
        PROVE  EntriesAt(v.map, a) = {}
    <3>1. v.map \in Map /\ Applied(v) /\ ~RunsFault(v.map)
      BY <2>3 DEF ValidatorInv
    <3>2. \/ DataCell(addr) = NoCell
          \/ DataCell(addr) # NoCell /\ v.tags[DataCell(addr)] = null
      BY <2>1 DEF Untagged
    <3> HIDE DEF v
    <3>. QED  BY <2>3, <3>1, <3>2, BareMemory
  <2>. QED  BY <2>2, <2>3 DEF Explained
<1>2. CASE \E kind \in {"pc", "csr", "reg"} \ StartTags : what = <<kind>>
  <2>1. PICK kind \in {"pc", "csr", "reg"} \ StartTags : what = <<kind>>
    BY <1>2
  <2>2. what # <<>> /\ what[1] = kind /\ kind # "mem"
    BY <2>1
  <2>. QED  BY <2>2 DEF Explained
<1>3. CASE what = <<"ops">> /\ ~evaluated
  <2>1. what # <<>> /\ what[1] = "ops"
    BY <1>3
  <2>. QED  BY <1>3, <2>1 DEF Explained
<1>. QED  BY <1>1, <1>2, <1>3 DEF Missing

LEMMA CrashInvStep == CrashInv /\ ValidatorInv /\ (HostNext \/ UNCHANGED host) => CrashInv'
<1> SUFFICES ASSUME CrashInv, ValidatorInv, HostNext \/ UNCHANGED host PROVE CrashInv'
  OBVIOUS
<1>1. CASE UNCHANGED host
  BY <1>1 DEF host, CrashInv
<1>2. ASSUME NEW keys, e_v_set_metadata(keys) PROVE CrashInv'
  <2>1. /\ reply # "crash" /\ reply' = "none" /\ (DOA => DOA')
        /\ UNCHANGED <<rv_validator, started, untagged>>
    BY <1>2, Zenon DEF e_v_set_metadata
  <2>. QED  BY <2>1 DEF CrashInv
<1>3. CASE e_v_set_callbacks
  <2>0. reply # "crash" /\ UNCHANGED untagged
    BY <1>3, Zenon DEF e_v_set_callbacks
  <2>1. CASE DOA
    <3>1. reply' = "none" /\ UNCHANGED <<DOA, rv_validator>>
      BY <1>3, <2>1, Zenon DEF e_v_set_callbacks
    <3>. QED  BY <2>0, <2>1, <3>1 DEF CrashInv
  <2>2. CASE ~DOA /\ ~({"policy_dir", "soc_cfg_path"} \subseteq config)
    <3>1. DOA' = TRUE /\ reply' = "none"
      BY <1>3, <2>2, Zenon DEF e_v_set_callbacks
    <3>. QED  BY <2>0, <3>1 DEF CrashInv
  <2>3. CASE ~DOA /\ {"policy_dir", "soc_cfg_path"} \subseteq config
    <3> DEFINE load == load_metadata(IF "tags_file" \in config THEN tag_file ELSE <<>>, 32)
               v == new_validator(load)
               w == [v EXCEPT !.tags = apply_metadata(v.tags, v.map).tags]
    <3>1. Construct(load)
      BY <1>3, <2>3, Zenon DEF e_v_set_callbacks
    <3> HIDE DEF load
    <3>2. rv_validator' = <<w>> /\ reply' = IF RunsFault(v.map) THEN "crash" ELSE "none"
      BY <3>1, Zenon DEF Construct
    <3>3. w.map = v.map
      BY DEF new_validator
    <3> HIDE DEF v, w
    <3>4. rv_validator' # <<>> /\ rv_validator'[1] = w /\ untagged' = <<>>
      BY <2>0, <3>2 DEF CrashInv
    <3>5. reply' = "crash" => RunsFault(w.map)
      BY <3>2, <3>3
    <3>6. ASSUME reply' = "crash"
          PROVE  Explained(rv_validator', DOA', started', evaluated', untagged')
      BY <3>4, <3>5, <3>6, Zenon DEF Explained
    <3>. QED  BY <3>4, <3>6, Zenon DEF CrashInv
  <2>. QED  BY <2>1, <2>2, <2>3
<1>4. CASE CallStep
  <2>0. reply # "crash" /\ UNCHANGED <<rv_validator, started>> /\ untagged = <<>>
    BY <1>4, Zenon DEF CallStep, CrashInv
  <2>1. CASE reply' \in {"none", "denied"} /\ DOA' \in {DOA, TRUE} /\ UNCHANGED <<evaluated, untagged>>
    <3>1. reply' # "crash" /\ untagged' = <<>> /\ rv_validator' = rv_validator /\ started' = started
      BY <2>0, <2>1
    <3>2. DOA' = DOA \/ DOA'
      BY <2>1
    <3>3. started' /\ rv_validator' = <<>> => DOA'
      BY <3>1, <3>2, <1>4, Zenon DEF CrashInv
    <3>. QED  BY <3>1, <3>3, Zenon DEF CrashInv
  <2>2. CASE reply' \in {"allowed", "denied"} /\ UNCHANGED <<DOA, untagged>>
    BY <2>0, <2>2 DEF CrashInv
  <2>3. CASE rv_validator = <<>> /\ reply' = "crash" /\ UNCHANGED <<DOA, evaluated, untagged>>
    <3>0. rv_validator = <<>> /\ untagged = <<>> /\ (started => DOA)
      BY <2>0, <2>3 DEF CrashInv
    <3>1. Explained(rv_validator, DOA, started, evaluated, untagged)
      BY <3>0, Zenon DEF Explained
    <3>. QED  BY <2>0, <2>3, <3>1 DEF CrashInv
  <2>4. CASE /\ rv_validator # <<>> /\ reply' = "crash" /\ UNCHANGED <<DOA, evaluated>>
             /\ Missing(untagged')
    <3>1. Explained(rv_validator, DOA, started, evaluated, untagged')
      BY <2>0, <2>4, MissingExplains
    <3>. QED  BY <2>0, <2>4, <3>1 DEF CrashInv
  <2>. QED  BY <1>4, <2>1, <2>2, <2>3, <2>4, Zenon DEF CallStep
<1>. QED  BY <1>1, <1>2, <1>3, <1>4, HostSteps, Zenon

(* Whatever the host calls, in any order and while the tool runs: a crash   *)
(* is a call without a validator before e_v_set_callbacks or after it made   *)
(* the host DOA, a start on a file that has a run without metadata, memory   *)
(* or a register without a tag, or the log of an evaluation not made.  Where *)
(* it is memory and the validator is not DOA, the loaded file has no tag for *)
(* it.                                                                      *)
THEOREM TaggingCrashOnlyUntagged == TaggingSpec => []CrashOnlyUntagged
<1>1. TaggingInit => ValidatorInv /\ CrashInv
  BY DEF TaggingInit, HostInit, ValidatorInv, CrashInv
<1>2. TaggingNext \/ UNCHANGED all => (~input.firmware /\ HostNext) \/ UNCHANGED host
  BY DEF TaggingNext, Tool, Host, all
<1>3. ValidatorInv /\ CrashInv /\ FileInv /\ [TaggingNext]_all => ValidatorInv' /\ CrashInv'
  BY <1>2, ValidatorInvStep, CrashInvStep
<1>4. CrashInv => CrashOnlyUntagged
  BY DEF CrashInv, Explained, CrashOnlyUntagged
<1>. QED  BY <1>1, <1>3, <1>4, FileInvariant, PTL DEF TaggingSpec

-----------------------------------------------------------------------------
(* Types *)

Stages == Ended \cup {"start", "rwx", "llvm", "soc", "tag_array", "apply", "opcodes", "entities",
                      "embed", "annotate", "write", "writing"}

(* What TypeOK says of the program counter of the tool and of the host *)
ControlInv == /\ stage \in Stages /\ runs \in 1 .. MaxRuns
              /\ DOA \in BOOLEAN /\ started \in BOOLEAN /\ evaluated \in BOOLEAN
              /\ reply \in {"none", "allowed", "denied", "crash"}

LEMMA ToolControl ==
  ASSUME ControlInv, ToolNext
  PROVE  stage' \in Stages /\ runs' \in 1 .. MaxRuns
<1>0. runs \in 1 .. MaxRuns /\ MaxRuns \in Nat
  BY InputsAssumption DEF ControlInv
<1>1. CASE Start
  BY <1>0, <1>1 DEF Start, Stages, Ended
<1>2. CASE AddRwxRanges \/ GeneratePolicyRanges \/ AddSocRanges
  <2>1. UNCHANGED runs /\ stage' \in {"throws", "llvm", "soc", "tag_array"}
    BY <1>2 DEF AddRwxRanges, GeneratePolicyRanges, AddSocRanges, Ranges
  <2>. QED  BY <1>0, <2>1 DEF Stages, Ended
<1>3. CASE ApplyTags \/ TagOpcodes \/ TagEntities
  <2>1. UNCHANGED runs /\ stage' \in {"throws", "opcodes", "entities", "embed"}
    BY <1>3 DEF ApplyTags, TagOpcodes, TagEntities, Tagged
  <2>. QED  BY <1>0, <2>1 DEF Stages, Ended
<1>4. ASSUME NEW works \in BOOLEAN, AddTagArray(works) \/ EmbedTags(works) \/ Annotate(works) \/ OpenTagFile(works)
      PROVE  stage' \in Stages /\ runs' \in 1 .. MaxRuns
  <2>1. CASE AddTagArray(works)
    <3>1. UNCHANGED runs /\ stage' \in {"throws", "apply"}
      BY <2>1 DEF AddTagArray
    <3>. QED  BY <1>0, <3>1 DEF Stages, Ended
  <2>2. CASE EmbedTags(works)
    <3>1. UNCHANGED runs /\ stage' \in {"crash", "throws", "annotate"}
      BY <2>2 DEF EmbedTags
    <3>. QED  BY <1>0, <3>1 DEF Stages, Ended
  <2>3. CASE Annotate(works)
    <3>1. UNCHANGED runs /\ (stage' = "exit" \/ stage' = "throws" \/ stage' = "write")
      BY <2>3, Zenon DEF Annotate
    <3>. QED  BY <1>0, <3>1 DEF Stages, Ended
  <2>4. CASE OpenTagFile(works)
    <3>1. UNCHANGED runs /\ stage' \in {"writing", "throws", "done"}
      BY <2>4 DEF OpenTagFile
    <3>. QED  BY <1>0, <3>1 DEF Stages, Ended
  <2>. QED  BY <1>4, <2>1, <2>2, <2>3, <2>4
<1>5. CASE WriteBytes
  <2>1. UNCHANGED runs /\ (stage' = "writing" \/ stage' = "done" \/ stage' = "throws" \/ stage' = "endless")
    BY <1>5, Zenon DEF WriteBytes
  <2>. QED  BY <1>0, <2>1 DEF Stages, Ended
<1>6. CASE RunAgain
  <2>1. stage' = "start" /\ runs' = runs + 1 /\ runs < MaxRuns
    BY <1>6 DEF RunAgain
  <2>. QED  BY <1>0, <2>1 DEF Stages
<1>. QED  BY <1>1, <1>2, <1>3, <1>4, <1>5, <1>6 DEF ToolNext

LEMMA HostControl ==
  ASSUME ControlInv, HostNext
  PROVE  /\ DOA' \in BOOLEAN /\ started' \in BOOLEAN /\ evaluated' \in BOOLEAN
         /\ reply' \in {"none", "allowed", "denied", "crash"}
<1>0. DOA \in BOOLEAN /\ started \in BOOLEAN /\ evaluated \in BOOLEAN
  BY DEF ControlInv
<1>1. ASSUME NEW keys \in Configs, e_v_set_metadata(keys)
      PROVE  DOA' \in BOOLEAN /\ UNCHANGED <<started, evaluated>> /\ reply' = "none"
  BY <1>1, Zenon DEF e_v_set_metadata
<1>2. ASSUME NEW load, Construct(load)
      PROVE  DOA' \in BOOLEAN /\ evaluated' = FALSE /\ (reply' = "crash" \/ reply' = "none")
  BY <1>2, Zenon DEF Construct
<1>3. CASE e_v_set_callbacks
  <2>1. started' = TRUE
    BY <1>3, Zenon DEF e_v_set_callbacks
  <2>2. \/ reply' = "none" /\ UNCHANGED <<DOA, evaluated>>
        \/ \E load : Construct(load)
        \/ DOA' = TRUE /\ reply' = "none" /\ UNCHANGED evaluated
    BY <1>3, Zenon DEF e_v_set_callbacks
  <2>. QED  BY <1>0, <1>2, <2>1, <2>2, Zenon
<1>4. CASE CallStep
  <2>1. DOA' \in {DOA, TRUE} /\ UNCHANGED started /\ evaluated' \in {evaluated, TRUE}
        /\ reply' \in {"none", "allowed", "denied", "crash"}
    BY <1>4 DEF CallStep
  <2>. QED  BY <1>0, <2>1
<1>. QED  BY <1>0, <1>1, <1>3, <1>4, HostSteps

LEMMA ControlInvariant == TaggingSpec => []ControlInv
<1>1. TaggingInit => ControlInv
  <2> SUFFICES ASSUME TaggingInit PROVE ControlInv
    OBVIOUS
  <2>1. 1 \in 1 .. MaxRuns
    BY InputsAssumption
  <2>. QED  BY <2>1 DEF TaggingInit, Init, HostInit, ControlInv, Stages
<1>2. ControlInv /\ [TaggingNext]_all => ControlInv'
  <2> SUFFICES ASSUME ControlInv, [TaggingNext]_all PROVE ControlInv'
    OBVIOUS
  <2>1. CASE UNCHANGED all
    BY <2>1 DEF all, vars, host, ControlInv
  <2>2. CASE Tool
    <3>1. ToolNext /\ UNCHANGED <<DOA, started, evaluated, reply>>
      BY <2>2 DEF Tool, host
    <3>. QED  BY <3>1, ToolControl DEF ControlInv
  <2>3. CASE Host
    <3>1. HostNext /\ UNCHANGED <<stage, runs>>
      BY <2>3 DEF Host
    <3>. QED  BY <3>1, HostControl DEF ControlInv
  <2>. QED  BY <2>1, <2>2, <2>3 DEF TaggingNext
<1>. QED  BY <1>1, <1>2, PTL DEF TaggingSpec

(* For every program, policy, SOC and order of the host's calls: the tool  *)
(* asks for typed ranges and keeps ids in its map, and what is in the tag   *)
(* file, plain or for the firmware, finished, cut short or endless, are     *)
(* bytes.                                                                   *)
THEOREM TaggingTypeOK == TaggingSpec => []TypeOK
<1>1. ControlInv /\ RangeInv /\ RangesTyped /\ MapInv /\ FileInv => TypeOK
  <2> SUFFICES ASSUME ControlInv, RangeInv, RangesTyped, MapInv, FileInv PROVE TypeOK
    OBVIOUS
  <2>1. \A i \in DOMAIN md_memory_map : \A k \in DOMAIN md_memory_map[i].mem :
          TagsOf(md_memory_map[i].mem[k]) \subseteq Nat
    <3> SUFFICES ASSUME NEW i \in DOMAIN md_memory_map, NEW k \in DOMAIN md_memory_map[i].mem
                 PROVE  TagsOf(md_memory_map[i].mem[k]) \subseteq Nat
      OBVIOUS
    <3>1. md_memory_map[i] \in Region
      BY DEF MapInv, Map
    <3>2. md_memory_map[i].mem \in Seq(Entry)
      BY <3>1 DEF Region
    <3>3. md_memory_map[i].mem[k] \in Entry
      BY <3>2
    <3>. QED  BY <3>3, Entries DEF Ids
  <2>2. tag_file = <<>> \/ \A i \in DOMAIN tag_file[1] : tag_file[1][i] \in 0 .. 255
    <3> DEFINE b == tag_file[1]
    <3>1. tag_file = <<>> \/ b \in Seq(Byte)
      BY DEF FileInv
    <3> HIDE DEF b
    <3>2. b \in Seq(Byte) => \A i \in DOMAIN b : b[i] \in Byte
      OBVIOUS
    <3>. QED  BY <3>1, <3>2, Zenon DEF Byte, b
  <2>3. input \in Inputs
    BY DEF RangeInv
  <2>. QED  BY <2>1, <2>2, <2>3 DEF TypeOK, ControlInv, Stages
<1>. QED  BY <1>1, ControlInvariant, RangeInvariant, TaggingRangesTyped, MapInvariant, FileInvariant, PTL

=============================================================================
