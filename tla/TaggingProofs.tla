--------------------------- MODULE TaggingProofs ---------------------------
(***************************************************************************)
(* What holds of the tagging tool for every program and policy: what the   *)
(* taggers add are ranges of the address space; the map of tags holds what *)
(* was added to it, in whatever order the taggers came; the listing shows  *)
(* it; the header covers the tagged sections; the tool can be run again;   *)
(* the host crashes the validator only before it is made or after it       *)
(* failed.                                                                 *)
(***************************************************************************)
EXTENDS Tagging, SequenceLemmas, FiniteSetTheorems

-----------------------------------------------------------------------------
(* What the taggers ask for *)

Addr == 0 .. AddrSpace - 1

LEMMA Uint64Type == \A x \in Int : uint64(x) \in Addr /\ uint64(x) \in Nat
<1>1. AddrSpace \in Nat /\ AddrSpace > 0
  BY AddrSpaceAssumption
<1>. QED  BY <1>1 DEF uint64, Addr

LEMMA AddrNat == \A a \in Addr : a \in Nat
  BY AddrSpaceAssumption DEF Addr

(* The names a range may be given *)
TagName == {RWX_X, RWX_R, RWX_W, NoCFI} \cup Range(SpecifiedName) \cup Range(NameOrder)
             \cup UNION {{c.policy.metas[i].name : i \in DOMAIN c.policy.metas} : c \in Inputs}
Ranged == [start : Addr, end : Nat, tags : Seq(TagName)]

LEMMA OneName == \A name \in TagName : <<name>> \in Seq(TagName)
  OBVIOUS

(* A part of a sequence that is there or not *)
LEMMA WhereType ==
  ASSUME NEW S, NEW x, NEW c, c => x \in S
  PROVE  Where(c, x) \in Seq(S)
  BY DEF Where

LEMMA TaggedRangeType ==
  ASSUME NEW start \in Addr, NEW end \in Nat, NEW tags \in Seq(TagName)
  PROVE  TaggedRange(start, end, tags) \in Ranged
  BY DEF TaggedRange, Ranged

LEMMA RangeMapAddType ==
  ASSUME NEW m \in Seq(Ranged), NEW start \in Addr, NEW end \in Nat, NEW tags \in Seq(TagName)
  PROVE  RangeMapAdd(m, start, end, tags) \in Seq(Ranged)
<1> DEFINE same == {i \in DOMAIN m : m[i].start = start /\ m[i].end = end}
           k == Min(same)
<1>1. CASE same = {}
  <2>1. TaggedRange(start, end, tags) \in Ranged
    BY TaggedRangeType
  <2>2. RangeMapAdd(m, start, end, tags) = Append(m, TaggedRange(start, end, tags))
    BY <1>1 DEF RangeMapAdd
  <2>. QED  BY <2>1, <2>2
<1>2. CASE same # {}
  <2>1. same \subseteq Nat
    OBVIOUS
  <2>2. k \in same
    <3> HIDE DEF same
    <3>. QED  BY <1>2, <2>1, LeastNatural
  <2>3. k \in DOMAIN m
    BY <2>2
  <2>4. RangeMapAdd(m, start, end, tags) = [m EXCEPT ![k].tags = @ \o tags]
    BY <1>2 DEF RangeMapAdd
  <2> HIDE DEF k
  <2> DEFINE q == [m[k] EXCEPT !.tags = @ \o tags]
  <2>5. m[k] \in Ranged
    BY <2>3
  <2>6. m[k].tags \o tags \in Seq(TagName)
    BY <2>5, Concat DEF Ranged
  <2>7. q \in Ranged
    BY <2>5, <2>6 DEF Ranged
  <2>8. [m EXCEPT ![k].tags = @ \o tags] = [m EXCEPT ![k] = q]
    BY <2>3
  <2> HIDE DEF q
  <2>9. [m EXCEPT ![k] = q] \in [1 .. Len(m) -> Ranged] /\ Len(m) \in Nat
    BY <2>3, <2>7
  <2>10. [m EXCEPT ![k] = q] \in Seq(Ranged)
    BY <2>9, IsSequence
  <2>. QED  BY <2>4, <2>8, <2>10
<1>. QED  BY <1>1, <1>2

LEMMA AddTaggedType ==
  ASSUME NEW m \in Seq(Ranged), NEW tagged \in Seq(Ranged)
  PROVE  AddTagged(m, tagged) \in Seq(Ranged)
<1> DEFINE K == Len(tagged)
           S == Seq(Ranged)
           step(y, n) == RangeMapAdd(y, tagged[n].start, tagged[n].end, tagged[n].tags)
           G == [p \in (1 .. K) \X S |-> step(p[2], p[1])]
           F(y) == [i \in 0 .. K |-> IF i = 0 THEN m ELSE step(y[i - 1], i)]
           z == CHOOSE y : y = F(y)
<1>1. K \in Nat /\ m \in S
  OBVIOUS
<1>2. \A y \in S : \A n \in 1 .. K : step(y, n) \in S
  <2> SUFFICES ASSUME NEW y \in S, NEW n \in 1 .. K PROVE step(y, n) \in S
    OBVIOUS
  <2>1. tagged[n] \in Ranged
    OBVIOUS
  <2>2. tagged[n].start \in Addr /\ tagged[n].end \in Nat /\ tagged[n].tags \in Seq(TagName)
    BY <2>1 DEF Ranged
  <2>. QED  BY <2>2, RangeMapAddType
<1>3. AddTagged(m, tagged) = z[K]
  BY DEF AddTagged
<1> HIDE DEF step, S, z, K
<1>4. G \in [(1 .. K) \X S -> S]
  <2> SUFFICES ASSUME NEW p \in (1 .. K) \X S PROVE step(p[2], p[1]) \in S
    OBVIOUS
  <2>1. p[1] \in 1 .. K /\ p[2] \in S
    OBVIOUS
  <2>. QED  BY <1>2, <2>1
<1>5. \A n \in 1 .. K : \A y \in S : G[<<n, y>>] = step(y, n)
  OBVIOUS
<1> HIDE DEF G
<1>6. PICK f : Iteration(f, K, S, m, G)
  BY <1>1, <1>4, Iterates
<1>7. f \in [0 .. K -> S] /\ f[0] = m /\ \A n \in 1 .. K : f[n] = step(f[n - 1], n)
  <2>1. f \in [0 .. K -> S] /\ f[0] = m /\ \A n \in 1 .. K : f[n] = G[<<n, f[n - 1]>>]
    BY <1>6 DEF Iteration
  <2>2. \A n \in 1 .. K : f[n - 1] \in S
    BY <1>1, <2>1
  <2>. QED  BY <1>5, <2>1, <2>2
<1>8. f = F(f)
  <2>1. \A i \in 0 .. K : f[i] = IF i = 0 THEN m ELSE step(f[i - 1], i)
    BY <1>1, <1>7
  <2>. QED  BY <1>7, <2>1, Zenon
<1>9. z = F(z)
  <2> HIDE DEF F
  <2>. QED  BY <1>8 DEF z
<1>10. z[0] = m /\ \A n \in 1 .. K : z[n] = step(z[n - 1], n)
  BY <1>1, <1>9
<1>11. \A n \in 0 .. K : z[n] \in S
  <2> HIDE DEF F
  <2>1. z[0] \in S /\ \A n \in 1 .. K : z[n - 1] \in S => z[n] \in S
    BY <1>1, <1>2, <1>10
  <2>. QED  BY <1>1, <2>1, Stays
<1>12. K \in 0 .. K
  BY <1>1
<1>. QED  BY <1>3, <1>11, <1>12 DEF S

(* AddTagged of the sections, the SOC elements and the tag array *)
LEMMA RwxTagsType == \A flags : RwxTags(flags) \in Seq(TagName)
<1> SUFFICES ASSUME NEW flags PROVE RwxTags(flags) \in Seq(TagName)
  OBVIOUS
<1> DEFINE x == RWX_X
           r == RWX_R
           w == RWX_W
<1>1. x \in TagName /\ r \in TagName /\ w \in TagName
  BY DEF TagName
<1>2. RwxTags(flags) \in {<<r, x>>, <<w>>, <<r>>, <<>>}
  BY DEF RwxTags
<1> HIDE DEF x, r, w
<1>3. <<r, x>> \in Seq(TagName) /\ <<w>> \in Seq(TagName) /\ <<r>> \in Seq(TagName) /\ <<>> \in Seq(TagName)
  BY <1>1
<1>. QED  BY <1>2, <1>3

(* What InputsAssumption says of one input *)
LEMMA InputSections ==
  ASSUME NEW c \in Inputs
  PROVE  /\ Len(c.image.sections) \in Nat /\ DOMAIN c.image.sections = 1 .. Len(c.image.sections)
         /\ \A i \in DOMAIN c.image.sections :
              /\ c.image.sections[i].address \in Addr /\ c.image.sections[i].size \in Nat
              /\ c.image.sections[i].address \in Nat
              /\ \A k \in DOMAIN c.image.sections[i].data : c.image.sections[i].data[k] \in Nat
<1>1. Sequence(c.image.sections)
  BY InputsAssumption
<1>2. Len(c.image.sections) \in Nat /\ DOMAIN c.image.sections = 1 .. Len(c.image.sections)
  BY <1>1 DEF Sequence
<1>. QED  BY <1>2, InputsAssumption, AddrNat DEF Addr

LEMMA EndAddressType ==
  ASSUME NEW s, s.address \in Nat, s.size \in Nat
  PROVE  end_address(s) \in Addr /\ end_address(s) \in Nat
<1>1. round_up(s.address + s.size, 4) \in Int
  BY DEF round_up
<1>. QED  BY <1>1, Uint64Type DEF end_address

LEMMA AddRwxType ==
  ASSUME NEW c \in Inputs, NEW m \in Seq(Ranged)
  PROVE  add_rwx_ranges(m, c.image) \in Seq(Ranged)
<1> DEFINE secs == c.image.sections
           K == Len(secs)
           range(s) == Where(RwxTags(s.flags) # <<>>, TaggedRange(s.address, end_address(s), RwxTags(s.flags)))
           u == [i \in DOMAIN secs |-> range(secs[i])]
<1>1. ASSUME NEW i \in DOMAIN secs PROVE range(secs[i]) \in Seq(Ranged)
  <2> DEFINE s == secs[i]
  <2>1. s.address \in Addr /\ s.address \in Nat /\ s.size \in Nat
    BY InputSections
  <2> HIDE DEF s
  <2>2. end_address(s) \in Nat
    BY <2>1, EndAddressType
  <2>3. TaggedRange(s.address, end_address(s), RwxTags(s.flags)) \in Ranged
    BY <2>1, <2>2, RwxTagsType, TaggedRangeType
  <2>4. range(s) \in Seq(Ranged)
    BY <2>3, WhereType
  <2> HIDE DEF range
  <2>. QED  BY <2>4 DEF s
<1>2. K \in Nat /\ DOMAIN secs = 1 .. K
  BY InputSections
<1> HIDE DEF range
<1>3. u \in [1 .. K -> Seq(Ranged)]
  BY <1>1, <1>2
<1>4. add_rwx_ranges(m, c.image) = AddTagged(m, FlattenSeq(u))
  BY DEF add_rwx_ranges, range
<1> HIDE DEF u, K, secs
<1>5. FlattenSeq(u) \in Seq(Ranged)
  BY <1>2, <1>3, Flatten
<1>. QED  BY <1>4, <1>5, AddTaggedType

LEMMA AddSocType ==
  ASSUME NEW c \in Inputs, NEW m \in Seq(Ranged), NEW required
  PROVE  add_soc_ranges(m, c.soc, NameOrder, required) \in Seq(Ranged)
<1> DEFINE soc == c.soc
           of(name) == {i \in DOMAIN soc : soc[i].name = name}
           last(name) == SocRange(soc[Max(of(name))])
           range(name) == Where(name \in required /\ of(name) # {},
                                TaggedRange(last(name).start, last(name).end, <<name>>))
           K == Len(NameOrder)
           u == [i \in DOMAIN NameOrder |-> range(NameOrder[i])]
<1>1. Len(soc) \in Nat /\ DOMAIN soc = 1 .. Len(soc)
  BY InputsAssumption DEF Sequence
<1>2. \A i \in DOMAIN soc : soc[i].start \in Addr /\ soc[i].end \in Int
  BY InputsAssumption, AddrNat DEF Addr
<1>3. K \in Nat /\ DOMAIN NameOrder = 1 .. K
  BY InputsAssumption DEF Sequence
<1>4. add_soc_ranges(m, c.soc, NameOrder, required) = AddTagged(m, FlattenSeq(u))
  BY DEF add_soc_ranges
<1> HIDE DEF soc
<1>5. ASSUME NEW i \in DOMAIN NameOrder PROVE range(NameOrder[i]) \in Seq(Ranged)
  <2> DEFINE name == NameOrder[i]
             j == Max(of(name))
  <2>1. name \in TagName
    BY DEF TagName, Range
  <2> HIDE DEF name
  <2>2. ASSUME of(name) # {} PROVE TaggedRange(last(name).start, last(name).end, <<name>>) \in Ranged
    <3>1. of(name) \subseteq 0 .. Len(soc)
      BY <1>1
    <3>2. j \in of(name)
      <4> HIDE DEF of
      <4>. QED  BY <1>1, <2>2, <3>1, GreatestNatural
    <3>3. j \in DOMAIN soc
      BY <3>2
    <3> HIDE DEF j
    <3>4. soc[j].start \in Addr /\ soc[j].end + 1 \in Int
      BY <1>2, <3>3
    <3>5. SocRange(soc[j]).start \in Addr /\ SocRange(soc[j]).end \in Nat
      BY <3>4, Uint64Type DEF SocRange
    <3>6. <<name>> \in Seq(TagName)
      BY <2>1, OneName
    <3>7. TaggedRange(SocRange(soc[j]).start, SocRange(soc[j]).end, <<name>>) \in Ranged
      BY <3>5, <3>6, TaggedRangeType
    <3>. QED  BY <3>7 DEF j
  <2> HIDE DEF last, of
  <2>3. range(name) \in Seq(Ranged)
    BY <2>2, WhereType
  <2> HIDE DEF range
  <2>. QED  BY <2>3 DEF name
<1> HIDE DEF range
<1>6. u \in [1 .. K -> Seq(Ranged)]
  BY <1>3, <1>5
<1> HIDE DEF u, K
<1>7. FlattenSeq(u) \in Seq(Ranged)
  BY <1>3, <1>6, Flatten
<1>. QED  BY <1>4, <1>7, AddTaggedType

LEMMA TagArrayType ==
  ASSUME input \in Inputs, NEW start \in Int
  PROVE  TagArrayRanges(start) \in Seq(Ranged)
<1> DEFINE w == word_bytes(image)
           metas == policy.metas
           K == Len(metas)
           tagged(i) == TaggedRange(uint64(start + metas[i].id * w + w),
                                    uint64(start + metas[i].id * w + 2 * w), <<metas[i].name>>)
           u == [i \in DOMAIN metas |-> tagged(i)]
<1>1. w \in {4, 8}
  BY DEF word_bytes
<1>2. K \in Nat /\ DOMAIN metas = 1 .. K /\ \A i \in DOMAIN metas : metas[i].id \in Nat /\ metas[i].name \in TagName
  <2>1. Sequence(metas) /\ \A i \in DOMAIN metas : metas[i].id \in Nat
    BY InputsAssumption DEF policy
  <2>2. K \in Nat /\ DOMAIN metas = 1 .. K
    BY <2>1 DEF Sequence
  <2>3. \A i \in DOMAIN metas : metas[i].name \in TagName
    BY DEF TagName, policy
  <2>. QED  BY <2>1, <2>2, <2>3
<1>3. TagArrayRanges(start) = u
  BY DEF TagArrayRanges
<1> HIDE DEF metas, w
<1>4. ASSUME NEW i \in DOMAIN metas PROVE tagged(i) \in Ranged
  <2>1. start + metas[i].id * w + w \in Int /\ start + metas[i].id * w + 2 * w \in Int
    BY <1>1, <1>2
  <2>2. <<metas[i].name>> \in Seq(TagName)
    BY <1>2, OneName
  <2>. QED  BY <2>1, <2>2, Uint64Type, TaggedRangeType
<1> HIDE DEF tagged
<1>5. u \in [1 .. K -> Ranged]
  BY <1>2, <1>4
<1> HIDE DEF u, K
<1>. QED  BY <1>2, <1>3, <1>5, IsSequence

(* The LLVM metadata *)
LEMMA PointerType ==
  ASSUME NEW bytes, \A k \in DOMAIN bytes : bytes[k] \in Nat
  PROVE  \A i : byte(bytes, i) \in Nat /\ pointer(bytes, i) \in Nat
<1>1. \A i : byte(bytes, i) \in Nat
  BY DEF byte
<1> SUFFICES ASSUME NEW i PROVE pointer(bytes, i) \in Nat
  BY <1>1
<1>2. /\ byte(bytes, i) \in Nat /\ byte(bytes, i + 1) \in Nat
      /\ byte(bytes, i + 2) \in Nat /\ byte(bytes, i + 3) \in Nat
  BY <1>1
<1> DEFINE a == byte(bytes, i)
           b == byte(bytes, i + 1)
           c == byte(bytes, i + 2)
           d == byte(bytes, i + 3)
<1>3. pointer(bytes, i) = a + 256 * (b + 256 * (c + 256 * d))
  BY DEF pointer
<1>4. a \in Nat /\ b \in Nat /\ c \in Nat /\ d \in Nat
  BY <1>2
<1> HIDE DEF a, b, c, d
<1>. QED  BY <1>3, <1>4

LEMMA CheckAndAddType ==
  ASSUME NEW m \in Seq(Ranged), NEW start \in Addr, NEW end \in Nat, NEW specifier, NEW require
  PROVE  check_and_add_range(m, start, end, specifier, require) \in Seq(Ranged)
<1>1. CASE specifier \in DOMAIN SpecifiedName
  <2> DEFINE name == SpecifiedName[specifier]
  <2>1. name \in TagName
    BY <1>1 DEF TagName, Range
  <2>2. check_and_add_range(m, start, end, specifier, require) \in {RangeMapAdd(m, start, end, <<name>>), m}
    BY DEF check_and_add_range
  <2> HIDE DEF name
  <2>3. <<name>> \in Seq(TagName)
    BY <2>1, OneName
  <2>. QED  BY <2>2, <2>3, RangeMapAddType
<1>2. CASE specifier \notin DOMAIN SpecifiedName
  BY <1>2 DEF check_and_add_range
<1>. QED  BY <1>1, <1>2

(* How far the metadata have been read *)
Reading == [i : Nat, base : Addr, ranges : Seq(Ranged), generated : Seq(Ranged), throws : BOOLEAN]

LEMMA ReadOpType ==
  ASSUME NEW st \in Reading, NEW bytes, \A k \in DOMAIN bytes : bytes[k] \in Nat, NEW require
  PROVE  ReadOp(st, bytes, require) \in Reading
<1> DEFINE op == byte(bytes, st.i)
           arg(k) == pointer(bytes, st.i + 1 + k * PTR_SIZE)
           to(n) == [st EXCEPT !.i = @ + 1 + n]
           base == uint64(arg(0) + Pow32 * arg(1))
           tagged == check_and_add_range(st.ranges, uint64(st.base + arg(0)), uint64(st.base + arg(0) + PTR_SIZE),
                                         byte(bytes, st.i + 1 + PTR_SIZE), require)
           block == RangeMapAdd(st.generated, st.base, uint64(st.base + arg(0)), <<>>)
           function == RangeMapAdd(st.generated, uint64(st.base + arg(0)), uint64(st.base + arg(1)), <<>>)
<1>1. /\ st.i \in Nat /\ st.base \in Addr /\ st.base \in Nat /\ st.ranges \in Seq(Ranged)
      /\ st.generated \in Seq(Ranged) /\ st.throws \in BOOLEAN
  BY AddrNat DEF Reading
<1>2. arg(0) \in Nat /\ arg(1) \in Nat
  BY PointerType
<1>3. \/ ReadOp(st, bytes, require) = [st EXCEPT !.i = st.i + 1 + 8, !.base = base]
      \/ ReadOp(st, bytes, require) = [st EXCEPT !.i = st.i + 1 + (PTR_SIZE + 1), !.ranges = tagged]
      \/ ReadOp(st, bytes, require) = [st EXCEPT !.i = st.i + 1 + PTR_SIZE, !.generated = block]
      \/ ReadOp(st, bytes, require) = [st EXCEPT !.i = st.i + 1 + 2 * PTR_SIZE, !.generated = function]
      \/ ReadOp(st, bytes, require) = [st EXCEPT !.throws = TRUE]
  <2> DEFINE a1 == [to(8) EXCEPT !.base = base]
             a2 == [to(PTR_SIZE + 1) EXCEPT !.ranges =
                      check_and_add_range(@, uint64(st.base + arg(0)), uint64(st.base + arg(0) + PTR_SIZE),
                                          byte(bytes, st.i + 1 + PTR_SIZE), require)]
             a3 == [to(PTR_SIZE) EXCEPT !.generated = RangeMapAdd(@, st.base, uint64(st.base + arg(0)), <<>>)]
             a4 == [to(2 * PTR_SIZE) EXCEPT !.generated =
                      RangeMapAdd(@, uint64(st.base + arg(0)), uint64(st.base + arg(1)), <<>>)]
             a5 == [st EXCEPT !.throws = TRUE]
  <2>1. a1 = [st EXCEPT !.i = st.i + 1 + 8, !.base = base]
    <3> HIDE DEF base
    <3>. QED  BY DEF Reading
  <2>2. a2 = [st EXCEPT !.i = st.i + 1 + (PTR_SIZE + 1), !.ranges = tagged]
    BY DEF Reading
  <2>3. a3 = [st EXCEPT !.i = st.i + 1 + PTR_SIZE, !.generated = block]
    BY DEF Reading
  <2>4. a4 = [st EXCEPT !.i = st.i + 1 + 2 * PTR_SIZE, !.generated = function]
    BY DEF Reading
  <2>5. ReadOp(st, bytes, require) = CASE op = DMD_SET_BASE_ADDRESS_OP -> a1
                                       [] op = DMD_TAG_ADDRESS_OP -> a2
                                       [] op = DMD_END_BLOCK -> a3
                                       [] op = DMD_FUNCTION_RANGE -> a4
                                       [] OTHER -> a5
    BY DEF ReadOp
  <2>6. ReadOp(st, bytes, require) \in {a1, a2, a3, a4, a5}
    <3> HIDE DEF a1, a2, a3, a4, a5, op
    <3>. QED  BY <2>5
  <2>. QED  BY <2>1, <2>2, <2>3, <2>4, <2>6
<1>4. base \in Addr
  <2>1. arg(0) + Pow32 * arg(1) \in Int
    <3> DEFINE a == arg(0)
               b == arg(1)
    <3> HIDE DEF a, b
    <3>1. a \in Nat /\ b \in Nat
      BY <1>2 DEF a, b
    <3>2. a + Pow32 * b \in Int
      BY <3>1, AddrSpaceAssumption
    <3>. QED  BY <3>2 DEF a, b
  <2>. QED  BY <2>1, Uint64Type
<1>5. /\ uint64(st.base + arg(0)) \in Addr /\ uint64(st.base + arg(0)) \in Nat
      /\ uint64(st.base + arg(0) + PTR_SIZE) \in Nat
      /\ uint64(st.base + arg(1)) \in Nat
  <2>1. st.base + arg(0) \in Int /\ st.base + arg(0) + PTR_SIZE \in Int /\ st.base + arg(1) \in Int
    BY <1>1, <1>2 DEF PTR_SIZE
  <2>. QED  BY <2>1, Uint64Type
<1>6. tagged \in Seq(Ranged)
  BY <1>1, <1>5, CheckAndAddType
<1>7. <<>> \in Seq(TagName)
  OBVIOUS
<1>8. block \in Seq(Ranged) /\ function \in Seq(Ranged)
  BY <1>1, <1>5, <1>7, RangeMapAddType
<1> HIDE DEF base, tagged, block, function, arg, op, to
<1>9. st.i + 1 + 8 \in Nat /\ st.i + 1 + (PTR_SIZE + 1) \in Nat /\ st.i + 1 + PTR_SIZE \in Nat
      /\ st.i + 1 + 2 * PTR_SIZE \in Nat
  <2>1. st.i \in Nat /\ PTR_SIZE \in Nat
    BY <1>1 DEF PTR_SIZE
  <2>2. \A n, p \in Nat : n + 1 + 8 \in Nat /\ n + 1 + (p + 1) \in Nat /\ n + 1 + p \in Nat
                         /\ n + 1 + 2 * p \in Nat
    OBVIOUS
  <2>. QED  BY <2>1, <2>2, Zenon
<1>10. [st EXCEPT !.i = st.i + 1 + 8, !.base = base] \in Reading
  BY <1>4, <1>9 DEF Reading
<1>11. [st EXCEPT !.i = st.i + 1 + (PTR_SIZE + 1), !.ranges = tagged] \in Reading
  BY <1>6, <1>9 DEF Reading
<1>12. [st EXCEPT !.i = st.i + 1 + PTR_SIZE, !.generated = block] \in Reading
  BY <1>8, <1>9 DEF Reading
<1>13. [st EXCEPT !.i = st.i + 1 + 2 * PTR_SIZE, !.generated = function] \in Reading
  BY <1>8, <1>9 DEF Reading
<1>14. [st EXCEPT !.throws = TRUE] \in Reading
  BY DEF Reading
<1>. QED  BY <1>3, <1>10, <1>11, <1>12, <1>13, <1>14

LEMMA ReadOpsType ==
  ASSUME NEW bytes, \A k \in DOMAIN bytes : bytes[k] \in Nat, NEW size \in Nat, NEW require
  PROVE  ReadOps(bytes, size, require) \in Reading
<1> DEFINE S == Reading
           start == [i |-> 1, base |-> 0, ranges |-> <<>>, generated |-> <<>>, throws |-> FALSE]
           step(st) == IF st.throws \/ st.i > size THEN st ELSE ReadOp(st, bytes, require)
           G == [p \in (1 .. size) \X S |-> step(p[2])]
           F(y) == [i \in 0 .. size |-> IF i = 0 THEN start ELSE step(y[i - 1])]
           z == CHOOSE y : y = F(y)
<1>1. start \in S
  <2>1. 0 \in Addr
    BY AddrSpaceAssumption DEF Addr
  <2>. QED  BY <2>1 DEF Reading
<1>2. \A y \in S : step(y) \in S
  BY ReadOpType
<1>3. ReadOps(bytes, size, require) = z[size]
  BY DEF ReadOps
<1> HIDE DEF step, S, z, start
<1>4. G \in [(1 .. size) \X S -> S]
  <2> SUFFICES ASSUME NEW p \in (1 .. size) \X S PROVE step(p[2]) \in S
    OBVIOUS
  <2>. QED  BY <1>2
<1>5. \A n \in 1 .. size : \A y \in S : G[<<n, y>>] = step(y)
  OBVIOUS
<1> HIDE DEF G
<1>6. PICK f : Iteration(f, size, S, start, G)
  BY <1>1, <1>4, Iterates
<1>7. f \in [0 .. size -> S] /\ f[0] = start /\ \A n \in 1 .. size : f[n] = step(f[n - 1])
  <2>1. f \in [0 .. size -> S] /\ f[0] = start /\ \A n \in 1 .. size : f[n] = G[<<n, f[n - 1]>>]
    BY <1>6 DEF Iteration
  <2>2. \A n \in 1 .. size : f[n - 1] \in S
    BY <2>1
  <2>. QED  BY <1>5, <2>1, <2>2
<1>8. f = F(f)
  <2>1. \A i \in 0 .. size : f[i] = IF i = 0 THEN start ELSE step(f[i - 1])
    BY <1>7
  <2>. QED  BY <1>7, <2>1, Zenon
<1>9. z = F(z)
  <2> HIDE DEF F
  <2>. QED  BY <1>8 DEF z
<1>10. z[0] = start /\ \A n \in 1 .. size : z[n] = step(z[n - 1])
  BY <1>9
<1>11. \A n \in 0 .. size : z[n] \in S
  <2> HIDE DEF F
  <2>1. z[0] \in S /\ \A n \in 1 .. size : z[n - 1] \in S => z[n] \in S
    BY <1>1, <1>2, <1>10
  <2>. QED  BY <2>1, Stays
<1>12. size \in 0 .. size
  OBVIOUS
<1>. QED  BY <1>3, <1>11, <1>12 DEF S

LEMMA CodeWordsType ==
  ASSUME NEW c \in Inputs
  PROVE  CodeWords(c.image) \in Seq(Addr)
<1> DEFINE secs == c.image.sections
           K == Len(secs)
           is_code(s) == s.flags \cap {"ALLOC", "WRITE", "EXECINSTR"} = {"ALLOC", "EXECINSTR"}
           count(s) == IF is_code(s) THEN (end_address(s) - s.address + 3) \div PTR_SIZE ELSE 0
           words(s) == [w \in 1 .. count(s) |-> uint64(s.address + (w - 1) * PTR_SIZE)]
           u == [i \in DOMAIN secs |-> words(secs[i])]
<1>1. ASSUME NEW i \in DOMAIN secs PROVE words(secs[i]) \in Seq(Addr)
  <2> DEFINE s == secs[i]
  <2>1. s.address \in Nat /\ s.size \in Nat
    BY InputSections
  <2> HIDE DEF s
  <2>2. end_address(s) \in Nat
    BY <2>1, EndAddressType
  <2>3. count(s) \in Int
    <3> DEFINE n == end_address(s) - s.address + 3
    <3>1. n \in Int /\ PTR_SIZE = 4
      BY <2>1, <2>2 DEF PTR_SIZE
    <3>2. n \div PTR_SIZE \in Int
      <4> HIDE DEF n
      <4>. QED  BY <3>1
    <3>. QED  BY <3>2
  <2> HIDE DEF count
  <2>4. \A w \in 1 .. count(s) : uint64(s.address + (w - 1) * PTR_SIZE) \in Addr
    <3> SUFFICES ASSUME NEW w \in 1 .. count(s) PROVE uint64(s.address + (w - 1) * PTR_SIZE) \in Addr
      OBVIOUS
    <3>1. s.address + (w - 1) * PTR_SIZE \in Int
      BY <2>1, <2>3 DEF PTR_SIZE
    <3>. QED  BY <3>1, Uint64Type
  <2>5. words(s) \in [1 .. count(s) -> Addr]
    BY <2>4
  <2>6. \E n \in Nat : 1 .. count(s) = 1 .. n
    <3>1. CASE count(s) \in Nat
      BY <3>1
    <3>2. CASE count(s) \notin Nat
      <4>1. 1 .. count(s) = 1 .. 0
        BY <2>3, <3>2
      <4>. QED  BY <4>1
    <3>. QED  BY <3>1, <3>2
  <2>7. PICK n \in Nat : 1 .. count(s) = 1 .. n
    BY <2>6
  <2>8. words(s) \in Seq(Addr)
    <3> HIDE DEF words
    <3>1. words(s) \in [1 .. n -> Addr]
      BY <2>5, <2>7
    <3>. QED  BY <3>1, IsSequence
  <2> HIDE DEF words
  <2>. QED  BY <2>8 DEF s
<1>2. K \in Nat /\ DOMAIN secs = 1 .. K
  BY InputSections
<1>3. CodeWords(c.image) = FlattenSeq(u)
  BY DEF CodeWords
<1> HIDE DEF words, secs
<1>4. u \in [1 .. K -> Seq(Addr)]
  BY <1>1, <1>2
<1> HIDE DEF u, K
<1>. QED  BY <1>2, <1>3, <1>4, Flatten

LEMMA PolicyRangesType ==
  ASSUME NEW c \in Inputs, NEW require
  PROVE  generate_policy_ranges(c.image, require).ranges \in Seq(Ranged)
<1> DEFINE S == Seq(Ranged)
           md == {i \in DOMAIN c.image.sections : c.image.sections[i].name = ".dover_metadata"}
           section == c.image.sections[Min(md)]
           read == ReadOps(section.data, section.size, require)
           words == CodeWords(c.image)
           K == Len(words)
           covered(m, w) == \/ RangeMapContains(m, w, uint64(w + PTR_SIZE))
                            \/ RangeMapContains(read.generated, w, uint64(w + PTR_SIZE))
           uncovered(m, w) ==
             IF covered(m, w) THEN m ELSE RangeMapAdd(m, w, uint64(w + PTR_SIZE), <<NoCFI>>)
           F(y) == [n \in 0 .. K |-> IF n = 0 THEN read.ranges ELSE uncovered(y[n - 1], words[n])]
           z == CHOOSE y : y = F(y)
           G == [p \in (1 .. K) \X S |-> uncovered(p[2], words[p[1]])]
           refused == md = {} \/ byte(section.data, 1) # DMD_SET_BASE_ADDRESS_OP \/ read.throws
<1>1. generate_policy_ranges(c.image, require) =
        IF refused THEN [throws |-> TRUE, ranges |-> <<>>]
        ELSE [throws |-> FALSE, ranges |-> IF policy_needs_tag(require, NoCFI) THEN z[K] ELSE read.ranges]
  BY DEF generate_policy_ranges
<1>2. CASE md = {}
  <2>1. refused
    BY <1>2
  <2> HIDE DEF refused, z, K, read
  <2>. QED  BY <1>1, <2>1
<1>3. CASE md # {}
  <2>1. Min(md) \in DOMAIN c.image.sections
    <3>1. md \subseteq DOMAIN c.image.sections /\ md \subseteq Nat
      BY InputSections
    <3> HIDE DEF md
    <3>. QED  BY <1>3, <3>1, LeastNatural
  <2>2. section.size \in Nat /\ \A k \in DOMAIN section.data : section.data[k] \in Nat
    BY <2>1, InputSections
  <2> HIDE DEF section
  <2>3. read.ranges \in S
    <3>1. read \in Reading
      BY <2>2, ReadOpsType
    <3> HIDE DEF read
    <3>. QED  BY <3>1 DEF Reading
  <2>4. words \in Seq(Addr)
    BY CodeWordsType
  <2> HIDE DEF read, words, refused
  <2>5. K \in Nat /\ \A n \in 1 .. K : words[n] \in Addr
    BY <2>4
  <2>6. \A m \in S : \A n \in 1 .. K : uncovered(m, words[n]) \in S
    <3> SUFFICES ASSUME NEW m \in S, NEW n \in 1 .. K PROVE uncovered(m, words[n]) \in S
      OBVIOUS
    <3> DEFINE w == words[n]
    <3>1. w \in Addr /\ w \in Nat
      BY <2>5, AddrNat
    <3> HIDE DEF w
    <3>2. uint64(w + PTR_SIZE) \in Nat
      <4>1. w + PTR_SIZE \in Int
        BY <3>1 DEF PTR_SIZE
      <4>. QED  BY <4>1, Uint64Type
    <3>3. <<NoCFI>> \in Seq(TagName)
      BY OneName DEF TagName
    <3>4. RangeMapAdd(m, w, uint64(w + PTR_SIZE), <<NoCFI>>) \in S
      BY <3>1, <3>2, <3>3, RangeMapAddType
    <3>5. uncovered(m, w) \in S
      <4> HIDE DEF covered
      <4>. QED  BY <3>4
    <3> HIDE DEF uncovered
    <3>. QED  BY <3>5 DEF w
  <2> HIDE DEF S, uncovered, K
  <2>7. G \in [(1 .. K) \X S -> S]
    <3> SUFFICES ASSUME NEW p \in (1 .. K) \X S PROVE uncovered(p[2], words[p[1]]) \in S
      OBVIOUS
    <3>1. p[1] \in 1 .. K /\ p[2] \in S
      OBVIOUS
    <3>. QED  BY <2>6, <3>1
  <2>8. \A n \in 1 .. K : \A y \in S : G[<<n, y>>] = uncovered(y, words[n])
    OBVIOUS
  <2> HIDE DEF G
  <2> DEFINE x == read.ranges
  <2>9. PICK f : Iteration(f, K, S, x, G)
    BY <2>3, <2>5, <2>7, Iterates
  <2>10. f \in [0 .. K -> S] /\ f[0] = x /\ \A n \in 1 .. K : f[n] = uncovered(f[n - 1], words[n])
    <3>1. f \in [0 .. K -> S] /\ f[0] = x /\ \A n \in 1 .. K : f[n] = G[<<n, f[n - 1]>>]
      BY <2>9 DEF Iteration
    <3>2. \A n \in 1 .. K : f[n - 1] \in S
      BY <2>5, <3>1
    <3>. QED  BY <2>8, <3>1, <3>2
  <2>11. f = F(f)
    <3>1. \A n \in 0 .. K : f[n] = IF n = 0 THEN x ELSE uncovered(f[n - 1], words[n])
      BY <2>5, <2>10
    <3>. QED  BY <2>10, <3>1, Zenon
  <2>12. z = F(z)
    <3> HIDE DEF F
    <3>. QED  BY <2>11 DEF z
  <2> HIDE DEF z
  <2>13. z[0] = x /\ \A n \in 1 .. K : z[n] = uncovered(z[n - 1], words[n])
    BY <2>5, <2>12
  <2>14. \A n \in 0 .. K : z[n] \in S
    <3> HIDE DEF F
    <3>1. z[0] \in S /\ \A n \in 1 .. K : z[n - 1] \in S => z[n] \in S
      BY <2>3, <2>6, <2>13
    <3>. QED  BY <2>5, <3>1, Stays
  <2>15. K \in 0 .. K
    BY <2>5
  <2>16. z[K] \in S
    BY <2>14, <2>15
  <2>. QED  BY <1>1, <2>3, <2>16 DEF S
<1>. QED  BY <1>2, <1>3

(* Metadata *)
LEMMA FiniteElements ==
  ASSUME NEW n \in Nat, NEW S, NEW f \in [1 .. n -> S]
  PROVE  IsFiniteSet({f[i] : i \in 1 .. n})
<1> DEFINE T == {f[i] : i \in 1 .. n}
<1>1. f \in Surjection(1 .. n, T)
  <2>1. f \in [1 .. n -> T]
    OBVIOUS
  <2>2. \A t \in T : \E s \in 1 .. n : f[s] = t
    OBVIOUS
  <2> HIDE DEF T
  <2>. QED  BY <2>1, <2>2 DEF Surjection
<1>2. IsFiniteSet(1 .. n)
  BY FS_Interval
<1> HIDE DEF T
<1>3. IsFiniteSet(T)
  BY <1>1, <1>2, FS_Surjection
<1>. QED  BY <1>3 DEF T

LEMMA IdsUnion == \A x, y \in Ids : x \cup y \in Ids
  BY FS_Union DEF Ids

LEMMA NoIds == {} \in Ids
  BY FS_EmptySet DEF Ids

(* The ids there are, and 0 for a name that has none *)
IdsOf(c) == {c.policy.metas[i].id : i \in DOMAIN c.policy.metas} \cup {0}

LEMMA SubsetIds ==
  ASSUME NEW c \in Inputs, NEW md \in SUBSET IdsOf(c)
  PROVE  md \in Ids
<1> DEFINE metas == c.policy.metas
           n == Len(metas)
           f == [i \in 1 .. n |-> metas[i].id]
           T == {f[i] : i \in 1 .. n}
<1>1. n \in Nat /\ DOMAIN metas = 1 .. n /\ \A i \in DOMAIN metas : metas[i].id \in Nat
  <2>1. Sequence(metas) /\ \A i \in DOMAIN metas : metas[i].id \in Nat
    BY InputsAssumption
  <2>. QED  BY <2>1 DEF Sequence
<1>2. f \in [1 .. n -> Nat]
  BY <1>1
<1>3. IdsOf(c) = T \cup {0}
  BY <1>1 DEF IdsOf
<1>4. T \subseteq Nat
  BY <1>2
<1> HIDE DEF f, n, metas
<1>5. IsFiniteSet(T)
  BY <1>1, <1>2, FiniteElements
<1> HIDE DEF T
<1>6. IsFiniteSet(IdsOf(c)) /\ IdsOf(c) \subseteq Nat
  BY <1>3, <1>4, <1>5, FS_AddElement
<1>7. IsFiniteSet(md)
  BY <1>6, FS_Subset
<1>. QED  BY <1>6, <1>7 DEF Ids

LEMMA EncodingType ==
  ASSUME NEW c \in Inputs
  PROVE  \A name : encoding_map(c.policy, name) \in IdsOf(c)
<1> SUFFICES ASSUME NEW name PROVE encoding_map(c.policy, name) \in IdsOf(c)
  OBVIOUS
<1> DEFINE metas == c.policy.metas
           named == {i \in DOMAIN metas : metas[i].name = name}
<1>1. Len(metas) \in Nat /\ DOMAIN metas = 1 .. Len(metas)
  <2>1. Sequence(metas)
    BY InputsAssumption
  <2>. QED  BY <2>1 DEF Sequence
<1>2. encoding_map(c.policy, name) = IF named = {} THEN 0 ELSE metas[Max(named)].id
  BY DEF encoding_map
<1>3. ASSUME named # {} PROVE Max(named) \in DOMAIN metas
  <2> HIDE DEF metas
  <2>1. named \subseteq 0 .. Len(metas) /\ named \subseteq DOMAIN metas
    BY <1>1
  <2> HIDE DEF named
  <2>. QED  BY <1>1, <1>3, <2>1, GreatestNatural
<1> HIDE DEF named
<1>. QED  BY <1>2, <1>3 DEF IdsOf

LEMMA LookupType ==
  ASSUME NEW c \in Inputs
  PROVE  /\ \A path : lookup_metadata(c.policy, path) # null => lookup_metadata(c.policy, path)[1] \in Ids
         /\ \A group, inst : lookup_group_metadata(c.policy, group, inst) # null =>
              lookup_group_metadata(c.policy, group, inst)[1] \in Ids
<1>1. ASSUME NEW path, lookup_metadata(c.policy, path) # null
      PROVE  lookup_metadata(c.policy, path)[1] \in Ids
  <2> DEFINE md == {encoding_map(c.policy, name) : name \in entity_initializers(c.policy)[path]}
  <2>1. lookup_metadata(c.policy, path) = entry(md)
    BY <1>1 DEF lookup_metadata
  <2>2. md \in Ids
    BY EncodingType, SubsetIds
  <2> HIDE DEF md
  <2>. QED  BY <2>1, <2>2 DEF entry
<1>2. ASSUME NEW group, NEW inst, lookup_group_metadata(c.policy, group, inst) # null
      PROVE  lookup_group_metadata(c.policy, group, inst)[1] \in Ids
  <2> DEFINE items == c.policy.groups[group]
             rule == opgroup_rule(items)
             plain == {i \in DOMAIN items : items[i].rules = none}
             a == {encoding_map(c.policy, rule[1].meta)}
             b == {encoding_map(c.policy, items[i].meta) : i \in plain}
  <2>1. a \in Ids
    BY EncodingType, SubsetIds
  <2>2. b \in Ids
    BY EncodingType, SubsetIds
  <2>3. lookup_group_metadata(c.policy, group, inst) \in {null, entry(a), entry(b)}
    <3> HIDE DEF a, b, rule
    <3>. QED  BY DEF lookup_group_metadata, a, b, rule
  <2>4. entry(a)[1] = a /\ entry(b)[1] = b
    BY DEF entry
  <2>5. \A x \in {null, entry(a), entry(b)} : x # null => x[1] \in Ids
    <3> HIDE DEF a, b
    <3>. QED  BY <2>1, <2>2, <2>4
  <2> HIDE DEF a, b
  <2>. QED  BY <1>2, <2>3, <2>5
<1>. QED  BY <1>1, <1>2

LEMMA ApplyTagType ==
  ASSUME NEW c \in Inputs, NEW start \in Addr, NEW end \in Nat, NEW path
  PROVE  apply_tag(c.policy, start, end, path) \in Seq(TagRange)
<1> DEFINE md == lookup_metadata(c.policy, path)
<1>1. CASE md = null
  BY <1>1 DEF apply_tag
<1>2. CASE md # null
  <2>1. md[1] \in Ids
    BY <1>2, LookupType
  <2>2. apply_tag(c.policy, start, end, path) = <<Add(start, end, md[1])>>
    BY <1>2 DEF apply_tag
  <2> HIDE DEF md
  <2>3. Add(start, end, md[1]) \in TagRange
    BY <2>1 DEF Add, TagRange, Addr
  <2>. QED  BY <2>2, <2>3
<1>. QED  BY <1>1, <1>2

LEMMA ApplyTagsType ==
  ASSUME NEW c \in Inputs, NEW m \in Seq(Ranged)
  PROVE  apply_tags(c.policy, m) \in Seq(TagRange)
<1> DEFINE one(i, k) == apply_tag(c.policy, m[i].start, m[i].end, m[i].tags[k])
           row(i) == [k \in DOMAIN m[i].tags |-> one(i, k)]
           u == [i \in DOMAIN m |-> FlattenSeq(row(i))]
<1>1. Len(m) \in Nat /\ DOMAIN m = 1 .. Len(m)
  OBVIOUS
<1>2. apply_tags(c.policy, m) = FlattenSeq(u)
  BY DEF apply_tags
<1>3. ASSUME NEW i \in DOMAIN m PROVE FlattenSeq(row(i)) \in Seq(TagRange)
  <2>1. m[i] \in Ranged
    OBVIOUS
  <2>2. m[i].start \in Addr /\ m[i].end \in Nat /\ m[i].tags \in Seq(TagName)
    BY <2>1 DEF Ranged
  <2>3. \A k \in DOMAIN m[i].tags : one(i, k) \in Seq(TagRange)
    BY <2>2, ApplyTagType
  <2> HIDE DEF one
  <2>4. Len(m[i].tags) \in Nat /\ DOMAIN m[i].tags = 1 .. Len(m[i].tags)
    BY <2>2
  <2>5. row(i) \in [1 .. Len(m[i].tags) -> Seq(TagRange)]
    BY <2>3, <2>4
  <2> HIDE DEF row
  <2>. QED  BY <2>4, <2>5, Flatten
<1> HIDE DEF row
<1>4. u \in [1 .. Len(m) -> Seq(TagRange)]
  BY <1>1, <1>3
<1> HIDE DEF u
<1>. QED  BY <1>1, <1>2, <1>4, Flatten

LEMMA TagOpcodesType ==
  ASSUME NEW c \in Inputs, NEW section, section.address \in Nat, section.size \in Nat, NEW xlen
  PROVE  tag_opcodes(c.policy, section, xlen) \in Seq(TagRange)
<1> DEFINE S == Seq(TagRange)
           half(i) == IF i \in DOMAIN section.data THEN section.data[i] ELSE 0
           n == section.size \div 2
           m == n + 2
           address(i) == uint64(section.address + 2 * (i - 1))
           tagged(i, inst) ==
             LET md == IF IsValid(inst) THEN lookup_group_metadata(c.policy, inst.name, inst) ELSE null
             IN  IF md = null THEN <<>> ELSE <<Add(address(i), address(i + Step(inst)), md[1])>>
           inst(i) == decode(half(i + 1), half(i), xlen)
           F(y) == [i \in 1 .. m |-> IF i > n THEN <<>> ELSE tagged(i, inst(i)) \o y[i + Step(inst(i))]]
           z == CHOOSE y : y = F(y)
           G == [p \in (1 .. m) \X [1 .. m -> S] |->
                   IF p[1] > n THEN <<>> ELSE tagged(p[1], inst(p[1])) \o p[2][p[1] + Step(inst(p[1]))]]
<1>1. tag_opcodes(c.policy, section, xlen) = z[1]
  BY DEF tag_opcodes
<1>2. n \in Nat
  OBVIOUS
<1> HIDE DEF n, half
<1>3. ASSUME NEW i \in 1 .. m, NEW x PROVE tagged(i, x) \in S /\ i + Step(x) \in i + 1 .. i + 2
  <2>1. Step(x) \in {1, 2}
    BY DEF Step
  <2>2. address(i) \in Addr /\ address(i + Step(x)) \in Nat
    <3>1. section.address + 2 * (i - 1) \in Int /\ section.address + 2 * ((i + Step(x)) - 1) \in Int
      BY <1>2, <2>1
    <3>. QED  BY <3>1, Uint64Type
  <2> HIDE DEF address
  <2> DEFINE group == lookup_group_metadata(c.policy, x.name, x)
             md == IF IsValid(x) THEN group ELSE null
  <2>3. tagged(i, x) = IF md = null THEN <<>> ELSE <<Add(address(i), address(i + Step(x)), md[1])>>
    OBVIOUS
  <2>4. md # null => md[1] \in Ids
    <3>1. group # null => group[1] \in Ids
      BY LookupType
    <3> HIDE DEF group
    <3>. QED  BY <3>1
  <2> HIDE DEF md, tagged
  <2>5. md # null => Add(address(i), address(i + Step(x)), md[1]) \in TagRange
    BY <2>2, <2>4 DEF Add, TagRange, Addr
  <2>6. tagged(i, x) \in S
    BY <2>3, <2>5
  <2>. QED  BY <1>2, <2>1, <2>6
<1> HIDE DEF tagged, inst, address
<1> DEFINE next(i) == i + Step(inst(i))
           body(i, y) == IF i > n THEN <<>> ELSE tagged(i, inst(i)) \o y[next(i)]
<1>4. m \in Nat /\ \A i \in 1 .. m : i > n \/ next(i) \in i + 1 .. m
  <2>1. ASSUME NEW i \in 1 .. m, ~(i > n) PROVE next(i) \in i + 1 .. m
    <3>1. next(i) \in i + 1 .. i + 2
      BY <1>3
    <3> HIDE DEF next
    <3>. QED  BY <1>2, <2>1, <3>1
  <2>. QED  BY <1>2, <2>1
<1>5. G \in [(1 .. m) \X [1 .. m -> S] -> S]
  <2> SUFFICES ASSUME NEW p \in (1 .. m) \X [1 .. m -> S] PROVE body(p[1], p[2]) \in S
    OBVIOUS
  <2> DEFINE i == p[1]
             y == p[2]
  <2>1. i \in 1 .. m /\ y \in [1 .. m -> S]
    OBVIOUS
  <2> HIDE DEF i, y
  <2>2. body(i, y) \in S
    <3>1. CASE i > n
      BY <3>1
    <3>2. CASE ~(i > n)
      <4>1. next(i) \in 1 .. m
        BY <1>4, <2>1, <3>2
      <4> HIDE DEF next
      <4>2. y[next(i)] \in Seq(TagRange) /\ tagged(i, inst(i)) \in Seq(TagRange)
        BY <1>3, <2>1, <4>1
      <4>3. tagged(i, inst(i)) \o y[next(i)] \in Seq(TagRange)
        BY <4>2, Concat
      <4>. QED  BY <3>2, <4>3
    <3>. QED  BY <3>1, <3>2
  <2> HIDE DEF body, S
  <2>. QED  BY <2>2 DEF i, y
<1>6. \A i \in 1 .. m : \A y \in [1 .. m -> S] : G[<<i, y>>] = body(i, y)
  <2> HIDE DEF S
  <2>. QED  OBVIOUS
<1> HIDE DEF G
<1>7. \A i \in 1 .. m : \A f, g \in [1 .. m -> S] : (\A j \in i + 1 .. m : f[j] = g[j]) => G[<<i, f>>] = G[<<i, g>>]
  <2> SUFFICES ASSUME NEW i \in 1 .. m, NEW f \in [1 .. m -> S], NEW g \in [1 .. m -> S],
                      \A j \in i + 1 .. m : f[j] = g[j]
               PROVE  G[<<i, f>>] = G[<<i, g>>]
    OBVIOUS
  <2>1. body(i, f) = body(i, g)
    <3>1. CASE i > n
      BY <3>1
    <3>2. CASE ~(i > n)
      <4>1. next(i) \in i + 1 .. m
        BY <1>4, <3>2
      <4> HIDE DEF next
      <4>. QED  BY <4>1
    <3>. QED  BY <3>1, <3>2
  <2>2. G[<<i, f>>] = body(i, f) /\ G[<<i, g>>] = body(i, g)
    <3> HIDE DEF body, S
    <3>. QED  BY <1>6
  <2> HIDE DEF body
  <2>. QED  BY <2>1, <2>2
<1>8. S # {}
  <2>1. <<>> \in S
    OBVIOUS
  <2>. QED  BY <2>1
<1> HIDE DEF S, m
<1>9. PICK f : IterationDown(f, m, S, G)
  BY <1>4, <1>5, <1>7, <1>8, IteratesDown
<1>10. f = F(f)
  <2>1. f \in [1 .. m -> S] /\ \A i \in 1 .. m : f[i] = G[<<i, f>>]
    BY <1>9 DEF IterationDown
  <2>2. \A i \in 1 .. m : f[i] = body(i, f)
    <3> HIDE DEF body
    <3>. QED  BY <1>6, <2>1
  <2>. QED  BY <2>1, <2>2, Zenon
<1>11. z = F(z)
  <2> HIDE DEF F
  <2>. QED  BY <1>10
<1> HIDE DEF z
<1>12. \A i \in 1 .. m : z[i] = body(i, z)
  BY <1>11
<1> HIDE DEF F
<1>13. ASSUME NEW i \in 1 .. m, \A j \in i + 1 .. m : z[j] \in S PROVE z[i] \in S
  <2>1. CASE i > n
    <3>1. z[i] = <<>>
      BY <1>12, <2>1
    <3>. QED  BY <3>1 DEF S
  <2>2. CASE ~(i > n)
    <3>1. z[i] = tagged(i, inst(i)) \o z[next(i)]
      BY <1>12, <2>2
    <3>2. next(i) \in i + 1 .. m
      BY <1>4, <2>2
    <3> HIDE DEF next
    <3>3. z[next(i)] \in Seq(TagRange) /\ tagged(i, inst(i)) \in Seq(TagRange)
      BY <1>3, <1>13, <3>2 DEF S
    <3>4. tagged(i, inst(i)) \o z[next(i)] \in Seq(TagRange)
      BY <3>3, Concat
    <3>. QED  BY <3>1, <3>4 DEF S
  <2>. QED  BY <2>1, <2>2
<1>14. \A i \in 1 .. m : z[i] \in S
  <2> HIDE DEF body
  <2>. QED  BY <1>4, <1>13, StaysDown
<1>15. 1 \in 1 .. m
  BY <1>2 DEF m
<1>. QED  BY <1>1, <1>14, <1>15 DEF S

LEMMA OpcodeRangesType == input \in Inputs => OpcodeRanges \in Seq(TagRange)
<1> SUFFICES ASSUME input \in Inputs PROVE OpcodeRanges \in Seq(TagRange)
  OBVIOUS
<1> DEFINE secs == input.image.sections
           K == Len(secs)
           Sec == Range(secs)
           v == [i \in DOMAIN secs |-> Where("EXECINSTR" \in secs[i].flags, secs[i])]
           E == FlattenSeq(v)
           u == [i \in DOMAIN E |-> tag_opcodes(input.policy, E[i], 8 * word_bytes(image))]
<1>1. K \in Nat /\ DOMAIN secs = 1 .. K
  BY InputSections
<1>2. \A s \in Sec : s.address \in Nat /\ s.size \in Nat
  BY InputSections DEF Range
<1>3. OpcodeRanges = FlattenSeq(u)
  BY DEF OpcodeRanges, ExecSections, policy, image
<1>4. \A i \in DOMAIN secs : secs[i] \in Sec
  BY DEF Range
<1> HIDE DEF secs, Sec
<1>5. v \in [1 .. K -> Seq(Sec)]
  BY <1>1, <1>4, WhereType
<1> HIDE DEF v, K
<1>6. E \in Seq(Sec)
  BY <1>1, <1>5, Flatten
<1> HIDE DEF E
<1>7. Len(E) \in Nat /\ DOMAIN E = 1 .. Len(E) /\ \A i \in DOMAIN E : E[i] \in Sec
  BY <1>6
<1>8. \A i \in DOMAIN E : tag_opcodes(input.policy, E[i], 8 * word_bytes(image)) \in Seq(TagRange)
  BY <1>2, <1>7, TagOpcodesType
<1>9. u \in [1 .. Len(E) -> Seq(TagRange)]
  BY <1>7, <1>8
<1> HIDE DEF u
<1>. QED  BY <1>3, <1>7, <1>9, Flatten

(* What the symbol table knows of a symbol *)
Located(y) == y.address \in Addr /\ y.size \in Nat

LEMMA FindType ==
  ASSUME NEW c \in Inputs
  PROVE  \A name, needs, optional :
           LET s == find_symbol(symtab(c.image), name, needs, optional)
           IN  s # <<>> => Located(s[1])
<1> DEFINE syms == c.image.symbols
           K == Len(syms)
           symbol(y) == [name |-> y.name, size |-> y.size, address |-> y.value - (y.value % 2)]
           v == [i \in DOMAIN syms |-> Where(syms[i].shndx \notin {"UNDEF", "ABS"}, symbol(syms[i]))]
           table == symtab(c.image)
           Syms == {symbol(syms[i]) : i \in DOMAIN syms}
<1>1. Sequence(syms) /\ \A i \in DOMAIN syms : syms[i].value \in Addr /\ syms[i].size \in Nat
  BY InputsAssumption DEF Addr
<1>2. K \in Nat /\ DOMAIN syms = 1 .. K
  BY <1>1 DEF Sequence
<1>3. table = FlattenSeq(v)
  BY DEF symtab
<1> HIDE DEF syms
<1>4. \A y \in Syms : Located(y)
  <2> SUFFICES ASSUME NEW i \in DOMAIN syms PROVE Located(symbol(syms[i]))
    OBVIOUS
  <2> DEFINE x == syms[i].value
  <2>1. x \in Addr /\ x \in Nat /\ x < AddrSpace
    BY <1>1, AddrNat, AddrSpaceAssumption DEF Addr
  <2>2. symbol(syms[i]).address = x - (x % 2) /\ symbol(syms[i]).size = syms[i].size
    OBVIOUS
  <2> HIDE DEF x
  <2>3. x - (x % 2) \in Nat /\ x - (x % 2) <= x
    BY <2>1
  <2>4. x - (x % 2) \in Addr
    BY <2>1, <2>3, AddrSpaceAssumption DEF Addr
  <2>. QED  BY <1>1, <2>2, <2>4 DEF Located
<1>5. \A i \in DOMAIN syms : symbol(syms[i]) \in Syms
  OBVIOUS
<1> HIDE DEF Syms, symbol
<1>6. v \in [1 .. K -> Seq(Syms)]
  BY <1>2, <1>5, WhereType
<1> HIDE DEF v, K
<1>7. table \in Seq(Syms)
  BY <1>2, <1>3, <1>6, Flatten
<1> HIDE DEF table
<1> SUFFICES ASSUME NEW name, NEW needs, NEW optional,
                    find_symbol(table, name, needs, optional) # <<>>
             PROVE  Located(find_symbol(table, name, needs, optional)[1])
  BY DEF table
<1> DEFINE named == {i \in DOMAIN table : table[i].name = name}
           j == Max(named)
<1>8. find_symbol(table, name, needs, optional) = find(table, name) /\ find(table, name) # <<>>
  BY DEF find_symbol
<1>9. named # {} /\ find(table, name) = <<table[j]>>
  BY <1>8 DEF find
<1>10. Len(table) \in Nat /\ named \subseteq 0 .. Len(table) /\ named \subseteq DOMAIN table
  BY <1>7
<1>11. j \in DOMAIN table
  <2> HIDE DEF named
  <2>. QED  BY <1>9, <1>10, GreatestNatural
<1> HIDE DEF j, named
<1>12. table[j] \in Syms
  BY <1>7, <1>11
<1>. QED  BY <1>4, <1>8, <1>9, <1>12

LEMMA TagEntitiesType ==
  ASSUME NEW c \in Inputs
  PROVE  tag_entities(c.policy, c.image, c.entities) \in Seq(TagRange)
<1> DEFINE symbols == symtab(c.image)
           nodes == c.entities
           symbol(n, s) ==
             IF s = <<>> THEN <<>>
             ELSE apply_tag(c.policy, s[1].address,
                    uint64(s[1].address + (IF is_singularity(n) THEN word_bytes(c.image) ELSE s[1].size)), n.name)
           range(n, s, e) ==
             IF s = <<>> \/ e = <<>> THEN <<>> ELSE apply_tag(c.policy, s[1].address, e[1].address, n.name)
           named(n) == find_symbol(symbols, n.elf_name, ~is_singularity(n), Flag(n, "optional"))
           from(n) == find_symbol(symbols, n.elf_start, FALSE, FALSE)
           to(n) == find_symbol(symbols, n.elf_end, FALSE, FALSE)
           bound(n) == CASE n.kind = "symbol" -> symbol(n, named(n))
                         [] n.kind = "range" -> range(n, from(n), to(n))
                         [] OTHER -> <<>>
           v == [f \in DOMAIN nodes |-> load_bindings(nodes[f])]
           bindings == FlattenSeq(v)
           u == [i \in DOMAIN bindings |-> bound(bindings[i])]
           Node == UNION {Range(nodes[f]) : f \in DOMAIN nodes}
<1>1. tag_entities(c.policy, c.image, c.entities) = FlattenSeq(u)
  BY DEF tag_entities
<1>2. \A n : named(n) # <<>> => Located(named(n)[1])
  BY FindType
<1>3. \A n : (from(n) # <<>> => Located(from(n)[1])) /\ (to(n) # <<>> => Located(to(n)[1]))
  BY FindType
<1> HIDE DEF named, from, to
<1>4. ASSUME NEW n, NEW s, s # <<>> => Located(s[1]) PROVE symbol(n, s) \in Seq(TagRange)
  <2>1. CASE s = <<>>
    BY <2>1
  <2>2. CASE s # <<>>
    <3> DEFINE a == s[1].address
               k == IF is_singularity(n) THEN word_bytes(c.image) ELSE s[1].size
    <3>1. a \in Addr /\ a \in Nat /\ k \in Nat
      BY <1>4, <2>2, AddrNat DEF Located, word_bytes
    <3>2. symbol(n, s) = apply_tag(c.policy, a, uint64(a + k), n.name)
      BY <2>2
    <3> HIDE DEF a, k
    <3>3. a + k \in Int
      BY <3>1
    <3>4. uint64(a + k) \in Nat
      BY <3>3, Uint64Type
    <3>5. apply_tag(c.policy, a, uint64(a + k), n.name) \in Seq(TagRange)
      BY <3>1, <3>4, ApplyTagType
    <3>. QED  BY <3>2, <3>5
  <2>. QED  BY <2>1, <2>2
<1>5. ASSUME NEW n, NEW s, NEW e, s # <<>> => Located(s[1]), e # <<>> => Located(e[1])
      PROVE  range(n, s, e) \in Seq(TagRange)
  <2>1. CASE s = <<>> \/ e = <<>>
    BY <2>1
  <2>2. CASE ~(s = <<>> \/ e = <<>>)
    <3>1. s[1].address \in Addr /\ e[1].address \in Nat
      BY <1>5, <2>2, AddrNat DEF Located
    <3>2. apply_tag(c.policy, s[1].address, e[1].address, n.name) \in Seq(TagRange)
      BY <3>1, ApplyTagType
    <3>. QED  BY <2>2, <3>2
  <2>. QED  BY <2>1, <2>2
<1>6. \A n : bound(n) \in Seq(TagRange)
  <2> SUFFICES ASSUME NEW n PROVE bound(n) \in Seq(TagRange)
    OBVIOUS
  <2>1. symbol(n, named(n)) \in Seq(TagRange)
    BY <1>2, <1>4
  <2>2. range(n, from(n), to(n)) \in Seq(TagRange)
    BY <1>3, <1>5
  <2>3. <<>> \in Seq(TagRange)
    OBVIOUS
  <2> HIDE DEF symbol, range
  <2>. QED  BY <2>1, <2>2, <2>3
<1> HIDE DEF bound
<1>7. Len(nodes) \in Nat /\ DOMAIN nodes = 1 .. Len(nodes) /\ \A f \in DOMAIN nodes : nodes[f] \in Seq(Range(nodes[f]))
  <2>1. Sequence(nodes) /\ \A f \in DOMAIN nodes : Sequence(nodes[f])
    BY InputsAssumption
  <2>. QED  BY <2>1 DEF Sequence, Range
<1> HIDE DEF nodes
<1>8. ASSUME NEW f \in DOMAIN nodes PROVE load_bindings(nodes[f]) \in Seq(Node)
  <2> DEFINE s == nodes[f]
             T == {i \in DOMAIN s : Malformed(s[i])} \cup {Len(s) + 1}
             k == Min(T)
  <2>1. s \in Seq(Range(s)) /\ Range(s) \subseteq Node
    BY <1>7
  <2>2. s \in Seq(Node)
    BY <2>1
  <2> HIDE DEF s
  <2>3. Len(s) \in Nat /\ T \subseteq Nat /\ T # {} /\ T \subseteq 1 .. Len(s) + 1
    BY <2>2
  <2>4. load_bindings(s) = SubSeq(s, 1, k - 1)
    BY DEF load_bindings
  <2>5. k \in 1 .. Len(s) + 1
    <3> HIDE DEF T
    <3>. QED  BY <2>3, LeastNatural
  <2> HIDE DEF k
  <2>6. load_bindings(s) \in Seq(Node)
    BY <2>2, <2>3, <2>4, <2>5
  <2>. QED  BY <2>6 DEF s
<1> HIDE DEF Node
<1>9. v \in [1 .. Len(nodes) -> Seq(Node)]
  BY <1>7, <1>8
<1> HIDE DEF v
<1>10. bindings \in Seq(Node)
  BY <1>7, <1>9, Flatten
<1> HIDE DEF bindings
<1>11. Len(bindings) \in Nat /\ DOMAIN bindings = 1 .. Len(bindings)
  BY <1>10
<1>12. u \in [1 .. Len(bindings) -> Seq(TagRange)]
  BY <1>6, <1>11
<1> HIDE DEF u
<1>. QED  BY <1>1, <1>11, <1>12, Flatten

(* The ranges found so far, and with them those of every stage *)
RangeInv == input \in Inputs /\ range_map \in Seq(Ranged)

LEMMA RangeInvTyped == RangeInv => RangesTyped
<1> SUFFICES ASSUME RangeInv PROVE StageRanges \in Seq(TagRange)
  BY DEF RangesTyped
<1>1. input \in Inputs /\ range_map \in Seq(Ranged)
  BY DEF RangeInv
<1>2. apply_tags(policy, range_map) \in Seq(TagRange)
  BY <1>1, ApplyTagsType DEF policy
<1>3. OpcodeRanges \in Seq(TagRange)
  BY <1>1, OpcodeRangesType
<1>4. tag_entities(policy, image, input.entities) \in Seq(TagRange)
  BY <1>1, TagEntitiesType DEF policy, image
<1>5. <<>> \in Seq(TagRange)
  OBVIOUS
<1>6. StageRanges \in {apply_tags(policy, range_map), OpcodeRanges,
                       tag_entities(policy, image, input.entities), <<>>}
  BY DEF StageRanges
<1>. QED  BY <1>2, <1>3, <1>4, <1>5, <1>6

LEMMA RangeInvStep == RangeInv /\ [TaggingNext]_all => RangeInv'
<1> SUFFICES ASSUME RangeInv, [TaggingNext]_all PROVE RangeInv'
  OBVIOUS
<1>0. input \in Inputs /\ range_map \in Seq(Ranged)
  BY DEF RangeInv
<1>1. CASE UNCHANGED <<input, range_map>>
  BY <1>1 DEF RangeInv
<1>2. CASE Start
  <2>1. <<>> \in Seq(Ranged)
    OBVIOUS
  <2>. QED  BY <1>0, <1>2, <2>1 DEF Start, RangeInv
<1>3. CASE AddRwxRanges
  <2>1. add_rwx_ranges(range_map, image) \in Seq(Ranged)
    BY <1>0, AddRwxType DEF image
  <2>. QED  BY <1>0, <1>3, <2>1 DEF AddRwxRanges, Ranges, RangeInv
<1>4. CASE GeneratePolicyRanges
  <2> DEFINE g == generate_policy_ranges(image, DOMAIN policy.require)
  <2>1. g.ranges \in Seq(Ranged)
    BY <1>0, PolicyRangesType DEF image
  <2> HIDE DEF g
  <2>2. AddTagged(range_map, g.ranges) \in Seq(Ranged)
    BY <1>0, <2>1, AddTaggedType
  <2>3. range_map' \in {range_map, AddTagged(range_map, g.ranges)} /\ UNCHANGED input
    BY <1>4 DEF GeneratePolicyRanges, Ranges, g
  <2>. QED  BY <1>0, <2>2, <2>3 DEF RangeInv
<1>5. CASE AddSocRanges
  <2> DEFINE required == {p \in DOMAIN policy.require : Head(p) = "SOC"}
             more == add_soc_ranges(range_map, input.soc, NameOrder, required)
  <2>1. more \in Seq(Ranged)
    <3> HIDE DEF required
    <3>. QED  BY <1>0, AddSocType
  <2>2. range_map' \in {range_map, more} /\ UNCHANGED input
    BY <1>5 DEF AddSocRanges, Ranges
  <2> HIDE DEF more
  <2>. QED  BY <1>0, <2>1, <2>2 DEF RangeInv
<1>6. ASSUME NEW copied, AddTagArray(copied) PROVE RangeInv'
  <2>1. PICK start : /\ range_map' = IF start \in 1 .. IntMax THEN AddTagged(range_map, TagArrayRanges(start))
                                     ELSE range_map
                     /\ UNCHANGED input
    BY <1>6 DEF AddTagArray
  <2>2. CASE start \in 1 .. IntMax
    <3>1. start \in Int
      BY <2>2
    <3>2. TagArrayRanges(start) \in Seq(Ranged)
      BY <1>0, <3>1, TagArrayType
    <3>. QED  BY <1>0, <2>1, <2>2, <3>2, AddTaggedType DEF RangeInv
  <2>3. CASE start \notin 1 .. IntMax
    BY <1>0, <2>1, <2>3 DEF RangeInv
  <2>. QED  BY <2>2, <2>3
<1>7. \/ UNCHANGED <<input, range_map>> \/ Start \/ AddRwxRanges \/ GeneratePolicyRanges \/ AddSocRanges
      \/ \E copied : AddTagArray(copied)
  <2>1. CASE UNCHANGED all
    BY <2>1 DEF all, vars
  <2>2. CASE Host
    BY <2>2 DEF Host
  <2>3. CASE Tool
    <3>1. ApplyTags \/ TagOpcodes \/ TagEntities => UNCHANGED <<input, range_map>>
      BY DEF ApplyTags, TagOpcodes, TagEntities, Tagged
    <3>2. WriteBytes \/ RunAgain => UNCHANGED <<input, range_map>>
      BY DEF WriteBytes, RunAgain
    <3>3. \A works : EmbedTags(works) \/ Annotate(works) \/ OpenTagFile(works) => UNCHANGED <<input, range_map>>
      BY DEF EmbedTags, Annotate, OpenTagFile
    <3>. QED  BY <2>3, <3>1, <3>2, <3>3 DEF Tool, ToolNext
  <2>. QED  BY <2>1, <2>2, <2>3 DEF TaggingNext
<1>. QED  BY <1>1, <1>2, <1>3, <1>4, <1>5, <1>6, <1>7

LEMMA RangeInvariant == TaggingSpec => []RangeInv
<1>1. TaggingInit => RangeInv
  <2>1. <<>> \in Seq(Ranged)
    OBVIOUS
  <2>. QED  BY <2>1 DEF TaggingInit, Init, RangeInv
<1>2. RangeInv /\ [TaggingNext]_all => RangeInv'
  BY RangeInvStep
<1>. QED  BY <1>1, <1>2, PTL DEF TaggingSpec

(* Whatever the program, the policy and the SOC, every range a tagger asks *)
(* for starts at an address and has ids for metadata.                      *)
THEOREM TaggingRangesTyped == TaggingSpec => []RangesTyped
  BY RangeInvariant, RangeInvTyped, PTL

-----------------------------------------------------------------------------
(* Entries and regions *)

Entry == {null} \cup {entry(md) : md \in Ids}
Region == [start : Nat, end : Nat, mem : Seq(Entry)]

LEMMA Entries ==
  /\ null \in Entry /\ TagsOf(null) = {}
  /\ \A md \in Ids : entry(md) \in Entry /\ TagsOf(entry(md)) = md
  /\ \A e \in Entry : TagsOf(e) \in Ids
<1>1. \A md : entry(md) # null /\ TagsOf(entry(md)) = md
  BY DEF entry, null, TagsOf
<1>2. TagsOf(null) = {}
  BY DEF TagsOf
<1>. QED  BY <1>1, <1>2, NoIds DEF Entry

(* Shift and Grown: the entries a range pushes in before the old ones, and *)
(* the index its last word gets.                                           *)
NewStart(r, start) == IF r.start = r.end \/ start < r.start THEN start ELSE r.start
Shift(r, start) == IF r.start # r.end /\ start < r.start THEN (r.start - start) \div 4 ELSE 0
First(r, start) == (start - NewStart(r, start)) \div 4
Past(r, start, end) == (end - NewStart(r, start)) \div 4

LEMMA RegionNumbers ==
  ASSUME NEW r \in Region, NEW start \in Nat, NEW end \in Nat, start < end
  PROVE  /\ NewStart(r, start) \in Nat /\ Shift(r, start) \in Nat
         /\ First(r, start) \in Nat /\ Past(r, start, end) \in Nat
         /\ NewStart(r, start) <= start
<1>1. r.start \in Nat /\ r.end \in Nat
  BY DEF Region
<1>2. NewStart(r, start) \in Nat /\ NewStart(r, start) <= start
  BY <1>1 DEF NewStart
<1>3. Shift(r, start) \in Nat
  BY <1>1 DEF Shift
<1>. QED  BY <1>2, <1>3 DEF First, Past

(* What mem_region_t::add_range makes of a region, word by word *)
IsAdded(q, r, start, end, md) ==
  LET k == Shift(r, start)
      e == Past(r, start, end)
      n == k + Len(r.mem)
  IN  /\ q \in Region
      /\ q.start = NewStart(r, start)
      /\ Len(q.mem) = IF e > n THEN e ELSE n
      /\ q.end = IF e > n THEN q.start + e * 4 ELSE r.end
      /\ \A i \in 1 .. Len(q.mem) :
           TagsOf(q.mem[i]) = (IF i \in k + 1 .. n THEN TagsOf(r.mem[i - k]) ELSE {})
                                \cup (IF i \in First(r, start) + 1 .. e THEN md ELSE {})

LEMMA RegionAdded ==
  ASSUME NEW r \in Region, NEW start \in Nat, NEW end \in Nat, start < end, NEW md \in Ids
  PROVE  IsAdded(RegionAdd(r, start, end, md), r, start, end, md)
<1> DEFINE b == NewStart(r, start)
           k == Shift(r, start)
           s == First(r, start)
           e == Past(r, start, end)
           n == k + Len(r.mem)
           old == nulls(k) \o r.mem
           mem == IF e > n THEN old \o nulls(e - n) ELSE old
           new == [i \in DOMAIN mem |-> IF i \in s + 1 .. e THEN entry(md \cup TagsOf(mem[i])) ELSE mem[i]]
           q == RegionAdd(r, start, end, md)
<1>1. b \in Nat /\ k \in Nat /\ s \in Nat /\ e \in Nat
  BY RegionNumbers
<1>2. r.mem \in Seq(Entry) /\ Len(r.mem) \in Nat /\ r.start \in Nat /\ r.end \in Nat
  BY DEF Region
<1>3. \A m \in Nat : nulls(m) \in Seq(Entry) /\ Len(nulls(m)) = m /\ \A i \in 1 .. m : nulls(m)[i] = null
  BY Entries DEF nulls
<1>4. /\ old \in Seq(Entry) /\ Len(old) = n
      /\ \A i \in 1 .. n : old[i] = IF i \in k + 1 .. n THEN r.mem[i - k] ELSE null
  <2> HIDE DEF k
  <2> DEFINE u == nulls(k)
  <2>1. u \in Seq(Entry) /\ Len(u) = k /\ \A i \in 1 .. k : u[i] = null
    BY <1>1, <1>3
  <2> HIDE DEF u
  <2>2. /\ u \o r.mem \in Seq(Entry) /\ Len(u \o r.mem) = Len(u) + Len(r.mem)
        /\ \A i \in 1 .. Len(u) : (u \o r.mem)[i] = u[i]
        /\ \A i \in Len(u) + 1 .. Len(u) + Len(r.mem) : (u \o r.mem)[i] = r.mem[i - Len(u)]
    BY <1>2, <2>1, Concat
  <2>3. old = u \o r.mem
    BY Zenon DEF u
  <2> HIDE DEF old
  <2>4. old \in Seq(Entry) /\ Len(old) = n
    BY <2>1, <2>2, <2>3
  <2>5. ASSUME NEW i \in 1 .. n PROVE old[i] = IF i \in k + 1 .. n THEN r.mem[i - k] ELSE null
    <3>1. i \in 1 .. k => old[i] = null
      BY <2>1, <2>2, <2>3
    <3>2. i \in k + 1 .. n => old[i] = r.mem[i - k]
      BY <2>1, <2>2, <2>3
    <3>3. i \in 1 .. k \/ i \in k + 1 .. n
      BY <1>1, <1>2
    <3>4. i \in 1 .. k => i \notin k + 1 .. n
      BY <1>1, <1>2
    <3>. QED  BY <3>1, <3>2, <3>3, <3>4
  <2>. QED  BY <2>4, <2>5
<1>5. q = [start |-> b, end |-> IF e > n THEN b + e * 4 ELSE r.end, mem |-> new]
  <2>1. (IF ~(r.start = r.end) /\ start < r.start THEN nulls((r.start - start) \div stride) ELSE <<>>) = nulls(k)
    <3>1. nulls(0) = <<>>
      BY <1>3
    <3>. QED  BY <3>1 DEF Shift, stride
  <2>. QED  BY <1>4, <2>1, Zenon DEF RegionAdd, NewStart, First, Past, stride
<1> DEFINE N == IF e > n THEN e ELSE n
<1>6. /\ mem \in Seq(Entry) /\ Len(mem) = N
      /\ \A i \in 1 .. N : mem[i] = IF i \in k + 1 .. n THEN r.mem[i - k] ELSE null
  <2> HIDE DEF old, k, e, n
  <2>1. n \in Nat /\ k <= n
    BY <1>1, <1>2 DEF n
  <2>2. CASE e > n
    <3> DEFINE d == e - n
               v == nulls(d)
    <3>0. d \in Nat
      BY <1>1, <2>1, <2>2
    <3> HIDE DEF d
    <3>1. v \in Seq(Entry) /\ Len(v) = d /\ \A i \in 1 .. d : v[i] = null
      BY <1>3, <3>0
    <3> HIDE DEF v
    <3>2. /\ old \o v \in Seq(Entry) /\ Len(old \o v) = Len(old) + Len(v)
          /\ \A i \in 1 .. Len(old) : (old \o v)[i] = old[i]
          /\ \A i \in Len(old) + 1 .. Len(old) + Len(v) : (old \o v)[i] = v[i - Len(old)]
      BY <1>4, <3>1, Concat
    <3>3. mem = old \o v
      BY <2>2 DEF v, d
    <3>4. N = e /\ n + d = e /\ n \in Nat /\ e \in Nat
      BY <1>1, <2>1, <2>2 DEF d
    <3> HIDE DEF mem
    <3>5. mem \in Seq(Entry) /\ Len(mem) = e /\ \A i \in 1 .. n : mem[i] = old[i]
      BY <1>4, <3>1, <3>2, <3>3, <3>4
    <3>6. ASSUME NEW i \in n + 1 .. e PROVE mem[i] = null
      <4>1. i \in Len(old) + 1 .. Len(old) + Len(v) /\ i - Len(old) \in 1 .. d
        BY <1>4, <3>0, <3>1, <3>4
      <4>. QED  BY <3>1, <3>2, <3>3, <4>1
    <3>. QED  BY <1>1, <1>4, <2>1, <3>4, <3>5, <3>6
  <2>3. CASE ~(e > n)
    BY <1>1, <1>4, <2>1, <2>3
  <2>. QED  BY <2>2, <2>3
<1> HIDE DEF mem, old, k, e, s, b, n
<1>7. \A i \in 1 .. N : mem[i] \in Entry
  BY <1>6
<1>8. /\ new \in Seq(Entry) /\ Len(new) = N
      /\ \A i \in 1 .. N : TagsOf(new[i]) = TagsOf(mem[i]) \cup (IF i \in s + 1 .. e THEN md ELSE {})
  <2>1. N \in Nat /\ DOMAIN mem = 1 .. N
    BY <1>1, <1>2, <1>6 DEF n
  <2>2. \A i \in 1 .. N : md \cup TagsOf(mem[i]) \in Ids
    BY <1>7, Entries, IdsUnion
  <2>3. \A i \in 1 .. N : entry(md \cup TagsOf(mem[i])) \in Entry
                          /\ TagsOf(entry(md \cup TagsOf(mem[i]))) = md \cup TagsOf(mem[i])
    BY <2>2, Entries
  <2>4. \A i \in 1 .. N : new[i] \in Entry
    BY <2>1, <2>3, <1>7
  <2>5. \A i \in 1 .. N : new[i] = IF i \in s + 1 .. e THEN entry(md \cup TagsOf(mem[i])) ELSE mem[i]
    BY <2>1
  <2>6. DOMAIN new = 1 .. N
    BY <2>1
  <2>7. new \in [1 .. N -> Entry]
    BY <2>4, <2>6
  <2> HIDE DEF new, N
  <2>8. ASSUME NEW i \in 1 .. N
        PROVE  TagsOf(new[i]) = TagsOf(mem[i]) \cup (IF i \in s + 1 .. e THEN md ELSE {})
    <3>1. CASE i \in s + 1 .. e
      BY <2>3, <2>5, <3>1
    <3>2. CASE ~(i \in s + 1 .. e)
      BY <2>5, <3>2
    <3>. QED  BY <3>1, <3>2
  <2>9. new \in Seq(Entry) /\ Len(new) = N
    BY <2>1, <2>7, IsSequence
  <2>. QED  BY <2>8, <2>9
<1>9. \A i \in 1 .. N : TagsOf(mem[i]) = IF i \in k + 1 .. n THEN TagsOf(r.mem[i - k]) ELSE {}
  BY <1>6, Entries
<1> HIDE DEF new
<1>10. q \in Region
  BY <1>1, <1>2, <1>5, <1>8 DEF Region
<1>11. q.start = b /\ q.end = (IF e > n THEN b + e * 4 ELSE r.end) /\ q.mem = new
  BY <1>5
<1> HIDE DEF q
<1>12. /\ q \in Region /\ q.start = b /\ Len(q.mem) = N
       /\ q.end = IF e > n THEN q.start + e * 4 ELSE r.end
       /\ \A i \in 1 .. Len(q.mem) :
            TagsOf(q.mem[i]) = (IF i \in k + 1 .. n THEN TagsOf(r.mem[i - k]) ELSE {})
                                 \cup (IF i \in s + 1 .. e THEN md ELSE {})
  BY <1>8, <1>9, <1>10, <1>11
<1>13. IsAdded(q, r, start, end, md)
  BY <1>12, Zenon DEF IsAdded, b, k, e, n, s
<1>. QED  BY <1>13 DEF q

(* A region made of whole words: its entries fill it, or it has none (and  *)
(* is not the one at 4 that would swallow the word at 0).                  *)
Whole(r) == /\ r.start % 4 = 0 /\ r.start < AddrSpace
            /\ \/ Len(r.mem) # 0 /\ r.end = r.start + 4 * Len(r.mem)
               \/ Len(r.mem) = 0 /\ r.end = 0 /\ r.start # 4

(* The tags of a word in a region *)
HeldIn(r, a) == IF contains(r, a) /\ Index(r, a) <= Len(r.mem) THEN TagsOf(r.mem[Index(r, a)]) ELSE {}

(* The tags a range gives a word *)
Given(start, end, md, a) == IF start <= a /\ a + 4 <= end THEN md ELSE {}

LEMMA SmallModulo ==
  ASSUME NEW A \in Nat, NEW x \in Nat, x < A
  PROVE  x % A = x
  OBVIOUS

(* A range meets a region of whole words without a gap after it, and never *)
(* one without entries.                                                    *)
LEMMA NearEnough ==
  ASSUME NEW r \in Region, Whole(r), NEW start \in Nat, NEW end \in Nat, start < end, start % 4 = 0,
         adjacent(r, start) \/ adjacent(r, end)
  PROVE  \/ r.start = r.end
         \/ Len(r.mem) # 0 /\ start <= r.end
<1>1. r.start \in Nat /\ r.end \in Nat /\ Len(r.mem) \in Nat
  BY DEF Region
<1>2. AddrSpace \in Nat
  BY AddrSpaceAssumption
<1>3. start < r.end + 4
  BY <1>1 DEF adjacent, stride
<1>4. CASE Len(r.mem) # 0
  <2>1. r.end % 4 = 0
    BY <1>1, <1>4 DEF Whole
  <2>. QED  BY <1>1, <1>3, <1>4, <2>1
<1>5. CASE Len(r.mem) = 0 /\ r.start # r.end
  <2>1. r.end = 0 /\ r.start >= 8 /\ r.start < AddrSpace
    BY <1>1, <1>5 DEF Whole
  <2>2. (r.start - 4) % AddrSpace = r.start - 4
    <3> DEFINE x == r.start - 4
    <3>1. x \in Nat /\ x < AddrSpace
      BY <1>1, <1>2, <2>1
    <3> HIDE DEF x
    <3>2. x % AddrSpace = x
      BY <1>2, <3>1, SmallModulo
    <3>. QED  BY <3>2 DEF x
  <2>3. ~adjacent(r, start) /\ ~adjacent(r, end)
    BY <1>1, <2>1, <2>2 DEF adjacent, stride, uint64
  <2>. QED  BY <2>3
<1>. QED  BY <1>4, <1>5

(* How far apart two numbers are, in words *)
LEMMA WordsBetween ==
  ASSUME NEW x \in Nat, NEW y \in Nat, x <= y
  PROVE  /\ (y - x) \div 4 \in Nat
         /\ x + 4 * ((y - x) \div 4) <= y /\ y < x + 4 * ((y - x) \div 4) + 4
         /\ x % 4 = 0 /\ y % 4 = 0 => y = x + 4 * ((y - x) \div 4)
<1> DEFINE q == (y - x) \div 4
<1>1. q \in Nat /\ x + 4 * q <= y /\ y < x + 4 * q + 4
  OBVIOUS
<1>2. ASSUME x % 4 = 0, y % 4 = 0 PROVE y = x + 4 * q
  <2> HIDE DEF q
  <2>. QED  BY <1>1, <1>2
<1>. QED  BY <1>1, <1>2

(* The numbers of RegionAdded when region and range start at words *)
LEMMA WholeNumbers ==
  ASSUME NEW r \in Region, Whole(r), NEW start \in Nat, NEW end \in Nat, start < end, start % 4 = 0,
         r.start = r.end \/ (Len(r.mem) # 0 /\ start <= r.end)
  PROVE  LET b == NewStart(r, start)
             k == Shift(r, start)
             n == k + Len(r.mem)
         IN  /\ b % 4 = 0
             /\ start = b + 4 * First(r, start)
             /\ b + 4 * Past(r, start, end) <= end /\ end < b + 4 * Past(r, start, end) + 4
             /\ First(r, start) <= Past(r, start, end)
             /\ First(r, start) <= n
             /\ Len(r.mem) = 0 => k = 0 /\ b = start
             /\ Len(r.mem) # 0 => r.start = b + 4 * k /\ r.end = b + 4 * n
<1>1. r.start \in Nat /\ r.end \in Nat /\ Len(r.mem) \in Nat /\ r.start % 4 = 0
  BY DEF Region, Whole
<1>2. CASE Len(r.mem) = 0
  BY <1>1, <1>2 DEF Whole, NewStart, Shift, First, Past
<1>3. CASE Len(r.mem) # 0 /\ start < r.start
  <2>1. r.end = r.start + 4 * Len(r.mem) /\ r.start # r.end
    BY <1>1, <1>3 DEF Whole
  <2>2. NewStart(r, start) = start
    BY <1>3 DEF NewStart
  <2>3. Shift(r, start) = (r.start - start) \div 4
    BY <1>3, <2>1 DEF Shift
  <2>4. First(r, start) = 0
    BY <2>2 DEF First
  <2>5. Past(r, start, end) = (end - start) \div 4
    BY <2>2 DEF Past
  <2>6. (r.start - start) \div 4 \in Nat /\ r.start = start + 4 * ((r.start - start) \div 4)
    <3>1. start <= r.start /\ r.start \in Nat /\ start % 4 = 0 /\ r.start % 4 = 0
      BY <1>1, <1>3
    <3>. QED  BY <3>1, WordsBetween, Zenon
  <2>7. (end - start) \div 4 \in Nat /\ start + 4 * ((end - start) \div 4) <= end
          /\ end < start + 4 * ((end - start) \div 4) + 4
    BY WordsBetween
  <2> DEFINE x == (r.start - start) \div 4  y == (end - start) \div 4
  <2>8. x \in Nat /\ r.start = start + 4 * x /\ y \in Nat /\ start + 4 * y <= end /\ end < start + 4 * y + 4
        /\ Shift(r, start) = x /\ Past(r, start, end) = y
    BY <2>3, <2>5, <2>6, <2>7
  <2> HIDE DEF x, y
  <2>9. r.end = start + 4 * (x + Len(r.mem))
    <3> DEFINE l == Len(r.mem)  b == r.start  e == r.end
    <3>1. b \in Nat /\ l \in Nat /\ x \in Nat /\ b = start + 4 * x /\ e = b + 4 * l
      BY <1>1, <2>1, <2>8
    <3> HIDE DEF l, b, e
    <3>2. e = start + 4 * (x + l)
      BY <3>1
    <3>. QED  BY <3>2 DEF l, e
  <2>10. 0 <= y /\ 0 <= x + Len(r.mem) /\ start = start + 4 * 0
    BY <1>1, <2>8
  <2>. QED  BY <1>3, <2>2, <2>4, <2>8, <2>9, <2>10
<1>4. CASE Len(r.mem) # 0 /\ ~(start < r.start)
  <2>1. r.end = r.start + 4 * Len(r.mem) /\ r.start # r.end
    BY <1>1, <1>4 DEF Whole
  <2>2. NewStart(r, start) = r.start
    BY <1>4, <2>1 DEF NewStart
  <2>3. Shift(r, start) = 0
    BY <1>4 DEF Shift
  <2>4. First(r, start) = (start - r.start) \div 4
    BY <2>2 DEF First
  <2>5. Past(r, start, end) = (end - r.start) \div 4
    BY <2>2 DEF Past
  <2>6. (start - r.start) \div 4 \in Nat /\ start = r.start + 4 * ((start - r.start) \div 4)
    <3>1. r.start <= start /\ r.start \in Nat /\ start % 4 = 0 /\ r.start % 4 = 0
      BY <1>1, <1>4
    <3>. QED  BY <3>1, WordsBetween, Zenon
  <2>7. (end - r.start) \div 4 \in Nat /\ r.start + 4 * ((end - r.start) \div 4) <= end
          /\ end < r.start + 4 * ((end - r.start) \div 4) + 4
    <3>1. r.start <= end
      BY <1>1, <1>4
    <3>. QED  BY <1>1, <3>1, WordsBetween
  <2> DEFINE x == (start - r.start) \div 4  y == (end - r.start) \div 4
  <2>8. x \in Nat /\ start = r.start + 4 * x /\ y \in Nat /\ r.start + 4 * y <= end /\ end < r.start + 4 * y + 4
        /\ First(r, start) = x /\ Past(r, start, end) = y
    BY <2>4, <2>5, <2>6, <2>7
  <2> HIDE DEF x, y
  <2>9. r.end = r.start + 4 * (0 + Len(r.mem)) /\ r.start = r.start + 4 * 0
    BY <1>1, <2>1
  <2>10. x <= y /\ x <= 0 + Len(r.mem)
    <3> DEFINE l == Len(r.mem)  b == r.start  e == r.end
    <3>1. b \in Nat /\ l \in Nat /\ e = b + 4 * l /\ start <= e
      BY <1>1, <1>4, <2>1
    <3>2. start = b + 4 * x /\ x \in Nat /\ y \in Nat /\ end < b + 4 * y + 4
      BY <2>8
    <3> HIDE DEF l, b, e
    <3>3. x <= y
      BY <3>1, <3>2
    <3>4. x <= l
      BY <3>1, <3>2
    <3>. QED  BY <3>3, <3>4 DEF l
  <2>. QED  BY <1>1, <1>4, <2>2, <2>3, <2>8, <2>9, <2>10
<1>. QED  BY <1>2, <1>3, <1>4

(* mem_region_t::add_range on whole words: the region stays one of whole   *)
(* words, and a word has the tags it had and those of the range if the     *)
(* range covers it.                                                        *)
LEMMA RegionAddWhole ==
  ASSUME NEW r \in Region, Whole(r), NEW start \in Nat, NEW end \in Nat, start < end, start % 4 = 0,
         start < AddrSpace, NEW md \in Ids,
         r.start = r.end \/ (Len(r.mem) # 0 /\ start <= r.end),
         ~(start = 4 /\ end \in 5 .. 7)
  PROVE  /\ Whole(RegionAdd(r, start, end, md))
         /\ \A a \in Nat : a % 4 = 0 =>
              HeldIn(RegionAdd(r, start, end, md), a) = HeldIn(r, a) \cup Given(start, end, md, a)
<1> DEFINE q == RegionAdd(r, start, end, md)
           b == NewStart(r, start)
           k == Shift(r, start)
           s == First(r, start)
           e == Past(r, start, end)
           l == Len(r.mem)
           n == k + l
<1>1. /\ q \in Region
      /\ q.start = b
      /\ Len(q.mem) = IF e > n THEN e ELSE n
      /\ q.end = IF e > n THEN q.start + e * 4 ELSE r.end
      /\ \A i \in 1 .. Len(q.mem) :
           TagsOf(q.mem[i]) = (IF i \in k + 1 .. n THEN TagsOf(r.mem[i - k]) ELSE {})
                                \cup (IF i \in s + 1 .. e THEN md ELSE {})
  <2>1. IsAdded(q, r, start, end, md)
    BY RegionAdded, Zenon
  <2> HIDE DEF q
  <2>. QED  BY <2>1, Zenon DEF IsAdded
<1>2. /\ b \in Nat /\ k \in Nat /\ s \in Nat /\ e \in Nat /\ l \in Nat /\ r.start \in Nat /\ r.end \in Nat
  <2>1. r.start \in Nat /\ r.end \in Nat /\ l \in Nat
    BY DEF Region
  <2>. QED  BY <2>1, RegionNumbers, Zenon
<1>3. /\ b % 4 = 0
      /\ start = b + 4 * s
      /\ b + 4 * e <= end /\ end < b + 4 * e + 4
      /\ s <= e /\ s <= n
      /\ l = 0 => k = 0 /\ b = start
      /\ l # 0 => r.start = b + 4 * k /\ r.end = b + 4 * n
  BY WholeNumbers
<1>4. b < AddrSpace /\ (l = 0 => r.end = 0)
  BY DEF Whole, NewStart
<1> HIDE DEF q, b, k, s, e, l
<1>5. Whole(q)
  <2>1. CASE e > n
    BY <1>1, <1>2, <1>3, <1>4, <2>1 DEF Whole
  <2>2. CASE ~(e > n) /\ l # 0
    BY <1>1, <1>2, <1>3, <1>4, <2>2 DEF Whole
  <2>3. CASE ~(e > n) /\ l = 0
    BY <1>1, <1>2, <1>3, <1>4, <2>3 DEF Whole
  <2>. QED  BY <2>1, <2>2, <2>3
<1>6. ASSUME NEW a \in Nat, a % 4 = 0
      PROVE  HeldIn(q, a) = HeldIn(r, a) \cup Given(start, end, md, a)
  <2> DEFINE i == (a - b) \div 4 + 1
  <2>1. i \in Int /\ a = b + 4 * (i - 1)
    BY <1>2, <1>3, <1>6
  <2>2. Index(q, a) = i
    BY <1>1 DEF Index, stride
  <2> HIDE DEF i
  <2>3. contains(q, a) /\ i <= Len(q.mem) <=> i \in 1 .. Len(q.mem)
    <3>1. q.end = b + 4 * Len(q.mem) \/ Len(q.mem) = 0
      BY <1>1, <1>2, <1>3
    <3>. QED  BY <1>1, <1>2, <2>1, <3>1 DEF contains
  <2>4. HeldIn(q, a) = IF i \in 1 .. Len(q.mem) THEN TagsOf(q.mem[i]) ELSE {}
    BY <2>2, <2>3 DEF HeldIn
  <2>5. Given(start, end, md, a) = IF i \in s + 1 .. e THEN md ELSE {}
    <3>1. /\ b \in Nat /\ s \in Nat /\ e \in Nat /\ start = b + 4 * s
          /\ b + 4 * e <= end /\ end < b + 4 * e + 4
      BY <1>2, <1>3, Zenon
    <3>2. start <= a /\ a + 4 <= end <=> i \in s + 1 .. e
      BY <2>1, <3>1
    <3>. QED  BY <3>2, Zenon DEF Given
  <2>6. HeldIn(r, a) = IF i \in k + 1 .. n THEN TagsOf(r.mem[i - k]) ELSE {}
    <3>1. CASE l = 0
      <4>1. ~(contains(r, a) /\ Index(r, a) <= l)
        <5>1. r.start \in Nat
          BY <1>2, Zenon
        <5>2. r.start <= a => (a - r.start) \div 4 + 1 > 0
          BY <5>1
        <5>3. Index(r, a) = (a - r.start) \div 4 + 1
          BY Zenon DEF Index, stride
        <5>4. contains(r, a) => r.start <= a
          BY Zenon DEF contains
        <5>5. contains(r, a) => Index(r, a) > 0
          BY <5>2, <5>3, <5>4, Zenon
        <5>6. Index(r, a) > 0 => ~(Index(r, a) <= l)
          <6>. HIDE DEF Index, l
          <6>1. Index(r, a) \in Int
            BY <5>1, <5>3
          <6>. QED  BY <3>1, <6>1
        <5>. QED  BY <5>5, <5>6, Zenon
      <4>2. ~(i \in k + 1 .. n)
        BY <1>2, <3>1
      <4>. QED  BY <4>1, <4>2, Zenon DEF HeldIn, l
    <3>2. CASE l # 0
      <4>1. Index(r, a) = i - k
        <5>1. a - r.start = 4 * (i - 1 - k)
          BY <1>2, <1>3, <2>1, <3>2
        <5>2. (4 * (i - 1 - k)) \div 4 = i - 1 - k
          BY <1>2, <2>1
        <5>3. Index(r, a) = (i - 1 - k) + 1
          BY <5>1, <5>2, Zenon DEF Index, stride
        <5>. QED  BY <1>2, <2>1, <5>3
      <4>2. contains(r, a) /\ i - k <= l <=> i \in k + 1 .. n
        BY <1>2, <1>3, <2>1, <3>2 DEF contains
      <4>. QED  BY <4>1, <4>2 DEF HeldIn, l
    <3>. QED  BY <3>1, <3>2
  <2>7. i \in k + 1 .. n \/ i \in s + 1 .. e => i \in 1 .. Len(q.mem)
    BY <1>1, <1>2, <2>1
  <2>8. i \in 1 .. Len(q.mem) =>
           TagsOf(q.mem[i]) = (IF i \in k + 1 .. n THEN TagsOf(r.mem[i - k]) ELSE {})
                                \cup (IF i \in s + 1 .. e THEN md ELSE {})
    BY <1>1
  <2>. QED  BY <2>4, <2>5, <2>6, <2>7, <2>8
<1>. QED  BY <1>5, <1>6 DEF q

-----------------------------------------------------------------------------
(* Maps *)

Map == Seq(Region)

LEMMA EmptyRegion == empty_region \in Region /\ Whole(empty_region) /\ empty_region.start = empty_region.end
                     /\ \A a \in Nat : HeldIn(empty_region, a) = {}
<1>1. empty_region \in Region
  BY DEF empty_region, Region
<1>2. Whole(empty_region)
  BY AddrSpaceAssumption DEF empty_region, Whole
<1>. QED  BY <1>1, <1>2 DEF empty_region, HeldIn, contains

LEMMA HeldByRegion ==
  ASSUME NEW mrs \in Map, NEW a \in Nat
  PROVE  Held(mrs, a) = UNION {HeldIn(mrs[i], a) : i \in DOMAIN mrs}
  BY DEF Held, EntriesAt, HeldIn

(* The three courses of metadata_memory_map_t::add_range *)
LEMMA AddRangeCases ==
  ASSUME NEW mrs \in Map, NEW start \in Nat, NEW end \in Nat, NEW md
  PROVE  \/ start >= end /\ add_range(mrs, start, end, md) = mrs
         \/ /\ start < end
            /\ \E n \in DOMAIN mrs :
                 /\ adjacent(mrs[n], start) \/ adjacent(mrs[n], end)
                 /\ add_range(mrs, start, end, md) = [mrs EXCEPT ![n] = RegionAdd(mrs[n], start, end, md)]
         \/ /\ start < end
            /\ \E n \in 1 .. Len(mrs) + 1 :
                 add_range(mrs, start, end, md) = InsertAt(mrs, n, RegionAdd(empty_region, start, end, md))
<1> DEFINE near == {i \in DOMAIN mrs : adjacent(mrs[i], start) \/ adjacent(mrs[i], end)}
           after == {i \in DOMAIN mrs : end < mrs[i].start}
           back == after \cup {Len(mrs) + 1}
<1>1. DOMAIN mrs \subseteq Nat /\ Len(mrs) \in Nat /\ DOMAIN mrs = 1 .. Len(mrs)
  BY DEF Map
<1>2. CASE start >= end
  BY <1>2 DEF add_range
<1>3. CASE start < end /\ near # {}
  <2>1. near \subseteq Nat
    BY <1>1
  <2>2. Min(near) \in near
    BY <1>3, <2>1, LeastNatural
  <2>3. add_range(mrs, start, end, md) = [mrs EXCEPT ![Min(near)] = RegionAdd(mrs[Min(near)], start, end, md)]
    BY <1>3 DEF add_range
  <2>. QED  BY <1>3, <2>2, <2>3
<1>4. CASE start < end /\ near = {}
  <2>1. back \subseteq Nat /\ back # {}
    BY <1>1
  <2> HIDE DEF back
  <2>2. Min(back) \in back
    BY <2>1, LeastNatural
  <2>3. Min(back) \in 1 .. Len(mrs) + 1
    BY <1>1, <2>2 DEF back
  <2>4. add_range(mrs, start, end, md) = InsertAt(mrs, Min(back), RegionAdd(empty_region, start, end, md))
    BY <1>4 DEF add_range, back
  <2>. QED  BY <1>4, <2>3, <2>4
<1>. QED  BY <1>2, <1>3, <1>4

LEMMA AddRangeType ==
  ASSUME NEW mrs \in Map, NEW start \in Nat, NEW end \in Nat, NEW md \in Ids
  PROVE  add_range(mrs, start, end, md) \in Map
<1>1. CASE start >= end
  BY <1>1, AddRangeCases
<1>2. ASSUME start < end, NEW n \in DOMAIN mrs,
             add_range(mrs, start, end, md) = [mrs EXCEPT ![n] = RegionAdd(mrs[n], start, end, md)]
      PROVE  add_range(mrs, start, end, md) \in Map
  <2>1. mrs[n] \in Region
    BY DEF Map
  <2>2. RegionAdd(mrs[n], start, end, md) \in Region
    BY <1>2, <2>1, RegionAdded DEF IsAdded
  <2>. QED  BY <1>2, <2>2 DEF Map
<1>3. ASSUME start < end, NEW n \in 1 .. Len(mrs) + 1,
             add_range(mrs, start, end, md) = InsertAt(mrs, n, RegionAdd(empty_region, start, end, md))
      PROVE  add_range(mrs, start, end, md) \in Map
  <2> DEFINE p == RegionAdd(empty_region, start, end, md)
  <2>1. p \in Region
    BY <1>3, EmptyRegion, RegionAdded DEF IsAdded
  <2> HIDE DEF p
  <2>2. InsertAt(mrs, n, p) \in Seq(Region)
    BY <2>1, Insertion DEF Map
  <2>. QED  BY <1>3, <2>2 DEF p, Map
<1>. QED  BY <1>1, <1>2, <1>3, AddRangeCases

WholeMap(mrs) == \A i \in DOMAIN mrs : Whole(mrs[i])

(* A range that starts at a word, and does not leave a region without      *)
(* entries at 4                                                            *)
Placed(start, end) == start % 4 = 0 /\ start < AddrSpace /\ ~(start = 4 /\ end \in 5 .. 7)

(* metadata_memory_map_t::add_range adds the tags to the words of the      *)
(* range and changes no other word, whichever region it takes.             *)
LEMMA AddRangeHolds ==
  ASSUME NEW mrs \in Map, WholeMap(mrs), NEW start \in Nat, NEW end \in Nat, Placed(start, end),
         NEW md \in Ids
  PROVE  /\ WholeMap(add_range(mrs, start, end, md))
         /\ \A a \in Nat : a % 4 = 0 =>
              Held(add_range(mrs, start, end, md), a) = Held(mrs, a) \cup Given(start, end, md, a)
<1> DEFINE q == add_range(mrs, start, end, md)
<1>0. q \in Map
  BY AddRangeType
<1>1. CASE start >= end
  <2>1. q = mrs
    BY <1>1, AddRangeCases
  <2>2. \A a \in Nat : Given(start, end, md, a) = {}
    BY <1>1 DEF Given
  <2>. QED  BY <2>1, <2>2
<1>2. ASSUME start < end, NEW n \in DOMAIN mrs,
             adjacent(mrs[n], start) \/ adjacent(mrs[n], end),
             q = [mrs EXCEPT ![n] = RegionAdd(mrs[n], start, end, md)]
      PROVE  /\ WholeMap(q)
             /\ \A a \in Nat : a % 4 = 0 => Held(q, a) = Held(mrs, a) \cup Given(start, end, md, a)
  <2> DEFINE r == mrs[n]
             p == RegionAdd(r, start, end, md)
  <2>1. r \in Region /\ Whole(r)
    BY DEF Map, WholeMap
  <2>2. r.start = r.end \/ (Len(r.mem) # 0 /\ start <= r.end)
    <3> HIDE DEF r
    <3>. QED  BY <1>2, <2>1, NearEnough DEF r, Placed
  <2>3. /\ Whole(p)
        /\ \A a \in Nat : a % 4 = 0 => HeldIn(p, a) = HeldIn(r, a) \cup Given(start, end, md, a)
    <3> HIDE DEF r
    <3>. QED  BY <1>2, <2>1, <2>2, RegionAddWhole DEF Placed
  <2> HIDE DEF p
  <2>4. q = [mrs EXCEPT ![n] = p]
    BY <1>2 DEF p
  <2> HIDE DEF q
  <2>5. DOMAIN q = DOMAIN mrs /\ q[n] = p /\ \A i \in DOMAIN mrs : i # n => q[i] = mrs[i]
    BY <2>4
  <2>6. WholeMap(q)
    BY <2>3, <2>5 DEF WholeMap
  <2>7. ASSUME NEW a \in Nat, a % 4 = 0 PROVE Held(q, a) = Held(mrs, a) \cup Given(start, end, md, a)
    <3>1. Held(q, a) = UNION {HeldIn(q[i], a) : i \in DOMAIN q}
      BY <1>0, HeldByRegion DEF q
    <3>2. Held(mrs, a) = UNION {HeldIn(mrs[i], a) : i \in DOMAIN mrs}
      BY HeldByRegion
    <3>3. HeldIn(q[n], a) = HeldIn(mrs[n], a) \cup Given(start, end, md, a)
      BY <2>3, <2>5, <2>7
    <3>4. \A i \in DOMAIN mrs : i # n => HeldIn(q[i], a) = HeldIn(mrs[i], a)
      BY <2>5
    <3>. QED  BY <2>5, <3>1, <3>2, <3>3, <3>4, Zenon
  <2>. QED  BY <2>6, <2>7
<1>3. ASSUME start < end, NEW n \in 1 .. Len(mrs) + 1,
             q = InsertAt(mrs, n, RegionAdd(empty_region, start, end, md))
      PROVE  /\ WholeMap(q)
             /\ \A a \in Nat : a % 4 = 0 => Held(q, a) = Held(mrs, a) \cup Given(start, end, md, a)
  <2> DEFINE p == RegionAdd(empty_region, start, end, md)
  <2>1. p \in Region
    BY <1>3, EmptyRegion, RegionAdded DEF IsAdded
  <2>2. /\ Whole(p)
        /\ \A a \in Nat : a % 4 = 0 => HeldIn(p, a) = HeldIn(empty_region, a) \cup Given(start, end, md, a)
    BY <1>3, EmptyRegion, RegionAddWhole DEF Placed
  <2>3. \A a \in Nat : a % 4 = 0 => HeldIn(p, a) = Given(start, end, md, a)
    BY <2>2, EmptyRegion
  <2> HIDE DEF p
  <2>4. q = InsertAt(mrs, n, p)
    BY <1>3 DEF p
  <2>5. /\ \A i \in DOMAIN mrs : \E j \in DOMAIN InsertAt(mrs, n, p) : InsertAt(mrs, n, p)[j] = mrs[i]
        /\ \E j \in DOMAIN InsertAt(mrs, n, p) : InsertAt(mrs, n, p)[j] = p
        /\ \A j \in DOMAIN InsertAt(mrs, n, p) :
             InsertAt(mrs, n, p)[j] = p \/ \E i \in DOMAIN mrs : InsertAt(mrs, n, p)[j] = mrs[i]
    BY <1>3, <2>1, Insertion DEF Map
  <2> HIDE DEF q
  <2>6. /\ \A i \in DOMAIN mrs : \E j \in DOMAIN q : q[j] = mrs[i]
        /\ \E j \in DOMAIN q : q[j] = p
        /\ \A j \in DOMAIN q : q[j] = p \/ \E i \in DOMAIN mrs : q[j] = mrs[i]
    BY <2>4, <2>5
  <2>7. WholeMap(q)
    BY <2>2, <2>6 DEF WholeMap
  <2>8. ASSUME NEW a \in Nat, a % 4 = 0 PROVE Held(q, a) = Held(mrs, a) \cup Given(start, end, md, a)
    <3>1. Held(q, a) = UNION {HeldIn(q[i], a) : i \in DOMAIN q}
      BY <1>0, HeldByRegion DEF q
    <3>2. Held(mrs, a) = UNION {HeldIn(mrs[i], a) : i \in DOMAIN mrs}
      BY HeldByRegion
    <3>3. HeldIn(p, a) = Given(start, end, md, a)
      BY <2>3, <2>8
    <3>. QED  BY <2>6, <3>1, <3>2, <3>3, Zenon
  <2>. QED  BY <2>7, <2>8
<1>. QED  BY <1>1, <1>2, <1>3, AddRangeCases

(* The maps a sequence of ranges passes through *)
Running(x, mrs, adds) ==
  /\ x \in [0 .. Len(adds) -> Map]
  /\ x[0] = mrs
  /\ \A i \in 0 .. Len(adds) - 1 :
       x[i + 1] = add_range(x[i], adds[i + 1].start, adds[i + 1].end, adds[i + 1].md)

(* AddAll is well defined, and its result is the last of them. *)
LEMMA AddAllRuns ==
  ASSUME NEW mrs \in Map, NEW adds \in Seq(TagRange)
  PROVE  \E x : Running(x, mrs, adds) /\ AddAll(mrs, adds) = x[Len(adds)]
<1> DEFINE K == Len(adds)
           step(m, n) == add_range(m, adds[n].start, adds[n].end, adds[n].md)
<1>1. K \in Nat
  OBVIOUS
<1>2. \A m \in Map : \A n \in 1 .. K : step(m, n) \in Map
  <2> SUFFICES ASSUME NEW m \in Map, NEW n \in 1 .. K PROVE step(m, n) \in Map
    OBVIOUS
  <2>1. adds[n] \in TagRange
    OBVIOUS
  <2>2. adds[n].start \in Nat /\ adds[n].end \in Nat /\ adds[n].md \in Ids
    BY <2>1, AddrSpaceAssumption DEF TagRange
  <2>. QED  BY <2>2, AddRangeType
<1> HIDE DEF step
<1> DEFINE G == [p \in (1 .. K) \X Map |-> step(p[2], p[1])]
<1>3. G \in [(1 .. K) \X Map -> Map]
  <2> SUFFICES ASSUME NEW p \in (1 .. K) \X Map PROVE step(p[2], p[1]) \in Map
    OBVIOUS
  <2>1. p[1] \in 1 .. K /\ p[2] \in Map
    OBVIOUS
  <2>. QED  BY <1>2, <2>1
<1>4. \A n \in 1 .. K : \A m \in Map : G[<<n, m>>] = step(m, n)
  OBVIOUS
<1> HIDE DEF G
<1>5. PICK x : Iteration(x, K, Map, mrs, G)
  BY <1>1, <1>3, Iterates
<1>6. x \in [0 .. K -> Map] /\ x[0] = mrs /\ \A n \in 1 .. K : x[n] = step(x[n - 1], n)
  <2>1. x \in [0 .. K -> Map] /\ x[0] = mrs /\ \A n \in 1 .. K : x[n] = G[<<n, x[n - 1]>>]
    BY <1>5 DEF Iteration
  <2>2. \A n \in 1 .. K : x[n - 1] \in Map
    BY <2>1
  <2>. QED  BY <1>4, <2>1, <2>2
<1>7. \A i \in 0 .. K - 1 : x[i + 1] = step(x[i], i + 1)
  <2> SUFFICES ASSUME NEW i \in 0 .. K - 1 PROVE x[i + 1] = step(x[i], i + 1)
    OBVIOUS
  <2>1. i + 1 \in 1 .. K /\ (i + 1) - 1 = i
    BY <1>1
  <2>2. x[i + 1] = step(x[(i + 1) - 1], i + 1)
    BY <1>6, <2>1
  <2>. QED  BY <2>1, <2>2
<1> DEFINE F(y) == [i \in 0 .. K |-> IF i = 0 THEN mrs ELSE step(y[i - 1], i)]
           z == CHOOSE y : y = F(y)
<1>8. x = F(x)
  <2>1. \A i \in 0 .. K : x[i] = IF i = 0 THEN mrs ELSE step(x[i - 1], i)
    BY <1>6
  <2>. QED  BY <1>6, <2>1, Zenon
<1>9. z = F(z)
  BY <1>8
<1>10. AddAll(mrs, adds) = z[K]
  BY DEF AddAll, step
<1> HIDE DEF z
<1>11. \A i \in 0 .. K : z[i] = x[i]
  <2> DEFINE E == {i \in 0 .. K : z[i] = x[i]}
  <2>1. 0 \in E
    BY <1>1, <1>6, <1>9
  <2>2. \A i \in 0 .. K - 1 : i \in E => i + 1 \in E
    <3> SUFFICES ASSUME NEW i \in 0 .. K - 1, i \in E PROVE i + 1 \in E
      OBVIOUS
    <3>1. i + 1 \in 0 .. K /\ i + 1 # 0 /\ (i + 1) - 1 = i
      BY <1>1
    <3>2. z[i + 1] = step(z[i], i + 1)
      BY <1>9, <3>1
    <3>. QED  BY <1>7, <3>1, <3>2
  <2>3. 0 .. K \subseteq E
    <3> HIDE DEF E
    <3>. QED  BY <1>1, <2>1, <2>2, UpTo
  <2>. QED  BY <2>3
<1>12. K \in 0 .. K
  BY <1>1
<1>13. AddAll(mrs, adds) = x[K]
  BY <1>10, <1>11, <1>12
<1>. QED  BY <1>6, <1>7, <1>13 DEF Running, step

LEMMA AddAllType ==
  ASSUME NEW mrs \in Map, NEW adds \in Seq(TagRange)
  PROVE  AddAll(mrs, adds) \in Map
<1>1. PICK x : Running(x, mrs, adds) /\ AddAll(mrs, adds) = x[Len(adds)]
  BY AddAllRuns
<1>2. Len(adds) \in 0 .. Len(adds)
  OBVIOUS
<1>. QED  BY <1>1, <1>2 DEF Running

(* The tags the first n of some ranges give a word *)
GivenBy(adds, n, a) == UNION {Given(adds[j].start, adds[j].end, adds[j].md, a) : j \in 1 .. n}

AllPlaced(adds) == \A j \in DOMAIN adds : Placed(adds[j].start, adds[j].end)

(* Whatever the ranges and their order, the words have the tags they had   *)
(* and those of the ranges that cover them.                                *)
LEMMA AddAllHolds ==
  ASSUME NEW mrs \in Map, WholeMap(mrs), NEW adds \in Seq(TagRange), AllPlaced(adds)
  PROVE  /\ WholeMap(AddAll(mrs, adds))
         /\ \A a \in Nat : a % 4 = 0 =>
              Held(AddAll(mrs, adds), a) = Held(mrs, a) \cup GivenBy(adds, Len(adds), a)
<1>1. PICK x : Running(x, mrs, adds) /\ AddAll(mrs, adds) = x[Len(adds)]
  BY AddAllRuns
<1> DEFINE K == Len(adds)
           Good(i) == /\ WholeMap(x[i])
                      /\ \A a \in Nat : a % 4 = 0 => Held(x[i], a) = Held(mrs, a) \cup GivenBy(adds, i, a)
           S == {i \in 0 .. K : Good(i)}
<1>2. K \in Nat
  OBVIOUS
<1>3. Good(0)
  <2>1. \A a : GivenBy(adds, 0, a) = {}
    BY DEF GivenBy
  <2>. QED  BY <1>1, <2>1 DEF Running
<1>4. ASSUME NEW i \in 0 .. K - 1, Good(i) PROVE Good(i + 1)
  <2> DEFINE j == i + 1
             s == adds[j].start
             e == adds[j].end
             md == adds[j].md
  <2>1. j \in 1 .. K /\ j \in DOMAIN adds /\ adds[j] \in TagRange
    BY <1>2
  <2>2. s \in Nat /\ e \in Nat /\ md \in Ids /\ Placed(s, e)
    BY <2>1, AddrSpaceAssumption DEF TagRange, AllPlaced
  <2>3. x[i] \in Map /\ x[j] = add_range(x[i], s, e, md)
    BY <1>1, <1>2 DEF Running
  <2>4. \A a : GivenBy(adds, j, a) = GivenBy(adds, i, a) \cup Given(s, e, md, a)
    <3> SUFFICES ASSUME NEW a PROVE GivenBy(adds, j, a) = GivenBy(adds, i, a) \cup Given(s, e, md, a)
      OBVIOUS
    <3>1. 1 .. j = (1 .. i) \cup {j}
      OBVIOUS
    <3> HIDE DEF j
    <3>. QED  BY <3>1, Zenon DEF GivenBy
  <2> HIDE DEF j, s, e, md
  <2>5. /\ WholeMap(add_range(x[i], s, e, md))
        /\ \A a \in Nat : a % 4 = 0 =>
             Held(add_range(x[i], s, e, md), a) = Held(x[i], a) \cup Given(s, e, md, a)
    BY <1>4, <2>2, <2>3, AddRangeHolds
  <2>6. /\ WholeMap(x[j])
        /\ \A a \in Nat : a % 4 = 0 => Held(x[j], a) = Held(x[i], a) \cup Given(s, e, md, a)
    BY <2>3, <2>5
  <2>7. Good(j)
    BY <1>4, <2>4, <2>6
  <2>. QED  BY <2>7 DEF j
<1> HIDE DEF Good
<1>5. 0 \in S /\ \A i \in 0 .. K - 1 : i \in S => i + 1 \in S
  BY <1>2, <1>3, <1>4
<1>6. 0 .. K \subseteq S
  <2> HIDE DEF S
  <2>. QED  BY <1>2, <1>5, UpTo
<1>7. Good(K)
  BY <1>2, <1>6
<1>. QED  BY <1>1, <1>7 DEF Good

-----------------------------------------------------------------------------
(* The tool *)

(* The map and its history change when the tool starts and when a stage    *)
(* adds its ranges, and then the listing is empty.                         *)
MapStep == \/ UNCHANGED <<md_memory_map, added>>
           \/ md_memory_map' = <<>> /\ added' = <<>> /\ listing' = <<>>
           \/ /\ stage \in {"apply", "opcodes", "entities"}
              /\ md_memory_map' = AddAll(md_memory_map, StageRanges)
              /\ added' = added \o StageRanges
              /\ UNCHANGED listing

LEMMA MapSteps == TaggingNext \/ UNCHANGED all => MapStep
<1> SUFFICES ASSUME TaggingNext \/ UNCHANGED all PROVE MapStep
  OBVIOUS
<1>1. CASE UNCHANGED all
  BY <1>1 DEF all, vars, MapStep
<1>2. CASE Host
  BY <1>2 DEF Host, MapStep
<1>3. CASE ToolNext
  <2>1. CASE Start
    BY <2>1 DEF Start, MapStep
  <2>2. CASE ApplyTags \/ TagOpcodes \/ TagEntities
    BY <2>2, Zenon DEF ApplyTags, TagOpcodes, TagEntities, Tagged, MapStep
  <2>3. CASE AddRwxRanges \/ GeneratePolicyRanges \/ AddSocRanges
    BY <2>3, Zenon DEF AddRwxRanges, GeneratePolicyRanges, AddSocRanges, Ranges, MapStep
  <2>4. ASSUME NEW works \in BOOLEAN,
               AddTagArray(works) \/ EmbedTags(works) \/ Annotate(works) \/ OpenTagFile(works)
        PROVE  MapStep
    BY <2>4, Zenon DEF AddTagArray, EmbedTags, Annotate, OpenTagFile, MapStep
  <2>5. CASE WriteBytes \/ RunAgain
    BY <2>5, Zenon DEF WriteBytes, RunAgain, MapStep
  <2>. QED  BY <1>3, <2>1, <2>2, <2>3, <2>4, <2>5 DEF ToolNext
<1>. QED  BY <1>1, <1>2, <1>3 DEF TaggingNext, Tool

(* The inductive invariant: regions of whole words that hold exactly what  *)
(* was added, for every word there is                                      *)
MapInv ==
  /\ md_memory_map \in Map /\ added \in Seq(TagRange)
  /\ WellPlaced =>
       /\ WholeMap(md_memory_map)
       /\ \A a \in Nat : a % 4 = 0 => Held(md_memory_map, a) = GivenBy(added, Len(added), a)

LEMMA PlacedRanges ==
  ASSUME NEW u \in Seq(TagRange)
  PROVE  AllPlaced(u) <=> /\ \A j \in DOMAIN u : u[j].start % 4 = 0
                          /\ \A j \in DOMAIN u : ~(u[j].start = 4 /\ u[j].end \in 5 .. 7)
<1>1. \A j \in DOMAIN u : u[j].start < AddrSpace
  <2> SUFFICES ASSUME NEW j \in DOMAIN u PROVE u[j].start < AddrSpace
    OBVIOUS
  <2>1. u[j] \in TagRange
    OBVIOUS
  <2>. QED  BY <2>1, AddrSpaceAssumption DEF TagRange
<1>. QED  BY <1>1 DEF AllPlaced, Placed

LEMMA PlacedAdded == added \in Seq(TagRange) => (WellPlaced <=> AllPlaced(added))
  BY PlacedRanges DEF WellPlaced, Aligned

LEMMA EmptyMap ==
  /\ <<>> \in Map /\ WholeMap(<<>>) /\ <<>> \in Seq(TagRange)
  /\ \A a : Held(<<>>, a) = {} /\ GivenBy(<<>>, 0, a) = {}
  BY DEF Map, WholeMap, Held, EntriesAt, GivenBy

(* Ranges added one after another *)
LEMMA GivenByBoth ==
  ASSUME NEW u \in Seq(TagRange), NEW v \in Seq(TagRange), NEW a
  PROVE  /\ u \o v \in Seq(TagRange)
         /\ GivenBy(u \o v, Len(u \o v), a) = GivenBy(u, Len(u), a) \cup GivenBy(v, Len(v), a)
         /\ AllPlaced(u \o v) => AllPlaced(u) /\ AllPlaced(v)
<1> DEFINE w == u \o v
           G(t, j) == Given(t[j].start, t[j].end, t[j].md, a)
<1>1. /\ w \in Seq(TagRange) /\ Len(w) = Len(u) + Len(v)
      /\ \A i \in 1 .. Len(u) : w[i] = u[i]
      /\ \A i \in Len(u) + 1 .. Len(u) + Len(v) : w[i] = v[i - Len(u)]
  BY Concat
<1>2. Len(u) \in Nat /\ Len(v) \in Nat /\ DOMAIN u = 1 .. Len(u) /\ DOMAIN v = 1 .. Len(v)
  OBVIOUS
<1> HIDE DEF w
<1>3. DOMAIN w = 1 .. Len(w)
  BY <1>1
<1>4. \A i \in DOMAIN u : i \in DOMAIN w /\ w[i] = u[i]
  BY <1>1, <1>2, <1>3
<1>5. \A i \in DOMAIN v : \E j \in DOMAIN w : w[j] = v[i]
  <2> SUFFICES ASSUME NEW i \in DOMAIN v PROVE \E j \in DOMAIN w : w[j] = v[i]
    OBVIOUS
  <2>1. i + Len(u) \in Len(u) + 1 .. Len(u) + Len(v) /\ (i + Len(u)) - Len(u) = i /\ i + Len(u) \in DOMAIN w
    BY <1>1, <1>2, <1>3
  <2>2. w[i + Len(u)] = v[i]
    BY <1>1, <2>1
  <2>. QED  BY <2>1, <2>2
<1>6. \A j \in DOMAIN w : (\E i \in DOMAIN u : w[j] = u[i]) \/ (\E i \in DOMAIN v : w[j] = v[i])
  <2> SUFFICES ASSUME NEW j \in DOMAIN w
               PROVE  (\E i \in DOMAIN u : w[j] = u[i]) \/ (\E i \in DOMAIN v : w[j] = v[i])
    OBVIOUS
  <2>1. CASE j \in 1 .. Len(u)
    BY <1>1, <1>2, <2>1
  <2>2. CASE j \notin 1 .. Len(u)
    <3>1. j \in Len(u) + 1 .. Len(u) + Len(v) /\ j - Len(u) \in DOMAIN v
      BY <1>1, <1>2, <1>3, <2>2
    <3>. QED  BY <1>1, <3>1
  <2>. QED  BY <2>1, <2>2
<1>7. /\ GivenBy(w, Len(w), a) = UNION {G(w, j) : j \in DOMAIN w}
      /\ GivenBy(u, Len(u), a) = UNION {G(u, j) : j \in DOMAIN u}
      /\ GivenBy(v, Len(v), a) = UNION {G(v, j) : j \in DOMAIN v}
  BY <1>2, <1>3 DEF GivenBy
<1>8. GivenBy(w, Len(w), a) = GivenBy(u, Len(u), a) \cup GivenBy(v, Len(v), a)
  <2>1. \A t : t \in GivenBy(u, Len(u), a) \cup GivenBy(v, Len(v), a) => t \in GivenBy(w, Len(w), a)
    BY <1>4, <1>5, <1>7, ZenonT(40)
  <2>2. \A t : t \in GivenBy(w, Len(w), a) => t \in GivenBy(u, Len(u), a) \cup GivenBy(v, Len(v), a)
    BY <1>6, <1>7, ZenonT(40)
  <2>. QED  BY <2>1, <2>2
<1>9. AllPlaced(w) => AllPlaced(u) /\ AllPlaced(v)
  <2>1. ASSUME AllPlaced(w) PROVE AllPlaced(u)
    BY <1>4, <2>1, Zenon DEF AllPlaced
  <2>2. ASSUME AllPlaced(w) PROVE AllPlaced(v)
    BY <1>5, <2>2, Zenon DEF AllPlaced
  <2>. QED  BY <2>1, <2>2
<1>. QED  BY <1>1, <1>8, <1>9 DEF w

LEMMA MapInvStep == MapInv /\ RangesTyped /\ MapStep => MapInv'
<1> SUFFICES ASSUME MapInv, RangesTyped, MapStep PROVE MapInv'
  OBVIOUS
<1>1. CASE UNCHANGED <<md_memory_map, added>>
  BY <1>1 DEF MapInv, WellPlaced, Aligned
<1>2. CASE md_memory_map' = <<>> /\ added' = <<>>
  <2>1. Len(added') = 0
    BY <1>2
  <2>. QED  BY <1>2, <2>1, EmptyMap DEF MapInv
<1>3. CASE md_memory_map' = AddAll(md_memory_map, StageRanges) /\ added' = added \o StageRanges
  <2> DEFINE v == StageRanges
  <2>1. v \in Seq(TagRange) /\ added \in Seq(TagRange) /\ md_memory_map \in Map
    BY DEF RangesTyped, MapInv
  <2> HIDE DEF v
  <2>2. md_memory_map' = AddAll(md_memory_map, v) /\ added' = added \o v
    BY <1>3 DEF v
  <2>3. md_memory_map' \in Map
    BY <2>1, <2>2, AddAllType
  <2>4. added' \in Seq(TagRange)
    BY <2>1, <2>2, Concat
  <2>5. ASSUME WellPlaced' PROVE AllPlaced(added) /\ AllPlaced(v)
    <3>1. AllPlaced(added')
      BY <2>4, <2>5, PlacedRanges DEF WellPlaced, Aligned
    <3>. QED  BY <2>1, <2>2, <3>1, GivenByBoth
  <2>6. ASSUME WellPlaced' PROVE WholeMap(md_memory_map')
    <3>1. WholeMap(md_memory_map)
      BY <2>1, <2>5, <2>6, PlacedAdded DEF MapInv
    <3>. QED  BY <2>1, <2>2, <2>5, <2>6, <3>1, AddAllHolds
  <2>7. ASSUME WellPlaced', NEW a \in Nat, a % 4 = 0
        PROVE  Held(md_memory_map', a) = GivenBy(added', Len(added'), a)
    <3>1. WholeMap(md_memory_map) /\ Held(md_memory_map, a) = GivenBy(added, Len(added), a)
      BY <2>1, <2>5, <2>7, PlacedAdded DEF MapInv
    <3>2. Held(AddAll(md_memory_map, v), a) = Held(md_memory_map, a) \cup GivenBy(v, Len(v), a)
      BY <2>1, <2>5, <2>7, <3>1, AddAllHolds
    <3>3. GivenBy(added \o v, Len(added \o v), a) = GivenBy(added, Len(added), a) \cup GivenBy(v, Len(v), a)
      BY <2>1, GivenByBoth
    <3>. QED  BY <2>2, <3>1, <3>2, <3>3
  <2>. QED  BY <2>3, <2>4, <2>6, <2>7 DEF MapInv
<1>. QED  BY <1>1, <1>2, <1>3 DEF MapStep

LEMMA MapInvariant == TaggingSpec => []MapInv
<1>1. TaggingInit => MapInv
  <2> SUFFICES ASSUME TaggingInit PROVE MapInv
    OBVIOUS
  <2>1. md_memory_map = <<>> /\ added = <<>> /\ Len(added) = 0
    BY DEF TaggingInit, Init
  <2>. QED  BY <2>1, EmptyMap DEF MapInv
<1>2. MapInv /\ RangesTyped /\ [TaggingNext]_all => MapInv'
  BY MapSteps, MapInvStep
<1>. QED  BY <1>1, <1>2, TaggingRangesTyped, PTL DEF TaggingSpec

(* In every run of the tool, for every program and policy: a word has the  *)
(* tags of exactly the ranges that cover it, whatever regions add_range    *)
(* merged them into.                                                       *)
THEOREM TaggingMapHoldsAdded == TaggingSpec => []MapHoldsAdded
<1>1. MapInv => MapHoldsAdded
  <2> SUFFICES ASSUME MapInv, WellPlaced, NEW a \in WordAddrs
               PROVE  Held(md_memory_map, a) =
                        UNION {added[i].md : i \in {j \in DOMAIN added : added[j].start <= a /\ a + 4 <= added[j].end}}
    BY DEF MapHoldsAdded
  <2>1. a \in Nat /\ a % 4 = 0
    BY WordAssumption DEF stride
  <2>2. Held(md_memory_map, a) = GivenBy(added, Len(added), a)
    BY <2>1 DEF MapInv
  <2>3. DOMAIN added = 1 .. Len(added)
    BY DEF MapInv
  <2>. QED  BY <2>2, <2>3, Zenon DEF GivenBy, Given
<1>. QED  BY <1>1, MapInvariant, PTL

-----------------------------------------------------------------------------
(* The copy of the binary, over any number of runs *)

(* The stages up to the opening of the tag file *)
Before == {"rwx", "llvm", "soc", "tag_array", "apply", "opcodes", "entities", "embed", "annotate",
           "write"}

(* The inductive invariant: until the tag file is opened there is none of   *)
(* the tool, and once embed_tags is through the copy carries the map.       *)
CarryInv ==
  /\ CopyCarriesTags
  /\ stage \in Before => source = <<>>
  /\ stage \in {"annotate", "write"} =>
       ".initial_tag_map" \in elf_policy /\ embedded = <<md_memory_map>>

(* A step that touches neither the tag file's history nor the copy *)
LEMMA CarryKept ==
  ASSUME CarryInv, UNCHANGED <<source, elf_policy, embedded>>,
         stage' \in Before => stage \in Before,
         stage' \in {"annotate", "write"} =>
            stage \in {"annotate", "write"} /\ UNCHANGED md_memory_map
  PROVE  CarryInv'
  BY DEF CarryInv, CopyCarriesTags

(* A step before the tag file is opened, up to embed_tags *)
LEMMA CarryEarly ==
  ASSUME CarryInv, stage \in Before, UNCHANGED source, stage' \notin {"annotate", "write"}
  PROVE  CarryInv'
  BY DEF CarryInv, CopyCarriesTags

LEMMA CarryInvStep == CarryInv /\ [TaggingNext]_all => CarryInv'
<1> SUFFICES ASSUME CarryInv, [TaggingNext]_all PROVE CarryInv'
  OBVIOUS
<1>1. CASE UNCHANGED all \/ Host
  <2>1. UNCHANGED <<source, elf_policy, embedded, stage, md_memory_map>>
    BY <1>1, Zenon DEF all, vars, Host
  <2>. QED  BY <2>1, CarryKept
<1>2. CASE Start
  <2>1. \/ stage' = "throws" /\ UNCHANGED <<source, elf_policy, embedded>>
        \/ source' = <<>> /\ stage' \in {"rwx", "apply", "throws"}
    BY <1>2 DEF Start
  <2>2. CASE stage' = "throws" /\ UNCHANGED <<source, elf_policy, embedded>>
    BY <2>2, CarryKept DEF Before
  <2>3. CASE source' = <<>> /\ stage' \in {"rwx", "apply", "throws"}
    BY <2>3 DEF CarryInv, CopyCarriesTags
  <2>. QED  BY <2>1, <2>2, <2>3
<1>3. CASE AddRwxRanges \/ GeneratePolicyRanges \/ AddSocRanges
  <2>1. /\ stage \in {"rwx", "llvm", "soc"} /\ stage' \in {"throws", "llvm", "soc", "tag_array"}
        /\ UNCHANGED source
    BY <1>3, Zenon DEF AddRwxRanges, GeneratePolicyRanges, AddSocRanges, Ranges
  <2>. QED  BY <2>1, CarryEarly DEF Before
<1>4. ASSUME NEW works, AddTagArray(works) PROVE CarryInv'
  <2>1. stage = "tag_array" /\ stage' \in {"throws", "apply"} /\ UNCHANGED source
    BY <1>4 DEF AddTagArray
  <2>. QED  BY <2>1, CarryEarly DEF Before
<1>5. CASE ApplyTags \/ TagOpcodes \/ TagEntities
  <2>1. /\ stage \in {"apply", "opcodes", "entities"}
        /\ stage' \in {"throws", "opcodes", "entities", "embed"} /\ UNCHANGED source
    BY <1>5, Zenon DEF ApplyTags, TagOpcodes, TagEntities, Tagged
  <2>. QED  BY <2>1, CarryEarly DEF Before
<1>6. ASSUME NEW works \in BOOLEAN, EmbedTags(works) PROVE CarryInv'
  <2>1. /\ stage = "embed" /\ stage' \in {"crash", "throws", "annotate"}
        /\ UNCHANGED <<source, md_memory_map>>
        /\ stage' = "annotate" =>
             elf_policy' = SectionNames \cup {".initial_tag_map"} /\ embedded' = <<md_memory_map>>
    BY <1>6 DEF EmbedTags, Objcopy
  <2>2. CASE stage' # "annotate"
    BY <2>1, <2>2, CarryEarly DEF Before
  <2>3. CASE stage' = "annotate"
    <3>1. source' = <<>>
      BY <2>1 DEF CarryInv, Before
    <3>2. ".initial_tag_map" \in elf_policy' /\ embedded' = <<md_memory_map'>>
      BY <2>1, <2>3
    <3>. QED  BY <3>1, <3>2 DEF CarryInv, CopyCarriesTags
  <2>. QED  BY <2>2, <2>3
<1>7. ASSUME NEW works \in BOOLEAN, Annotate(works) PROVE CarryInv'
  <2>1. stage = "annotate" /\ UNCHANGED <<source, elf_policy, embedded, md_memory_map>>
    BY <1>7, Zenon DEF Annotate
  <2>. QED  BY <2>1, CarryKept DEF Before
<1>8. ASSUME NEW works \in BOOLEAN, OpenTagFile(works) PROVE CarryInv'
  <2>1. /\ stage = "write" /\ stage' \in {"writing", "throws", "done"}
        /\ source' \in {<<>>, <<md_memory_map>>} /\ UNCHANGED <<elf_policy, embedded>>
    BY <1>8 DEF OpenTagFile
  <2>2. ".initial_tag_map" \in elf_policy' /\ embedded' = <<md_memory_map>>
    BY <2>1 DEF CarryInv
  <2>3. stage' \notin Before /\ stage' \notin {"annotate", "write"}
    BY <2>1 DEF Before
  <2>. QED  BY <2>1, <2>2, <2>3 DEF CarryInv, CopyCarriesTags
<1>9. CASE WriteBytes \/ RunAgain
  <2>1. /\ stage' \in {"writing", "done", "throws", "endless", "start"}
        /\ UNCHANGED <<source, elf_policy, embedded>>
    BY <1>9, Zenon DEF WriteBytes, RunAgain
  <2>. QED  BY <2>1, CarryKept DEF Before
<1>. QED  BY <1>1, <1>2, <1>3, <1>4, <1>5, <1>6, <1>7, <1>8, <1>9 DEF TaggingNext, Tool, ToolNext

(* For any program, over any number of runs and whatever fails in them:    *)
(* while there is a tag file of the tool, the copy of the binary carries    *)
(* the tags of the map that file is written from.                          *)
THEOREM TaggingCopyCarriesTags == TaggingSpec => []CopyCarriesTags
<1>1. TaggingInit => CarryInv
  BY DEF TaggingInit, Init, CarryInv, CopyCarriesTags, Before
<1>2. CarryInv => CopyCarriesTags
  BY DEF CarryInv
<1>. QED  BY <1>1, <1>2, CarryInvStep, PTL DEF TaggingSpec

-----------------------------------------------------------------------------
(* The ranges of the header *)

Span == [start : Addr, end : Addr]
Ascending(s) == \A i, j \in 1 .. Len(s) : i <= j => s[i].start <= s[j].start
Covered(S, a) == \E r \in S : r.start <= a /\ a <= r.end

LEMMA SpanNumbers == \A r \in Span : r.start \in Nat /\ r.end \in Nat /\ r.start \in Addr /\ r.end \in Addr
  BY AddrNat DEF Span

(* One range goes to its place *)
LEMMA SortOne ==
  ASSUME NEW u \in Seq(Span), Ascending(u), NEW x \in Span
  PROVE  LET w == InsertAt(u, Min({i \in DOMAIN u : RangeLess(x, u[i])} \cup {Len(u) + 1}), x)
         IN  w \in Seq(Span) /\ Ascending(w) /\ Range(w) = Range(u) \cup {x}
<1> DEFINE T == {i \in DOMAIN u : RangeLess(x, u[i])} \cup {Len(u) + 1}
           m == Min(T)
           w == InsertAt(u, m, x)
<1>1. Len(u) \in Nat /\ DOMAIN u = 1 .. Len(u) /\ \A i \in 1 .. Len(u) : u[i] \in Span
  OBVIOUS
<1>2. T \subseteq Nat /\ T # {}
  BY <1>1
<1>3. m \in T /\ \A y \in T : m <= y
  <2> HIDE DEF T
  <2>. QED  BY <1>2, LeastNatural
<1> HIDE DEF m
<1>4. m \in 1 .. Len(u) + 1
  BY <1>1, <1>3
<1>5. ASSUME NEW i \in 1 .. m - 1 PROVE u[i].start <= x.start
  <2>1. i \in 1 .. Len(u) /\ i \notin T
    BY <1>1, <1>3, <1>4
  <2>2. ~(x.start < u[i].start)
    BY <1>1, <2>1 DEF RangeLess
  <2>3. u[i] \in Span
    BY <1>1, <2>1
  <2>. QED  BY <2>2, <2>3, SpanNumbers
<1>6. ASSUME NEW i \in m .. Len(u) PROVE x.start <= u[i].start
  <2>1. m \in 1 .. Len(u) /\ i \in 1 .. Len(u) /\ m <= i
    BY <1>1, <1>4
  <2>2. RangeLess(x, u[m])
    BY <1>1, <1>3, <2>1
  <2>3. u[m] \in Span /\ u[i] \in Span
    BY <1>1, <2>1
  <2>4. x.start <= u[m].start
    BY <2>2, <2>3, SpanNumbers DEF RangeLess
  <2>5. u[m].start <= u[i].start
    BY <2>1 DEF Ascending
  <2>. QED  BY <2>3, <2>4, <2>5, SpanNumbers
<1> HIDE DEF T
<1>7. w \in Seq(Span) /\ Inserted(w, u, m, x)
  BY <1>4, InsertionPlaces
<1> HIDE DEF w
<1>8. /\ Len(w) = Len(u) + 1 /\ w[m] = x
      /\ \A i \in 1 .. m - 1 : w[i] = u[i]
      /\ \A i \in m + 1 .. Len(u) + 1 : w[i] = u[i - 1]
  BY <1>7 DEF Inserted
<1>9. ASSUME NEW i \in 1 .. Len(w), NEW j \in 1 .. Len(w), i <= j PROVE w[i].start <= w[j].start
  <2>1. x.start <= x.start
    BY SpanNumbers
  <2>2. CASE i < m /\ j < m
    <3>1. w[i] = u[i] /\ w[j] = u[j] /\ i \in 1 .. Len(u) /\ j \in 1 .. Len(u)
      BY <1>1, <1>4, <1>8, <2>2
    <3>. QED  BY <3>1, <1>9 DEF Ascending
  <2>3. CASE i < m /\ j = m
    <3>1. w[i] = u[i] /\ w[j] = x /\ i \in 1 .. m - 1
      BY <1>1, <1>4, <1>8, <2>3
    <3>. QED  BY <3>1, <1>5
  <2>4. CASE i < m /\ j > m
    <3>1. w[i] = u[i] /\ w[j] = u[j - 1] /\ i \in 1 .. Len(u) /\ j - 1 \in 1 .. Len(u) /\ i <= j - 1
      BY <1>1, <1>4, <1>8, <2>4
    <3>. QED  BY <3>1 DEF Ascending
  <2>5. CASE i = m /\ j = m
    BY <1>8, <2>1, <2>5
  <2>6. CASE i = m /\ j > m
    <3>1. w[i] = x /\ w[j] = u[j - 1] /\ j - 1 \in m .. Len(u)
      BY <1>1, <1>4, <1>8, <2>6
    <3>. QED  BY <3>1, <1>6
  <2>7. CASE i > m
    <3>1. w[i] = u[i - 1] /\ w[j] = u[j - 1] /\ i - 1 \in 1 .. Len(u) /\ j - 1 \in 1 .. Len(u) /\ i - 1 <= j - 1
      BY <1>1, <1>4, <1>8, <1>9, <2>7
    <3>. QED  BY <3>1 DEF Ascending
  <2>. QED  BY <1>1, <1>4, <1>8, <1>9, <2>2, <2>3, <2>4, <2>5, <2>6, <2>7
<1>10. Range(w) = Range(u) \cup {x}
  <2>1. /\ \A i \in DOMAIN u : \E j \in DOMAIN w : w[j] = u[i]
        /\ \E j \in DOMAIN w : w[j] = x
        /\ \A j \in DOMAIN w : w[j] = x \/ \E i \in DOMAIN u : w[j] = u[i]
    BY <1>4, Insertion DEF w
  <2>2. Range(w) = {w[j] : j \in DOMAIN w} /\ Range(u) = {u[j] : j \in DOMAIN u}
    BY DEF Range
  <2>3. ASSUME NEW y \in Range(w) PROVE y \in Range(u) \cup {x}
    BY <2>1, <2>2
  <2>4. ASSUME NEW y \in Range(u) \cup {x} PROVE y \in Range(w)
    BY <2>1, <2>2
  <2>. QED  BY <2>3, <2>4
<1>11. Ascending(w)
  BY <1>9 DEF Ascending
<1>. QED  BY <1>7, <1>10, <1>11 DEF w, m, T
(* Sorting loses no range and adds none. *)
LEMMA SortedSpans ==
  ASSUME NEW ranges \in Seq(Span)
  PROVE  /\ Sorted(ranges) \in Seq(Span) /\ Ascending(Sorted(ranges))
         /\ Range(Sorted(ranges)) = Range(ranges)
<1> DEFINE K == Len(ranges)
           S == {s \in Seq(Span) : Ascending(s)}
           step(y, n) == InsertAt(y, Min({i \in DOMAIN y : RangeLess(ranges[n], y[i])} \cup {Len(y) + 1}), ranges[n])
           G == [p \in (1 .. K) \X S |-> step(p[2], p[1])]
           F(y) == [i \in 0 .. K |-> IF i = 0 THEN <<>> ELSE step(y[i - 1], i)]
           z == CHOOSE y : y = F(y)
           So(n) == Range(z[n]) = {ranges[i] : i \in 1 .. n}
<1>0. DOMAIN ranges = 1 .. K /\ \A n \in 1 .. K : ranges[n] \in Span
  OBVIOUS
<1>1. K \in Nat /\ <<>> \in S
  BY DEF Ascending
<1>2. \A y \in S : \A n \in 1 .. K : step(y, n) \in S /\ Range(step(y, n)) = Range(y) \cup {ranges[n]}
  <2> SUFFICES ASSUME NEW y \in S, NEW n \in 1 .. K
               PROVE  step(y, n) \in S /\ Range(step(y, n)) = Range(y) \cup {ranges[n]}
    OBVIOUS
  <2>1. y \in Seq(Span) /\ Ascending(y) /\ ranges[n] \in Span
    BY <1>0
  <2>2. step(y, n) \in Seq(Span) /\ Ascending(step(y, n)) /\ Range(step(y, n)) = Range(y) \cup {ranges[n]}
    BY <2>1, SortOne
  <2> HIDE DEF step
  <2>. QED  BY <2>2
<1>3. Sorted(ranges) = z[K]
  BY DEF Sorted
<1> HIDE DEF step, S, z, K
<1>4. G \in [(1 .. K) \X S -> S]
  <2> SUFFICES ASSUME NEW p \in (1 .. K) \X S PROVE step(p[2], p[1]) \in S
    OBVIOUS
  <2>1. p[1] \in 1 .. K /\ p[2] \in S
    OBVIOUS
  <2>. QED  BY <1>2, <2>1
<1>5. \A n \in 1 .. K : \A y \in S : G[<<n, y>>] = step(y, n)
  OBVIOUS
<1> HIDE DEF G
<1>6. PICK f : Iteration(f, K, S, <<>>, G)
  BY <1>1, <1>4, Iterates
<1>7. f \in [0 .. K -> S] /\ f[0] = <<>> /\ \A n \in 1 .. K : f[n] = step(f[n - 1], n)
  <2>1. f \in [0 .. K -> S] /\ f[0] = <<>> /\ \A n \in 1 .. K : f[n] = G[<<n, f[n - 1]>>]
    BY <1>6 DEF Iteration
  <2>2. \A n \in 1 .. K : f[n - 1] \in S
    BY <1>1, <2>1
  <2>. QED  BY <1>5, <2>1, <2>2
<1>8. f = F(f)
  <2>1. \A i \in 0 .. K : f[i] = IF i = 0 THEN <<>> ELSE step(f[i - 1], i)
    BY <1>1, <1>7
  <2>. QED  BY <1>7, <2>1, Zenon
<1>9. z = F(z)
  <2> HIDE DEF F
  <2>. QED  BY <1>8 DEF z
<1>10. z[0] = <<>> /\ \A n \in 1 .. K : z[n] = step(z[n - 1], n)
  BY <1>1, <1>9
<1> HIDE DEF F
<1>11. \A n \in 0 .. K : z[n] \in S
  <2>1. z[0] \in S /\ \A n \in 1 .. K : z[n - 1] \in S => z[n] \in S
    BY <1>1, <1>2, <1>10
  <2>. QED  BY <1>1, <2>1, Stays
<1>12. \A n \in 0 .. K : So(n)
  <2> DEFINE E == {n \in 0 .. K : So(n)}
  <2>1. 0 \in E
    <3>1. Range(<<>>) = {} /\ 1 .. 0 = {}
      BY DEF Range
    <3>. QED  BY <1>1, <1>10, <3>1
  <2>2. ASSUME NEW n \in 0 .. K - 1, n \in E PROVE n + 1 \in E
    <3>1. n + 1 \in 1 .. K /\ (n + 1) - 1 = n /\ n \in 0 .. K /\ n + 1 \in 0 .. K
      BY <1>1
    <3>2. Range(z[n + 1]) = Range(z[n]) \cup {ranges[n + 1]}
      BY <1>2, <1>10, <1>11, <3>1
    <3>3. Range(z[n]) = {ranges[i] : i \in 1 .. n}
      BY <2>2
    <3>4. {ranges[i] : i \in 1 .. n} \cup {ranges[n + 1]} = {ranges[i] : i \in 1 .. n + 1}
      BY <3>1
    <3>. QED  BY <3>1, <3>2, <3>3, <3>4
  <2>3. 0 .. K \subseteq E
    <3> HIDE DEF E
    <3>. QED  BY <1>1, <2>1, <2>2, UpTo
  <2>. QED  BY <2>3
<1>13. K \in 0 .. K
  BY <1>1
<1>14. Range(ranges) = {ranges[i] : i \in 1 .. K}
  BY <1>0 DEF Range
<1>15. z[K] \in S /\ Range(z[K]) = Range(ranges)
  BY <1>11, <1>12, <1>13, <1>14
<1>. QED  BY <1>3, <1>15 DEF S

LEMMA CoalescedType ==
  ASSUME NEW u \in Seq(Span), NEW x \in Span
  PROVE  Coalesced(u, x) \in Seq(Span)
<1>1. CASE u = <<>>
  BY <1>1 DEF Coalesced
<1>2. CASE u # <<>>
  <2> DEFINE p == Last(u)
             q == Range_t(p.start, x.end)
  <2>1. p \in Span
    BY <1>2 DEF Last
  <2>2. q \in Span
    BY <2>1 DEF Span, Range_t
  <2>3. Front(u) \in Seq(Span)
    BY <1>2 DEF Front
  <2>4. Coalesced(u, x) \in {u, Append(Front(u), q), Append(u, x)}
    BY <1>2 DEF Coalesced
  <2> HIDE DEF q
  <2>5. Append(Front(u), q) \in Seq(Span)
    BY <2>2, <2>3
  <2>6. Append(u, x) \in Seq(Span)
    OBVIOUS
  <2>. QED  BY <2>4, <2>5, <2>6, Zenon
<1>. QED  BY <1>1, <1>2

LEMMA AppendRange ==
  ASSUME NEW S, NEW u \in Seq(S), NEW x \in S
  PROVE  Append(u, x) \in Seq(S) /\ Append(u, x) # <<>> /\ Last(Append(u, x)) = x
         /\ Range(Append(u, x)) = Range(u) \cup {x}
<1> DEFINE w == Append(u, x)
<1>1. /\ w \in Seq(S) /\ Len(w) = Len(u) + 1 /\ Len(u) \in Nat
      /\ DOMAIN w = 1 .. Len(u) + 1 /\ DOMAIN u = 1 .. Len(u)
      /\ w[Len(u) + 1] = x /\ \A i \in 1 .. Len(u) : w[i] = u[i]
  OBVIOUS
<1> HIDE DEF w
<1>2. w # <<>> /\ Last(w) = x
  BY <1>1 DEF Last
<1>3. Range(w) = {w[j] : j \in DOMAIN w} /\ Range(u) = {u[j] : j \in DOMAIN u}
  BY DEF Range
<1>4. ASSUME NEW y \in Range(w) PROVE y \in Range(u) \cup {x}
  BY <1>1, <1>3
<1>5. ASSUME NEW y \in Range(u) \cup {x} PROVE y \in Range(w)
  BY <1>1, <1>3
<1>6. Range(w) = Range(u) \cup {x}
  BY <1>4, <1>5
<1>. QED  BY <1>1, <1>2, <1>6 DEF w

LEMMA FrontLast ==
  ASSUME NEW S, NEW u \in Seq(S), u # <<>>
  PROVE  Front(u) \in Seq(S) /\ Last(u) \in S /\ u = Append(Front(u), Last(u))
<1>1. Len(u) \in Nat \ {0} /\ Last(u) \in S
  BY DEF Last
<1>2. Front(u) \in Seq(S) /\ Len(Front(u)) = Len(u) - 1 /\ \A i \in 1 .. Len(u) - 1 : Front(u)[i] = u[i]
  <2> DEFINE m == Len(u) - 1
             f == SubSeq(u, 1, m)
  <2>1. m \in Nat /\ m <= Len(u)
    BY <1>1
  <2>2. f \in Seq(S) /\ Len(f) = m /\ \A i \in 1 .. m : f[i] = u[i]
    <3> HIDE DEF m
    <3>. QED  BY <2>1
  <2>. QED  BY <2>2 DEF Front
<1>3. u[Len(u)] = Last(u)
  BY DEF Last
<1>. QED  BY <1>1, <1>2, <1>3

(* An unsigned difference below 2 is a difference below 2. *)
LEMMA NoWrap ==
  ASSUME NEW A \in Nat, NEW d \in Int, 1 - A < d, d < A, d % A <= 1
  PROVE  d \in {0, 1}
<1>1. CASE d >= 0
  <2>1. d \in Nat /\ d % A = d
    BY <1>1, SmallModulo
  <2>. QED  BY <2>1
<1>2. CASE d < 0
  <2>1. d + A \in Nat /\ d + A < A /\ d + A > 1
    BY <1>2
  <2>2. d % A = d + A
    BY <2>1
  <2>. QED  BY <2>1, <2>2
<1>. QED  BY <1>1, <1>2

(* One turn of coalesce_ranges covers what was covered and the range it    *)
(* looks at, and nothing else: two ranges are joined only when no address  *)
(* lies between them.                                                      *)
LEMMA CoalescedCovers ==
  ASSUME NEW u \in Seq(Span), NEW x \in Span, u # <<>> => Last(u).start <= x.start, NEW a \in Nat
  PROVE  /\ Coalesced(u, x) # <<>> /\ Last(Coalesced(u, x)).start <= x.start
         /\ Covered(Range(Coalesced(u, x)), a) <=> Covered(Range(u), a) \/ Covered({x}, a)
<1>0. x.start \in Nat /\ x.end \in Nat /\ x.start < AddrSpace /\ x.end < AddrSpace /\ AddrSpace \in Nat
  BY SpanNumbers, AddrSpaceAssumption DEF Addr
<1>1. CASE u = <<>>
  <2>1. Coalesced(u, x) = <<x>>
    BY <1>1 DEF Coalesced
  <2>2. Range(<<x>>) = {x} /\ Range(u) = {} /\ Last(<<x>>) = x
    BY <1>1 DEF Range, Last
  <2>. QED  BY <1>0, <2>1, <2>2 DEF Covered
<1>2. CASE u # <<>>
  <2> DEFINE p == Last(u)
             v == Front(u)
             q == Range_t(p.start, x.end)
  <2>1. v \in Seq(Span) /\ p \in Span /\ u = Append(v, p) /\ p.start <= x.start
    BY <1>2, FrontLast
  <2>2. q \in Span /\ q.start = p.start /\ q.end = x.end
    BY <2>1 DEF Span, Range_t
  <2>3. p.start \in Nat /\ p.end \in Nat /\ p.start < AddrSpace /\ p.end < AddrSpace
    BY <2>1, SpanNumbers, AddrSpaceAssumption DEF Addr
  <2>4. Range(u) = Range(v) \cup {p}
    <3> HIDE DEF v, p
    <3>. QED  BY <2>1, AppendRange
  <2>5. CASE x.end <= p.end
    <3>1. Coalesced(u, x) = u
      <4>1. ~(x.end > p.end)
        BY <1>0, <2>3, <2>5
      <4>. QED  BY <1>2, <2>5, <4>1 DEF Coalesced
    <3>2. Covered({x}, a) => Covered({p}, a)
      BY <1>0, <2>1, <2>3, <2>5 DEF Covered
    <3>. QED  BY <1>2, <2>1, <2>4, <3>1, <3>2 DEF Covered
  <2>6. CASE x.end > p.end /\ Joined(p, x)
    <3>1. Coalesced(u, x) = Append(v, q)
      BY <1>0, <1>2, <2>3, <2>6 DEF Coalesced
    <3>2. x.start - p.end \in {0, 1}
      <4> DEFINE d == x.start - p.end
      <4>1. d \in Int /\ 1 - AddrSpace < d /\ d < AddrSpace
        BY <1>0, <2>3, <2>6
      <4>2. d % AddrSpace <= 1
        BY <2>6 DEF Joined, uint64
      <4> HIDE DEF d
      <4>3. d \in {0, 1}
        BY <1>0, <4>1, <4>2, NoWrap
      <4>. QED  BY <4>3 DEF d
    <3>3. Covered({q}, a) <=> Covered({p}, a) \/ Covered({x}, a)
      <4>1. \A r : Covered({r}, a) <=> r.start <= a /\ a <= r.end
        BY Zenon DEF Covered
      <4>2. q.start <= a /\ a <= q.end <=> (p.start <= a /\ a <= p.end) \/ (x.start <= a /\ a <= x.end)
        BY <1>0, <2>1, <2>2, <2>3, <2>6, <3>2
      <4>. QED  BY <4>1, <4>2, Zenon
    <3> HIDE DEF v, p, q
    <3>4. Append(v, q) # <<>> /\ Last(Append(v, q)) = q /\ Range(Append(v, q)) = Range(v) \cup {q}
      BY <2>1, <2>2, AppendRange
    <3>. QED  BY <2>1, <2>2, <2>4, <3>1, <3>3, <3>4 DEF Covered
  <2>7. CASE x.end > p.end /\ ~Joined(p, x)
    <3>1. Coalesced(u, x) = Append(u, x)
      BY <1>0, <1>2, <2>3, <2>7 DEF Coalesced
    <3>2. Append(u, x) # <<>> /\ Last(Append(u, x)) = x /\ Range(Append(u, x)) = Range(u) \cup {x}
      BY AppendRange
    <3>. QED  BY <1>0, <3>1, <3>2 DEF Covered
  <2>. QED  BY <1>0, <2>3, <2>5, <2>6, <2>7
<1>. QED  BY <1>1, <1>2

(* The ranges coalesce_ranges returns cover the addresses of those it was  *)
(* given.                                                                  *)
LEMMA CoalesceCovers ==
  ASSUME NEW ranges \in Seq(Span)
  PROVE  /\ coalesce_ranges(ranges) \in Seq(Span)
         /\ \A a \in Nat : Covered(Range(coalesce_ranges(ranges)), a) <=> Covered(Range(ranges), a)
<1> DEFINE s == Sorted(ranges)
           K == Len(s)
           S == Seq(Span)
           step(y, n) == Coalesced(y, s[n])
           G == [p \in (1 .. K) \X S |-> step(p[2], p[1])]
           F(y) == [i \in 0 .. K |-> IF i = 0 THEN <<>> ELSE step(y[i - 1], i)]
           z == CHOOSE y : y = F(y)
           So(n) == /\ n > 0 => z[n] # <<>> /\ Last(z[n]).start <= s[n].start
                    /\ \A a \in Nat : Covered(Range(z[n]), a) <=> Covered({s[i] : i \in 1 .. n}, a)
<1>1. s \in Seq(Span) /\ Ascending(s) /\ Range(s) = Range(ranges)
  BY SortedSpans
<1>2. coalesce_ranges(ranges) = z[K]
  BY DEF coalesce_ranges
<1> HIDE DEF s
<1>3. K \in Nat /\ <<>> \in S /\ DOMAIN s = 1 .. K /\ \A n \in 1 .. K : s[n] \in Span
  BY <1>1
<1>4. \A y \in S : \A n \in 1 .. K : step(y, n) \in S
  BY <1>3, CoalescedType
<1>5. \A i, j \in 1 .. K : i <= j => s[i].start <= s[j].start
  BY <1>1 DEF Ascending
<1>6. ASSUME NEW y \in S, NEW n \in 1 .. K, y # <<>> => Last(y).start <= s[n].start
      PROVE  /\ step(y, n) # <<>> /\ Last(step(y, n)).start <= s[n].start
             /\ \A a \in Nat : Covered(Range(step(y, n)), a) <=> Covered(Range(y), a) \/ Covered({s[n]}, a)
  BY <1>3, <1>6, CoalescedCovers
<1>20. \A y \in S : y # <<>> => Last(y) \in Span
  BY FrontLast
<1> HIDE DEF step, S, z, K
<1>7. G \in [(1 .. K) \X S -> S]
  <2> SUFFICES ASSUME NEW p \in (1 .. K) \X S PROVE step(p[2], p[1]) \in S
    OBVIOUS
  <2>1. p[1] \in 1 .. K /\ p[2] \in S
    OBVIOUS
  <2>. QED  BY <1>4, <2>1
<1>8. \A n \in 1 .. K : \A y \in S : G[<<n, y>>] = step(y, n)
  OBVIOUS
<1> HIDE DEF G
<1>9. PICK f : Iteration(f, K, S, <<>>, G)
  BY <1>3, <1>7, Iterates
<1>10. f \in [0 .. K -> S] /\ f[0] = <<>> /\ \A n \in 1 .. K : f[n] = step(f[n - 1], n)
  <2>1. f \in [0 .. K -> S] /\ f[0] = <<>> /\ \A n \in 1 .. K : f[n] = G[<<n, f[n - 1]>>]
    BY <1>9 DEF Iteration
  <2>2. \A n \in 1 .. K : f[n - 1] \in S
    BY <1>3, <2>1
  <2>. QED  BY <1>8, <2>1, <2>2
<1>11. f = F(f)
  <2>1. \A i \in 0 .. K : f[i] = IF i = 0 THEN <<>> ELSE step(f[i - 1], i)
    BY <1>3, <1>10
  <2>. QED  BY <1>10, <2>1, Zenon
<1>12. z = F(z)
  <2> HIDE DEF F
  <2>. QED  BY <1>11 DEF z
<1>13. z[0] = <<>> /\ \A n \in 1 .. K : z[n] = step(z[n - 1], n)
  BY <1>3, <1>12
<1> HIDE DEF F
<1>14. \A n \in 0 .. K : z[n] \in S
  <2>1. z[0] \in S /\ \A n \in 1 .. K : z[n - 1] \in S => z[n] \in S
    BY <1>3, <1>4, <1>13
  <2>. QED  BY <1>3, <2>1, Stays
<1>15. \A n \in 0 .. K : So(n)
  <2> DEFINE E == {n \in 0 .. K : So(n)}
  <2>1. 0 \in E
    <3>1. Range(<<>>) = {} /\ {s[i] : i \in 1 .. 0} = {}
      BY DEF Range
    <3>2. Range(z[0]) = {s[i] : i \in 1 .. 0}
      BY <1>13, <3>1
    <3>3. \A a \in Nat : Covered(Range(z[0]), a) <=> Covered({s[i] : i \in 1 .. 0}, a)
      BY <3>2
    <3>4. So(0)
      BY <3>3
    <3> HIDE DEF So
    <3>. QED  BY <1>3, <3>4
  <2>2. ASSUME NEW n \in 0 .. K - 1, n \in E PROVE n + 1 \in E
    <3> DEFINE m == n + 1
    <3>1. m \in 1 .. K /\ m - 1 = n /\ n \in 0 .. K /\ m \in 0 .. K /\ n \in Nat
      BY <1>3
    <3>2. So(n)
      BY <2>2
    <3>3. z[n] \in S /\ z[m] = step(z[n], m)
      BY <1>13, <1>14, <3>1
    <3>4. z[n] # <<>> => Last(z[n]).start <= s[m].start
      <4>1. CASE n = 0
        BY <4>1, <1>13
      <4>2. CASE n > 0
        <5>1. Last(z[n]).start <= s[n].start
          BY <3>2, <4>2
        <5>2. n \in 1 .. K /\ n <= m
          BY <1>3, <3>1, <4>2
        <5>3. s[n].start <= s[m].start
          BY <1>5, <3>1, <5>2
        <5>4. z[n] # <<>> => Last(z[n]).start \in Nat /\ s[n].start \in Nat /\ s[m].start \in Nat
          BY <1>3, <1>20, <3>1, <3>3, <5>2, SpanNumbers
        <5>. QED  BY <5>1, <5>3, <5>4
      <4>. QED  BY <3>1, <4>1, <4>2
    <3>5. /\ z[m] # <<>> /\ Last(z[m]).start <= s[m].start
          /\ \A a \in Nat : Covered(Range(z[m]), a) <=> Covered(Range(z[n]), a) \/ Covered({s[m]}, a)
      BY <1>6, <3>1, <3>3, <3>4
    <3>6. \A a \in Nat : Covered(Range(z[n]), a) <=> Covered({s[i] : i \in 1 .. n}, a)
      BY <3>2
    <3>7. {s[i] : i \in 1 .. m} = {s[i] : i \in 1 .. n} \cup {s[m]}
      BY <3>1
    <3>8. \A a \in Nat : Covered({s[i] : i \in 1 .. m}, a) <=> Covered({s[i] : i \in 1 .. n}, a) \/ Covered({s[m]}, a)
      BY <3>7 DEF Covered
    <3>9. So(m)
      BY <3>5, <3>6, <3>8
    <3> HIDE DEF So
    <3>. QED  BY <3>1, <3>9
  <2>3. 0 .. K \subseteq E
    <3> HIDE DEF E
    <3>. QED  BY <1>3, <2>1, <2>2, UpTo
  <2> HIDE DEF So
  <2>. QED  BY <2>3
<1>16. K \in 0 .. K
  BY <1>3
<1>17. Range(ranges) = {s[i] : i \in 1 .. K}
  BY <1>1, <1>3 DEF Range
<1>18. z[K] \in Seq(Span)
  BY <1>14, <1>16 DEF S
<1>19. So(K)
  <2> HIDE DEF So
  <2>. QED  BY <1>15, <1>16
<1>. QED  BY <1>2, <1>17, <1>18, <1>19

(* What the header is made from *)
LEMMA GivenSpans ==
  ASSUME NEW c \in Inputs, NEW code
  PROVE  get_soc_ranges(c.soc, c.policy) \in Seq(Span) /\ SectionRanges(c.image, code) \in Seq(Span)
<1>1. get_soc_ranges(c.soc, c.policy) \in Seq(Span)
  <2> DEFINE soc == c.soc
             K == Len(soc)
             used(e) == e.name \in DOMAIN entity_initializers(c.policy) \ soc_exclude
             range(e) == Where(used(e), Range_t(e.start, e.end))
             u == [i \in DOMAIN soc |-> range(soc[i])]
  <2>1. Sequence(soc)
    BY InputsAssumption
  <2>2. K \in Nat /\ DOMAIN soc = 1 .. K
    <3> HIDE DEF soc
    <3>. QED  BY <2>1 DEF Sequence
  <2>3. ASSUME NEW i \in DOMAIN soc PROVE range(soc[i]) \in Seq(Span)
    <3> DEFINE e == soc[i]
    <3>1. e.start \in Addr /\ e.end \in Addr
      BY InputsAssumption DEF Addr
    <3> HIDE DEF e, used
    <3>2. Range_t(e.start, e.end) \in Span
      BY <3>1 DEF Range_t, Span
    <3>3. range(e) \in Seq(Span)
      BY <3>2, WhereType
    <3> HIDE DEF range
    <3>. QED  BY <3>3 DEF e
  <2>4. get_soc_ranges(c.soc, c.policy) = FlattenSeq(u)
    BY DEF get_soc_ranges
  <2> HIDE DEF range
  <2>5. u \in [1 .. K -> Seq(Span)]
    BY <2>2, <2>3
  <2> HIDE DEF u, K, soc
  <2>. QED  BY <2>2, <2>4, <2>5, Flatten
<1>2. SectionRanges(c.image, code) \in Seq(Span)
  <2> DEFINE secs == c.image.sections
             K == Len(secs)
             flags == {"ALLOC", "WRITE", "EXECINSTR"}
             is_code(s) == s.flags \cap flags = {"ALLOC", "EXECINSTR"}
             taken(s) == "ALLOC" \in s.flags /\ is_code(s) = code
             range(s) == Where(taken(s), address_range(s))
             u == [i \in DOMAIN secs |-> range(secs[i])]
  <2>1. K \in Nat /\ DOMAIN secs = 1 .. K
    BY InputSections
  <2>2. ASSUME NEW i \in DOMAIN secs PROVE range(secs[i]) \in Seq(Span)
    <3> DEFINE s == secs[i]
    <3>1. s.address \in Addr /\ s.address \in Nat /\ s.size \in Nat
      BY InputSections
    <3> HIDE DEF s, taken
    <3>2. end_address(s) - 1 \in Int
      BY <3>1, EndAddressType
    <3>3. uint64(end_address(s) - 1) \in Addr
      BY <3>2, Uint64Type
    <3>4. address_range(s) \in Span
      BY <3>1, <3>3 DEF address_range, Span
    <3>5. range(s) \in Seq(Span)
      BY <3>4, WhereType
    <3> HIDE DEF range
    <3>. QED  BY <3>5 DEF s
  <2>3. SectionRanges(c.image, code) = FlattenSeq(u)
    BY DEF SectionRanges
  <2> HIDE DEF range
  <2>4. u \in [1 .. K -> Seq(Span)]
    BY <2>1, <2>2
  <2> HIDE DEF u, K, secs
  <2>. QED  BY <2>1, <2>3, <2>4, Flatten
<1>. QED  BY <1>1, <1>2

(* For every program, policy and SOC: the data ranges of the header of a   *)
(* firmware file cover the addresses of the data sections and of the SOC   *)
(* elements in use and no others, however sort and coalesce_ranges order   *)
(* and join them.                                                          *)
THEOREM TaggingHeaderCovers == TaggingSpec => []HeaderCovers
<1>1. RangeInv => HeaderCovers
  <2> SUFFICES ASSUME input \in Inputs PROVE HeaderCovers
    BY DEF RangeInv
  <2> DEFINE h == Headers(image, policy, input.soc)
             given == get_soc_ranges(input.soc, policy) \o SectionRanges(image, FALSE)
             data == coalesce_ranges(given)
  <2>1. given \in Seq(Span)
    <3> DEFINE g == get_soc_ranges(input.soc, policy)
               t == SectionRanges(image, FALSE)
    <3>1. g \in Seq(Span) /\ t \in Seq(Span)
      BY GivenSpans DEF image, policy
    <3> HIDE DEF g, t
    <3>2. g \o t \in Seq(Span)
      BY <3>1
    <3>. QED  BY <3>2 DEF g, t
  <2>2. h.data = [i \in DOMAIN data |-> <<data[i].start, data[i].end,
                    get_soc_granularity(input.soc, data[i], word_bytes(image))>>]
    BY DEF Headers
  <2> HIDE DEF h, given
  <2>3. data \in Seq(Span) /\ \A a \in Nat : Covered(Range(data), a) <=> Covered(Range(given), a)
    BY <2>1, CoalesceCovers
  <2> HIDE DEF data
  <2>4. ASSUME NEW a \in WordAddrs
        PROVE (\E i \in DOMAIN h.data : h.data[i][1] <= a /\ a <= h.data[i][2])
                <=> (\E i \in DOMAIN given : given[i].start <= a /\ a <= given[i].end)
    <3>1. a \in Nat
      BY WordAssumption
    <3>2. DOMAIN h.data = DOMAIN data /\ \A i \in DOMAIN data : h.data[i][1] = data[i].start /\ h.data[i][2] = data[i].end
      BY <2>2
    <3>3. Covered(Range(data), a) <=> \E i \in DOMAIN data : data[i].start <= a /\ a <= data[i].end
      BY DEF Covered, Range
    <3>4. Covered(Range(given), a) <=> \E i \in DOMAIN given : given[i].start <= a /\ a <= given[i].end
      BY DEF Covered, Range
    <3>. QED  BY <2>3, <3>1, <3>2, <3>3, <3>4
  <2>5. \E hh \in {h} : \E gg \in {given} : \A a \in WordAddrs :
          (\E i \in DOMAIN hh.data : hh.data[i][1] <= a /\ a <= hh.data[i][2])
            <=> (\E i \in DOMAIN gg : gg[i].start <= a /\ a <= gg[i].end)
    BY <2>4
  <2>. QED  BY <2>5, Zenon DEF HeaderCovers, h, given
<1>. QED  BY <1>1, RangeInvariant, PTL

=============================================================================
