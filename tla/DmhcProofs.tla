----------------------------- MODULE DmhcProofs -----------------------------
(***************************************************************************)
(* Proofs about the dMHC rule cache: while all rules look at the same      *)
(* operands, every rule it returns is right and every insertion finds the  *)
(* rule it inserted, for any number of hash functions, any hash functions  *)
(* and any capacity whose addresses are closed under exclusive or.         *)
(***************************************************************************)
EXTENDS Dmhc, WellFoundedInduction, TLAPS

-----------------------------------------------------------------------------
(* Naturals *)

LEMMA LeastNatural ==
  ASSUME NEW T, T \subseteq Nat, T # {}
  PROVE  \E x \in T : \A y \in T : x <= y
<1> DEFINE R == OpToRel(<, Nat)
<1>1. IsWellFoundedOn(R, Nat)
  BY NatLessThanWellFounded
<1>2. \A x, y \in Nat : <<y, x>> \in R <=> y < x
  BY DEF OpToRel
<1> HIDE DEF R
<1>3. PICK x \in T : \A y \in T : ~(<<y, x>> \in R)
  BY <1>1, WFMin
<1>4. \A y \in T : ~(y < x)
  BY <1>2, <1>3
<1>. QED  BY <1>4

(* Induction up to m, for a property given as the set of its numbers. *)
LEMMA SetInduction ==
  ASSUME NEW m \in Nat, NEW S, 0 \in S, \A i \in 0 .. m - 1 : i \in S => i + 1 \in S
  PROVE  0 .. m \subseteq S
<1> SUFFICES ASSUME (0 .. m) \ S # {} PROVE FALSE
  OBVIOUS
<1> DEFINE T == (0 .. m) \ S
<1>0. T \subseteq Nat /\ T # {}
  OBVIOUS
<1> HIDE DEF T
<1>1. PICK x \in T : \A y \in T : x <= y
  BY <1>0, LeastNatural
<1> USE DEF T
<1>2. x # 0 /\ x - 1 \in 0 .. m - 1
  BY <1>1
<1>3. x - 1 \in S
  BY <1>1, <1>2
<1>. QED  BY <1>1, <1>2, <1>3

-----------------------------------------------------------------------------
(* Exclusive or *)

(* x is the running exclusive or of the numbers n. *)
Running(x, n) == /\ x \in [0 .. K -> Word]
                 /\ x[0] = 0
                 /\ \A i \in 0 .. K - 1 : x[i + 1] = BitXor(x[i], n[i])

(* The loop of lookup is well defined, and its result is its last value. *)
LEMMA XorAllRuns ==
  ASSUME NEW n \in [Hs -> Word]
  PROVE  \E x : Running(x, n) /\ XorAll(n) = x[K]
<1>1. K \in Nat \ {0} /\ 0 \in Word /\ Hs = 0 .. K - 1
  BY DmhcAssumption, XorAssumption DEF Hs
<1> DEFINE Upto(m) == {x \in [0 .. m -> Word] :
                         x[0] = 0 /\ \A i \in 0 .. m - 1 : x[i + 1] = BitXor(x[i], n[i])}
           S == {m \in 0 .. K : Upto(m) # {}}
<1>2. 0 \in S
  <2>1. [i \in 0 .. 0 |-> 0] \in Upto(0)
    BY <1>1
  <2>. QED  BY <1>1, <2>1
<1>3. ASSUME NEW m \in 0 .. K - 1, m \in S PROVE m + 1 \in S
  <2>1. PICK x \in [0 .. m -> Word] :
          x[0] = 0 /\ \A i \in 0 .. m - 1 : x[i + 1] = BitXor(x[i], n[i])
    BY <1>3
  <2> DEFINE y == [i \in 0 .. m + 1 |-> IF i = m + 1 THEN BitXor(x[m], n[m]) ELSE x[i]]
  <2>2. x[m] \in Word /\ n[m] \in Word /\ BitXor(x[m], n[m]) \in Word
    BY <1>1, <2>1, XorAssumption
  <2>3. y \in [0 .. m + 1 -> Word]
    BY <1>1, <2>1, <2>2
  <2>4. y[0] = 0 /\ \A i \in 0 .. m : y[i + 1] = BitXor(y[i], n[i])
    <3>1. (\A i \in 0 .. m : y[i] = x[i]) /\ y[m + 1] = BitXor(x[m], n[m])
      BY <1>1
    <3> HIDE DEF y
    <3>2. y[0] = 0
      BY <2>1, <3>1
    <3>3. ASSUME NEW i \in 0 .. m - 1 PROVE y[i + 1] = BitXor(y[i], n[i])
      <4>1. i \in 0 .. m /\ i + 1 \in 0 .. m
        OBVIOUS
      <4>. QED  BY <2>1, <3>1, <4>1
    <3>4. y[m + 1] = BitXor(y[m], n[m])
      BY <3>1
    <3>5. \A i \in 0 .. m : i \in 0 .. m - 1 \/ i = m
      OBVIOUS
    <3>. QED  BY <3>2, <3>3, <3>4, <3>5
  <2> HIDE DEF y
  <2>5. y \in Upto(m + 1)
    <3>1. (m + 1) - 1 = m
      OBVIOUS
    <3>. QED  BY <2>3, <2>4, <3>1
  <2>. QED  BY <1>1, <2>5
<1>4. Upto(K) # {}
  <2> HIDE DEF Upto
  <2>1. 0 .. K \subseteq S
    <3> HIDE DEF S
    <3>. QED  BY <1>1, <1>2, <1>3, SetInduction
  <2>. QED  BY <1>1, <2>1
<1>5. PICK x \in [0 .. K -> Word] :
        x[0] = 0 /\ \A i \in 0 .. K - 1 : x[i + 1] = BitXor(x[i], n[i])
  BY <1>4
<1> DEFINE F(y) == [i \in 0 .. K |-> IF i = 0 THEN 0 ELSE BitXor(y[i - 1], n[i - 1])]
           z == CHOOSE y : y = F(y)
<1>6. x = F(x)
  <2>1. \A i \in 0 .. K : x[i] = IF i = 0 THEN 0 ELSE BitXor(x[i - 1], n[i - 1])
    BY <1>1, <1>5
  <2>. QED  BY <1>5, <2>1
<1>7. z = F(z)
  BY <1>6
<1>8. XorAll(n) = z[K]
  BY DEF XorAll
<1> HIDE DEF z
<1>9. z = x
  <2> DEFINE E == {i \in 0 .. K : z[i] = x[i]}
  <2>1. 0 \in E
    BY <1>1, <1>5, <1>7
  <2>2. \A i \in 0 .. K - 1 : i \in E => i + 1 \in E
    <3>1. \A i \in 0 .. K - 1 : z[i + 1] = BitXor(z[i], n[i])
      BY <1>1, <1>7
    <3>. QED  BY <1>1, <1>5, <3>1
  <2>3. 0 .. K \subseteq E
    <3> HIDE DEF E
    <3>. QED  BY <1>1, <2>1, <2>2, SetInduction
  <2>4. \A i \in 0 .. K : z[i] = x[i]
    BY <2>3
  <2>. QED  BY <1>5, <1>7, <2>4
<1>. QED  BY <1>5, <1>8, <1>9 DEF Running

LEMMA XorLaws ==
  ASSUME NEW a \in Word, NEW b \in Word, NEW c \in Word
  PROVE  /\ BitXor(a, b) \in Word
         /\ BitXor(BitXor(a, b), b) = a
         /\ BitXor(a, BitXor(a, b)) = b
         /\ BitXor(BitXor(a, b), c) = BitXor(BitXor(a, c), b)
<1>0. 0 \in Word
  BY DmhcAssumption, XorAssumption
<1>1. BitXor(a, b) \in Word /\ BitXor(b, c) \in Word /\ BitXor(b, c) = BitXor(c, b)
  BY XorAssumption
<1>2. BitXor(BitXor(a, b), b) = a
  BY XorAssumption
<1>3. BitXor(a, BitXor(a, b)) = b
  <2>1. BitXor(a, BitXor(a, b)) = BitXor(0, b)
    BY XorAssumption
  <2>. QED  BY <1>0, <2>1, XorAssumption
<1>4. BitXor(BitXor(a, b), c) = BitXor(BitXor(a, c), b)
  BY <1>1, XorAssumption
<1>. QED  BY <1>1, <1>2, <1>3, <1>4

(* Changing one number changes the exclusive or by the old and the new. *)
LEMMA XorAllChange ==
  ASSUME NEW n \in [Hs -> Word], NEW j \in Hs, NEW v \in Word
  PROVE  /\ XorAll(n) \in Word
         /\ XorAll([n EXCEPT ![j] = v]) = BitXor(BitXor(XorAll(n), n[j]), v)
<1> DEFINE p == [n EXCEPT ![j] = v]
<1>0. K \in Nat \ {0} /\ Hs = 0 .. K - 1
  BY DmhcAssumption DEF Hs
<1>1. p \in [Hs -> Word] /\ p[j] = v /\ \A i \in Hs : i # j => p[i] = n[i]
  OBVIOUS
<1> HIDE DEF p
<1>2. PICK x : Running(x, n) /\ XorAll(n) = x[K]
  BY XorAllRuns
<1>3. PICK y : Running(y, p) /\ XorAll(p) = y[K]
  BY <1>1, XorAllRuns
<1>4. \A i \in 0 .. K : x[i] \in Word /\ y[i] \in Word
  BY <1>2, <1>3 DEF Running
<1>5. \A i \in Hs : n[i] \in Word
  OBVIOUS
<1> DEFINE Changed(i) == IF i <= j THEN x[i] ELSE BitXor(BitXor(x[i], n[j]), v)
           E == {i \in 0 .. K : y[i] = Changed(i)}
<1>6. 0 \in E
  BY <1>0, <1>2, <1>3 DEF Running
<1>7. ASSUME NEW i \in 0 .. K - 1, y[i] = Changed(i) PROVE y[i + 1] = Changed(i + 1)
  <2>1. x[i + 1] = BitXor(x[i], n[i]) /\ y[i + 1] = BitXor(y[i], p[i])
    BY <1>2, <1>3 DEF Running
  <2>2. CASE i < j
    BY <1>0, <1>1, <1>7, <2>1, <2>2
  <2>3. CASE i = j
    <3>1. y[i + 1] = BitXor(x[i], v)
      BY <1>0, <1>1, <1>7, <2>1, <2>3
    <3>2. BitXor(BitXor(x[i + 1], n[j]), v) = BitXor(x[i], v)
      <4>1. x[i] \in Word /\ n[j] \in Word /\ x[i + 1] = BitXor(x[i], n[j])
        BY <1>0, <1>4, <1>5, <2>1, <2>3
      <4>2. BitXor(x[i + 1], n[j]) = x[i]
        BY <4>1, XorLaws
      <4>. QED  BY <4>2
    <3>. QED  BY <1>0, <2>3, <3>1, <3>2
  <2>4. CASE i > j
    <3>1. y[i + 1] = BitXor(BitXor(BitXor(x[i], n[j]), v), n[i])
      BY <1>0, <1>1, <1>7, <2>1, <2>4
    <3>2. x[i] \in Word /\ n[j] \in Word /\ n[i] \in Word /\ BitXor(x[i], n[j]) \in Word
      BY <1>0, <1>4, <1>5, XorAssumption
    <3>3. BitXor(BitXor(BitXor(x[i], n[j]), v), n[i])
            = BitXor(BitXor(BitXor(x[i], n[j]), n[i]), v)
      BY <3>2, XorLaws
    <3>4. BitXor(BitXor(x[i], n[j]), n[i]) = BitXor(x[i + 1], n[j])
      BY <2>1, <3>2, XorLaws
    <3>. QED  BY <1>0, <2>4, <3>1, <3>3, <3>4
  <2>. QED  BY <1>0, <2>2, <2>3, <2>4
<1>8. 0 .. K \subseteq E
  <2>1. \A i \in 0 .. K - 1 : i \in E => i + 1 \in E
    <3> HIDE DEF Changed
    <3>. QED  BY <1>0, <1>7
  <2> HIDE DEF E
  <2>. QED  BY <1>0, <1>6, <2>1, SetInduction
<1>9. y[K] = BitXor(BitXor(x[K], n[j]), v)
  BY <1>0, <1>8
<1>. QED  BY <1>0, <1>2, <1>3, <1>4, <1>9 DEF p

(* Setting a slot to the value of real_insert makes the exclusive or a. *)
LEMMA SlotValueWorks ==
  ASSUME NEW n \in [Hs -> Word], NEW j \in Hs, NEW a \in Word
  PROVE  /\ SlotValue(n[j], XorAll(n), a) \in Word
         /\ XorAll([n EXCEPT ![j] = SlotValue(n[j], XorAll(n), a)]) = a
<1>1. XorAll(n) \in Word /\ n[j] \in Word
  BY XorAllChange
<1> DEFINE s == BitXor(n[j], XorAll(n))
<1>2. s \in Word /\ s = BitXor(XorAll(n), n[j]) /\ BitXor(s, a) \in Word
  BY <1>1, XorAssumption
<1>3. XorAll([n EXCEPT ![j] = BitXor(s, a)]) = BitXor(s, BitXor(s, a))
  BY <1>2, XorAllChange
<1>4. BitXor(s, BitXor(s, a)) = a
  BY <1>2, XorLaws
<1>. QED  BY <1>2, <1>3, <1>4 DEF SlotValue

-----------------------------------------------------------------------------
(* What the theorems assume of an instance *)

Slots == 0 .. TableSize - 1

(* All rules look at the same operands.  hit() compares only the operands  *)
(* of the lookup, and a mixed cache does return wrong rules.               *)
OneMask == \A o, p \in Operand : Consider(o) = Consider(p)

(* The hashes fit their tables: c * capacity is a power of two. *)
HashesFit == \A i \in Hs : \A o \in Operand : Hash[i][o] \in Slots

(* The exclusive or of addresses is an address: capacity is a power of two. *)
AddressesClosed == Word = Addr

Usable == OneMask /\ HashesFit /\ AddressesClosed

-----------------------------------------------------------------------------
(* The tables *)

(* The last user of a table entry is a rule that hashes there. *)
LastUsers(d) ==
  \A i \in Hs : \A j \in Slots :
    LET b == d.gtable_lastinsert[i][j]
    IN  b # InvalidLastUser => d.mtable[b].use /\ Hash[i][d.mtable[b].inputs] = j

Good(d) == d \in Tables /\ (\A a \in Addr : EntryOK(d.mtable[a])) /\ LastUsers(d)

(* What a match table entry can be. *)
Entry == [use : BOOLEAN, inputs : Operand \cup {NoOps},
          outputs : {Outcome[o] : o \in Operand} \cup {NoResults},
          consider : SUBSET OpField]

LEMMA TablesOf ==
  ASSUME NEW d \in Tables
  PROVE  /\ d.gtable \in [Hs -> [Slots -> Word]]
         /\ d.gtable_cnt \in [Hs -> [Slots -> 0 .. GtableMaxCount]]
         /\ d.gtable_lastinsert \in [Hs -> [Slots -> Addr]]
         /\ d.mtable \in [Addr -> Entry]
  BY DEF Tables, Slots, Entry

(* A rule that goes leaves consistent tables and touches no other rule. *)
LEMMA EvictGood ==
  ASSUME HashesFit, NEW d, Good(d), NEW a \in Addr, d.mtable[a].use, NEW protected
  PROVE  LET e == evict_mtable_entry(d, a, protected)
         IN  /\ Good(e)
             /\ ~e.mtable[a].use
             /\ \A b \in Addr \ {a} : e.mtable[b] = d.mtable[b]
<1> DEFINE v == Hashes(d.mtable[a].inputs)
           left == UsersLeft(d, v, protected)
           e == Without(d, a, v, left)
<1>1. d \in Tables /\ d.mtable[a].inputs \in Operand
  BY DEF Good, EntryOK
<1>2. \A i \in Hs : v[i] = Hash[i][d.mtable[a].inputs] /\ v[i] \in Slots
  BY <1>1 DEF Hashes, HashesFit
<1> HIDE DEF v
<1>3. \A i \in Hs : left[i] \in 0 .. GtableMaxCount
  <2>1. \A i \in Hs : CountAt(d, i, v) \in 0 .. GtableMaxCount
    BY <1>1, <1>2, TablesOf DEF CountAt
  <2>. QED  BY <2>1 DEF UsersLeft, GtableMaxCount
<1> HIDE DEF left
<1>4. e.gtable \in [Hs -> [Slots -> Word]]
  <2>1. 0 \in Word
    BY DmhcAssumption, XorAssumption
  <2>2. e.gtable = [i \in Hs |-> [d.gtable[i] EXCEPT ![v[i]] = IF left[i] = 0 THEN 0 ELSE @]]
    BY DEF Without
  <2>. QED  BY <1>1, <1>2, <2>1, <2>2, TablesOf
<1>5. e.gtable_cnt \in [Hs -> [Slots -> 0 .. GtableMaxCount]]
  <2>1. e.gtable_cnt = [i \in Hs |-> [d.gtable_cnt[i] EXCEPT ![v[i]] = left[i]]]
    BY DEF Without
  <2>. QED  BY <1>1, <1>2, <1>3, <2>1, TablesOf
<1>6. /\ e.gtable_lastinsert \in [Hs -> [Slots -> Addr]]
      /\ \A i \in Hs : \A j \in Slots :
           \/ e.gtable_lastinsert[i][j] = InvalidLastUser
           \/ /\ e.gtable_lastinsert[i][j] = d.gtable_lastinsert[i][j]
              /\ j = v[i] => d.gtable_lastinsert[i][j] # a
  <2>1. e.gtable_lastinsert = [i \in Hs |->
          [d.gtable_lastinsert[i] EXCEPT ![v[i]] = LastAfter(@, a, left[i])]]
    BY DEF Without
  <2>2. InvalidLastUser \in Addr
    BY DmhcAssumption DEF InvalidLastUser, Addr
  <2>3. \A i \in Hs : LastAfter(d.gtable_lastinsert[i][v[i]], a, left[i]) \in Addr
    BY <1>1, <1>2, <2>2, TablesOf DEF LastAfter
  <2>. QED  BY <1>1, <1>2, <2>1, <2>3, TablesOf DEF LastAfter
<1>7. /\ e.mtable = [d.mtable EXCEPT ![a] = Vacated(d.mtable[a])]
      /\ Vacated(d.mtable[a]) = [use |-> FALSE, inputs |-> NoOps, outputs |-> NoResults,
                                 consider |-> d.mtable[a].consider]
  BY DEF Without, Vacated
<1>8. /\ e.mtable[a].use = FALSE /\ e.mtable[a].inputs = NoOps
      /\ \A b \in Addr \ {a} : e.mtable[b] = d.mtable[b]
  BY <1>1, <1>7, TablesOf
<1>9. e.mtable \in [Addr -> Entry]
  <2>1. d.mtable[a].consider \in SUBSET OpField
    BY <1>1, TablesOf DEF Entry
  <2>2. Vacated(d.mtable[a]) \in Entry
    BY <1>7, <2>1 DEF Entry
  <2>. QED  BY <1>1, <1>7, <2>2, TablesOf
<1>10. e \in Tables
  BY <1>4, <1>5, <1>6, <1>9 DEF Tables, Slots, Entry, Without
<1>11. \A b \in Addr : EntryOK(e.mtable[b])
  BY <1>8 DEF Good, EntryOK
<1>12. LastUsers(e)
  <2> SUFFICES ASSUME NEW i \in Hs, NEW j \in Slots,
                      e.gtable_lastinsert[i][j] # InvalidLastUser
               PROVE  LET b == e.gtable_lastinsert[i][j]
                      IN  e.mtable[b].use /\ Hash[i][e.mtable[b].inputs] = j
    BY DEF LastUsers
  <2> DEFINE b == d.gtable_lastinsert[i][j]
  <2>1. e.gtable_lastinsert[i][j] = b /\ (j = v[i] => b # a) /\ b \in Addr
    BY <1>1, <1>6, TablesOf
  <2>2. d.mtable[b].use /\ Hash[i][d.mtable[b].inputs] = j
    BY <2>1 DEF Good, LastUsers
  <2>3. b # a
    BY <1>2, <2>1, <2>2
  <2>4. e.mtable[b] = d.mtable[b]
    BY <1>8, <2>1, <2>3
  <2> HIDE DEF b, e
  <2>. QED  BY <2>1, <2>2, <2>4
<1>. QED  BY <1>8, <1>10, <1>11, <1>12 DEF Good, evict_mtable_entry, v, left

(* The least used candidate exists. *)
LEMMA MinUseLeast ==
  ASSUME NEW d, NEW h, NEW C \in SUBSET Hs, C # {}, \A i \in C : CountAt(d, i, h) \in Nat
  PROVE  /\ MinUse(d, h, C) \in C
         /\ \A j \in C : CountAt(d, MinUse(d, h, C), h) <= CountAt(d, j, h)
<1> DEFINE counts == {CountAt(d, i, h) : i \in C}
<1>0. C \subseteq Nat
  BY DmhcAssumption DEF Hs
<1>1. counts \subseteq Nat /\ counts # {}
  OBVIOUS
<1>2. PICK c \in counts : \A x \in counts : c <= x
  <2> HIDE DEF counts
  <2>. QED  BY <1>1, LeastNatural
<1> DEFINE least == {i \in C : CountAt(d, i, h) = c}
<1>3. least \subseteq Nat /\ least # {}
  BY <1>0, <1>2
<1>4. PICK i \in least : \A j \in least : i <= j
  <2> HIDE DEF least
  <2>. QED  BY <1>3, LeastNatural
<1>5. \A j \in C : \/ CountAt(d, i, h) < CountAt(d, j, h)
                   \/ CountAt(d, i, h) = CountAt(d, j, h) /\ i <= j
  <2> SUFFICES ASSUME NEW j \in C
               PROVE  \/ CountAt(d, i, h) < CountAt(d, j, h)
                      \/ CountAt(d, i, h) = CountAt(d, j, h) /\ i <= j
    OBVIOUS
  <2>1. c <= CountAt(d, j, h) /\ CountAt(d, i, h) = c /\ c \in Nat /\ CountAt(d, j, h) \in Nat
    BY <1>1, <1>2
  <2>2. CountAt(d, j, h) = c => i <= j
    BY <1>4
  <2>. QED  BY <2>1, <2>2
<1> DEFINE m == MinUse(d, h, C)
<1>6. /\ m \in C
      /\ \A j \in C : \/ CountAt(d, m, h) < CountAt(d, j, h)
                      \/ CountAt(d, m, h) = CountAt(d, j, h) /\ m <= j
  BY <1>4, <1>5 DEF MinUse
<1> HIDE DEF m
<1>7. \A j \in C : CountAt(d, m, h) <= CountAt(d, j, h)
  BY <1>6
<1>. QED  BY <1>6, <1>7 DEF m

(* A lookup of o finds its rule at a. *)
Holds(d, a, o) == d.mtable[a] = RuleOf(o) /\ AddressOf(d, Hashes(o)) = a /\ Probes(d, o)

(* Operands are blank outside their mask. *)
LEMMA BlankOutside ==
  ASSUME NEW o \in Operand
  PROVE  [f \in OpField |-> IF f \in Consider(o) THEN o[f] ELSE NoOps[f]] = o
<1>1. o \in [OpField -> Nat]
  BY DmhcAssumption
<1>. QED  BY <1>1 DEF Consider, NoOps

LEMMA HashesTyped ==
  ASSUME HashesFit, NEW o \in Operand
  PROVE  \A i \in Hs : Hashes(o)[i] = Hash[i][o] /\ Hashes(o)[i] \in Slots
  BY DEF Hashes, HashesFit

LEMMA RuleTyped ==
  ASSUME NEW o \in Operand
  PROVE  /\ RuleOf(o) = [use |-> TRUE, inputs |-> o, outputs |-> Outcome[o],
                         consider |-> Consider(o)]
         /\ RuleOf(o) \in Entry /\ EntryOK(RuleOf(o))
         /\ RuleOf(o).use = TRUE /\ RuleOf(o).inputs = o /\ RuleOf(o).consider = Consider(o)
         /\ RuleOf(o).outputs = Outcome[o]
<1>1. Consider(o) \in SUBSET OpField
  BY DEF Consider
<1>. QED  BY <1>1 DEF RuleOf, Entry, EntryOK

(* real_insert puts a whole rule into a free entry, leaves the other rules *)
(* and every table entry but one slot alone, and makes the lookup find it. *)
LEMMA InsertGood ==
  ASSUME Usable, NEW d, Good(d), NEW a \in Addr, ~d.mtable[a].use,
         NEW o \in Operand, NEW slot \in Hs
  PROVE  LET e == real_insert(d, a, RuleOf(o), Hashes(o), slot)
         IN  /\ Good(e)
             /\ Holds(e, a, o)
             /\ \A b \in Addr \ {a} : e.mtable[b] = d.mtable[b]
             /\ \A i \in Hs : \A j \in Slots : d.gtable_cnt[i][j] # 0 => e.gtable_cnt[i][j] # 0
             /\ \A i \in Hs : \A j \in Slots :
                  i # slot \/ j # Hashes(o)[slot] => e.gtable[i][j] = d.gtable[i][j]
<1> DEFINE h == Hashes(o)
           e == real_insert(d, a, RuleOf(o), h, slot)
           n == [i \in Hs |-> d.gtable[i][h[i]]]
           s == SlotValue(n[slot], XorAll(n), a)
<1>1. d \in Tables
  BY DEF Good
<1>2. \A i \in Hs : h[i] = Hash[i][o] /\ h[i] \in Slots
  BY HashesTyped DEF Usable
<1> HIDE DEF h
<1>3. n \in [Hs -> Word] /\ a \in Word
  BY <1>1, <1>2, TablesOf DEF Usable, AddressesClosed
<1>4. n[slot] = d.gtable[slot][h[slot]] /\ AddressOf(d, h) = XorAll(n)
  BY DEF AddressOf
<1>5. e.gtable = [d.gtable EXCEPT ![slot] = [d.gtable[slot] EXCEPT ![h[slot]] = s]]
  BY <1>4 DEF real_insert
<1> HIDE DEF n
<1>6. s \in Word /\ XorAll([n EXCEPT ![slot] = s]) = a
  BY <1>3, SlotValueWorks
<1> HIDE DEF s
<1>7. /\ e.gtable \in [Hs -> [Slots -> Word]]
      /\ \A i \in Hs : \A j \in Slots :
           i # slot \/ j # h[slot] => e.gtable[i][j] = d.gtable[i][j]
      /\ e.gtable[slot][h[slot]] = s
  BY <1>1, <1>2, <1>5, <1>6, TablesOf
<1>8. e.gtable_cnt = [i \in Hs |->
        [d.gtable_cnt[i] EXCEPT ![h[i]] = IF @ = GtableMaxCount THEN @ ELSE @ + 1]]
  BY DEF real_insert
<1>9. /\ e.gtable_cnt \in [Hs -> [Slots -> 0 .. GtableMaxCount]]
      /\ \A i \in Hs : \A j \in Slots : d.gtable_cnt[i][j] # 0 => e.gtable_cnt[i][j] # 0
      /\ \A i \in Hs : e.gtable_cnt[i][h[i]] # 0
  <2> SUFFICES ASSUME NEW i \in Hs
               PROVE  /\ e.gtable_cnt[i] \in [Slots -> 0 .. GtableMaxCount]
                      /\ \A j \in Slots : d.gtable_cnt[i][j] # 0 => e.gtable_cnt[i][j] # 0
                      /\ e.gtable_cnt[i][h[i]] # 0
    BY <1>8
  <2> DEFINE c == d.gtable_cnt[i]
  <2>1. c \in [Slots -> 0 .. GtableMaxCount] /\ h[i] \in Slots
    BY <1>1, <1>2, TablesOf
  <2>2. e.gtable_cnt[i] =
          [c EXCEPT ![h[i]] = IF c[h[i]] = GtableMaxCount THEN c[h[i]] ELSE c[h[i]] + 1]
    BY <1>8
  <2> HIDE DEF c, e
  <2>3. (IF c[h[i]] = GtableMaxCount THEN c[h[i]] ELSE c[h[i]] + 1) \in 1 .. GtableMaxCount
    BY <2>1 DEF GtableMaxCount
  <2>4. e.gtable_cnt[i] \in [Slots -> 0 .. GtableMaxCount]
    BY <2>1, <2>2, <2>3
  <2>5. e.gtable_cnt[i][h[i]] # 0
    BY <2>1, <2>2, <2>3
  <2>6. \A j \in Slots : c[j] # 0 => e.gtable_cnt[i][j] # 0
    BY <2>1, <2>2, <2>5
  <2>. QED  BY <2>4, <2>5, <2>6 DEF c
<1>10. e.gtable_lastinsert = [i \in Hs |-> [d.gtable_lastinsert[i] EXCEPT ![h[i]] = a]]
  BY DEF real_insert
<1>11. /\ e.gtable_lastinsert \in [Hs -> [Slots -> Addr]]
       /\ \A i \in Hs : \A j \in Slots :
            e.gtable_lastinsert[i][j] = IF j = h[i] THEN a ELSE d.gtable_lastinsert[i][j]
  BY <1>1, <1>2, <1>10, TablesOf
<1>12. e.mtable = [d.mtable EXCEPT ![a] = RuleOf(o)]
  <2>1. d.mtable[a].inputs = NoOps
    BY DEF Good, EntryOK
  <2>2. [f \in OpField |-> IF f \in RuleOf(o).consider THEN RuleOf(o).inputs[f]
                           ELSE d.mtable[a].inputs[f]] = o
    <3>1. RuleOf(o).consider = Consider(o) /\ RuleOf(o).inputs = o
      BY RuleTyped, Zenon
    <3>2. [f \in OpField |-> IF f \in Consider(o) THEN o[f] ELSE NoOps[f]] = o
      BY BlankOutside, Zenon
    <3>. QED  BY <2>1, <3>1, <3>2, Zenon
  <2>3. [RuleOf(o) EXCEPT !.inputs = o] = RuleOf(o)
    <3>1. \A r \in Entry : [r EXCEPT !.inputs = r.inputs] = r
      BY DEF Entry
    <3>. QED  BY <3>1, RuleTyped
  <2>4. e.mtable = [d.mtable EXCEPT ![a] = [RuleOf(o) EXCEPT !.inputs =
          [f \in OpField |-> IF f \in RuleOf(o).consider THEN RuleOf(o).inputs[f]
                             ELSE d.mtable[a].inputs[f]]]]
    BY DEF real_insert
  <2>. QED  BY <2>2, <2>3, <2>4
<1>0. e = [gtable |-> e.gtable, gtable_cnt |-> e.gtable_cnt,
           gtable_lastinsert |-> e.gtable_lastinsert, mtable |-> e.mtable]
  BY DEF real_insert
<1> HIDE DEF e
<1>13. /\ e.mtable \in [Addr -> Entry] /\ e.mtable[a] = RuleOf(o)
       /\ \A b \in Addr \ {a} : e.mtable[b] = d.mtable[b]
  <2>1. d.mtable \in [Addr -> Entry] /\ RuleOf(o) \in Entry
    BY <1>1, TablesOf, RuleTyped
  <2>. QED  BY <1>12, <2>1
<1>14. e \in Tables
  BY <1>0, <1>7, <1>9, <1>11, <1>13 DEF Tables, Slots, Entry
<1>15. \A b \in Addr : EntryOK(e.mtable[b])
  BY <1>13, RuleTyped DEF Good
<1>16. LastUsers(e)
  <2> SUFFICES ASSUME NEW i \in Hs, NEW j \in Slots,
                      e.gtable_lastinsert[i][j] # InvalidLastUser
               PROVE  LET b == e.gtable_lastinsert[i][j]
                      IN  e.mtable[b].use /\ Hash[i][e.mtable[b].inputs] = j
    BY DEF LastUsers
  <2>1. CASE j = h[i]
    <3>1. e.gtable_lastinsert[i][j] = a
      BY <1>11, <2>1
    <3>2. RuleOf(o).use /\ Hash[i][RuleOf(o).inputs] = j
      BY <1>2, <2>1, RuleTyped
    <3>. QED  BY <1>13, <3>1, <3>2
  <2>2. CASE j # h[i]
    <3> DEFINE b == d.gtable_lastinsert[i][j]
    <3>1. e.gtable_lastinsert[i][j] = b /\ b # InvalidLastUser /\ b \in Addr
      BY <1>1, <1>11, <2>2, TablesOf
    <3>2. d.mtable[b].use /\ Hash[i][d.mtable[b].inputs] = j
      BY <3>1 DEF Good, LastUsers
    <3>3. e.mtable[b] = d.mtable[b]
      BY <1>13, <3>1, <3>2
    <3> HIDE DEF b
    <3>. QED  BY <3>1, <3>2, <3>3
  <2>. QED  BY <2>1, <2>2
<1>17. Holds(e, a, o)
  <2>1. [i \in Hs |-> e.gtable[i][h[i]]] = [n EXCEPT ![slot] = s]
    BY <1>2, <1>3, <1>7 DEF n
  <2>2. AddressOf(e, h) = a
    BY <1>6, <2>1 DEF AddressOf
  <2>3. Probes(e, o)
    BY <1>9 DEF Probes, CountAt, h
  <2>. QED  BY <1>13, <2>2, <2>3 DEF Holds, h
<1>. QED  BY <1>7, <1>9, <1>13, <1>14, <1>15, <1>16, <1>17 DEF Good, e, h

LEMMA CountTyped ==
  ASSUME HashesFit, NEW d, Good(d), NEW o \in Operand
  PROVE  \A i \in Hs : CountAt(d, i, Hashes(o)) \in Nat
<1>1. d.gtable_cnt \in [Hs -> [Slots -> 0 .. GtableMaxCount]]
  BY TablesOf DEF Good
<1>2. \A i \in Hs : Hashes(o)[i] \in Slots
  BY HashesTyped
<1>3. 0 .. GtableMaxCount \subseteq Nat
  BY DEF GtableMaxCount
<1>. QED  BY <1>1, <1>2, <1>3 DEF CountAt

(* What keeps a lookup finding its rule. *)
LEMMA HoldsStable ==
  ASSUME NEW d, NEW e, NEW b, NEW p, Holds(d, b, p), e.mtable[b] = d.mtable[b],
         \A i \in Hs : /\ e.gtable[i][Hashes(p)[i]] = d.gtable[i][Hashes(p)[i]]
                       /\ e.gtable_cnt[i][Hashes(p)[i]] # 0
  PROVE  Holds(e, b, p)
<1>1. AddressOf(e, Hashes(p)) = AddressOf(d, Hashes(p))
  <2>1. [i \in Hs |-> e.gtable[i][Hashes(p)[i]]] = [i \in Hs |-> d.gtable[i][Hashes(p)[i]]]
    OBVIOUS
  <2>. QED  BY <2>1 DEF AddressOf
<1>2. Probes(e, p)
  BY DEF Probes, CountAt
<1>. QED  BY <1>1, <1>2 DEF Holds

(* The rule of a lookup cannot be one that is free. *)
LEMMA HeldInUse ==
  ASSUME NEW d, NEW b, NEW p \in Operand, Holds(d, b, p)
  PROVE  d.mtable[b].use /\ d.mtable[b].inputs = p
  BY RuleTyped DEF Holds

(* An eviction spares the table entries of the rule it protects. *)
LEMMA EvictKeeps ==
  ASSUME HashesFit, NEW d, Good(d), NEW a \in Addr, d.mtable[a].use,
         NEW b \in Addr, b # a, NEW p \in Operand, Holds(d, b, p)
  PROVE  Holds(evict_mtable_entry(d, a, Hashes(p)), b, p)
<1> DEFINE v == Hashes(d.mtable[a].inputs)
           h == Hashes(p)
           left == UsersLeft(d, v, h)
           e == Without(d, a, v, left)
<1>1. d \in Tables /\ d.mtable[a].inputs \in Operand
  BY DEF Good, EntryOK
<1>2. DOMAIN h = Hs /\ \A i \in Hs : v[i] \in Slots /\ h[i] \in Slots
  BY <1>1, HashesTyped DEF Hashes
<1>3. \A i \in Hs : d.gtable_cnt[i][h[i]] # 0
  BY DEF Holds, Probes, CountAt
<1> HIDE DEF v, h
<1>4. \A i \in Hs : v[i] = h[i] => left[i] # 0
  <2>1. \A i \in Hs : v[i] = h[i] => CountAt(d, i, v) \in 1 .. GtableMaxCount
    BY <1>1, <1>2, <1>3, TablesOf DEF CountAt, GtableMaxCount
  <2>. QED  BY <1>2, <2>1 DEF UsersLeft, GtableMaxCount
<1> HIDE DEF left
<1>5. \A i \in Hs : e.gtable[i][h[i]] = d.gtable[i][h[i]]
  <2>1. e.gtable = [i \in Hs |-> [d.gtable[i] EXCEPT ![v[i]] = IF left[i] = 0 THEN 0 ELSE @]]
    BY DEF Without
  <2>. QED  BY <1>1, <1>2, <1>4, <2>1, TablesOf
<1>6. \A i \in Hs : e.gtable_cnt[i][h[i]] # 0
  <2>1. e.gtable_cnt = [i \in Hs |-> [d.gtable_cnt[i] EXCEPT ![v[i]] = left[i]]]
    BY DEF Without
  <2>. QED  BY <1>1, <1>2, <1>3, <1>4, <2>1, TablesOf
<1>7. e.mtable[b] = d.mtable[b]
  <2>1. e.mtable = [d.mtable EXCEPT ![a] = Vacated(d.mtable[a])]
    BY DEF Without
  <2>. QED  BY <1>1, <2>1, TablesOf
<1>8. e = evict_mtable_entry(d, a, h)
  BY DEF evict_mtable_entry, v, left
<1> HIDE DEF e
<1>. QED  BY <1>5, <1>6, <1>7, <1>8, HoldsStable DEF h

(* An insertion at a slot that is not one of its own keeps a rule found. *)
LEMMA InsertKeeps ==
  ASSUME Usable, NEW d, Good(d), NEW a \in Addr, ~d.mtable[a].use,
         NEW o \in Operand, NEW slot \in Hs,
         NEW b \in Addr, NEW p \in Operand, Holds(d, b, p),
         Hashes(p)[slot] # Hashes(o)[slot]
  PROVE  Holds(real_insert(d, a, RuleOf(o), Hashes(o), slot), b, p)
<1> DEFINE e == real_insert(d, a, RuleOf(o), Hashes(o), slot)
<1>1. /\ \A c \in Addr \ {a} : e.mtable[c] = d.mtable[c]
      /\ \A i \in Hs : \A j \in Slots : d.gtable_cnt[i][j] # 0 => e.gtable_cnt[i][j] # 0
      /\ \A i \in Hs : \A j \in Slots :
           i # slot \/ j # Hashes(o)[slot] => e.gtable[i][j] = d.gtable[i][j]
  BY InsertGood
<1>2. b # a
  BY HeldInUse
<1>3. \A i \in Hs : Hashes(p)[i] \in Slots /\ d.gtable_cnt[i][Hashes(p)[i]] # 0
  BY HashesTyped DEF Usable, Holds, Probes, CountAt
<1> HIDE DEF e
<1>4. \A i \in Hs : /\ e.gtable[i][Hashes(p)[i]] = d.gtable[i][Hashes(p)[i]]
                    /\ e.gtable_cnt[i][Hashes(p)[i]] # 0
  BY <1>1, <1>3
<1>5. e.mtable[b] = d.mtable[b]
  BY <1>1, <1>2
<1>. QED  BY <1>4, <1>5, HoldsStable DEF e

(* What one level of insert() promises about its outcome f: consistent     *)
(* tables, a displaced rule that is free now, the new rule found if it may *)
(* displace anything, and a protected rule still found.                    *)
PlacedWell(d, f, a, o, protected) ==
  /\ Good(f.dmhc) /\ f.victim \in Addr
  /\ f.victim # InvalidLastUser =>
       f.victim # a /\ d.mtable[f.victim].use /\ ~f.dmhc.mtable[f.victim].use
  /\ protected = << >> => Holds(f.dmhc, a, o)
  /\ \A p \in Operand : \A b \in Addr :
       protected = Hashes(p) /\ Holds(d, b, p) => Holds(f.dmhc, b, p)

(* The least used candidate of a rule that has no table entry in common    *)
(* with a protected one.                                                   *)
LEMMA PlacedAtSlot ==
  ASSUME Usable, NEW d, Good(d), NEW a \in Addr, ~d.mtable[a].use,
         NEW o \in Operand, NEW slot \in Hs, NEW protected,
         \A p \in Operand : \A b \in Addr :
           protected = Hashes(p) /\ Holds(d, b, p) => Hashes(p)[slot] # Hashes(o)[slot]
  PROVE  PlacedWell(d, Placed(d, a, RuleOf(o), Hashes(o), slot, InvalidLastUser), a, o, protected)
<1> DEFINE f == Placed(d, a, RuleOf(o), Hashes(o), slot, InvalidLastUser)
           e == real_insert(d, a, RuleOf(o), Hashes(o), slot)
<1>1. f.dmhc = e /\ f.victim = InvalidLastUser
  BY DEF Placed
<1>2. Good(e) /\ Holds(e, a, o)
  BY InsertGood
<1>3. \A p \in Operand : \A b \in Addr :
        protected = Hashes(p) /\ Holds(d, b, p) => Holds(e, b, p)
  BY InsertKeeps
<1>4. InvalidLastUser \in Addr
  BY DmhcAssumption DEF InvalidLastUser, Addr
<1> HIDE DEF f, e
<1>. QED  BY <1>1, <1>2, <1>3, <1>4 DEF PlacedWell, f

(* The mask in consider_evict is the right one, whoever it belonged to. *)
LEMMA SharedMask ==
  ASSUME OneMask, NEW o \in Operand, NEW p \in Operand
  PROVE  [RuleOf(o) EXCEPT !.consider = Consider(p)] = RuleOf(o)
<1>1. \A r \in Entry : [r EXCEPT !.consider = r.consider] = r
  BY DEF Entry
<1>2. RuleOf(o).consider = Consider(p) /\ RuleOf(o) \in Entry
  BY RuleTyped DEF OneMask
<1>. QED  BY <1>1, <1>2

(* Displacing the last user of a table entry of the new rule. *)
LEMMA DisplaceGood ==
  ASSUME Usable, NEW d, Good(d), NEW a \in Addr, ~d.mtable[a].use,
         NEW o \in Operand, NEW protected,
         NEW C \in SUBSET Hs, NEW i \in C,
         C = {j \in Hs : j \in DOMAIN protected => Hashes(o)[j] # protected[j]}
  PROVE  PlacedWell(d, Displace(d, a, RuleOf(o), Hashes(o), C, protected,
                                d.gtable_lastinsert[i][Hashes(o)[i]]), a, o, protected)
<1> DEFINE h == Hashes(o)
           w == d.gtable_lastinsert[i][h[i]]
<1>0. HashesFit /\ d \in Tables /\ C # {} /\ i \in Hs
  BY DEF Usable, Good
<1>1. \A j \in Hs : h[j] = Hash[j][o] /\ h[j] \in Slots
  BY <1>0, HashesTyped
<1>2. w \in Addr
  BY <1>0, <1>1, TablesOf
<1>3. \A p \in Operand : protected = Hashes(p) => \A j \in C : Hashes(p)[j] # h[j]
  BY DEF Hashes
<1>4. ASSUME NEW e, Good(e) PROVE MinUse(e, h, C) \in C
  <2>1. \A j \in C : CountAt(e, j, h) \in Nat
    BY <1>0, <1>4, CountTyped
  <2>. QED  BY <1>0, <2>1, MinUseLeast
<1> HIDE DEF h
<1>5. CASE w = InvalidLastUser
  <2>1. Displace(d, a, RuleOf(o), h, C, protected, w)
          = Placed(d, a, RuleOf(o), h, MinUse(d, h, C), InvalidLastUser)
    BY <1>5 DEF Displace
  <2>2. MinUse(d, h, C) \in C
    BY <1>4, Zenon
  <2>. QED  BY <1>3, <2>1, <2>2, PlacedAtSlot DEF h
<1>6. CASE w # InvalidLastUser
  <2> DEFINE e == evict_mtable_entry(d, w, protected)
             m == MinUse(e, h, C)
             f == Displace(d, a, RuleOf(o), h, C, protected, w)
             g == real_insert(e, a, RuleOf(o), h, m)
  <2>1. d.mtable[w].use /\ Hash[i][d.mtable[w].inputs] = h[i]
    <3>1. LastUsers(d)
      BY Zenon DEF Good
    <3>. QED  BY <1>0, <1>1, <1>6, <3>1, Zenon DEF LastUsers
  <2>2. d.mtable[w].inputs \in Operand /\ d.mtable[w].consider = Consider(d.mtable[w].inputs)
    <3>1. EntryOK(d.mtable[w])
      BY <1>2, Zenon DEF Good
    <3>2. d.mtable[w].inputs \in Operand /\ d.mtable[w] = RuleOf(d.mtable[w].inputs)
      BY <2>1, <3>1, Zenon DEF EntryOK
    <3>3. RuleOf(d.mtable[w].inputs).consider = Consider(d.mtable[w].inputs)
      BY <3>2, RuleTyped, Zenon
    <3>. QED  BY <3>2, <3>3, Zenon
  <2>3. w # a
    BY <2>1, Zenon
  <2>4. Good(e) /\ ~e.mtable[w].use /\ e.mtable[a] = d.mtable[a]
    BY <1>0, <1>2, <2>1, <2>3, EvictGood
  <2>5. f.dmhc = g /\ f.victim = w
    <3>1. (IF DOMAIN protected = {} THEN RuleOf(o).consider ELSE d.mtable[w].consider)
            \in {Consider(o), Consider(d.mtable[w].inputs)}
      BY <2>2, RuleTyped
    <3>2. [RuleOf(o) EXCEPT !.consider =
             IF DOMAIN protected = {} THEN RuleOf(o).consider ELSE d.mtable[w].consider]
            = RuleOf(o)
      BY <2>2, <3>1, SharedMask DEF Usable
    <3>. QED  BY <1>6, <3>2 DEF Displace, Placed
  <2> HIDE DEF e, f
  <2>6. m \in C
    BY <1>4, <2>4
  <2>7. /\ Good(g) /\ Holds(g, a, o)
        /\ \A b \in Addr \ {a} : g.mtable[b] = e.mtable[b]
    <3> HIDE DEF m
    <3>1. m \in Hs /\ ~e.mtable[a].use
      BY <2>4, <2>6
    <3>. QED  BY <2>4, <3>1, InsertGood DEF h
  <2>8. ~g.mtable[w].use
    BY <1>2, <2>3, <2>4, <2>7
  <2>9. ASSUME NEW p \in Operand, NEW b \in Addr, protected = Hashes(p), Holds(d, b, p)
        PROVE  Holds(g, b, p)
    <3>1. b # w
      <4>1. Hashes(p)[i] # h[i] /\ Hashes(p)[i] = Hash[i][p]
        BY <1>0, <1>3, <2>9, HashesTyped
      <4>. QED  BY <2>1, <2>9, <4>1, HeldInUse
    <3>2. Holds(e, b, p)
      BY <1>0, <1>2, <2>1, <2>9, <3>1, EvictKeeps DEF e
    <3>3. Hashes(p)[m] # h[m]
      BY <1>3, <2>6, <2>9
    <3>. QED  BY <2>4, <2>6, <3>2, <3>3, InsertKeeps DEF h
  <2> HIDE DEF g
  <2>. QED  BY <1>2, <2>1, <2>3, <2>5, <2>7, <2>8, <2>9, Zenon DEF PlacedWell, f, h
<1>. QED  BY <1>5, <1>6 DEF h

(* One level of insert() keeps its promises. *)
LEMMA PlaceGood ==
  ASSUME Usable, NEW d, Good(d), NEW a \in Addr, ~d.mtable[a].use,
         NEW o \in Operand, NEW protected
  PROVE  PlacedWell(d, Place(d, a, RuleOf(o), protected), a, o, protected)
<1> DEFINE h == Hashes(o)
           C == {j \in Hs : j \in DOMAIN protected => h[j] # protected[j]}
           f == Place(d, a, RuleOf(o), protected)
<1>1. f = PlaceAmong(d, a, RuleOf(o), h, C, protected)
  <2>1. RuleOf(o).inputs = o
    BY RuleTyped
  <2>. QED  BY <2>1 DEF Place
<1>2. \A j \in Hs : CountAt(d, j, h) \in Nat
  BY CountTyped DEF Usable
<1>3. Hs # {}
  <2>1. 0 \in Hs
    BY DmhcAssumption DEF Hs
  <2>. QED  BY <2>1
<1> HIDE DEF f
<1>4. CASE \E i \in Hs : CountAt(d, i, h) = 0
  <2> DEFINE m == MinUse(d, h, Hs)
  <2>1. f = Placed(d, a, RuleOf(o), h, m, InvalidLastUser)
    BY <1>1, <1>4 DEF PlaceAmong
  <2>2. m \in Hs /\ \A j \in Hs : CountAt(d, m, h) <= CountAt(d, j, h)
    BY <1>2, <1>3, MinUseLeast
  <2> HIDE DEF m
  <2>3. CountAt(d, m, h) = 0
    BY <1>2, <1>4, <2>2
  <2>4. \A p \in Operand : \A b \in Addr : Holds(d, b, p) => Hashes(p)[m] # h[m]
    BY <2>2, <2>3 DEF Holds, Probes, CountAt
  <2>. QED  BY <2>1, <2>2, <2>4, PlacedAtSlot DEF f
<1>5. CASE ~(\E i \in Hs : CountAt(d, i, h) = 0) /\ C = {}
  <2>1. f.dmhc = [d EXCEPT !.mtable[a].use = FALSE] /\ f.victim = InvalidLastUser
    BY <1>1, <1>5 DEF PlaceAmong
  <2>2. d.mtable \in [Addr -> Entry] /\ d \in Tables
    BY TablesOf DEF Good
  <2>3. d.mtable[a].use = FALSE
    BY <2>2 DEF Entry
  <2>4. [d.mtable[a] EXCEPT !.use = FALSE] = d.mtable[a]
    <3>1. \A r \in Entry : [r EXCEPT !.use = r.use] = r
      BY DEF Entry
    <3>. QED  BY <2>2, <2>3, <3>1
  <2>5. [d EXCEPT !.mtable = [d.mtable EXCEPT ![a] = d.mtable[a]]] = d
    <3>1. [d.mtable EXCEPT ![a] = d.mtable[a]] = d.mtable
      BY <2>2
    <3>2. [d EXCEPT !.mtable = d.mtable] = d
      BY <2>2 DEF Tables
    <3>. QED  BY <3>1, <3>2
  <2>6. f.dmhc = d
    BY <2>1, <2>4, <2>5
  <2>7. protected # << >>
    BY <1>3, <1>5
  <2>8. InvalidLastUser \in Addr
    BY DmhcAssumption DEF InvalidLastUser, Addr
  <2>. QED  BY <2>1, <2>6, <2>7, <2>8 DEF PlacedWell, f
<1>6. CASE ~(\E i \in Hs : CountAt(d, i, h) = 0) /\ C # {}
  <2> DEFINE m == MinUse(d, h, C)
  <2>1. f = Displace(d, a, RuleOf(o), h, C, protected, d.gtable_lastinsert[m][h[m]])
    BY <1>1, <1>6 DEF PlaceAmong
  <2>2. m \in C
    BY <1>2, <1>6, MinUseLeast
  <2> HIDE DEF m
  <2>. QED  BY <2>1, <2>2, DisplaceGood DEF f
<1>. QED  BY <1>4, <1>5, <1>6

(* insert() into a free entry leaves consistent tables, and a lookup finds *)
(* the rule although another may have been displaced and put back.         *)
LEMMA InsertFindsRule ==
  ASSUME Usable, NEW d, Good(d), NEW a \in Addr, ~d.mtable[a].use, NEW o \in Operand
  PROVE  LET e == insert(d, a, RuleOf(o)) IN Good(e.dmhc) /\ Holds(e.dmhc, a, o)
<1> DEFINE first == Place(d, a, RuleOf(o), << >>)
           w == first.victim
           h == Hashes(o)
<1>1. insert(d, a, RuleOf(o)) = Reinsert(d, first, h)
  BY RuleTyped DEF insert
<1>2. PlacedWell(d, first, a, o, << >>)
  BY PlaceGood
<1>3. Good(first.dmhc) /\ Holds(first.dmhc, a, o) /\ w \in Addr
  BY <1>2 DEF PlacedWell
<1> HIDE DEF first
<1>4. CASE ~first.ok \/ w = InvalidLastUser
  BY <1>1, <1>3, <1>4 DEF Reinsert
<1>5. CASE ~(~first.ok \/ w = InvalidLastUser)
  <2> DEFINE p == d.mtable[w].inputs
             e == Place(first.dmhc, w, RuleOf(p), h)
  <2>1. d.mtable[w].use /\ ~first.dmhc.mtable[w].use
    BY <1>2, <1>5 DEF PlacedWell
  <2>2. p \in Operand /\ d.mtable[w] = RuleOf(p)
    BY <1>3, <2>1 DEF Good, EntryOK
  <2>3. insert(d, a, RuleOf(o)) = e
    BY <1>1, <1>5, <2>2 DEF Reinsert
  <2>4. PlacedWell(first.dmhc, e, w, p, h)
    <3> HIDE DEF w, p
    <3>. QED  BY <1>3, <2>1, <2>2, PlaceGood
  <2> HIDE DEF e
  <2>5. Good(e.dmhc) /\ Holds(e.dmhc, a, o)
    BY <1>3, <2>4 DEF PlacedWell
  <2>. QED  BY <2>3, <2>5
<1>. QED  BY <1>4, <1>5

-----------------------------------------------------------------------------
(* The specification *)

(* The inductive invariant. *)
DmhcInv == Good(dmhc) /\ next_entry \in Addr /\ status \in {"running", "assert_failed"}

(* Every exclusive or of table entries is an address. *)
LEMMA AddressTyped ==
  ASSUME Usable, NEW d, Good(d), NEW o \in Operand
  PROVE  AddressOf(d, Hashes(o)) \in Addr
<1>1. \A i \in Hs : Hashes(o)[i] \in Slots
  BY HashesTyped DEF Usable
<1> DEFINE n == [i \in Hs |-> d.gtable[i][Hashes(o)[i]]]
<1>2. n \in [Hs -> Word]
  BY <1>1, TablesOf DEF Good
<1>3. 0 \in Hs /\ 0 \in Word
  BY DmhcAssumption, XorAssumption DEF Hs
<1> HIDE DEF n
<1>4. XorAll(n) \in Word
  BY <1>2, <1>3, XorAllChange
<1>. QED  BY <1>4 DEF AddressOf, Usable, AddressesClosed, n

(* A match table entry that answers a lookup is the rule of its operands. *)
LEMMA LookupRight ==
  ASSUME Usable, NEW d, Good(d), NEW o \in Operand, lookup(d, o, Consider(o))
  PROVE  LookupResult(d, o) = Outcome[o]
<1> DEFINE a == AddressOf(d, Hashes(o))
           p == d.mtable[a].inputs
<1>1. a \in Addr
  BY AddressTyped
<1>2. d.mtable[a].use /\ \A f \in Consider(o) : p[f] = o[f]
  BY DEF lookup, hit
<1>3. p \in Operand /\ d.mtable[a] = RuleOf(p)
  BY <1>1, <1>2 DEF Good, EntryOK
<1> HIDE DEF p, a
<1>4. Consider(p) = Consider(o)
  BY <1>3 DEF Usable, OneMask
<1>5. [f \in OpField |-> IF f \in Consider(p) THEN p[f] ELSE NoOps[f]]
        = [f \in OpField |-> IF f \in Consider(o) THEN o[f] ELSE NoOps[f]]
  BY <1>2, <1>4
<1>6. p = o
  BY <1>3, <1>5, BlankOutside
<1>7. d.mtable[a].outputs = Outcome[o]
  BY <1>3, <1>6, RuleTyped
<1>. QED  BY <1>7 DEF LookupResult, a

(* A rule that is held is found, with its own result. *)
LEMMA HeldFound ==
  ASSUME NEW d, NEW a, NEW o \in Operand, Holds(d, a, o)
  PROVE  lookup(d, o, Consider(o)) /\ LookupResult(d, o) = Outcome[o]
<1>1. d.mtable[a].use /\ d.mtable[a].inputs = o /\ d.mtable[a].outputs = Outcome[o]
  BY RuleTyped DEF Holds
<1>2. AddressOf(d, Hashes(o)) = a /\ Probes(d, o)
  BY DEF Holds
<1>3. hit(d, o, a, Consider(o))
  BY <1>1 DEF hit
<1>. QED  BY <1>1, <1>2, <1>3 DEF lookup, LookupResult

LEMMA ResetGood == Good(reset)
<1>1. 0 \in Addr /\ 0 \in Word /\ InvalidLastUser \in Addr
  BY DmhcAssumption, XorAssumption DEF Addr, InvalidLastUser
<1>2. EmptyEntry \in Entry /\ EntryOK(EmptyEntry)
  BY DEF EmptyEntry, Entry, EntryOK
<1>3. /\ reset.gtable = [i \in Hs |-> [j \in Slots |-> 0]]
      /\ reset.gtable_cnt = [i \in Hs |-> [j \in Slots |-> 0]]
      /\ reset.gtable_lastinsert = [i \in Hs |-> [j \in Slots |-> InvalidLastUser]]
      /\ reset.mtable = [a \in Addr |-> EmptyEntry]
      /\ reset = [gtable |-> reset.gtable, gtable_cnt |-> reset.gtable_cnt,
                  gtable_lastinsert |-> reset.gtable_lastinsert, mtable |-> reset.mtable]
  BY DEF reset, Slots
<1>4. reset \in Tables
  <2>1. reset.gtable \in [Hs -> [Slots -> Word]]
    BY <1>1, <1>3
  <2>2. reset.gtable_cnt \in [Hs -> [Slots -> 0 .. GtableMaxCount]]
    BY <1>3 DEF GtableMaxCount
  <2>3. reset.gtable_lastinsert \in [Hs -> [Slots -> Addr]]
    BY <1>1, <1>3
  <2>4. reset.mtable \in [Addr -> Entry]
    BY <1>2, <1>3
  <2>. QED  BY <1>3, <2>1, <2>2, <2>3, <2>4 DEF Tables, Slots, Entry
<1>5. \A a \in Addr : EntryOK(reset.mtable[a])
  BY <1>2, <1>3
<1>6. LastUsers(reset)
  BY <1>3 DEF LastUsers
<1>. QED  BY <1>4, <1>5, <1>6 DEF Good

LEMMA MakeRoomGood ==
  ASSUME HashesFit, NEW d, Good(d), NEW a \in Addr
  PROVE  Good(MakeRoom(d, a)) /\ ~MakeRoom(d, a).mtable[a].use
<1>1. CASE d.mtable[a].use
  BY <1>1, EvictGood DEF MakeRoom
<1>2. CASE ~d.mtable[a].use
  BY <1>2 DEF MakeRoom
<1>. QED  BY <1>1, <1>2

LEMMA DmhcStep ==
  ASSUME Usable, DmhcInv, [Next]_vars
  PROVE  DmhcInv'
<1>1. ASSUME NEW ops \in Operand, allow(ops) PROVE DmhcInv'
  <2>1. ~OutOfTable(ops)
    <3>1. TableSize \in Nat /\ \A i \in Hs : Hash[i][ops] \in 0 .. TableSize - 1
      BY DmhcAssumption DEF Usable, HashesFit, Slots, TableSize
    <3>. QED  BY <3>1 DEF OutOfTable
  <2>2. ~OutOfMatchTable(dmhc, ops)
    <3>1. AddressOf(dmhc, Hashes(ops)) \in 0 .. Capacity - 1 /\ Capacity \in Nat
      BY AddressTyped, DmhcAssumption DEF DmhcInv, Addr
    <3>. QED  BY <3>1 DEF OutOfMatchTable
  <2>. QED  BY <1>1, <2>1, <2>2 DEF allow, DmhcInv
<1>2. CASE install_rule
  <2> DEFINE d == MakeRoom(dmhc, next_entry)
             e == insert(d, next_entry, RuleOf(ops_copy))
  <2>1. /\ ops_copy \in Operand /\ dmhc' = e.dmhc
        /\ next_entry' = IF next_entry + 1 >= Capacity THEN 1 ELSE next_entry + 1
        /\ status' = IF ~e.ok THEN "assert_failed"
                     ELSE IF ~lookup(e.dmhc, ops_copy, Consider(ops_copy)) THEN "not_found"
                     ELSE IF LookupResult(e.dmhc, ops_copy) # Outcome[ops_copy]
                          THEN "wrong_result"
                     ELSE "running"
    BY <1>2 DEF install_rule
  <2>2. Good(d) /\ ~d.mtable[next_entry].use
    BY MakeRoomGood DEF DmhcInv, Usable
  <2> HIDE DEF d
  <2>3. Good(e.dmhc) /\ Holds(e.dmhc, next_entry, ops_copy)
    BY <2>1, <2>2, InsertFindsRule DEF DmhcInv
  <2> HIDE DEF e
  <2>4. status' \in {"running", "assert_failed"}
    BY <2>1, <2>3, HeldFound
  <2>5. next_entry' \in Addr
    BY <2>1, DmhcAssumption DEF DmhcInv, Addr
  <2>. QED  BY <2>1, <2>3, <2>4, <2>5 DEF DmhcInv
<1>3. CASE flush
  BY <1>3, ResetGood, DmhcAssumption DEF flush, DmhcInv, Addr
<1>4. CASE UNCHANGED vars
  BY <1>4 DEF vars, DmhcInv
<1>. QED  BY <1>1, <1>2, <1>3, <1>4 DEF Next

LEMMA DmhcInvariant == ASSUME Usable PROVE Spec => []DmhcInv
<1>1. Init => DmhcInv
  BY ResetGood, DmhcAssumption DEF Init, DmhcInv, Addr
<1>2. DmhcInv /\ [Next]_vars => DmhcInv'
  BY DmhcStep
<1>. QED  BY <1>1, <1>2, PTL DEF Spec

(* However rules are evicted, displaced and put back, a match table entry  *)
(* in use is one whole rule and one not in use is blank (dmhc.cc           *)
(* real_insert, evict_mtable_entry).                                       *)
THEOREM DmhcConsistent == ASSUME Usable PROVE Spec => []Consistent
<1>1. DmhcInv => Consistent
  BY DEF DmhcInv, Good, Consistent
<1>. QED  BY <1>1, DmhcInvariant, PTL

(* A rule the dMHC returns is the rule of the operands asked for, for any  *)
(* hash functions (dmhc.cc "check if real hit").                           *)
THEOREM DmhcLookupSound == ASSUME Usable PROVE Spec => []LookupSound
<1>1. DmhcInv => LookupSound
  BY LookupRight DEF DmhcInv, LookupSound
<1>. QED  BY <1>1, DmhcInvariant, PTL

(* The last user recorded for a table entry is a live rule that hashes     *)
(* there, so that evicting it frees the entry (dmhc.cc insert).            *)
THEOREM DmhcLastUserValid == ASSUME Usable PROVE Spec => []LastUserValid
<1>1. DmhcInv => LastUserValid
  BY DEF DmhcInv, Good, LastUsers, LastUserValid, Slots
<1>. QED  BY <1>1, DmhcInvariant, PTL

(* insert() always finds the rule it has just inserted, with its result,   *)
(* although it may have displaced a rule and put it back: its two error    *)
(* exits are unreachable (dmhc.cc insert).                                 *)
THEOREM DmhcInsertFinds == ASSUME Usable PROVE Spec => []InsertFinds
<1>1. DmhcInv => InsertFinds
  BY DEF DmhcInv, InsertFinds
<1>. QED  BY <1>1, DmhcInvariant, PTL

(* Every hash and every exclusive or of table entries is inside its table  *)
(* (dmhc.cc lookup).                                                       *)
THEOREM DmhcInBounds == ASSUME Usable PROVE Spec => []InBounds
<1>1. DmhcInv => InBounds
  BY DEF DmhcInv, InBounds
<1>. QED  BY <1>1, DmhcInvariant, PTL

=============================================================================
