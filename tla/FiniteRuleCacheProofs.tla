----------------------- MODULE FiniteRuleCacheProofs ------------------------
(***************************************************************************)
(* Proofs about the finite rule cache, for every capacity and every set of *)
(* operands and results.                                                   *)
(***************************************************************************)
EXTENDS MCFiniteRuleCache, FiniteSetTheorems, TLAPS

(* What erase leaves of the table: install_rule's eviction. *)
LEMMA EraseDomain ==
  ASSUME NEW table, NEW ops
  PROVE  /\ DOMAIN Ideal!Erase(table, ops) = DOMAIN table \ {ops}
         /\ \A o \in DOMAIN table \ {ops} : Ideal!Erase(table, ops)[o] = table[o]
  BY DEF Ideal!Erase

(* What rule_cache_table[ops] = res makes of the table. *)
LEMMA PutDomain ==
  ASSUME NEW table, NEW ops, NEW res
  PROVE  /\ DOMAIN Ideal!Put(table, ops, res) = DOMAIN table \cup {ops}
         /\ Ideal!Put(table, ops, res)[ops] = res
         /\ \A o \in DOMAIN table \ {ops} : Ideal!Put(table, ops, res)[o] = table[o]
  BY DEF Ideal!Put

(* The table install_rule evicts from keeps its type and loses at most the *)
(* key of the reused slot.                                                 *)
LEMMA EvictedTable ==
  ASSUME TypeOK
  PROVE  /\ DOMAIN Evicted = IF cache_full
                             THEN DOMAIN rule_cache_table \ {entries[next_entry]}
                             ELSE DOMAIN rule_cache_table
         /\ \A o \in DOMAIN Evicted : Evicted[o] = rule_cache_table[o]
  BY EraseDomain DEF Evicted

(* install_rule keeps the type of the cache. *)
LEMMA InstallType ==
  ASSUME TypeOK, NEW ops \in Operand, NEW res \in Result, install_rule(ops, res)
  PROVE  TypeOK'
<1>1. Ideal!TableType'
  <2>1. rule_cache_table' = Ideal!Put(Evicted, ops, res)
    BY DEF install_rule
  <2>2. DOMAIN rule_cache_table' = DOMAIN Evicted \cup {ops}
    BY <2>1, PutDomain
  <2>3. DOMAIN rule_cache_table' \subseteq Operand
    BY <2>2, EvictedTable DEF TypeOK, Ideal!TableType
  <2>4. ASSUME NEW o \in DOMAIN rule_cache_table'
        PROVE  rule_cache_table'[o] \in Result
    <3>1. CASE o = ops
      BY <3>1, <2>1, <2>2 DEF Ideal!Put
    <3>2. CASE o # ops
      <4>1. o \in DOMAIN Evicted \ {ops}
        BY <3>2, <2>2, <2>4
      <4>2. rule_cache_table'[o] = Evicted[o]
        BY <4>1, <2>1 DEF Ideal!Put
      <4>3. Evicted[o] = rule_cache_table[o] /\ o \in DOMAIN rule_cache_table
        BY <4>1, EvictedTable
      <4>. QED  BY <4>2, <4>3 DEF TypeOK, Ideal!TableType
    <3>. QED  BY <3>1, <3>2
  <2>. QED  BY <2>3, <2>4 DEF Ideal!TableType
<1>2. entries' \in [Slots -> Operand]
  BY DEF TypeOK, install_rule
<1>3. next_entry' \in Slots
  BY CapacityAssumption DEF TypeOK, install_rule, Slots
<1>4. cache_full' \in BOOLEAN
  BY DEF TypeOK, install_rule
<1>. QED  BY <1>1, <1>2, <1>3, <1>4 DEF TypeOK

(* flush keeps the type of the cache. *)
LEMMA FlushType == TypeOK /\ flush => TypeOK'
  BY DEF TypeOK, flush, ring, Ideal!flush, Ideal!EmptyTable, Ideal!TableType

LEMMA InitType == Init => TypeOK
<1> SUFFICES ASSUME Init PROVE TypeOK
  OBVIOUS
<1>1. Ideal!TableType
  BY DEF Init, finite_rule_cache, Ideal!ideal_rule_cache, Ideal!EmptyTable, Ideal!TableType
<1>2. entries \in [Slots -> Operand] /\ next_entry \in Slots
  BY CapacityAssumption DEF Init, finite_rule_cache, Slots
<1>3. cache_full \in BOOLEAN
  BY DEF Init, finite_rule_cache
<1>. QED  BY <1>1, <1>2, <1>3 DEF TypeOK

(* The cache always has its type: the ring position is a slot of the ring  *)
(* (install_rule's wrap-around) whatever the host installs and flushes.    *)
THEOREM FiniteTypeCorrect == Spec => []TypeOK
<1>1. TypeOK /\ [Next]_cacheVars => TypeOK'
  <2> SUFFICES ASSUME TypeOK, [Next]_cacheVars PROVE TypeOK'
    OBVIOUS
  <2>1. CASE Install
    BY <2>1, InstallType DEF Install
  <2>2. CASE Flush
    BY <2>2, FlushType DEF Flush
  <2>3. CASE UNCHANGED cacheVars
    BY <2>3 DEF cacheVars, TypeOK, Ideal!TableType
  <2>. QED  BY <2>1, <2>2, <2>3 DEF Next
<1>. QED  BY <1>1, InitType, PTL DEF Spec

-----------------------------------------------------------------------------
(* The slots in use after install_rule: those in use before and the one it *)
(* writes.                                                                 *)
LEMMA UsedGrows ==
  ASSUME TypeOK, NEW ops \in Operand, NEW res \in Result, install_rule(ops, res)
  PROVE  /\ Used \cup {next_entry} \subseteq Used'
         /\ Used' \subseteq Used \cup {next_entry}
         /\ entries'[next_entry] = ops
         /\ \A i \in Slots \ {next_entry} : entries'[i] = entries[i]
<1>1. CASE next_entry + 1 >= Capacity
  BY <1>1, CapacityAssumption DEF TypeOK, install_rule, Used, Slots
<1>2. CASE ~(next_entry + 1 >= Capacity)
  BY <1>2, CapacityAssumption DEF TypeOK, install_rule, Used, Slots
<1>. QED  BY <1>1, <1>2

(* install_rule keeps every cached rule reachable from the ring. *)
LEMMA InstallTableInRing ==
  ASSUME TypeOK, TableInRing,
         NEW ops \in Operand, NEW res \in Result, install_rule(ops, res)
  PROVE  TableInRing'
<1> SUFFICES ASSUME NEW o \in DOMAIN rule_cache_table'
             PROVE  \E i \in Used' : entries'[i] = o
  BY DEF TableInRing
<1>1. DOMAIN rule_cache_table' = DOMAIN Evicted \cup {ops}
  BY PutDomain DEF install_rule
<1>2. CASE o = ops
  BY <1>2, UsedGrows
<1>3. CASE o # ops
  <2>1. o \in DOMAIN Evicted
    BY <1>1, <1>3
  <2>2. PICK i \in Used : entries[i] = o
    BY <2>1, EvictedTable DEF TableInRing
  <2>3. i # next_entry
    <3> SUFFICES ASSUME i = next_entry PROVE FALSE
      OBVIOUS
    <3>1. cache_full
      BY <2>2 DEF Used, Slots, TypeOK
    <3>. QED  BY <3>1, <2>1, <2>2, EvictedTable
  <2>4. i \in Slots /\ entries'[i] = entries[i] /\ i \in Used'
    BY <2>2, <2>3, UsedGrows DEF Used
  <2>. QED  BY <2>2, <2>4
<1>. QED  BY <1>2, <1>3

(* Whatever the host installs and flushes, every cached rule is named by a *)
(* ring slot: none can escape eviction.                                    *)
THEOREM FiniteTableInRing == Spec => []TableInRing
<1>1. Init => TableInRing
  BY DEF Init, finite_rule_cache, Ideal!ideal_rule_cache, Ideal!EmptyTable, TableInRing
<1>2. TypeOK /\ TableInRing /\ [Next]_cacheVars => TableInRing'
  <2> SUFFICES ASSUME TypeOK, TableInRing, [Next]_cacheVars PROVE TableInRing'
    OBVIOUS
  <2>1. CASE Install
    BY <2>1, InstallTableInRing DEF Install
  <2>2. CASE Flush
    BY <2>2 DEF Flush, flush, Ideal!flush, Ideal!EmptyTable, TableInRing
  <2>3. CASE UNCHANGED cacheVars
    BY <2>3 DEF cacheVars, TableInRing, Used
  <2>. QED  BY <2>1, <2>2, <2>3 DEF Next
<1>. QED  BY <1>1, <1>2, FiniteTypeCorrect, PTL DEF Spec

(* The cache never exceeds its capacity: its keys are among the contents   *)
(* of a ring of Capacity slots.                                            *)
THEOREM FiniteBounded == Spec => []BoundedTable
<1>1. TypeOK /\ TableInRing => BoundedTable
  <2> SUFFICES ASSUME TypeOK, TableInRing PROVE BoundedTable
    OBVIOUS
  <2> DEFINE Image == {entries[i] : i \in Slots}
  <2>1. IsFiniteSet(Slots) /\ Cardinality(Slots) = Capacity
    BY FS_Interval, CapacityAssumption DEF Slots
  <2>2. IsFiniteSet(Image) /\ Cardinality(Image) <= Capacity
    <3>1. entries \in Surjection(Slots, Image)
      BY DEF TypeOK, Surjection
    <3>. QED  BY <2>1, <3>1, FS_Surjection
  <2>3. DOMAIN rule_cache_table \subseteq Image
    BY DEF TableInRing, Used
  <2>4. /\ Cardinality(DOMAIN rule_cache_table) <= Cardinality(Image)
        /\ Cardinality(DOMAIN rule_cache_table) \in Nat
        /\ Cardinality(Image) \in Nat
    BY <2>2, <2>3, FS_Subset, FS_CardinalityType
  <2>. QED  BY <2>2, <2>4, CapacityAssumption DEF BoundedTable
<1>. QED  BY <1>1, FiniteTypeCorrect, FiniteTableInRing, PTL

-----------------------------------------------------------------------------
(* Installing a rule the table lacks keeps ring and table in step. *)
LEMMA InstallRingExact ==
  ASSUME TypeOK, RingExact, NEW ops \in Operand, NEW res \in Result,
         ~allow(ops), install_rule(ops, res)
  PROVE  RingExact'
<1>1. DOMAIN rule_cache_table' = DOMAIN Evicted \cup {ops}
  BY PutDomain DEF install_rule
<1>2. ASSUME NEW i \in Used', i # next_entry
      PROVE  /\ i \in Used /\ entries'[i] = entries[i]
             /\ entries[i] \in DOMAIN rule_cache_table' /\ entries[i] # ops
  <2>1. i \in Used /\ i \in Slots /\ entries'[i] = entries[i]
    BY <1>2, UsedGrows DEF Used
  <2>2. entries[i] \in DOMAIN rule_cache_table /\ entries[i] # ops
    BY <2>1 DEF RingExact, allow
  <2>3. entries[i] \in DOMAIN Evicted
    <3>1. CASE cache_full
      <4>1. next_entry \in Used
        BY <3>1 DEF Used, TypeOK
      <4>2. entries[i] # entries[next_entry]
        BY <4>1, <2>1, <1>2 DEF RingExact
      <4>. QED  BY <3>1, <4>2, <2>2, EvictedTable
    <3>2. CASE ~cache_full
      BY <3>2, <2>2, EvictedTable
    <3>. QED  BY <3>1, <3>2
  <2>. QED  BY <1>1, <2>1, <2>2, <2>3
<1>3. entries'[next_entry] = ops /\ ops \in DOMAIN rule_cache_table'
  BY <1>1, UsedGrows
<1>4. \A i \in Used' : entries'[i] \in DOMAIN rule_cache_table'
  BY <1>2, <1>3
<1>5. ASSUME NEW i \in Used', NEW j \in Used', entries'[i] = entries'[j]
      PROVE  i = j
  BY <1>2, <1>3, <1>5 DEF RingExact
<1>. QED  BY <1>4, <1>5 DEF RingExact

(* As long as the host never flushes, install_rule never finds the slot it *)
(* reuses pointing at a rule the table lacks, so it never prints its       *)
(* internal error.  The table-in-step-with-ring invariant is inductive.    *)
THEOREM FiniteNoInternalError == NoFlushSpec => []NoInternalError
<1>1. Init => TypeOK /\ RingExact
  <2> SUFFICES ASSUME Init PROVE RingExact
    BY InitType
  <2>1. Used = {}
    BY DEF Init, finite_rule_cache, Used, Slots
  <2>. QED  BY <2>1 DEF RingExact
<1>2. TypeOK /\ RingExact /\ [Install]_cacheVars => (TypeOK /\ RingExact)'
  <2> SUFFICES ASSUME TypeOK, RingExact, [Install]_cacheVars
               PROVE  (TypeOK /\ RingExact)'
    OBVIOUS
  <2>1. CASE Install
    BY <2>1, InstallType, InstallRingExact DEF Install
  <2>2. CASE UNCHANGED cacheVars
    BY <2>2 DEF cacheVars, TypeOK, Ideal!TableType, RingExact, Used
  <2>. QED  BY <2>1, <2>2
<1>3. TypeOK /\ RingExact => NoInternalError
  BY DEF TypeOK, RingExact, NoInternalError, InternalError, Used
<1>. QED  BY <1>1, <1>2, <1>3, PTL DEF NoFlushSpec

-----------------------------------------------------------------------------
(* Until the host flushes it: the ring is exactly the table and the rule   *)
(* evicted is the one installed first.                                     *)

(* The ring order: walking the ring from next_entry, slot i comes first. *)
Earlier(i, j) == \/ i < j /\ (next_entry <= i \/ j < next_entry)
                 \/ next_entry <= i /\ j < next_entry

(* The ring order is the order of installation. *)
RingInOrder == \A i, j \in Used : Earlier(i, j) => <<entries[i], entries[j]>> \in older

(* Inductive: with flushes the second part is lost for good, since flush   *)
(* empties the table and leaves the ring.                                  *)
HistoryInv == /\ TypeOK
              /\ TableInRing
              /\ flushed \in BOOLEAN
              /\ ~flushed => RingExact /\ RingInOrder

(* After install_rule the slot it wrote is the last one in ring order, and *)
(* the others keep their order.                                            *)
LEMMA InstallOrder ==
  ASSUME TypeOK, NEW ops \in Operand, NEW res \in Result, install_rule(ops, res),
         NEW i \in Slots, NEW j \in Slots, Earlier(i, j)'
  PROVE  i # next_entry /\ (j # next_entry => Earlier(i, j))
<1>1. CASE next_entry + 1 >= Capacity
  BY <1>1, CapacityAssumption DEF TypeOK, install_rule, Earlier, Slots
<1>2. CASE ~(next_entry + 1 >= Capacity)
  BY <1>2, CapacityAssumption DEF TypeOK, install_rule, Earlier, Slots
<1>. QED  BY <1>1, <1>2

(* Installing a rule the table lacks keeps the ring in order. *)
LEMMA InstallRingInOrder ==
  ASSUME TypeOK, RingExact, RingInOrder, Aged,
         NEW ops \in Operand, NEW res \in Result, ~allow(ops), install_rule(ops, res)
  PROVE  RingInOrder'
<1> SUFFICES ASSUME NEW i \in Used', NEW j \in Used', Earlier(i, j)'
             PROVE  <<entries'[i], entries'[j]>> \in older'
  BY DEF RingInOrder
<1> DEFINE before == DOMAIN rule_cache_table
           after  == DOMAIN rule_cache_table'
           stay   == before \cap after
<1>1. older' = (older \cap (stay \X stay)) \cup (stay \X (after \ before))
  BY DEF Aged
<1>2. i \in Slots /\ j \in Slots
  BY DEF Used, Slots
<1>3. i # next_entry /\ (j # next_entry => Earlier(i, j))
  BY <1>2, InstallOrder
<1>4. RingExact'
  BY InstallRingExact
<1>5. ASSUME NEW k \in Used', k # next_entry
      PROVE  k \in Used /\ entries'[k] = entries[k] /\ entries[k] \in stay
  <2>1. k \in Used /\ k \in Slots /\ entries'[k] = entries[k]
    BY <1>5, UsedGrows DEF Used
  <2>. QED  BY <2>1, <1>4 DEF RingExact
<1>6. CASE j = next_entry
  <2>1. entries'[j] = ops /\ ops \in after \ before
    BY <1>6, UsedGrows, <1>4 DEF RingExact, allow
  <2>. QED  BY <2>1, <1>1, <1>3, <1>5
<1>7. CASE j # next_entry
  <2>1. <<entries[i], entries[j]>> \in older
    BY <1>3, <1>5, <1>7 DEF RingInOrder
  <2>. QED  BY <2>1, <1>1, <1>3, <1>5, <1>7
<1>. QED  BY <1>6, <1>7

(* The inductive invariant of the cache with its history. *)
LEMMA HistoryInvariant == MCSpec => []HistoryInv
<1>1. MCInit => HistoryInv
  <2> SUFFICES ASSUME MCInit PROVE HistoryInv
    OBVIOUS
  <2>1. Used = {}
    BY DEF MCInit, Init, finite_rule_cache, Used, Slots
  <2>2. TypeOK /\ TableInRing /\ flushed \in BOOLEAN
    BY InitType DEF MCInit, Init, finite_rule_cache, Ideal!ideal_rule_cache,
                    Ideal!EmptyTable, TableInRing
  <2>3. RingExact /\ RingInOrder
    BY <2>1 DEF RingExact, RingInOrder
  <2>. QED  BY <2>2, <2>3 DEF HistoryInv
<1>2. HistoryInv /\ [MCInstall \/ MCFlush]_MCVars => HistoryInv'
  <2> SUFFICES ASSUME HistoryInv, [MCInstall \/ MCFlush]_MCVars PROVE HistoryInv'
    OBVIOUS
  <2>1. CASE MCInstall
    <3>1. PICK ops \in Operand, res \in Result : ~allow(ops) /\ install_rule(ops, res)
      BY <2>1 DEF MCInstall, Install
    <3>2. TypeOK' /\ TableInRing'
      BY <3>1, InstallType, InstallTableInRing DEF HistoryInv
    <3>3. flushed' = flushed /\ Aged
      BY <2>1 DEF MCInstall
    <3>4. ~flushed => RingExact' /\ RingInOrder'
      BY <3>1, <3>3, InstallRingExact, InstallRingInOrder DEF HistoryInv
    <3>. QED  BY <3>2, <3>3, <3>4 DEF HistoryInv
  <2>2. CASE MCFlush
    <3>1. TypeOK' /\ flushed' = TRUE
      BY <2>2, FlushType DEF MCFlush, Flush, HistoryInv
    <3>2. TableInRing'
      BY <2>2 DEF MCFlush, Flush, flush, Ideal!flush, Ideal!EmptyTable, TableInRing
    <3>. QED  BY <3>1, <3>2 DEF HistoryInv
  <2>3. CASE UNCHANGED MCVars
    BY <2>3 DEF MCVars, HistoryInv, TypeOK, Ideal!TableType, TableInRing, RingExact,
                RingInOrder, Earlier, Used
  <2>. QED  BY <2>1, <2>2, <2>3
<1>. QED  BY <1>1, <1>2, PTL DEF MCSpec

(* Until the host flushes, the used ring slots name distinct cached rules  *)
(* and install_rule does not print its internal error.                     *)
THEOREM FiniteExactUntilFlush == MCSpec => []ExactUntilFlush
<1>1. HistoryInv => ExactUntilFlush
  BY DEF HistoryInv, ExactUntilFlush, TypeOK, RingExact, NoInternalError, InternalError, Used
<1>. QED  BY <1>1, HistoryInvariant, PTL

(* A full ring in step with the table means a table at its capacity. *)
LEMMA FullTable ==
  ASSUME TypeOK, TableInRing, RingExact, cache_full
  PROVE  Cardinality(DOMAIN rule_cache_table) = Capacity
<1> DEFINE Keys == DOMAIN rule_cache_table
<1>1. Used = Slots
  BY DEF Used
<1>2. Keys = {entries[i] : i \in Slots}
  BY <1>1 DEF TableInRing, RingExact
<1>3. entries \in Surjection(Slots, Keys)
  BY <1>2 DEF TypeOK, Surjection
<1>4. entries \in Injection(Slots, Keys)
  <2>1. entries \in [Slots -> Keys]
    BY <1>3 DEF Surjection
  <2>2. \A i, j \in Slots : entries[i] = entries[j] => i = j
    BY <1>1 DEF RingExact
  <2>. QED  BY <2>1, <2>2 DEF Injection, IsInjective
<1>5. IsFiniteSet(Slots) /\ Cardinality(Slots) = Capacity
  BY FS_Interval, CapacityAssumption DEF Slots
<1>. HIDE DEF Keys
<1>6. Cardinality(Keys) = Cardinality(Slots)
  BY <1>3, <1>4, <1>5, FS_Surjection
<1>. QED  BY <1>5, <1>6 DEF Keys

(* install_rule evicts the rule installed before all the others, and only  *)
(* from a table at its capacity.                                           *)
LEMMA InstallEvictsOldest ==
  ASSUME TypeOK, TableInRing, RingExact, RingInOrder,
         NEW ops \in Operand, NEW res \in Result, install_rule(ops, res),
         NEW o \in DOMAIN rule_cache_table \ DOMAIN rule_cache_table'
  PROVE  /\ \A p \in DOMAIN rule_cache_table \ {o} : <<o, p>> \in older
         /\ Cardinality(DOMAIN rule_cache_table) = Capacity
         /\ Capacity > 1 => o # DocumentedOldest
<1>1. DOMAIN rule_cache_table' = DOMAIN Evicted \cup {ops}
  BY PutDomain DEF install_rule
<1>2. cache_full /\ o = entries[next_entry]
  BY <1>1, EvictedTable
<1>3. ASSUME NEW p \in DOMAIN rule_cache_table \ {o}
      PROVE  <<o, p>> \in older
  <2>1. PICK j \in Used : entries[j] = p
    BY DEF TableInRing
  <2>2. next_entry \in Used /\ j # next_entry
    BY <1>2, <2>1 DEF Used, TypeOK
  <2>3. Earlier(next_entry, j)
    BY <2>2 DEF Earlier, Used, Slots, TypeOK
  <2>. QED  BY <1>2, <2>1, <2>2, <2>3 DEF RingInOrder
<1>4. ASSUME Capacity > 1
      PROVE  o # DocumentedOldest
  <2> DEFINE next == (next_entry + 1) % Capacity
  <2>1. Capacity \in Nat /\ next_entry \in 0 .. Capacity - 1
    BY CapacityAssumption DEF TypeOK, Slots
  <2>2. next \in 0 .. Capacity - 1
    BY <2>1
  <2>3. next # next_entry
    <3>1. CASE next_entry + 1 < Capacity
      BY <2>1, <3>1
    <3>2. CASE next_entry + 1 = Capacity
      BY <2>1, <3>2, <1>4
    <3>. QED  BY <2>1, <3>1, <3>2
  <2>4. next \in Used /\ next_entry \in Used /\ DocumentedOldest = entries[next]
    BY <1>2, <2>1, <2>2, Zenon DEF Used, Slots, DocumentedOldest
  <2> HIDE DEF next
  <2>. QED  BY <1>2, <2>3, <2>4 DEF RingExact
<1>. QED  BY <1>2, <1>3, <1>4, FullTable

(* Until the host flushes, only install_rule on a table at its capacity    *)
(* drops a rule, and the rule it drops is the oldest, which in a cache of  *)
(* more than one is not the one the header's comment names.                *)
THEOREM FiniteEvictsOldest == MCSpec => EvictsOldest
<1> DEFINE OldestGoes ==
      ~flushed' => \A o \in DOMAIN rule_cache_table \ DOMAIN rule_cache_table' :
        /\ \A p \in DOMAIN rule_cache_table \ {o} : <<o, p>> \in older
        /\ Cardinality(DOMAIN rule_cache_table) = Capacity
        /\ Capacity > 1 => o # DocumentedOldest
<1>1. HistoryInv /\ [MCInstall \/ MCFlush]_MCVars => [OldestGoes]_MCVars
  <2> SUFFICES ASSUME HistoryInv, MCInstall \/ MCFlush, ~flushed'
               PROVE  \A o \in DOMAIN rule_cache_table \ DOMAIN rule_cache_table' :
                        /\ \A p \in DOMAIN rule_cache_table \ {o} : <<o, p>> \in older
                        /\ Cardinality(DOMAIN rule_cache_table) = Capacity
                        /\ Capacity > 1 => o # DocumentedOldest
    OBVIOUS
  <2>1. ~flushed /\ \E ops \in Operand, res \in Result : install_rule(ops, res)
    BY DEF MCInstall, MCFlush, Install
  <2>. QED  BY <2>1, InstallEvictsOldest DEF HistoryInv
<1>. QED  BY <1>1, HistoryInvariant, PTL DEF MCSpec, EvictsOldest

=============================================================================
