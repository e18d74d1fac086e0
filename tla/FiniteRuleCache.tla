--------------------------- MODULE FiniteRuleCache --------------------------
(***************************************************************************)
(* The bounded rule cache (rule_cache/finite_rule_cache).  It derives from *)
(* the ideal cache, overrides install_rule and allow, and inherits flush:  *)
(* a ring of keys, entries, decides which rule an insertion evicts.        *)
(***************************************************************************)
EXTENDS Naturals, FiniteSets

CONSTANTS
  Operand,    \* values of operands_t
  Result,     \* values of results_t
  ZeroOps,    \* the value-initialised operands_t the ring starts with
  Capacity    \* constructor argument: number of rules the cache holds

ASSUME CapacityAssumption == Capacity \in Nat \ {0} /\ ZeroOps \in Operand

VARIABLES
  rule_cache_table,  \* inherited
  entries,           \* std::vector<operands_t>: ring of keys
  next_entry,        \* ring position of the next insertion
  cache_full         \* the ring has wrapped once

ring == <<entries, next_entry, cache_full>>
cacheVars == <<rule_cache_table, entries, next_entry, cache_full>>

Ideal == INSTANCE IdealRuleCache

Slots == 0 .. Capacity - 1

TypeOK == /\ Ideal!TableType
          /\ entries \in [Slots -> Operand]
          /\ next_entry \in Slots
          /\ cache_full \in BOOLEAN

finite_rule_cache ==
  /\ Ideal!ideal_rule_cache
  /\ entries = [i \in Slots |-> ZeroOps]
  /\ next_entry = 0
  /\ cache_full = FALSE

allow(ops) == ops \in DOMAIN rule_cache_table

(* Plausible bugs, used only to test that the properties below can fail:   *)
(* the eviction forgotten, and the eviction of the neighbouring slot.      *)
EvictedNothing == rule_cache_table
EvictedNeighbour ==
  IF cache_full
  THEN Ideal!Erase(rule_cache_table, entries[(next_entry + 1) % Capacity])
  ELSE rule_cache_table

(* A full ring evicts the key in the slot it is about to reuse. *)
Evicted == IF cache_full THEN Ideal!Erase(rule_cache_table, entries[next_entry])
                         ELSE rule_cache_table

(* The slot about to be reused names a key the table does not have: the    *)
(* code prints "Internal error in rule cache - do not trust results."      *)
InternalError == cache_full /\ entries[next_entry] \notin DOMAIN rule_cache_table

(* Plausible bug: the wrap-around test off by one. *)
install_rule_late_wrap(ops, res) ==
  /\ rule_cache_table' = Ideal!Put(Evicted, ops, res)
  /\ entries' = [entries EXCEPT ![next_entry] = ops]
  /\ IF next_entry + 1 > Capacity
     THEN next_entry' = 0 /\ cache_full' = TRUE
     ELSE next_entry' = next_entry + 1 /\ UNCHANGED cache_full

install_rule(ops, res) ==
  /\ rule_cache_table' = Ideal!Put(Evicted, ops, res)
  /\ entries' = [entries EXCEPT ![next_entry] = ops]
  /\ IF next_entry + 1 >= Capacity
     THEN next_entry' = 0 /\ cache_full' = TRUE
     ELSE next_entry' = next_entry + 1 /\ UNCHANGED cache_full

(* ideal_rule_cache_t::flush, inherited: clears the table and not the ring. *)
flush == Ideal!flush /\ UNCHANGED ring

-----------------------------------------------------------------------------
(* The cache on its own, driven as rv_validator_t::commit drives it: a     *)
(* rule is installed only after a lookup of the same operands has missed.  *)

(* Plausible bug: a rule is installed without looking it up first. *)
InstallUnchecked == \E ops \in Operand, res \in Result : install_rule(ops, res)

Install == \E ops \in Operand, res \in Result :
             ~allow(ops) /\ install_rule(ops, res)

Flush == flush

Init == finite_rule_cache
Next == Install \/ Flush
Spec == Init /\ [][Next]_cacheVars

(* The same cache under a host that never calls e_v_flush_rule_cache. *)
NoFlushSpec == Init /\ [][Install]_cacheVars

-----------------------------------------------------------------------------
(* Slots that hold a key some install_rule call wrote. *)
Used == {i \in Slots : cache_full \/ i < next_entry}

(* Every cached rule is named by a ring slot, so eviction can reach it:    *)
(* finite_rule_cache.h "The keys of the elements currently in the cache".  *)
TableInRing == DOMAIN rule_cache_table \subseteq {entries[i] : i \in Used}

(* The cache never holds more rules than its capacity, whatever mix of     *)
(* installations and flushes the host causes (finite_rule_cache.h "the     *)
(* number of rules the cache can hold").                                   *)
BoundedTable == Cardinality(DOMAIN rule_cache_table) <= Capacity

(* Without flushes the ring is exactly the table: used slots name distinct *)
(* cached rules.                                                           *)
RingExact == /\ \A i \in Used : entries[i] \in DOMAIN rule_cache_table
             /\ \A i, j \in Used : entries[i] = entries[j] => i = j

(* install_rule is never about to report its internal error. *)
NoInternalError == ~InternalError

=============================================================================
