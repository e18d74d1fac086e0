--------------------------- MODULE IdealRuleCache ---------------------------
(***************************************************************************)
(* The unbounded rule cache (rule_cache/ideal_rule_cache): a hash table    *)
(* from operand tags to result tags.                                       *)
(***************************************************************************)
EXTENDS Naturals

CONSTANTS
  Operand,   \* values of operands_t
  Result     \* values of results_t

VARIABLE
  rule_cache_table   \* std::unordered_map<operands_t, results_t>

(* The result an unordered_map lookup of ops finds; allow() copies it to res. *)
Cached(ops) == rule_cache_table[ops]

(* allow() returns whether the table has the key. *)
allow(ops) == ops \in DOMAIN rule_cache_table

(* rule_cache_table[ops] = res: adds the key or overwrites its value. *)
Put(table, ops, res) ==
  [o \in DOMAIN table \cup {ops} |-> IF o = ops THEN res ELSE table[o]]

(* rule_cache_table.erase of the key, if it is there. *)
Erase(table, ops) == [o \in DOMAIN table \ {ops} |-> table[o]]

EmptyTable == [o \in {} |-> o]

TableType == /\ DOMAIN rule_cache_table \subseteq Operand
             /\ \A o \in DOMAIN rule_cache_table : rule_cache_table[o] \in Result

ideal_rule_cache == rule_cache_table = EmptyTable

install_rule(ops, res) == rule_cache_table' = Put(rule_cache_table, ops, res)

flush == rule_cache_table' = EmptyTable

=============================================================================
