------------------------------ MODULE DmhcHash ------------------------------
(***************************************************************************)
(* compute_hash_t::compute_hash with a random permutation (HASH_BASE 4):   *)
(* the bits of the operands are permuted, by following a permutation of a  *)
(* larger range until it falls inside the bit vector, and folded into as   *)
(* many bits as index the table.  One step is one turn of a loop.          *)
(***************************************************************************)
EXTENDS DmhcFold

CONSTANTS
  Cases,        \* the calls of compute_hash: a table and the bits to hash
  TableSizes,   \* values of hash_table_size, c * capacity
  BitXor(_, _)  \* exclusive or

PowerOfTwo(n) == \E r \in 1 .. n : n = 2 ^ r

(* compute_hash cuts a permutation down to the bits it is given; as many   *)
(* bits as index a table stay so many bits under exclusive or.             *)
ASSUME HashAssumption ==
  /\ \A p \in {c.perm : c \in Cases} :
       IsFiniteSet(DOMAIN p) /\ p \in Permutation(Cardinality(DOMAIN p))
  /\ \A c \in Cases : \E n \in 1 .. Cardinality(DOMAIN c.perm) : c.fields \in [0 .. n - 1 -> 0 .. 1]
  /\ TableSizes \subseteq Nat \ {0, 1}
  /\ \A s \in TableSizes : PowerOfTwo(s) => \A a, b \in 0 .. s - 1 : BitXor(a, b) \in 0 .. s - 1

VARIABLES
  perm, fields, hash_table_size,       \* the arguments
  pc,                                  \* "walk", "fold" or "done"
  i, tmp,                              \* tmp = perm[i], perm[perm[i]], ...
  sized_perm,                          \* where each permuted bit came from
  result, chunk, final_pos

vars == <<perm, fields, hash_table_size, pc, i, tmp, sized_perm, result, chunk, final_pos>>
args == <<perm, fields, hash_table_size>>

num_fields == Cardinality(DOMAIN fields)

Init ==
  /\ \E c \in Cases : perm = c.perm /\ fields = c.fields
  /\ hash_table_size \in TableSizes
  /\ pc = "walk" /\ i = 0 /\ tmp = perm[0]
  /\ sized_perm = << >>
  /\ result = 0 /\ chunk = 0 /\ final_pos = 0

(* The walk restarts from i when it falls outside the bit vector. *)
WalkFromI ==
  /\ pc = "walk" /\ tmp >= num_fields
  /\ tmp' = perm[i]
  /\ UNCHANGED <<args, pc, i, sized_perm, result, chunk, final_pos>>

(* while (tmp >= num_fields) tmp = perm[tmp] *)
Walk ==
  /\ pc = "walk" /\ tmp >= num_fields
  /\ tmp' = perm[tmp]
  /\ UNCHANGED <<args, pc, i, sized_perm, result, chunk, final_pos>>

(* The walk for the next bit goes on from the bit taken. *)
TakeGoesOn ==
  /\ pc = "walk" /\ tmp < num_fields
  /\ sized_perm' = [x \in 0 .. i |-> IF x = i THEN tmp ELSE sized_perm[x]]
  /\ IF i + 1 < num_fields
     THEN i' = i + 1 /\ tmp' = perm[tmp] /\ UNCHANGED pc
     ELSE i' = 0 /\ tmp' = 0 /\ pc' = "fold"
  /\ UNCHANGED <<args, result, chunk, final_pos>>

(* The bit is taken; the last one starts the fold. *)
Take ==
  /\ pc = "walk" /\ tmp < num_fields
  /\ sized_perm' = [x \in 0 .. i |-> IF x = i THEN tmp ELSE sized_perm[x]]
  /\ IF i + 1 < num_fields
     THEN i' = i + 1 /\ tmp' = perm[i + 1] /\ UNCHANGED pc
     ELSE i' = 0 /\ tmp' = 0 /\ pc' = "fold"
  /\ UNCHANGED <<args, result, chunk, final_pos>>

(* The chunk left at the end is lost. *)
FoldDropsLast ==
  /\ pc = "fold"
  /\ LET c == BitXor(chunk, fields[sized_perm[i]] * 2 ^ final_pos)
         full == final_pos + 1 >= log2(hash_table_size)
         last == i + 1 = num_fields
     IN  /\ result' = IF full THEN BitXor(result, c) ELSE result
         /\ chunk' = IF full THEN 0 ELSE c
         /\ final_pos' = IF full THEN 0 ELSE final_pos + 1
         /\ i' = IF last THEN 0 ELSE i + 1
         /\ pc' = IF last THEN "done" ELSE pc
  /\ UNCHANGED <<args, tmp, sized_perm>>

(* fold: one bit enters the chunk; a full chunk enters the result, and so  *)
(* does the chunk left at the end.                                         *)
Fold ==
  /\ pc = "fold"
  /\ LET c == BitXor(chunk, fields[sized_perm[i]] * 2 ^ final_pos)
         full == final_pos + 1 >= log2(hash_table_size)
         last == i + 1 = num_fields
     IN  /\ result' = IF full \/ last THEN BitXor(result, c) ELSE result
         /\ chunk' = IF full \/ last THEN 0 ELSE c
         /\ final_pos' = IF full \/ last THEN 0 ELSE final_pos + 1
         /\ i' = IF last THEN 0 ELSE i + 1
         /\ pc' = IF last THEN "done" ELSE pc
  /\ UNCHANGED <<args, tmp, sized_perm>>

Next == Walk \/ Take \/ Fold

Spec == Init /\ [][Next]_vars /\ WF_vars(Next)

-----------------------------------------------------------------------------
(* Cutting a permutation down to the bit vector leaves a permutation: no   *)
(* bit of the operands is lost and none counts twice in a hash.            *)
EveryBitOnce ==
  pc \in {"fold", "done"} => sized_perm \in Permutation(num_fields)

(* fold computes the parities, whatever is left over in the last chunk.    *)
FoldsParity == pc = "done" => result = HashOf(fields, sized_perm, hash_table_size)

(* A hash of a table whose size is a power of two is inside the table.     *)
HashInTable ==
  pc = "done" /\ PowerOfTwo(hash_table_size) => result < hash_table_size

(* The walk leaves every cycle of the permutation it enters, so a hash is  *)
(* always computed.                                                        *)
Terminates == <>(pc = "done")

=============================================================================
