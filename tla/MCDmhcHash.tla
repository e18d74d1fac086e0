----------------------------- MODULE MCDmhcHash -----------------------------
(***************************************************************************)
(* Every permutation of a small range with every bit vector it can be cut  *)
(* down to, and the four tables of the source with the 192 bits of a rule. *)
(***************************************************************************)
EXTENDS DmhcHash, DmhcPerm, Bitwise

CONSTANTS
  PermSize,     \* length of the small permutations
  MaxBits,      \* bound on num_fields for them
  RuleBits      \* 192: six operands of 32 bits

SmallCases ==
  [perm : Permutation(PermSize), fields : UNION {[0 .. n - 1 -> 0 .. 1] : n \in 1 .. MaxBits}]

(* Operands all ones, and operands that set every third bit. *)
RuleFields ==
  {[b \in 0 .. RuleBits - 1 |-> 1], [b \in 0 .. RuleBits - 1 |-> IF b % 3 = 0 THEN 1 ELSE 0]}

SourceCases == {[perm |-> perm_of(which), fields |-> f] : which \in 4 .. 7, f \in RuleFields}

MCXor(a, b) == a ^^ b

AllCases == SmallCases \cup SourceCases

=============================================================================
