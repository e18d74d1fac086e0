------------------------------- MODULE MCDmhc -------------------------------
(* The dMHC rule cache with two hash functions, four match table entries   *)
(* and tags of two bits.  The hash functions are the two first of the      *)
(* source, whose permutations cut to twelve bits are SizedPerm.            *)
EXTENDS Dmhc, DmhcFold, Bitwise, Sequences

Width == 2
FieldOrder == <<"pc", "ci", "op1", "op2", "op3", "mem">>

SizedPerm ==
  <<<<0, 1, 2, 3, 4, 5, 6, 7, 8, 9, 10, 11>>,
    <<2, 3, 6, 5, 4, 8, 0, 10, 1, 7, 11, 9>>,
    <<0, 10, 6, 7, 9, 4, 8, 5, 1, 2, 11, 3>>,
    <<2, 10, 1, 3, 6, 8, 0, 5, 4, 9, 11, 7>>>>

BitsOf(o) == BitFields([f \in 0 .. 5 |-> o[FieldOrder[f + 1]]], Width)

(* What the match table can hold: operands, or some of their fields. *)
Stored ==
  {[f \in OpField |-> IF f \in m THEN o[f] ELSE 0] : o \in Operand, m \in SUBSET OpField}

MCHash ==
  [i \in 0 .. K - 1 |-> [o \in Stored |->
     HashOf(BitsOf(o), [b \in 0 .. 11 |-> SizedPerm[i + 1][b + 1]], TableSize)]]

Op(ci, op1, op2, mem) ==
  [pc |-> 1, ci |-> ci, op1 |-> op1, op2 |-> op2, op3 |-> 0, mem |-> mem]

(* Register-register instructions: every rule has the same mask. *)
SameMask == {Op(3, 3, 3, 0), Op(3, 3, 2, 0), Op(3, 2, 1, 0), Op(2, 3, 1, 0),
             Op(2, 1, 3, 0), Op(1, 1, 1, 0), Op(1, 2, 3, 0)}

(* Two register-register instructions, and a load from tagged memory and   *)
(* from memory on no SOC element, whose operand prepare_eval leaves out.   *)
MixedMask == {Op(1, 1, 3, 0), Op(1, 3, 2, 0), Op(2, 2, 0, 2), Op(2, 2, 0, 0)}

Res(n) == [pc |-> n, rd |-> n, csr |-> 0, pcResult |-> TRUE, rdResult |-> TRUE, csrResult |-> FALSE]
MCNoResults == [Res(0) EXCEPT !.pcResult = FALSE, !.rdResult = FALSE]

(* The exclusive or of C, on numbers of two bits. *)
MCXor(a, b) == a ^^ b
MCWord == 0 .. 3

(* Every operand has an outcome of its own. *)
MCOutcome == [o \in Operand |-> Res(o.ci + 4 * (o.op1 + 4 * (o.op2 + 4 * o.mem)))]

=============================================================================
