------------------------------ MODULE DmhcFold ------------------------------
(***************************************************************************)
(* What the hash functions of the dMHC compute.  DmhcHash models how they  *)
(* compute it.                                                             *)
(***************************************************************************)
EXTENDS Naturals, FiniteSets

Permutation(n) == {p \in [0 .. n - 1 -> 0 .. n - 1] : \A x, y \in 0 .. n - 1 : p[x] = p[y] => x = y}

(* Off by one: (1 << res) <= a. *)
log2_inclusive(a) == CHOOSE r \in 0 .. a : 2 ^ r > a /\ (r = 0 \/ 2 ^ (r - 1) <= a)

(* The number of bits that can index a table of size a. *)
log2(a) == CHOOSE r \in 0 .. a : 2 ^ r >= a /\ (r = 0 \/ 2 ^ (r - 1) < a)

(* The bits of the operands, each field least significant bit first. *)
BitFields(values, width) ==
  [b \in 0 .. Cardinality(DOMAIN values) * width - 1 |->
     (values[b \div width] \div 2 ^ (b % width)) % 2]

(* Reference definition: bit j of the hash is the parity of the permuted   *)
(* bits whose position is j modulo the width of the hash.                  *)

Parity(bits, sized, j, w) ==
  Cardinality({x \in DOMAIN bits : x % w = j /\ bits[sized[x]] = 1}) % 2

HashOf(bits, sized, size) ==
  LET w == log2(size)
      h[j \in 0 .. w] == IF j = 0 THEN 0 ELSE h[j - 1] + 2 ^ (j - 1) * Parity(bits, sized, j - 1, w)
  IN  h[w]

=============================================================================
