------------------------------ MODULE Addresses ------------------------------
(***************************************************************************)
(* Addresses are uint64_t, and so is what is computed from them.           *)
(***************************************************************************)
EXTENDS Integers, Sequences

CONSTANTS AddrSpace,    \* 2^64, the number of values of uint64_t
          Pow32         \* 2^32

ASSUME AddrSpaceAssumption == AddrSpace \in Nat /\ AddrSpace > 4 /\ Pow32 \in Nat

uint64(x) == x % AddrSpace

(* What there is to take of x: x, if the condition holds *)
Where(condition, x) == IF condition THEN <<x>> ELSE <<>>

=============================================================================
