---------------------------- MODULE MetaSetCache ----------------------------
(***************************************************************************)
(* The meta set cache (validator/riscv/meta_cache.cc).  A tag_t is not     *)
(* metadata: it is one more than the index of a meta_set_t in the vector   *)
(* meta_sets.  canonize() searches that vector and appends to it on a      *)
(* miss; nothing ever removes or overwrites an element.                    *)
(*                                                                         *)
(* The vector belongs to the validator, and one validator call canonizes   *)
(* several sets, so the operators take the vector as an argument and the   *)
(* modules that own it thread it through.                                  *)
(***************************************************************************)
EXTENDS Naturals, Sequences

CONSTANTS
  MetaSet,    \* the values a meta_set_t can take
  EmptySet,   \* meta_set_t{0}
  None        \* the null meta set pointer, and any other absent value

ASSUME MetaSetAssumption == EmptySet \in MetaSet /\ None \notin MetaSet

(* tag_types.h: static const tag_t BAD_TAG_VALUE = 0 *)
BadTag == 0

(* The linear search of canonize succeeds. *)
Known(sets, ms) == \E i \in DOMAIN sets : sets[i] = ms

(* The tag canonize(ms) returns: the matching element (there is at most    *)
(* one, see NoDuplicates) or the element it appends.                       *)
CanonizeTag(sets, ms) ==
  IF Known(sets, ms) THEN CHOOSE i \in DOMAIN sets : sets[i] = ms
                     ELSE Len(sets) + 1

(* Plausible bugs, used to test that the properties can fail. *)
CanonizeSetsNever(sets, ms) == sets
CanonizeSetsAlways(sets, ms) == Append(sets, ms)

(* The vector canonize(ms) leaves behind. *)
CanonizeSets(sets, ms) ==
  IF Known(sets, ms) THEN sets ELSE Append(sets, ms)

(* What get_ms(tag) hands to policy code: BAD_TAG_VALUE is a null pointer. *)
GetMs(sets, tag) == IF tag = BadTag THEN None ELSE sets[tag]

(* later is earlier with meta sets appended: every tag keeps its meaning. *)
Grows(earlier, later) ==
  /\ Len(earlier) <= Len(later)
  /\ \A i \in DOMAIN earlier : later[i] = earlier[i]

(* No meta set is stored twice, so equal metadata has equal tags. *)
NoDuplicates(sets) == \A i, j \in DOMAIN sets : sets[i] = sets[j] => i = j

=============================================================================
