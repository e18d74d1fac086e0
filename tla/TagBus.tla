------------------------------- MODULE TagBus -------------------------------
(***************************************************************************)
(* Where the tag of an address lives (validator/include/tag_utils.h and    *)
(* validator/soc_tag_configuration.cc).  Every SOC element becomes one tag *)
(* provider on the bus: a heterogeneous element keeps a vector with one    *)
(* tag per MIN_TAG_GRANULARITY bytes, any other element a single tag.  A   *)
(* cell names one stored tag: the start of its provider and its index.     *)
(***************************************************************************)
EXTENDS Integers

CONSTANTS
  Address,      \* addresses the host may use
  Soc           \* SOC elements: [start, end, heterogeneous, tag_granularity]

MinTagGranularity == 4

(* What a lookup that throws std::out_of_range finds. *)
NoCell == <<-1, -1>>

ASSUME SocAssumption ==
  /\ Address \subseteq Nat
  /\ \A e \in Soc : /\ e.start \in Nat /\ e.end \in Nat /\ e.start < e.end
                    /\ e.heterogeneous \in BOOLEAN
                    /\ e.tag_granularity \in {4, 8, 16}
  /\ \A e, f \in Soc : e.start = f.start => e = f  \* provider_map has one per key

(* Elements that start at or below addr: keys of provider_map, negated, at *)
(* or above -addr.                                                         *)
Below(addr) == {e \in Soc : e.start <= addr}

(* get_provider: lower_bound(-addr) in the map of negated start addresses  *)
(* is the element with the greatest start at or below addr.                *)
get_provider(addr) ==
  CHOOSE e \in Below(addr) : \A f \in Below(addr) : f.start <= e.start

(* The bounds check each provider makes on the offset. *)
InProvider(addr) ==
  Below(addr) # {} /\ addr - get_provider(addr).start
                        < get_provider(addr).end - get_provider(addr).start

(* data_tag_at: a data tag covers tag_granularity bytes; addr & -granularity *)
(* rounds the offset down to the granule.                                  *)
DataCell(addr) ==
  IF ~InProvider(addr) THEN NoCell
  ELSE LET e   == get_provider(addr)
           off == addr - e.start
       IN  IF e.heterogeneous
           THEN <<e.start, (off - (off % e.tag_granularity)) \div MinTagGranularity>>
           ELSE <<e.start, 0>>

(* insn_tag_at: an instruction tag covers MIN_TAG_GRANULARITY bytes even   *)
(* where data tags are coarser.                                            *)
InsnCell(addr) ==
  IF ~InProvider(addr) THEN NoCell
  ELSE LET e == get_provider(addr)
       IN  IF e.heterogeneous
           THEN <<e.start, (addr - e.start) \div MinTagGranularity>>
           ELSE <<e.start, 0>>

(* The stored tags some address of the model reaches. *)
Cell == ({DataCell(a) : a \in Address} \cup {InsnCell(a) : a \in Address}) \ {NoCell}

=============================================================================
