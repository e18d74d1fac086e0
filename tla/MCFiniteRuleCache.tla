-------------------------- MODULE MCFiniteRuleCache -------------------------
(***************************************************************************)
(* TLC instance of the finite rule cache, with a history variable that     *)
(* records the order in which the cached rules were installed.             *)
(***************************************************************************)
EXTENDS FiniteRuleCache

VARIABLES older,    \* history: pairs of cached keys, the one installed first
                    \* before the one installed later
          flushed   \* history: the host has flushed the cache

MCVars == <<rule_cache_table, entries, next_entry, cache_full, older, flushed>>

(* The keys that stay cached keep their order; a new key is younger than   *)
(* each of them.                                                           *)
Aged == LET before == DOMAIN rule_cache_table
            after  == DOMAIN rule_cache_table'
            stay   == before \cap after
        IN  older' = (older \cap (stay \X stay)) \cup (stay \X (after \ before))

MCInit == Init /\ older = {} /\ flushed = FALSE
MCInstall == Install /\ Aged /\ UNCHANGED flushed
MCFlush == Flush /\ Aged /\ flushed' = TRUE

MCSpec == MCInit /\ [][MCInstall \/ MCFlush]_MCVars

(* Until the host flushes, the ring is exactly the table, and install_rule *)
(* is not about to report its internal error.                              *)
ExactUntilFlush == ~flushed => RingExact /\ NoInternalError

(* "entries[0] if cache_full is false, entries[(next_entry+1)%capacity] if  *)
(* cache_full is true" (finite_rule_cache.h, of the oldest entry)          *)
DocumentedOldest == entries[IF cache_full THEN (next_entry + 1) % Capacity ELSE 0]

(* Until the host flushes, a rule leaves the cache only when the cache is  *)
(* at its capacity, and then it is the one installed before all the others *)
(* (finite_rule_cache.h "the oldest element is always the one evicted").   *)
(* It is never the one that the same header names as the oldest, unless    *)
(* there is just one.                                                      *)
EvictsOldest ==
  [][~flushed' => \A o \in DOMAIN rule_cache_table \ DOMAIN rule_cache_table' :
        /\ \A p \in DOMAIN rule_cache_table \ {o} : <<o, p>> \in older
        /\ Cardinality(DOMAIN rule_cache_table) = Capacity
        /\ Capacity > 1 => o # DocumentedOldest]_MCVars

=============================================================================
