-------------------------------- MODULE Dmhc --------------------------------
(***************************************************************************)
(* The dynamic multi-hash rule cache (rule_cache/dmhc_rule_cache).  K hash *)
(* tables (gtable) hold numbers whose exclusive-or is the address of a     *)
(* rule in the match table (mtable).  An insertion owns one table entry    *)
(* nobody else counts on, evicting a rule if there is none, and reinserts  *)
(* the evicted rule once (HOP_LIMIT).                                      *)
(*                                                                         *)
(* dmhc_rule_cache_t looks at an operand only if it is not BAD_TAG_VALUE;  *)
(* the fields it looks at are the mask consider.                           *)
(***************************************************************************)
EXTENDS Naturals, FiniteSets

CONSTANTS
  Operand,     \* operands the validator looks up: functions from fields to tags
  Outcome,     \* the results commit installs for each of them
  NoResults,   \* results_t{0}
  K,           \* number of hash functions
  Capacity,    \* number of mtable entries; entry 0 is never used
  Hash,        \* Hash[i][ops]: see DmhcHash
  Word,        \* the numbers a gtable entry can hold
  BitXor(_, _)   \* exclusive or of two of them

OpField == {"pc", "ci", "op1", "op2", "op3", "mem"}
TableSize == 2 * Capacity    \* c = 2
GtableMaxCount == 3
InvalidLastUser == 0

ASSUME DmhcAssumption ==
  /\ K \in Nat \ {0} /\ Capacity \in Nat /\ Capacity > 1
  /\ Operand \subseteq [OpField -> Nat]
  /\ Outcome \in [Operand -> [pc : Nat, rd : Nat, csr : Nat, pcResult : BOOLEAN,
                              rdResult : BOOLEAN, csrResult : BOOLEAN]]

(* The laws of exclusive or. *)
ASSUME XorAssumption ==
  /\ 0 .. Capacity - 1 \subseteq Word
  /\ \A a, b \in Word : BitXor(a, b) \in Word /\ BitXor(a, b) = BitXor(b, a)
  /\ \A a, b, c \in Word : BitXor(BitXor(a, b), c) = BitXor(a, BitXor(b, c))
  /\ \A a \in Word : BitXor(a, 0) = a /\ BitXor(a, a) = 0

VARIABLES
  dmhc,          \* gtable, gtable_cnt, gtable_lastinsert and the mtable_* arrays
  next_entry,
  ops_copy,      \* of dmhc_rule_cache_t: the operands of the last allow
  found,         \* what that allow returned
  status         \* "running", or how the process ended

vars == <<dmhc, next_entry, ops_copy, found, status>>

Hs == 0 .. K - 1
Addr == 0 .. Capacity - 1
NoOps == [f \in OpField |-> 0]
EmptyEntry == [use |-> FALSE, inputs |-> NoOps, outputs |-> NoResults, consider |-> {}]

(* Exclusive or of a table's numbers, one per hash function. *)
XorAll(n) == LET x[i \in 0 .. K] == IF i = 0 THEN 0 ELSE BitXor(x[i - 1], n[i - 1]) IN x[K]

Hashes(ops) == [i \in Hs |-> Hash[i][ops]]

(* dmhc_rule_cache_t::allow: pc and ci always count. *)
Consider(ops) == {f \in OpField : f \in {"pc", "ci"} \/ ops[f] # 0}

-----------------------------------------------------------------------------
(* dmhc_t::lookup *)

CountAt(d, i, h) == d.gtable_cnt[i][h[i]]

AddressOf(d, h) == XorAll([i \in Hs |-> d.gtable[i][h[i]]])

(* Forgets the second operand. *)
hitNoOp2(d, ops, a, consider) ==
  d.mtable[a].use /\ \A f \in consider \ {"op2"} : d.mtable[a].inputs[f] = ops[f]

(* hit() compares the fields of the lookup, not those of the entry. *)
hit(d, ops, a, consider) ==
  d.mtable[a].use /\ \A f \in consider : d.mtable[a].inputs[f] = ops[f]

(* A zero count is a miss; else the address is looked at. *)
Probes(d, ops) == \A i \in Hs : CountAt(d, i, Hashes(ops)) # 0

lookup(d, ops, consider) ==
  Probes(d, ops) /\ hit(d, ops, AddressOf(d, Hashes(ops)), consider)

LookupResult(d, ops) == d.mtable[AddressOf(d, Hashes(ops))].outputs

-----------------------------------------------------------------------------
(* dmhc_t::insert *)

(* Only a table entry nobody counts on forgets its last user. *)
LastAfterByCount(last, a, left) == IF left = 0 THEN InvalidLastUser ELSE last

(* The last user of a table entry after rule a went and left users remain. *)
LastAfter(last, a, left) == IF left = 0 \/ last = a THEN InvalidLastUser ELSE last

(* How many users remain of the table entries v of a victim: an entry of   *)
(* the protected rule (NULL is the empty function) keeps at least one.     *)
UsersLeft(d, v, protected) ==
  [i \in Hs |-> IF \/ CountAt(d, i, v) = 0
                   \/ CountAt(d, i, v) = 1 /\ i \in DOMAIN protected /\ protected[i] = v[i]
                THEN CountAt(d, i, v)
                ELSE CountAt(d, i, v) - 1]

(* The inputs of a rule that goes are left behind. *)
VacatedInputs(e) == [e EXCEPT !.use = FALSE]

(* A match table entry whose rule goes: only its mask stays. *)
Vacated(e) == [use |-> FALSE, inputs |-> NoOps, outputs |-> NoResults, consider |-> e.consider]

(* The rule at a, with hashes v, goes; table entries nobody counts on any  *)
(* more are cleared.                                                       *)
Without(d, a, v, left) ==
  [gtable |-> [i \in Hs |-> [d.gtable[i] EXCEPT ![v[i]] = IF left[i] = 0 THEN 0 ELSE @]],
   gtable_cnt |-> [i \in Hs |-> [d.gtable_cnt[i] EXCEPT ![v[i]] = left[i]]],
   gtable_lastinsert |-> [i \in Hs |->
      [d.gtable_lastinsert[i] EXCEPT ![v[i]] = LastAfter(@, a, left[i])]],
   mtable |-> [d.mtable EXCEPT ![a] = Vacated(@)]]

evict_mtable_entry(d, a, protected) ==
  LET v == Hashes(d.mtable[a].inputs) IN Without(d, a, v, UsersLeft(d, v, protected))

(* Without bringing the present value to zero. *)
SlotValueNoClear(old, current, a) == BitXor(old, a)

(* The value of the free slot that makes the exclusive or a. *)
SlotValue(old, current, a) == BitXor(BitXor(old, current), a)

(* real_insert: entry a becomes the rule, and table slot is set so that    *)
(* the exclusive or is a.  Fields outside the mask keep what they held.    *)
real_insert(d, a, rule, h, slot) ==
  [gtable |-> [d.gtable EXCEPT ![slot][h[slot]] = SlotValue(@, AddressOf(d, h), a)],
   gtable_cnt |-> [i \in Hs |->
      [d.gtable_cnt[i] EXCEPT ![h[i]] = IF @ = GtableMaxCount THEN @ ELSE @ + 1]],
   gtable_lastinsert |-> [i \in Hs |-> [d.gtable_lastinsert[i] EXCEPT ![h[i]] = a]],
   mtable |-> [d.mtable EXCEPT ![a] = [rule EXCEPT !.inputs =
      [f \in OpField |-> IF f \in rule.consider THEN rule.inputs[f] ELSE d.mtable[a].inputs[f]]]]]

(* The lowest of the candidates with the smallest count. *)
MinUse(d, h, candidates) ==
  CHOOSE i \in candidates : \A j \in candidates :
    CountAt(d, i, h) < CountAt(d, j, h) \/ (CountAt(d, i, h) = CountAt(d, j, h) /\ i <= j)

(* The insertion at the least used candidate; real_insert asserts that it  *)
(* is free.                                                                *)
Placed(d, a, rule, h, slot, victim) ==
  [dmhc |-> real_insert(d, a, rule, h, slot), victim |-> victim, ok |-> CountAt(d, slot, h) = 0]

(* No table entry is free: the last user of the least used one goes, if it *)
(* is known.  The mask of a rule that is being reinserted is in the array  *)
(* consider_evict, which evicting another rule overwrites.                 *)
Displace(d, a, rule, h, candidates, protected, victim) ==
  IF victim = InvalidLastUser
  THEN Placed(d, a, rule, h, MinUse(d, h, candidates), victim)
  ELSE LET e == evict_mtable_entry(d, victim, protected)
           mask == IF DOMAIN protected = {} THEN rule.consider ELSE d.mtable[victim].consider
       IN  Placed(e, a, [rule EXCEPT !.consider = mask], h, MinUse(e, h, candidates), victim)

(* One level of the recursive insert.  A new rule protects nothing; a      *)
(* reinserted one may not disturb the hashes of the new rule, and is given *)
(* up if all of its own are among them.                                    *)
PlaceAmong(d, a, rule, h, candidates, protected) ==
  IF \E i \in Hs : CountAt(d, i, h) = 0
  THEN Placed(d, a, rule, h, MinUse(d, h, Hs), InvalidLastUser)
  ELSE IF candidates = {}
  THEN [dmhc |-> [d EXCEPT !.mtable[a].use = FALSE], victim |-> InvalidLastUser, ok |-> TRUE]
  ELSE LET i == MinUse(d, h, candidates)
       IN  Displace(d, a, rule, h, candidates, protected, d.gtable_lastinsert[i][h[i]])

Place(d, a, rule, protected) ==
  LET h == Hashes(rule.inputs)
  IN  PlaceAmong(d, a, rule, h,
                 {i \in Hs : i \in DOMAIN protected => h[i] # protected[i]}, protected)

(* The rule is placed and a rule it displaced is reinserted; ok is FALSE   *)
(* if the assertion of real_insert failed.                                 *)
Reinsert(d, first, protected) ==
  IF ~first.ok \/ first.victim = InvalidLastUser THEN first
  ELSE Place(first.dmhc, first.victim, d.mtable[first.victim], protected)

insert(d, a, rule) == Reinsert(d, Place(d, a, rule, << >>), Hashes(rule.inputs))

(* A full match table evicts the entry it reuses, for good. *)
MakeRoom(d, a) == IF d.mtable[a].use THEN evict_mtable_entry(d, a, << >>) ELSE d

-----------------------------------------------------------------------------
(* dmhc_rule_cache_t, driven as validate and commit drive it *)

reset == [gtable |-> [i \in Hs |-> [j \in 0 .. TableSize - 1 |-> 0]],
          gtable_cnt |-> [i \in Hs |-> [j \in 0 .. TableSize - 1 |-> 0]],
          gtable_lastinsert |-> [i \in Hs |-> [j \in 0 .. TableSize - 1 |-> InvalidLastUser]],
          mtable |-> [a \in Addr |-> EmptyEntry]]

(* A read past the end of gtable, or past the end of the match table. *)
OutOfTable(ops) == \E i \in Hs : Hash[i][ops] >= TableSize
OutOfMatchTable(d, ops) == Probes(d, ops) /\ AddressOf(d, Hashes(ops)) >= Capacity

allow(ops) ==
  /\ status = "running"
  /\ ops_copy' = ops
  /\ IF OutOfTable(ops) \/ OutOfMatchTable(dmhc, ops)
     THEN found' = FALSE /\ status' = "out_of_bounds"
     ELSE found' = lookup(dmhc, ops, Consider(ops)) /\ UNCHANGED status
  /\ UNCHANGED <<dmhc, next_entry>>

RuleOf(ops) ==
  [use |-> TRUE, inputs |-> ops, outputs |-> Outcome[ops], consider |-> Consider(ops)]

(* install_rule inserts the operands of the last allow, which commit has   *)
(* just called with the same ones and which has missed.  insert() then     *)
(* looks the rule up and exits if it is not there.                         *)
install_rule ==
  /\ status = "running"
  /\ ops_copy \in Operand /\ ~found
  /\ next_entry' = IF next_entry + 1 >= Capacity THEN 1 ELSE next_entry + 1
  /\ \E e \in {insert(MakeRoom(dmhc, next_entry), next_entry, RuleOf(ops_copy))} :
       /\ dmhc' = e.dmhc
       /\ status' = IF ~e.ok THEN "assert_failed"
                    ELSE IF ~lookup(e.dmhc, ops_copy, Consider(ops_copy)) THEN "not_found"
                    ELSE IF LookupResult(e.dmhc, ops_copy) # Outcome[ops_copy] THEN "wrong_result"
                    ELSE "running"
  /\ found' = TRUE
  /\ UNCHANGED ops_copy

flush ==
  /\ status = "running"
  /\ dmhc' = reset
  /\ next_entry' = 1
  /\ found' = TRUE
  /\ UNCHANGED <<ops_copy, status>>

Init ==
  /\ dmhc = reset
  /\ next_entry = 1
  /\ ops_copy = NoOps
  /\ found = TRUE
  /\ status = "running"

Next == (\E ops \in Operand : allow(ops)) \/ install_rule \/ flush

Spec == Init /\ [][Next]_vars

-----------------------------------------------------------------------------
(* Properties *)

Tables ==
  [gtable : [Hs -> [0 .. TableSize - 1 -> Word]],
   gtable_cnt : [Hs -> [0 .. TableSize - 1 -> 0 .. GtableMaxCount]],
   gtable_lastinsert : [Hs -> [0 .. TableSize - 1 -> Addr]],
   mtable : [Addr -> [use : BOOLEAN, inputs : Operand \cup {NoOps},
                      outputs : {Outcome[o] : o \in Operand} \cup {NoResults},
                      consider : SUBSET OpField]]]

(* A match table entry in use is the rule of its operands, whole; one not  *)
(* in use is blank, so that real_insert may leave fields of it as they are.*)
EntryOK(e) == IF e.use THEN e.inputs \in Operand /\ e = RuleOf(e.inputs)
                       ELSE e.inputs = NoOps

(* However rules are evicted and reinserted, a rule is never torn (dmhc.cc *)
(* real_insert, evict_mtable_entry).                                       *)
Consistent ==
  /\ dmhc \in Tables
  /\ \A a \in Addr : EntryOK(dmhc.mtable[a])
  /\ next_entry \in Addr

(* A rule the cache returns is the rule of the operands asked for          *)
(* (dmhc.cc "check if real hit").                                          *)
LookupSound ==
  \A o \in Operand :
    status = "running" /\ lookup(dmhc, o, Consider(o)) => LookupResult(dmhc, o) = Outcome[o]

(* The last user recorded for a table entry is a rule that hashes there:   *)
(* evicting it is what frees the entry.                                    *)
LastUserValid ==
  \A i \in Hs : \A j \in 0 .. TableSize - 1 :
    LET a == dmhc.gtable_lastinsert[i][j]
    IN  status = "running" /\ a # InvalidLastUser =>
          dmhc.mtable[a].use /\ Hash[i][dmhc.mtable[a].inputs] = j

(* insert() always finds the rule it has just inserted, although placing   *)
(* it may have moved another.                                              *)
InsertFinds == status \notin {"not_found", "wrong_result"}

(* real_insert is "only called after evicting rules to make space".        *)
SlotFree == status # "assert_failed"

(* Every address and hash is inside its table. *)
InBounds == status # "out_of_bounds"

=============================================================================
