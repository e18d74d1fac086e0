------------------------- MODULE RvValidatorProofs --------------------------
(***************************************************************************)
(* Proofs about the validator: its tags always denote metadata, its rule   *)
(* cache always agrees with the policy, and what the host sees of it: its  *)
(* reports, its watches, and that it implements the reference monitor      *)
(* PolicyMonitor.                                                          *)
(***************************************************************************)
EXTENDS RvValidator, TLAPS

-----------------------------------------------------------------------------
(* What canonize() guarantees, for every vector of meta sets *)

(* A tag returned for a meta set the vector knows denotes that meta set. *)
LEMMA CanonizeTagDenotes ==
  ASSUME NEW sets, NEW ms, Known(sets, ms)
  PROVE  /\ CanonizeTag(sets, ms) \in DOMAIN sets
         /\ sets[CanonizeTag(sets, ms)] = ms
  BY DEF Known, CanonizeTag

(* canonize() leaves a vector that knows the set, extends the old one and, *)
(* like the old one, stores no set twice.                                  *)
LEMMA CanonizeSetsExtends ==
  ASSUME NEW sets \in Seq(MetaSet), NEW ms \in MetaSet
  PROVE  /\ CanonizeSets(sets, ms) \in Seq(MetaSet)
         /\ Grows(sets, CanonizeSets(sets, ms))
         /\ Known(CanonizeSets(sets, ms), ms)
         /\ NoDuplicates(sets) => NoDuplicates(CanonizeSets(sets, ms))
<1>1. CASE Known(sets, ms)
  BY <1>1 DEF CanonizeSets, Grows
<1>2. CASE ~Known(sets, ms)
  <2> DEFINE t == Append(sets, ms)
  <2>1. /\ t \in Seq(MetaSet) /\ Len(t) = Len(sets) + 1
        /\ DOMAIN sets = 1 .. Len(sets) /\ DOMAIN t = 1 .. Len(sets) + 1
        /\ t[Len(sets) + 1] = ms /\ Len(sets) \in Nat
    OBVIOUS
  <2>2. \A i \in DOMAIN sets : t[i] = sets[i] /\ sets[i] # ms
    BY <1>2 DEF Known
  <2>3. CanonizeSets(sets, ms) = t
    BY <1>2 DEF CanonizeSets
  <2> HIDE DEF t
  <2>4. Grows(sets, t)
    BY <2>1, <2>2 DEF Grows
  <2>5. Known(t, ms)
    BY <2>1 DEF Known
  <2>6. NoDuplicates(sets) => NoDuplicates(t)
    BY <2>1, <2>2 DEF NoDuplicates
  <2>. QED  BY <2>1, <2>3, <2>4, <2>5, <2>6
<1>. QED  BY <1>1, <1>2

(* Growing is reflexive and transitive. *)
LEMMA GrowsReflexive ==
  ASSUME NEW sets \in Seq(MetaSet)
  PROVE  Grows(sets, sets)
  BY DEF Grows

LEMMA GrowsTransitive ==
  ASSUME NEW r \in Seq(MetaSet), NEW s \in Seq(MetaSet), NEW t \in Seq(MetaSet),
         Grows(r, s), Grows(s, t)
  PROVE  Grows(r, t)
  BY DEF Grows

(* A vector that has grown still knows what it knew. *)
LEMMA KnownGrows ==
  ASSUME NEW s \in Seq(MetaSet), NEW t \in Seq(MetaSet), Grows(s, t),
         NEW ms, Known(s, ms)
  PROVE  Known(t, ms)
  BY DEF Grows, Known

(* A tag keeps its meaning when the vector grows. *)
LEMMA GetMsStable ==
  ASSUME NEW s \in Seq(MetaSet), NEW t \in Seq(MetaSet), Grows(s, t),
         NEW tag \in 0 .. Len(s)
  PROVE  GetMs(t, tag) = GetMs(s, tag) /\ tag \in 0 .. Len(t)
  BY DEF Grows, GetMs, BadTag

-----------------------------------------------------------------------------
(* Operands *)

(* Every address the host uses has a tag cell or none. *)
LEMMA CellsTyped ==
  ASSUME NEW a \in Address
  PROVE  DataCellOf[a] \in Cell \cup {NoCell} /\ InsnCellOf[a] \in Cell \cup {NoCell}
<1>1. AddrFixer[a] \in Address
  BY ValidatorAssumption
<1>. QED  BY <1>1 DEF DataCellOf, InsnCellOf, Cell

(* prepare_eval collects tags. *)
LEMMA OperandTagsTyped ==
  ASSUME TypeOK, NEW pc \in Pc, NEW insn \in Insn, NEW addr \in Address
  PROVE  OperandTags(pc, insn, addr) \in [Field -> Tag]
<1>1. insn \in DecodedInsn /\ pc \in Address
  BY ValidatorAssumption
<1>2. BadTag \in Tag
  BY DEF BadTag, Tag, TypeOK
<1>3. \A r \in Reg \cup {None} : RegTag(r) \in Tag
  BY <1>2 DEF RegTag, TypeOK
<1>4. \A k \in Cell \cup {NoCell} : CellTag(k) \in Tag
  BY <1>2 DEF CellTag, TypeOK
<1>5. Op2Tag(insn) \in Tag
  BY <1>1, <1>2 DEF Op2Tag, DecodedInsn, TypeOK
<1>6. CellTag(InsnCellOf[pc]) \in Tag /\ CellTag(DataCellOf[addr]) \in Tag
  BY <1>1, <1>4, CellsTyped
<1>7. RegTag(insn.rs1) \in Tag /\ RegTag(insn.rs3) \in Tag /\ pc_tag \in Tag
  BY <1>1, <1>3 DEF DecodedInsn, TypeOK
<1>. QED  BY <1>2, <1>5, <1>6, <1>7 DEF OperandTags, Field

-----------------------------------------------------------------------------
(* The meta set vector during a validation *)

LEMMA CanonizeOptExtends ==
  ASSUME NEW sets \in Seq(MetaSet), NEW m \in MdOrNone
  PROVE  /\ CanonizeOpt(sets, m) \in Seq(MetaSet)
         /\ Grows(sets, CanonizeOpt(sets, m))
         /\ m # None => Known(CanonizeOpt(sets, m), m)
         /\ NoDuplicates(sets) => NoDuplicates(CanonizeOpt(sets, m))
<1>1. CASE m = None
  BY <1>1, GrowsReflexive DEF CanonizeOpt
<1>2. CASE m # None
  BY <1>2, CanonizeSetsExtends DEF CanonizeOpt, MdOrNone
<1>. QED  BY <1>1, <1>2

(* setup_validation canonizes the empty set. *)
LEMMA SetupSetsExtend ==
  ASSUME meta_sets \in Seq(MetaSet)
  PROVE  /\ SetupSets \in Seq(MetaSet) /\ Grows(meta_sets, SetupSets)
         /\ Known(SetupSets, EmptySet)
         /\ NoDuplicates(meta_sets) => NoDuplicates(SetupSets)
  BY MetaSetAssumption, CanonizeSetsExtends DEF SetupSets

(* eval_policy canonizes its results. *)
LEMMA EvalSetsExtend ==
  ASSUME meta_sets \in Seq(MetaSet), NEW r \in Outcome
  PROVE  /\ EvalSets(r) \in Seq(MetaSet) /\ Grows(meta_sets, EvalSets(r))
         /\ Known(EvalSets(r), EmptySet)
         /\ \A m \in {r.pc, r.rd, r.csr} : m # None => Known(EvalSets(r), m)
         /\ NoDuplicates(meta_sets) => NoDuplicates(EvalSets(r))
<1> DEFINE s1 == CanonizeOpt(SetupSets, r.pc)
           s2 == CanonizeOpt(s1, r.rd)
           s3 == CanonizeOpt(s2, r.csr)
<1>1. r.pc \in MdOrNone /\ r.rd \in MdOrNone /\ r.csr \in MdOrNone
  BY DEF Outcome
<1>2. EvalSets(r) = s3
  BY DEF EvalSets
<1>3. /\ s1 \in Seq(MetaSet) /\ Grows(SetupSets, s1)
      /\ r.pc # None => Known(s1, r.pc)
      /\ NoDuplicates(SetupSets) => NoDuplicates(s1)
  BY <1>1, SetupSetsExtend, CanonizeOptExtends
<1> HIDE DEF s1
<1>4. /\ s2 \in Seq(MetaSet) /\ Grows(s1, s2)
      /\ r.rd # None => Known(s2, r.rd)
      /\ NoDuplicates(s1) => NoDuplicates(s2)
  BY <1>1, <1>3, CanonizeOptExtends
<1> HIDE DEF s2
<1>5. /\ s3 \in Seq(MetaSet) /\ Grows(s2, s3)
      /\ r.csr # None => Known(s3, r.csr)
      /\ NoDuplicates(s2) => NoDuplicates(s3)
  BY <1>1, <1>4, CanonizeOptExtends
<1> HIDE DEF s3
<1>6. Grows(s1, s3) /\ Grows(SetupSets, s3) /\ Grows(meta_sets, s3)
  BY <1>3, <1>4, <1>5, SetupSetsExtend, GrowsTransitive
<1>7. Known(s3, EmptySet)
  BY <1>5, <1>6, SetupSetsExtend, KnownGrows
<1>8. r.pc # None => Known(s3, r.pc)
  BY <1>3, <1>5, <1>6, KnownGrows
<1>9. r.rd # None => Known(s3, r.rd)
  BY <1>4, <1>5, KnownGrows
<1>. QED  BY <1>2, <1>3, <1>4, <1>5, <1>6, <1>7, <1>8, <1>9, SetupSetsExtend

(* A result tag denotes the metadata the policy returned, or the empty set. *)
LEMMA TagOptDenotes ==
  ASSUME NEW sets \in Seq(MetaSet), NEW m \in MdOrNone,
         Known(sets, EmptySet), m # None => Known(sets, m)
  PROVE  /\ TagOpt(sets, m) \in 1 .. Len(sets)
         /\ m # None => GetMs(sets, TagOpt(sets, m)) = m
<1> DEFINE k == IF m = None THEN EmptySet ELSE m
<1>1. Known(sets, k) /\ TagOpt(sets, m) = CanonizeTag(sets, k)
  BY DEF TagOpt
<1>2. CanonizeTag(sets, k) \in DOMAIN sets /\ sets[CanonizeTag(sets, k)] = k
  BY <1>1, CanonizeTagDenotes
<1>. QED  BY <1>1, <1>2 DEF GetMs, BadTag

-----------------------------------------------------------------------------
(* Types *)

(* As the vector grows tags stay tags and results stay valid. *)
LEMMA TagsGrow ==
  ASSUME meta_sets \in Seq(MetaSet), meta_sets' \in Seq(MetaSet),
         Grows(meta_sets, meta_sets')
  PROVE  /\ Tag \subseteq Tag'
         /\ \A t : ValidResult(t) => ValidResult(t)'
<1>1. Len(meta_sets) \in Nat /\ Len(meta_sets') \in Nat /\ Len(meta_sets) <= Len(meta_sets')
  BY DEF Grows
<1>. QED  BY <1>1 DEF Tag, ValidResult

(* install_rule changes the table at the installed operands only, and may  *)
(* remove another rule.                                                    *)
LEMMA InstallEffect ==
  ASSUME NEW o, NEW r, CacheInstall(o, r)
  PROVE  /\ DOMAIN rule_cache_table' \subseteq DOMAIN rule_cache_table \cup {o}
         /\ \A x \in DOMAIN rule_cache_table' :
              rule_cache_table'[x] = IF x = o THEN r ELSE rule_cache_table[x]
<1>1. CASE RuleCacheKind = "finite"
  <2>1. rule_cache_table' = Finite!Ideal!Put(Finite!Evicted, o, r)
    BY <1>1 DEF CacheInstall, Finite!install_rule
  <2>2. /\ DOMAIN Finite!Evicted \subseteq DOMAIN rule_cache_table
        /\ \A x \in DOMAIN Finite!Evicted : Finite!Evicted[x] = rule_cache_table[x]
    BY DEF Finite!Evicted, Finite!Ideal!Erase
  <2>. QED  BY <2>1, <2>2 DEF Finite!Ideal!Put
<1>2. CASE RuleCacheKind # "finite"
  BY <1>2 DEF CacheInstall, Ideal!install_rule, Ideal!Put
<1>. QED  BY <1>1, <1>2

(* install_rule keeps the ring of a finite cache in shape. *)
LEMMA InstallRing ==
  ASSUME Finite!TypeOK, NEW o \in Operand, NEW r, CacheInstall(o, r)
  PROVE  /\ entries' \in [Finite!Slots -> Operand]
         /\ next_entry' \in Finite!Slots
         /\ cache_full' \in BOOLEAN
<1>1. CASE RuleCacheKind = "finite"
  <2>1. Capacity \in Nat \ {0}
    BY ValidatorAssumption
  <2>2. Finite!install_rule(o, r)
    BY <1>1 DEF CacheInstall
  <2>3. entries' \in [Finite!Slots -> Operand]
    BY <2>2 DEF Finite!install_rule, Finite!TypeOK
  <2>4. next_entry' \in Finite!Slots
    BY <2>1, <2>2 DEF Finite!install_rule, Finite!TypeOK, Finite!Slots
  <2>5. cache_full' \in BOOLEAN
    BY <2>2 DEF Finite!install_rule, Finite!TypeOK
  <2>. QED  BY <2>3, <2>4, <2>5
<1>2. CASE RuleCacheKind # "finite"
  BY <1>2 DEF CacheInstall, Finite!TypeOK
<1>. QED  BY <1>1, <1>2

(* A tag of the vector is a natural number. *)
LEMMA TagsAreNumbers ==
  ASSUME meta_sets \in Seq(MetaSet)
  PROVE  /\ [Field -> Tag] \subseteq Operand
         /\ \A t : ValidResult(t) => t \in Result
<1>1. Tag \subseteq Nat /\ 1 .. Len(meta_sets) \subseteq Nat
  BY DEF Tag
<1>. QED  BY <1>1 DEF Operand, Result, ValidResult

(* The constructor leaves tags that denote the start-up metadata. *)
LEMMA InitType == Init => TypeOK
<1> SUFFICES ASSUME Init PROVE TypeOK
  OBVIOUS
<1>1. meta_sets \in Seq(MetaSet) /\ meta_sets = InitSets /\ Len(meta_sets) \in Nat
  BY ValidatorAssumption DEF Init
<1>2. ASSUME NEW m \in MdOrNone, m # None => Known(InitSets, m)
      PROVE  InitTag(m) \in Tag
  BY <1>1, <1>2, CanonizeTagDenotes DEF InitTag, Tag, BadTag
<1>3. pc_tag \in Tag
  BY <1>2, ValidatorAssumption DEF Init
<1>4. ireg_tags \in [Reg -> Tag]
  BY <1>2, ValidatorAssumption DEF Init
<1>5. csr_tags \in [Csr -> Tag]
  BY <1>2, ValidatorAssumption DEF Init
<1>6. cell_tags \in [Cell -> Tag]
  BY <1>2, ValidatorAssumption DEF Init
<1>7. ops \in [Field -> Tag] /\ failed_ops \in [Field -> Tag]
  BY <1>1 DEF Init, ZeroOps, BadTag, Tag
<1>8. ctx \in Context /\ failed_ctx \in Context
  BY ValidatorAssumption DEF Init, Context
<1>9. Finite!TypeOK
  <2>1. Finite!Ideal!TableType
    BY DEF Init, Finite!finite_rule_cache, Finite!Ideal!ideal_rule_cache,
           Finite!Ideal!EmptyTable, Finite!Ideal!TableType
  <2>2. ZeroOps \in Operand
    BY DEF ZeroOps, BadTag, Operand
  <2>3. entries \in [Finite!Slots -> Operand] /\ next_entry \in Finite!Slots
    BY <2>2, ValidatorAssumption DEF Init, Finite!finite_rule_cache, Finite!Slots
  <2>4. cache_full \in BOOLEAN
    BY DEF Init, Finite!finite_rule_cache
  <2>. QED  BY <2>1, <2>3, <2>4 DEF Finite!TypeOK
<1>10. DOMAIN rule_cache_table = {}
  BY DEF Init, Finite!finite_rule_cache, Finite!Ideal!ideal_rule_cache, Finite!Ideal!EmptyTable
<1>11. pending \in [RD : Reg \cup {None}, CSR : Csr \cup {None}, mem : BOOLEAN]
  BY DEF Init
<1>12. watches \in [pc : BOOLEAN, regs : SUBSET Reg, csrs : SUBSET Csr, addrs : SUBSET Address]
  BY DEF Init
<1>13. /\ mem_addr \in Address /\ has_insn_mem_addr \in BOOLEAN /\ failed \in BOOLEAN
       /\ rule_cache_hit \in BOOLEAN /\ hit_watch \in BOOLEAN
       /\ verdict = "none" /\ asked = None
  BY ValidatorAssumption DEF Init
<1>14. rule_cache_hits \in 0 .. CountMax /\ rule_cache_misses \in 0 .. CountMax
  BY ValidatorAssumption DEF Init
<1>. QED  BY <1>1, <1>3, <1>4, <1>5, <1>6, <1>7, <1>8, <1>9, <1>10, <1>11, <1>12, <1>13, <1>14
          DEF TypeOK

(* The address a validation uses is an address. *)
LEMMA EffectiveAddrTyped ==
  ASSUME NEW insn, NEW staged, NEW mem \in Address, NEW addr \in Address
  PROVE  EffectiveAddr(insn, staged, mem, addr) \in Address
  BY DEF EffectiveAddr

LEMMA ContextTyped ==
  ASSUME NEW pc \in Pc, NEW insn, NEW addr \in Address, NEW cached \in BOOLEAN
  PROVE  ContextOf(pc, insn, addr, cached) \in Context
  BY ValidatorAssumption DEF ContextOf, Context

(* The result tags of an outcome are valid in the vector it leaves, and    *)
(* denote the metadata of the outcome.                                     *)
LEMMA ResultTagsDenote ==
  ASSUME meta_sets \in Seq(MetaSet), NEW r \in Outcome, meta_sets' = EvalSets(r),
         res' = ResultTags(r)
  PROVE  ValidResult(res)' /\ ResultMd(res)' = OutcomeMd(r)
<1> DEFINE s == EvalSets(r)
<1>1. /\ s \in Seq(MetaSet) /\ Known(s, EmptySet)
      /\ \A m \in {r.pc, r.rd, r.csr} : m # None => Known(s, m)
  BY EvalSetsExtend
<1>2. r.pc \in MdOrNone /\ r.rd \in MdOrNone /\ r.csr \in MdOrNone
  BY DEF Outcome
<1>3. res' = [pc  |-> TagOpt(s, r.pc),  pcResult  |-> r.pc # None,
              rd  |-> TagOpt(s, r.rd),  rdResult  |-> r.rd # None,
              csr |-> TagOpt(s, r.csr), csrResult |-> r.csr # None]
  BY DEF ResultTags
<1> HIDE DEF s
<1>4. \A m \in {r.pc, r.rd, r.csr} :
        /\ TagOpt(s, m) \in 1 .. Len(s)
        /\ m # None => GetMs(s, TagOpt(s, m)) = m
  BY <1>1, <1>2, TagOptDenotes
<1>5. meta_sets' = s
  BY DEF s
<1>6. ValidResult(res)'
  BY <1>3, <1>4, <1>5 DEF ValidResult
<1>7. ResultMd(res)' = OutcomeMd(r)
  <2>1. /\ res'.pc = TagOpt(s, r.pc) /\ res'.rd = TagOpt(s, r.rd)
        /\ res'.csr = TagOpt(s, r.csr)
    BY <1>3
  <2>2. res'.pcResult = (r.pc # None)
    BY <1>3
  <2>3. res'.rdResult = (r.rd # None)
    BY <1>3
  <2>4. res'.csrResult = (r.csr # None)
    BY <1>3
  <2>5. (IF res'.pcResult THEN GetMs(s, res'.pc) ELSE None) = r.pc
    BY <1>4, <2>1, <2>2, Zenon
  <2>6. (IF res'.rdResult THEN GetMs(s, res'.rd) ELSE None) = r.rd
    BY <1>4, <2>1, <2>3, Zenon
  <2>7. (IF res'.csrResult THEN GetMs(s, res'.csr) ELSE None) = r.csr
    BY <1>4, <2>1, <2>4, Zenon
  <2>. QED  BY <1>5, <2>5, <2>6, <2>7, Zenon DEF ResultMd, OutcomeMd
<1>. QED  BY <1>6, <1>7

(* The operands denote meta sets or nothing. *)
LEMMA OperandMdTyped ==
  ASSUME TypeOK, NEW o \in [Field -> Tag]
  PROVE  OperandMd(o) \in [Field -> MdOrNone]
<1>1. \A f \in Field : o[f] \in 0 .. Len(meta_sets)
  BY DEF Tag
<1>2. meta_sets \in Seq(MetaSet)
  BY DEF TypeOK
<1>3. \A t \in 0 .. Len(meta_sets) : GetMs(meta_sets, t) \in MdOrNone
  BY <1>2 DEF GetMs, BadTag, MdOrNone
<1>. QED  BY <1>1, <1>3 DEF OperandMd

(* What every way to end an evaluation establishes. *)
LEMMA BranchType ==
  ASSUME TypeOK, NEW pc \in Pc, NEW insn \in Insn, NEW addr \in Address,
         NEW o \in [Field -> Tag],
         \/ RuleCacheHit(pc, insn, addr, o)
         \/ EvalSuccess(pc, insn, addr, o)
         \/ EvalFailure(pc, insn, addr, o)
  PROVE  /\ meta_sets' \in Seq(MetaSet) /\ Grows(meta_sets, meta_sets')
         /\ NoDuplicates(meta_sets) => NoDuplicates(meta_sets')
         /\ ctx' \in Context
         /\ verdict' \in {"allowed", "denied"}
         /\ verdict' = "allowed" => ValidResult(res)'
         /\ failed' \in BOOLEAN /\ failed_ctx' \in Context
         /\ failed_ops' \in [Field -> Tag']
<1>0. meta_sets \in Seq(MetaSet) /\ failed_ctx \in Context /\ failed_ops \in [Field -> Tag]
  BY DEF TypeOK
<1>1. CASE RuleCacheHit(pc, insn, addr, o)
  <2>1. /\ meta_sets' \in Seq(MetaSet) /\ Grows(meta_sets, meta_sets')
        /\ NoDuplicates(meta_sets) => NoDuplicates(meta_sets')
    BY <1>0, <1>1, SetupSetsExtend DEF RuleCacheHit
  <2>2. ValidResult(res')
    <3>1. o \in DOMAIN rule_cache_table
      BY <1>1 DEF RuleCacheHit, CacheAllows, Finite!allow, Ideal!allow
    <3>. QED  BY <1>1, <3>1 DEF RuleCacheHit, Ideal!Cached, TypeOK
  <2>3. ValidResult(res)'
    BY <1>0, <2>1, <2>2 DEF ValidResult, Grows
  <2>4. ctx' \in Context
    BY <1>1, ContextTyped DEF RuleCacheHit
  <2>5. failed' = FALSE /\ failed_ctx' = failed_ctx /\ failed_ops' = failed_ops
        /\ verdict' = "allowed"
    BY <1>1 DEF RuleCacheHit, NoViolation
  <2>6. failed_ops' \in [Field -> Tag']
    BY <1>0, <2>1, <2>5, TagsGrow
  <2>. QED  BY <1>0, <2>1, <2>3, <2>4, <2>5, <2>6
<1>2. CASE EvalSuccess(pc, insn, addr, o)
  <2>1. OperandMd(o) \in [Field -> MdOrNone]
    BY <1>0 DEF OperandMd, GetMs, Tag, BadTag, MdOrNone
  <2>2. PICK r \in PolicyEval(OperandMd(o)) :
          /\ meta_sets' = EvalSets(r) /\ res' = ResultTags(r)
          /\ ctx' = ContextOf(pc, insn, addr, r.cached)
    BY <1>2 DEF EvalSuccess
  <2>3. r \in Outcome
    BY <2>1, <2>2, PolicyAssumption
  <2>4. /\ meta_sets' \in Seq(MetaSet) /\ Grows(meta_sets, meta_sets')
        /\ NoDuplicates(meta_sets) => NoDuplicates(meta_sets')
    BY <1>0, <2>2, <2>3, EvalSetsExtend
  <2>5. ValidResult(res)'
    BY <1>0, <2>2, <2>3, ResultTagsDenote
  <2>6. ctx' \in Context
    BY <2>2, <2>3, ContextTyped DEF Outcome
  <2>7. failed' = FALSE /\ failed_ctx' = failed_ctx /\ failed_ops' = failed_ops
        /\ verdict' = "allowed"
    BY <1>2 DEF EvalSuccess, NoViolation
  <2>8. failed_ops' \in [Field -> Tag']
    BY <1>0, <2>4, <2>7, TagsGrow
  <2>. QED  BY <1>0, <2>4, <2>5, <2>6, <2>7, <2>8
<1>3. CASE EvalFailure(pc, insn, addr, o)
  <2>1. OperandMd(o) \in [Field -> MdOrNone]
    BY <1>0 DEF OperandMd, GetMs, Tag, BadTag, MdOrNone
  <2>2. PICK r \in PolicyEval(OperandMd(o)) : ctx' = ContextOf(pc, insn, addr, r.cached)
    BY <1>3 DEF EvalFailure
  <2>3. ctx' \in Context
    BY <2>1, <2>2, PolicyAssumption, ContextTyped DEF Outcome
  <2>4. /\ meta_sets' \in Seq(MetaSet) /\ Grows(meta_sets, meta_sets')
        /\ NoDuplicates(meta_sets) => NoDuplicates(meta_sets')
    BY <1>0, <1>3, SetupSetsExtend DEF EvalFailure
  <2>5. failed' = TRUE /\ failed_ctx' = ctx' /\ failed_ops' = o /\ verdict' = "denied"
    BY <1>3 DEF EvalFailure, handle_violation
  <2>6. failed_ops' \in [Field -> Tag']
    BY <1>0, <2>4, <2>5, TagsGrow
  <2>. QED  BY <2>3, <2>4, <2>5, <2>6
<1>. QED  BY <1>1, <1>2, <1>3

(* Tags that a validation leaves alone stay tags, of a larger vector. *)
LEMMA MachineKept ==
  ASSUME TypeOK, meta_sets' \in Seq(MetaSet), Grows(meta_sets, meta_sets'),
         UNCHANGED <<machine, rule_cache, watches>>
  PROVE  /\ pc_tag' \in Tag' /\ ireg_tags' \in [Reg -> Tag']
         /\ csr_tags' \in [Csr -> Tag'] /\ cell_tags' \in [Cell -> Tag']
         /\ Finite!TypeOK'
         /\ DOMAIN rule_cache_table' \subseteq [Field -> Tag']
         /\ \A o \in DOMAIN rule_cache_table' : ValidResult(rule_cache_table[o])'
         /\ watches' \in [pc : BOOLEAN, regs : SUBSET Reg,
                          csrs : SUBSET Csr, addrs : SUBSET Address]
<1>1. Tag \subseteq Tag'
  BY TagsGrow DEF TypeOK
<1>2. /\ pc_tag' \in Tag' /\ ireg_tags' \in [Reg -> Tag']
      /\ csr_tags' \in [Csr -> Tag'] /\ cell_tags' \in [Cell -> Tag']
  BY <1>1 DEF TypeOK, machine
<1>3. Finite!TypeOK'
  BY DEF TypeOK, rule_cache, Finite!TypeOK, Finite!Ideal!TableType
<1>4. DOMAIN rule_cache_table' \subseteq [Field -> Tag']
  BY <1>1 DEF TypeOK, rule_cache
<1>5. ASSUME NEW o \in DOMAIN rule_cache_table'
      PROVE  ValidResult(rule_cache_table[o])'
  <2>1. ValidResult(rule_cache_table[o]) /\ rule_cache_table' = rule_cache_table
    BY <1>5 DEF TypeOK, rule_cache
  <2>2. Len(meta_sets) \in Nat /\ Len(meta_sets') \in Nat /\ Len(meta_sets) <= Len(meta_sets')
    BY DEF Grows, TypeOK
  <2>. QED  BY <2>1, <2>2 DEF ValidResult
<1>. QED  BY <1>2, <1>3, <1>4, <1>5 DEF TypeOK

(* The counters stay within their bound. *)
LEMMA CountLookupTyped ==
  ASSUME TypeOK, NEW hit \in BOOLEAN, NEW twice, CountLookup(hit, twice)
  PROVE  /\ rule_cache_hit' \in BOOLEAN
         /\ rule_cache_hits' \in 0 .. CountMax /\ rule_cache_misses' \in 0 .. CountMax
<1>1. \A n \in 0 .. CountMax : Count(n) \in 0 .. CountMax
  BY ValidatorAssumption DEF Count
<1>2. CASE ~HasCache
  BY <1>2 DEF CountLookup, stats, TypeOK
<1>3. CASE HasCache
  BY <1>1, <1>3 DEF CountLookup, TypeOK
<1>. QED  BY <1>2, <1>3

LEMMA EvaluateType ==
  ASSUME TypeOK, NEW pc \in Pc, NEW insn \in Insn, NEW addr \in Address,
         NEW staged \in BOOLEAN, NEW mem \in Address, NEW twice,
         validate(pc, insn, addr, staged, mem, twice),
         Evaluate(pc, insn, addr, staged, mem, twice)
  PROVE  TypeOK'
<1> DEFINE used == EffectiveAddr(insn, staged, mem, addr)
           o == OperandTags(pc, insn, used)
<1>1. used \in Address
  BY EffectiveAddrTyped
<1>2. o \in [Field -> Tag]
  BY <1>1, OperandTagsTyped
<1>3. /\ \/ RuleCacheHit(pc, insn, used, o)
         \/ EvalSuccess(pc, insn, used, o)
         \/ EvalFailure(pc, insn, used, o)
      /\ ops' = o /\ pending' = PendingOf(insn) /\ mem_addr' = used
      /\ has_insn_mem_addr' \in BOOLEAN
      /\ CountLookup(CacheAllows(o), twice)
  BY DEF Evaluate, IsMem
<1>4. /\ hit_watch' = FALSE /\ UNCHANGED <<machine, rule_cache, watches>>
      /\ asked' \in [pc : Pc, insn : Insn, addr : Address]
  BY ValidatorAssumption DEF validate
<1> HIDE DEF o, used
<1>5. /\ meta_sets' \in Seq(MetaSet) /\ Grows(meta_sets, meta_sets')
      /\ ctx' \in Context /\ verdict' \in {"allowed", "denied"}
      /\ verdict' = "allowed" => ValidResult(res)'
      /\ failed' \in BOOLEAN /\ failed_ctx' \in Context
      /\ failed_ops' \in [Field -> Tag']
  BY <1>1, <1>2, <1>3, BranchType
<1>6. ops' \in [Field -> Tag']
  BY <1>2, <1>3, <1>5, TagsGrow DEF TypeOK
<1>7. pending' \in [RD : Reg \cup {None}, CSR : Csr \cup {None}, mem : BOOLEAN]
  BY <1>3, ValidatorAssumption DEF PendingOf, DecodedInsn
<1>8. CacheAllows(o) \in BOOLEAN
  BY DEF CacheAllows, Finite!allow, Ideal!allow, HasCache
<1>9. /\ rule_cache_hit' \in BOOLEAN
      /\ rule_cache_hits' \in 0 .. CountMax /\ rule_cache_misses' \in 0 .. CountMax
  BY <1>3, <1>8, CountLookupTyped
<1>. QED  BY <1>1, <1>3, <1>4, <1>5, <1>6, <1>7, <1>9, MachineKept DEF TypeOK

LEMMA FatalType ==
  ASSUME TypeOK, NEW pc \in Pc, NEW insn \in Insn, NEW addr \in Address,
         NEW staged, NEW mem, NEW twice,
         validate(pc, insn, addr, staged, mem, twice),
         Fatal(insn, addr, staged, mem)
  PROVE  TypeOK'
<1>1. /\ hit_watch' = FALSE /\ UNCHANGED <<machine, rule_cache, watches>>
      /\ asked' \in [pc : Pc, insn : Insn, addr : Address]
  BY ValidatorAssumption DEF validate
<1>2. /\ UNCHANGED <<meta_sets, evaluation, stats, failed_ctx, failed_ops>>
      /\ failed' = FALSE /\ verdict' = "fatal"
  BY DEF Fatal, NoViolation
<1>3. Grows(meta_sets, meta_sets') /\ meta_sets' \in Seq(MetaSet)
  BY <1>2, GrowsReflexive DEF TypeOK
<1>4. Tag' = Tag
  BY <1>2 DEF Tag
<1>. QED  BY <1>1, <1>2, <1>3, <1>4, MachineKept DEF TypeOK, evaluation, stats

LEMMA ValidateType ==
  ASSUME TypeOK, NEW pc \in Pc, NEW insn \in Insn, NEW addr \in Address,
         Validate(pc, insn, addr) \/ ValidateCached(pc, insn, addr)
  PROVE  TypeOK'
<1>1. has_insn_mem_addr \in BOOLEAN /\ mem_addr \in Address
  BY DEF TypeOK
<1>2. PICK staged \in BOOLEAN, mem \in Address, twice \in BOOLEAN :
        validate(pc, insn, addr, staged, mem, twice)
  BY <1>1 DEF Validate, ValidateCached
<1>3. \/ Evaluate(pc, insn, addr, staged, mem, twice)
      \/ Fatal(insn, addr, staged, mem)
  BY <1>2 DEF validate
<1>. QED  BY <1>2, <1>3, EvaluateType, FatalType

(* The rule commit installs has tags for operands and results. *)
LEMMA InstallType ==
  ASSUME TypeOK, verdict = "allowed", meta_sets' = meta_sets,
         \/ CacheInstall(ops, res)
         \/ UNCHANGED rule_cache
  PROVE  /\ Finite!TypeOK'
         /\ DOMAIN rule_cache_table' \subseteq [Field -> Tag']
         /\ \A o \in DOMAIN rule_cache_table' : ValidResult(rule_cache_table[o])'
<1>1. Tag' = Tag /\ ops \in [Field -> Tag] /\ ops \in Operand /\ ValidResult(res)
  BY TagsAreNumbers DEF TypeOK, Tag
<1>2. CASE UNCHANGED rule_cache
  BY <1>1, <1>2 DEF TypeOK, rule_cache, Finite!TypeOK, Finite!Ideal!TableType, ValidResult
<1>3. CASE CacheInstall(ops, res)
  <2>1. /\ DOMAIN rule_cache_table' \subseteq DOMAIN rule_cache_table \cup {ops}
        /\ \A x \in DOMAIN rule_cache_table' :
             rule_cache_table'[x] = IF x = ops THEN res ELSE rule_cache_table[x]
    BY <1>3, InstallEffect
  <2>2. DOMAIN rule_cache_table' \subseteq [Field -> Tag']
    BY <1>1, <2>1 DEF TypeOK
  <2>3. \A x \in DOMAIN rule_cache_table' : ValidResult(rule_cache_table'[x])
    BY <1>1, <2>1 DEF TypeOK
  <2>4. \A x \in DOMAIN rule_cache_table' : ValidResult(rule_cache_table[x])'
    BY <2>3 DEF ValidResult
  <2>5. Finite!Ideal!TableType'
    BY <1>1, <2>2, <2>3, TagsAreNumbers DEF Finite!Ideal!TableType, TypeOK
  <2>6. Finite!TypeOK'
    BY <1>1, <1>3, <2>5, InstallRing DEF TypeOK, Finite!TypeOK, Finite!Slots
  <2>. QED  BY <2>2, <2>4, <2>6
<1>. QED  BY <1>2, <1>3

LEMMA CommitType ==
  ASSUME TypeOK, Commit
  PROVE  TypeOK'
<1>1. /\ verdict = "allowed" /\ verdict' = "none" /\ hit_watch' = WatchHit
      /\ UNCHANGED <<meta_sets, evaluation, report, stats, watches, asked>>
  BY DEF Commit
<1>2. Tag' = Tag /\ ValidResult(res)
  BY <1>1 DEF Tag, TypeOK
<1>3. res.pc \in Tag /\ res.rd \in Tag /\ res.csr \in Tag
  BY <1>2 DEF ValidResult, Tag, TypeOK
<1>4. pc_tag' \in Tag'
  BY <1>2, <1>3 DEF Commit, TypeOK
<1>5. ireg_tags' \in [Reg -> Tag']
  BY <1>2, <1>3 DEF Commit, TypeOK
<1>6. csr_tags' \in [Csr -> Tag']
  BY <1>2, <1>3 DEF Commit, TypeOK
<1>7. cell_tags' \in [Cell -> Tag']
  BY <1>2, <1>3 DEF Commit, TypeOK
<1>8. /\ Finite!TypeOK'
      /\ DOMAIN rule_cache_table' \subseteq [Field -> Tag']
      /\ \A o \in DOMAIN rule_cache_table' : ValidResult(rule_cache_table[o])'
  BY <1>1, InstallType DEF Commit
<1>9. hit_watch' \in BOOLEAN
  BY <1>1 DEF WatchHit
<1>. QED  BY <1>1, <1>2, <1>4, <1>5, <1>6, <1>7, <1>8, <1>9
          DEF TypeOK, evaluation, report, stats

(* A flush empties the table and leaves everything else. *)
LEMMA FlushEffect ==
  ASSUME FlushRuleCache
  PROVE  /\ UNCHANGED <<meta_sets, machine, evaluation, report, stats, watches, host>>
         /\ UNCHANGED <<entries, next_entry, cache_full>>
         /\ rule_cache_table' = rule_cache_table \/ DOMAIN rule_cache_table' = {}
  BY DEF FlushRuleCache, CacheFlush, rule_cache, Finite!flush, Finite!ring, Ideal!flush,
         Finite!Ideal!flush, Ideal!EmptyTable, Finite!Ideal!EmptyTable

LEMMA FlushType ==
  ASSUME TypeOK, FlushRuleCache
  PROVE  TypeOK'
<1>1. /\ UNCHANGED <<meta_sets, machine, evaluation, report, stats, watches, host>>
      /\ UNCHANGED <<entries, next_entry, cache_full>>
      /\ DOMAIN rule_cache_table' \subseteq DOMAIN rule_cache_table
      /\ \A o \in DOMAIN rule_cache_table' : rule_cache_table'[o] = rule_cache_table[o]
  BY FlushEffect
<1>2. Tag' = Tag
  BY <1>1 DEF Tag
<1>3. Finite!TypeOK'
  BY <1>1 DEF TypeOK, Finite!TypeOK, Finite!Ideal!TableType
<1>4. \A o \in DOMAIN rule_cache_table' : ValidResult(rule_cache_table[o])'
  BY <1>1 DEF TypeOK, ValidResult
<1>5. verdict' = "allowed" => ValidResult(res)'
  BY <1>1 DEF TypeOK, ValidResult, evaluation, host
<1>. QED  BY <1>1, <1>2, <1>3, <1>4, <1>5
          DEF TypeOK, machine, evaluation, report, stats, host

LEMMA SetWatchType ==
  ASSUME TypeOK, SetWatch
  PROVE  TypeOK'
<1>1. UNCHANGED <<meta_sets, machine, evaluation, report, rule_cache, stats, host>>
  BY DEF SetWatch
<1>2. watches' \in [pc : BOOLEAN, regs : SUBSET Reg,
                    csrs : SUBSET Csr, addrs : SUBSET Address]
  <2>1. watches \in [pc : BOOLEAN, regs : SUBSET Reg,
                     csrs : SUBSET Csr, addrs : SUBSET Address]
    BY DEF TypeOK
  <2>2. /\ Watchable.pc \subseteq BOOLEAN /\ Watchable.regs \subseteq Reg
        /\ Watchable.csrs \subseteq Csr /\ Watchable.addrs \subseteq Address
    BY ValidatorAssumption
  <2>3. CASE \E b \in Watchable.pc : watches' = [watches EXCEPT !.pc = b]
    BY <2>1, <2>2, <2>3
  <2>4. CASE \E r \in Watchable.regs : watches' = [watches EXCEPT !.regs = @ \cup {r}]
    BY <2>1, <2>2, <2>4
  <2>5. CASE \E c \in Watchable.csrs : watches' = [watches EXCEPT !.csrs = @ \cup {c}]
    BY <2>1, <2>2, <2>5
  <2>6. CASE \E a \in Watchable.addrs : watches' = [watches EXCEPT !.addrs = @ \cup {a}]
    BY <2>1, <2>2, <2>6
  <2>. QED  BY <2>3, <2>4, <2>5, <2>6 DEF SetWatch
<1>3. Tag' = Tag /\ Finite!TypeOK'
  BY <1>1 DEF Tag, TypeOK, rule_cache, Finite!TypeOK, Finite!Ideal!TableType
<1>. QED  BY <1>1, <1>2, <1>3
          DEF TypeOK, ValidResult, machine, evaluation, report, rule_cache, stats, host

LEMMA StutterType ==
  ASSUME TypeOK, UNCHANGED vars
  PROVE  TypeOK'
  BY DEF vars, TypeOK, Tag, ValidResult, machine, evaluation, report, rule_cache, stats, host,
         Finite!TypeOK, Finite!Ideal!TableType

(* Every tag the validator holds, in its registers, its memory and its     *)
(* rule cache, is BAD_TAG_VALUE or an index of the meta set vector, so     *)
(* get_ms never reads outside it (main.cc get_ms).                         *)
THEOREM RvTypeCorrect == Spec => []TypeOK
<1>1. TypeOK /\ [Next]_vars => TypeOK'
  <2> SUFFICES ASSUME TypeOK, [Next]_vars PROVE TypeOK'
    OBVIOUS
  <2>1. ASSUME NEW pc \in Pc, NEW insn \in Insn, NEW addr \in Address,
               Validate(pc, insn, addr) \/ ValidateCached(pc, insn, addr)
        PROVE  TypeOK'
    BY <2>1, ValidateType
  <2>2. CASE Commit
    BY <2>2, CommitType
  <2>3. CASE FlushRuleCache
    BY <2>3, FlushType
  <2>4. CASE SetWatch
    BY <2>4, SetWatchType
  <2>5. CASE UNCHANGED vars
    BY <2>5, StutterType
  <2>. QED  BY <2>1, <2>2, <2>3, <2>4, <2>5 DEF Next
<1>. QED  BY <1>1, InitType, PTL DEF Spec

-----------------------------------------------------------------------------
(* Canonical tags and the rule cache *)

(* A step adds meta sets at the end of the vector, none of them twice. *)
LEMMA SetsGrow ==
  ASSUME TypeOK, [Next]_vars
  PROVE  /\ Grows(meta_sets, meta_sets')
         /\ NoDuplicates(meta_sets) => NoDuplicates(meta_sets')
<1>1. CASE meta_sets' = meta_sets
  BY <1>1, GrowsReflexive DEF TypeOK
<1>2. ASSUME NEW pc \in Pc, NEW insn \in Insn, NEW addr \in Address,
             NEW staged \in BOOLEAN, NEW mem \in Address, NEW twice,
             Evaluate(pc, insn, addr, staged, mem, twice)
      PROVE  /\ Grows(meta_sets, meta_sets')
             /\ NoDuplicates(meta_sets) => NoDuplicates(meta_sets')
  <2> DEFINE used == EffectiveAddr(insn, staged, mem, addr)
             o == OperandTags(pc, insn, used)
  <2>1. used \in Address /\ o \in [Field -> Tag]
    BY EffectiveAddrTyped, OperandTagsTyped
  <2>2. \/ RuleCacheHit(pc, insn, used, o)
        \/ EvalSuccess(pc, insn, used, o)
        \/ EvalFailure(pc, insn, used, o)
    BY <1>2 DEF Evaluate
  <2> HIDE DEF used, o
  <2>. QED  BY <2>1, <2>2, BranchType
<1>3. ASSUME NEW pc \in Pc, NEW insn \in Insn, NEW addr \in Address,
             Validate(pc, insn, addr) \/ ValidateCached(pc, insn, addr)
      PROVE  /\ Grows(meta_sets, meta_sets')
             /\ NoDuplicates(meta_sets) => NoDuplicates(meta_sets')
  <2>1. PICK staged \in BOOLEAN, mem \in Address, twice \in BOOLEAN :
          validate(pc, insn, addr, staged, mem, twice)
    BY <1>3 DEF Validate, ValidateCached, TypeOK
  <2>2. CASE Fatal(insn, addr, staged, mem)
    BY <1>1, <2>2 DEF Fatal
  <2>3. CASE Evaluate(pc, insn, addr, staged, mem, twice)
    BY <1>2, <2>3
  <2>. QED  BY <2>1, <2>2, <2>3 DEF validate
<1>4. CASE Commit \/ FlushRuleCache \/ SetWatch \/ UNCHANGED vars
  BY <1>1, <1>4 DEF Commit, FlushRuleCache, SetWatch, vars
<1>. QED  BY <1>3, <1>4 DEF Next

(* No meta set is ever canonized to two tags, so that comparing tags is    *)
(* comparing metadata (meta_cache.cc canonize).                            *)
THEOREM RvCanonicalTags == Spec => []CanonicalTags
<1>1. Init => CanonicalTags
  BY ValidatorAssumption DEF Init, CanonicalTags
<1>2. TypeOK /\ CanonicalTags /\ [Next]_vars => CanonicalTags'
  BY SetsGrow DEF CanonicalTags
<1>. QED  BY <1>1, <1>2, RvTypeCorrect, PTL DEF Spec

(* A sound rule stays sound when meta sets are added. *)
LEMMA RuleSoundStable ==
  ASSUME TypeOK, TypeOK', Grows(meta_sets, meta_sets'),
         NEW o \in [Field -> Tag], NEW t, ValidResult(t), RuleSound(o, t)
  PROVE  RuleSound(o, t)'
<1>1. meta_sets \in Seq(MetaSet) /\ meta_sets' \in Seq(MetaSet)
  BY DEF TypeOK
<1>2. OperandMd(o)' = OperandMd(o)
  BY <1>1, GetMsStable DEF OperandMd, Tag
<1>3. /\ t.pc \in 0 .. Len(meta_sets) /\ t.rd \in 0 .. Len(meta_sets)
      /\ t.csr \in 0 .. Len(meta_sets)
  BY <1>1 DEF ValidResult
<1>4. /\ GetMs(meta_sets', t.pc) = GetMs(meta_sets, t.pc)
      /\ GetMs(meta_sets', t.rd) = GetMs(meta_sets, t.rd)
      /\ GetMs(meta_sets', t.csr) = GetMs(meta_sets, t.csr)
  BY <1>1, <1>3, GetMsStable
<1>5. ResultMd(t)' = ResultMd(t)
  BY <1>4, Zenon DEF ResultMd
<1>. QED  BY <1>2, <1>5, Zenon DEF RuleSound

(* What a validation leaves for commit to install is sound. *)
LEMMA ValidationSound ==
  ASSUME TypeOK, TypeOK', CacheSound, Grows(meta_sets, meta_sets'),
         NEW pc \in Pc, NEW insn \in Insn, NEW addr \in Address,
         NEW o \in [Field -> Tag], ops' = o,
         \/ RuleCacheHit(pc, insn, addr, o)
         \/ EvalSuccess(pc, insn, addr, o)
         \/ EvalFailure(pc, insn, addr, o)
  PROVE  PendingSound'
<1>1. CASE RuleCacheHit(pc, insn, addr, o)
  <2>1. o \in DOMAIN rule_cache_table /\ res' = rule_cache_table[o]
    BY <1>1 DEF RuleCacheHit, CacheAllows, Finite!allow, Ideal!allow, Ideal!Cached
  <2>2. RuleSound(o, rule_cache_table[o]) /\ ValidResult(rule_cache_table[o])
    BY <2>1 DEF CacheSound, TypeOK
  <2>3. RuleSound(ops, res)'
    <3>1. \A x : ValidResult(x) /\ RuleSound(o, x) => RuleSound(o, x)'
      BY RuleSoundStable
    <3>. QED  BY <2>1, <2>2, <3>1 DEF RuleSound, OperandMd, ResultMd
  <2>. QED  BY <2>3 DEF PendingSound
<1>2. CASE EvalSuccess(pc, insn, addr, o)
  <2>1. OperandMd(o) \in [Field -> MdOrNone]
    BY OperandMdTyped
  <2>2. PICK r \in PolicyEval(OperandMd(o)) :
          /\ r.allowed /\ meta_sets' = EvalSets(r) /\ res' = ResultTags(r)
          /\ ctx' = ContextOf(pc, insn, addr, r.cached)
    BY <1>2 DEF EvalSuccess
  <2>3. r \in Outcome /\ (r.cached => PolicyEval(OperandMd(o)) = {r})
    BY <2>1, <2>2, PolicyAssumption
  <2>4. ResultMd(res)' = OutcomeMd(r)
    BY <2>2, <2>3, ResultTagsDenote DEF TypeOK
  <2>5. OperandMd(ops)' = OperandMd(o)
    BY GetMsStable DEF OperandMd, Tag, TypeOK
  <2>6. ctx'.cached = r.cached
    BY <2>2 DEF ContextOf
  <2>7. ASSUME ctx'.cached PROVE RuleSound(ops, res)'
    <3>1. PolicyEval(OperandMd(o)) = {r}
      BY <2>3, <2>6, <2>7, Zenon
    <3>. QED  BY <2>2, <2>4, <2>5, <3>1, Zenon DEF RuleSound
  <2>. QED  BY <2>7 DEF PendingSound
<1>3. CASE EvalFailure(pc, insn, addr, o)
  BY <1>3 DEF EvalFailure, PendingSound
<1>. QED  BY <1>1, <1>2, <1>3

LEMMA ValidateSound ==
  ASSUME TypeOK, TypeOK', CacheSound, Grows(meta_sets, meta_sets'),
         NEW pc \in Pc, NEW insn \in Insn, NEW addr \in Address,
         Validate(pc, insn, addr) \/ ValidateCached(pc, insn, addr)
  PROVE  CacheInv'
<1>1. PICK staged \in BOOLEAN, mem \in Address, twice \in BOOLEAN :
        validate(pc, insn, addr, staged, mem, twice)
  BY DEF Validate, ValidateCached, TypeOK
<1>2. rule_cache_table' = rule_cache_table
  BY <1>1 DEF validate, rule_cache
<1>3. CacheSound'
  <2>1. ASSUME NEW o \in DOMAIN rule_cache_table'
        PROVE  RuleSound(o, rule_cache_table[o])'
    <3>1. \A x : ValidResult(x) /\ RuleSound(o, x) => RuleSound(o, x)'
      BY <1>2, <2>1, RuleSoundStable DEF TypeOK
    <3>2. ValidResult(rule_cache_table[o]) /\ RuleSound(o, rule_cache_table[o])
      BY <1>2, <2>1 DEF CacheSound, TypeOK
    <3>. QED  BY <1>2, <3>1, <3>2 DEF RuleSound, OperandMd, ResultMd
  <2>. QED  BY <2>1 DEF CacheSound
<1>4. PendingSound'
  <2>1. CASE Fatal(insn, addr, staged, mem)
    BY <2>1 DEF Fatal, PendingSound
  <2>2. CASE Evaluate(pc, insn, addr, staged, mem, twice)
    <3> DEFINE used == EffectiveAddr(insn, staged, mem, addr)
               o == OperandTags(pc, insn, used)
    <3>1. used \in Address /\ o \in [Field -> Tag]
      BY EffectiveAddrTyped, OperandTagsTyped
    <3>2. /\ ops' = o
          /\ \/ RuleCacheHit(pc, insn, used, o)
             \/ EvalSuccess(pc, insn, used, o)
             \/ EvalFailure(pc, insn, used, o)
      BY <2>2 DEF Evaluate
    <3> HIDE DEF used, o
    <3>. QED  BY <3>1, <3>2, ValidationSound
  <2>. QED  BY <1>1, <2>1, <2>2 DEF validate
<1>. QED  BY <1>3, <1>4 DEF CacheInv

LEMMA CommitSound ==
  ASSUME TypeOK, CacheInv, Commit
  PROVE  CacheInv'
<1>1. /\ verdict = "allowed" /\ verdict' = "none" /\ meta_sets' = meta_sets
      /\ (InstallsRule /\ CacheInstall(ops, res)) \/ UNCHANGED rule_cache
  BY DEF Commit
<1>2. CASE UNCHANGED rule_cache
  BY <1>1, <1>2 DEF rule_cache, CacheInv, CacheSound, PendingSound, RuleSound, OperandMd, ResultMd
<1>3. CASE InstallsRule /\ CacheInstall(ops, res)
  <2>1. /\ DOMAIN rule_cache_table' \subseteq DOMAIN rule_cache_table \cup {ops}
        /\ \A x \in DOMAIN rule_cache_table' :
             rule_cache_table'[x] = IF x = ops THEN res ELSE rule_cache_table[x]
    BY <1>3, InstallEffect
  <2>2. RuleSound(ops, res)
    BY <1>1, <1>3 DEF CacheInv, PendingSound, InstallsRule
  <2>3. \A x \in DOMAIN rule_cache_table' : RuleSound(x, rule_cache_table'[x])
    BY <2>1, <2>2 DEF CacheInv, CacheSound
  <2>4. CacheSound'
    BY <1>1, <2>3 DEF CacheSound, RuleSound, OperandMd, ResultMd
  <2>. QED  BY <1>1, <2>4 DEF CacheInv, PendingSound
<1>. QED  BY <1>1, <1>2, <1>3

LEMMA FlushSound ==
  ASSUME TypeOK, CacheInv, FlushRuleCache
  PROVE  CacheInv'
<1>1. /\ UNCHANGED <<meta_sets, evaluation, host>>
      /\ DOMAIN rule_cache_table' \subseteq DOMAIN rule_cache_table
      /\ \A o \in DOMAIN rule_cache_table' : rule_cache_table'[o] = rule_cache_table[o]
  BY FlushEffect
<1>2. CacheSound'
  BY <1>1 DEF CacheInv, CacheSound, RuleSound, OperandMd, ResultMd
<1>3. PendingSound'
  BY <1>1 DEF CacheInv, PendingSound, RuleSound, OperandMd, ResultMd, evaluation, host
<1>. QED  BY <1>2, <1>3 DEF CacheInv

(* Every rule in the cache and the rule the next commit may install are    *)
(* what eval_policy decides, although commit installs what an earlier call *)
(* of validate left in ops and res (rv_validator.cc commit).               *)
THEOREM RvCacheInv == Spec => []CacheInv
<1>1. Init => CacheInv
  BY DEF Init, CacheInv, CacheSound, PendingSound, Finite!finite_rule_cache,
         Finite!Ideal!ideal_rule_cache, Finite!Ideal!EmptyTable
<1>2. TypeOK /\ TypeOK' /\ CacheInv /\ [Next]_vars => CacheInv'
  <2> SUFFICES ASSUME TypeOK, TypeOK', CacheInv, [Next]_vars PROVE CacheInv'
    OBVIOUS
  <2>1. ASSUME NEW pc \in Pc, NEW insn \in Insn, NEW addr \in Address,
               Validate(pc, insn, addr) \/ ValidateCached(pc, insn, addr)
        PROVE  CacheInv'
    BY <2>1, SetsGrow, ValidateSound DEF CacheInv
  <2>2. CASE Commit
    BY <2>2, CommitSound
  <2>3. CASE FlushRuleCache
    BY <2>3, FlushSound
  <2>4. CASE SetWatch \/ UNCHANGED vars
    <3>1. UNCHANGED <<meta_sets, evaluation, rule_cache, host>>
      BY <2>4 DEF SetWatch, vars
    <3>. QED  BY <3>1 DEF CacheInv, CacheSound, PendingSound, RuleSound, OperandMd, ResultMd,
                          evaluation, rule_cache, host
  <2>. QED  BY <2>1, <2>2, <2>3, <2>4 DEF Next
<1>. QED  BY <1>1, <1>2, RvTypeCorrect, PTL DEF Spec

(* Every rule in the cache, whichever cache it is and however many meta    *)
(* sets, commits, evictions and flushes have come since, is the one        *)
(* outcome eval_policy has for its operands (rv_validator.cc commit).      *)
THEOREM RvCacheSound == Spec => []CacheSound
<1>1. CacheInv => CacheSound
  BY DEF CacheInv
<1>. QED  BY <1>1, RvCacheInv, PTL

-----------------------------------------------------------------------------
(* The address of an access *)

(* The host keeps to one of the two validate functions.  A host that mixes *)
(* them may have a load decided on the address of an earlier instruction.  *)
OneEntryPoint == \E p \in {"validate", "validate_cached"} : EntryPoints \subseteq {p}

(* validate(pc, insn) never finds an address staged. *)
NothingStaged == "validate" \in EntryPoints => has_insn_mem_addr = FALSE

(* What a call of either validate function is, under such a host: the      *)
(* address that counts is the one the host asked about.                    *)
LEMMA ValidateAsAsked ==
  ASSUME TypeOK, OneEntryPoint, NothingStaged,
         NEW pc \in Pc, NEW insn \in Insn, NEW addr \in Address,
         Validate(pc, insn, addr) \/ ValidateCached(pc, insn, addr)
  PROVE  /\ NothingStaged'
         /\ \E staged \in BOOLEAN, mem \in Address, twice \in BOOLEAN :
              /\ validate(pc, insn, addr, staged, mem, twice)
              /\ IsMem(insn) => EffectiveAddr(insn, staged, mem, addr) = addr
<1>1. CASE Validate(pc, insn, addr)
  <2>1. /\ validate(pc, insn, addr, FALSE, mem_addr, FALSE) /\ mem_addr \in Address
        /\ has_insn_mem_addr = FALSE
    BY <1>1 DEF Validate, NothingStaged, TypeOK
  <2>2. IsMem(insn) => EffectiveAddr(insn, FALSE, mem_addr, addr) = addr
    BY DEF EffectiveAddr
  <2>3. has_insn_mem_addr' = FALSE
    BY <2>1 DEF validate, Evaluate, Fatal, evaluation
  <2>. QED  BY <2>1, <2>2, <2>3 DEF NothingStaged
<1>2. CASE ValidateCached(pc, insn, addr)
  <2>1. /\ validate(pc, insn, addr, TRUE, addr, TRUE)
        /\ "validate" \notin EntryPoints
    BY <1>2 DEF ValidateCached, OneEntryPoint
  <2>2. EffectiveAddr(insn, TRUE, addr, addr) = addr
    BY DEF EffectiveAddr
  <2>. QED  BY <2>1, <2>2 DEF NothingStaged
<1>. QED  BY <1>1, <1>2

(* The tags of the operands depend on the address only for a load or store. *)
LEMMA OperandTagsOfAccess ==
  ASSUME NEW pc, NEW insn, NEW a, NEW b, IsMem(insn) => a = b
  PROVE  OperandTags(pc, insn, a) = OperandTags(pc, insn, b)
  BY DEF OperandTags

(* What a decided validation leaves for the host to see. *)
LEMMA DecidedAsAsked ==
  ASSUME NEW pc \in Pc, NEW insn \in Insn, NEW addr \in Address,
         NEW staged, NEW mem, NEW twice,
         validate(pc, insn, addr, staged, mem, twice),
         Evaluate(pc, insn, addr, staged, mem, twice),
         IsMem(insn) => EffectiveAddr(insn, staged, mem, addr) = addr
  PROVE  /\ asked' = [pc |-> pc, insn |-> insn, addr |-> IF IsMem(insn) THEN addr ELSE 0]
         /\ UNCHANGED machine
         /\ ctx'.epc = pc /\ (IsMem(insn) => ctx'.bad_addr = addr)
         /\ ops' = OperandTags(pc, insn, asked'.addr)
         /\ verdict' = "allowed" \/ verdict' = "denied"
         /\ verdict' = "allowed" => failed' = FALSE
         /\ verdict' = "denied" => failed' = TRUE /\ failed_ctx' = ctx' /\ failed_ops' = ops'
<1> DEFINE used == EffectiveAddr(insn, staged, mem, addr)
           o == OperandTags(pc, insn, used)
<1>1. /\ asked' = [pc |-> pc, insn |-> insn, addr |-> IF IsMem(insn) THEN addr ELSE 0]
      /\ UNCHANGED machine
  BY DEF validate
<1>2. /\ ops' = o
      /\ \/ RuleCacheHit(pc, insn, used, o)
         \/ EvalSuccess(pc, insn, used, o)
         \/ EvalFailure(pc, insn, used, o)
  BY DEF Evaluate
<1>3. IsMem(insn) => used = asked'.addr
  BY <1>1
<1>4. o = OperandTags(pc, insn, asked'.addr)
  BY <1>3, OperandTagsOfAccess
<1> HIDE DEF o, used
<1>5. ctx'.epc = pc /\ (IsMem(insn) => ctx'.bad_addr = used)
  BY <1>2 DEF RuleCacheHit, EvalSuccess, EvalFailure, ContextOf
<1>6. /\ verdict' = "allowed" \/ verdict' = "denied"
      /\ verdict' = "allowed" => failed' = FALSE
      /\ verdict' = "denied" => failed' = TRUE /\ failed_ctx' = ctx' /\ failed_ops' = o
  BY <1>2 DEF RuleCacheHit, EvalSuccess, EvalFailure, NoViolation, handle_violation
<1>. QED  BY <1>1, <1>2, <1>3, <1>4, <1>5, <1>6

(* The address of an access survives from its validation on. *)
LEMMA StagingStep ==
  ASSUME TypeOK, OneEntryPoint, NothingStaged, [Next]_vars
  PROVE  NothingStaged'
<1>1. CASE UNCHANGED has_insn_mem_addr
  BY <1>1 DEF NothingStaged
<1>2. CASE Commit \/ FlushRuleCache \/ SetWatch \/ UNCHANGED vars
  BY <1>1, <1>2 DEF Commit, FlushRuleCache, SetWatch, vars, evaluation
<1>. QED  BY <1>2, ValidateAsAsked DEF Next

(* A host that keeps to one entry point never has an address left over for *)
(* the next instruction (rv_validator.cc has_insn_mem_addr).               *)
LEMMA StagingInvariant ==
  ASSUME OneEntryPoint PROVE Spec => [](TypeOK /\ NothingStaged)
<1>1. Init => NothingStaged
  BY DEF Init, NothingStaged
<1>2. TypeOK /\ NothingStaged /\ [Next]_vars => NothingStaged'
  BY StagingStep
<1>. QED  BY <1>1, <1>2, RvTypeCorrect, PTL DEF Spec

-----------------------------------------------------------------------------
(* Violation reports *)

(* What an action that is no validation leaves of the last one. *)
LEMMA ReportStep ==
  ASSUME TypeOK, OneEntryPoint, NothingStaged, ReportMatchesDenial, [Next]_vars
  PROVE  ReportMatchesDenial'
<1>1. ASSUME NEW pc \in Pc, NEW insn \in Insn, NEW addr \in Address,
             Validate(pc, insn, addr) \/ ValidateCached(pc, insn, addr)
      PROVE  ReportMatchesDenial'
  <2>1. PICK staged \in BOOLEAN, mem \in Address, twice \in BOOLEAN :
          /\ validate(pc, insn, addr, staged, mem, twice)
          /\ IsMem(insn) => EffectiveAddr(insn, staged, mem, addr) = addr
    BY <1>1, ValidateAsAsked
  <2>2. CASE Evaluate(pc, insn, addr, staged, mem, twice)
    <3>1. /\ asked' = [pc |-> pc, insn |-> insn, addr |-> IF IsMem(insn) THEN addr ELSE 0]
          /\ UNCHANGED machine
          /\ ctx'.epc = pc /\ (IsMem(insn) => ctx'.bad_addr = addr)
          /\ ops' = OperandTags(pc, insn, asked'.addr)
          /\ verdict' = "allowed" \/ verdict' = "denied"
          /\ verdict' = "allowed" => failed' = FALSE
          /\ verdict' = "denied" => failed' = TRUE /\ failed_ctx' = ctx' /\ failed_ops' = ops'
      BY <2>1, <2>2, DecidedAsAsked
    <3>2. asked'.pc = pc /\ asked'.insn = insn /\ (IsMem(insn) => asked'.addr = addr)
      BY <3>1
    <3>3. OperandTags(pc, insn, asked.addr)' = OperandTags(pc, insn, asked'.addr)
      BY <3>1 DEF OperandTags, CellTag, RegTag, Op2Tag, machine
    <3>4. failed' <=> verdict' = "denied"
      BY <3>1
    <3>5. failed' => /\ failed_ctx'.epc = asked'.pc
                     /\ IsMem(asked'.insn) => failed_ctx'.bad_addr = asked'.addr
                     /\ failed_ops' = OperandTags(asked'.pc, asked'.insn, asked'.addr)
      BY <3>1, <3>2
    <3>. QED  BY <3>2, <3>3, <3>4, <3>5 DEF ReportMatchesDenial
  <2>3. CASE Fatal(insn, addr, staged, mem)
    BY <2>3 DEF Fatal, NoViolation, ReportMatchesDenial
  <2>. QED  BY <2>1, <2>2, <2>3 DEF validate
<1>2. CASE Commit
  BY <1>2 DEF Commit, report, ReportMatchesDenial
<1>3. CASE FlushRuleCache \/ SetWatch \/ UNCHANGED vars
  <2>1. UNCHANGED <<machine, report, host>>
    BY <1>3 DEF FlushRuleCache, SetWatch, vars
  <2>2. \A pc, insn, addr : OperandTags(pc, insn, addr)' = OperandTags(pc, insn, addr)
    BY <2>1 DEF OperandTags, CellTag, RegTag, Op2Tag, machine
  <2>. QED  BY <2>1, <2>2 DEF ReportMatchesDenial, report, host
<1>. QED  BY <1>1, <1>2, <1>3 DEF Next

(* A violation report describes the instruction that was denied and the    *)
(* tags its operands still have (rv_validator.cc handle_violation), with   *)
(* either validate function, as long as the host keeps to one.             *)
THEOREM RvReportMatchesDenial ==
  ASSUME OneEntryPoint PROVE Spec => []ReportMatchesDenial
<1>1. Init => ReportMatchesDenial
  BY DEF Init, ReportMatchesDenial
<1>2. TypeOK /\ NothingStaged /\ ReportMatchesDenial /\ [Next]_vars => ReportMatchesDenial'
  BY ReportStep
<1>. QED  BY <1>1, <1>2, StagingInvariant, PTL DEF Spec

(* The address whose tag decides a load or store is the address of that    *)
(* access (rv_validator.cc "mem_addr has already been set") as long as the *)
(* host keeps to one entry point: mixing them is all that can break it.    *)
THEOREM RvAddressAsAsked ==
  ASSUME OneEntryPoint PROVE Spec => []AddressAsAsked
<1>1. Init => AddressAsAsked
  BY DEF Init, AddressAsAsked
<1>2. TypeOK /\ NothingStaged /\ AddressAsAsked /\ [Next]_vars => AddressAsAsked'
  <2> SUFFICES ASSUME TypeOK, NothingStaged, AddressAsAsked, [Next]_vars
               PROVE  AddressAsAsked'
    OBVIOUS
  <2>1. ASSUME NEW pc \in Pc, NEW insn \in Insn, NEW addr \in Address,
               Validate(pc, insn, addr) \/ ValidateCached(pc, insn, addr)
        PROVE  AddressAsAsked'
    <3>1. PICK staged \in BOOLEAN, mem \in Address, twice \in BOOLEAN :
            /\ validate(pc, insn, addr, staged, mem, twice)
            /\ IsMem(insn) => EffectiveAddr(insn, staged, mem, addr) = addr
      BY <2>1, ValidateAsAsked
    <3>2. CASE Evaluate(pc, insn, addr, staged, mem, twice)
      <4>1. /\ asked' = [pc |-> pc, insn |-> insn, addr |-> IF IsMem(insn) THEN addr ELSE 0]
            /\ IsMem(insn) => ctx'.bad_addr = addr
        BY <3>1, <3>2, DecidedAsAsked
      <4>. QED  BY <4>1 DEF AddressAsAsked
    <3>3. CASE Fatal(insn, addr, staged, mem)
      BY <3>3 DEF Fatal, AddressAsAsked
    <3>. QED  BY <3>1, <3>2, <3>3 DEF validate
  <2>2. CASE Commit
    BY <2>2 DEF Commit, AddressAsAsked
  <2>3. CASE FlushRuleCache \/ SetWatch \/ UNCHANGED vars
    BY <2>3 DEF FlushRuleCache, SetWatch, vars, evaluation, host, AddressAsAsked
  <2>. QED  BY <2>1, <2>2, <2>3 DEF Next
<1>. QED  BY <1>1, <1>2, StagingInvariant, PTL DEF Spec

-----------------------------------------------------------------------------
(* Watches *)

(* No two addresses the host uses share the tag of a watched address.      *)
(* commit compares addresses, not granules, so a store to another address  *)
(* of the granule changes the tag unnoticed.                               *)
WatchedAlone ==
  \A a \in Watchable.addrs, b \in Address :
    DataCellOf[a] = DataCellOf[b] => a = b \/ DataCellOf[a] = NoCell

(* Nothing else is watched. *)
WatchesKnown == watches.addrs \subseteq Watchable.addrs

LEMMA WatchesStep ==
  ASSUME TypeOK, WatchesKnown, [Next]_vars
  PROVE  WatchesKnown'
<1>1. CASE UNCHANGED watches
  BY <1>1 DEF WatchesKnown
<1>2. CASE SetWatch
  <2>1. watches = [pc |-> watches.pc, regs |-> watches.regs,
                   csrs |-> watches.csrs, addrs |-> watches.addrs]
    BY DEF TypeOK
  <2>2. watches'.addrs = watches.addrs
          \/ \E a \in Watchable.addrs : watches'.addrs = watches.addrs \cup {a}
    BY <1>2, <2>1 DEF SetWatch
  <2>. QED  BY <2>2 DEF WatchesKnown
<1>3. CASE Commit \/ FlushRuleCache \/ UNCHANGED vars
  BY <1>1, <1>3 DEF Commit, FlushRuleCache, vars
<1>4. ASSUME NEW pc \in Pc, NEW insn \in Insn, NEW addr \in Address,
             Validate(pc, insn, addr) \/ ValidateCached(pc, insn, addr)
      PROVE  WatchesKnown'
  BY <1>1, <1>4 DEF Validate, ValidateCached, validate
<1>. QED  BY <1>2, <1>3, <1>4 DEF Next

(* A commit that reports no hit leaves every watched tag alone. *)
LEMMA CommitWatched ==
  ASSUME TypeOK, WatchedAlone, WatchesKnown, Commit, UNCHANGED watches, ~hit_watch'
  PROVE  UNCHANGED WatchedTags
<1>1. /\ ~WatchHit
      /\ pc_tag' = IF res.pcResult THEN res.pc ELSE pc_tag
      /\ ireg_tags' = IF WritesReg /\ pending.RD # 0
                      THEN [ireg_tags EXCEPT ![pending.RD] = res.rd] ELSE ireg_tags
      /\ cell_tags' = IF WritesMem /\ StoreCell # NoCell
                      THEN [cell_tags EXCEPT ![StoreCell] = res.rd] ELSE cell_tags
      /\ csr_tags' = IF WritesCsr
                     THEN [csr_tags EXCEPT ![pending.CSR] = res.csr] ELSE csr_tags
  BY DEF Commit
<1>2. /\ ireg_tags \in [Reg -> Tag] /\ csr_tags \in [Csr -> Tag] /\ cell_tags \in [Cell -> Tag]
      /\ watches.regs \subseteq Reg /\ watches.csrs \subseteq Csr
      /\ watches.addrs \subseteq Address /\ mem_addr \in Address
  BY DEF TypeOK
<1>3. watches.pc => pc_tag' = pc_tag
  BY <1>1 DEF WatchHit
<1>4. \A r \in watches.regs : ireg_tags'[r] = ireg_tags[r]
  BY <1>1, <1>2 DEF WatchHit
<1>5. \A c \in watches.csrs : csr_tags'[c] = csr_tags[c]
  BY <1>1, <1>2 DEF WatchHit
<1>6. ASSUME NEW a \in watches.addrs PROVE CellTag(DataCellOf[a])' = CellTag(DataCellOf[a])
  <2>1. CASE WritesMem /\ StoreCell # NoCell /\ DataCellOf[a] = StoreCell
    <3>1. a = mem_addr
      BY <1>2, <2>1 DEF WatchedAlone, WatchesKnown, StoreCell
    <3>2. cell_tags[StoreCell] = res.rd
      BY <1>1, <2>1, <3>1 DEF WatchHit
    <3>. QED  BY <1>1, <1>2, <2>1, <3>2 DEF CellTag
  <2>2. CASE ~(WritesMem /\ StoreCell # NoCell /\ DataCellOf[a] = StoreCell)
    <3>1. DataCellOf[a] \in Cell \cup {NoCell}
      BY <1>2, CellsTyped
    <3>. QED  BY <1>1, <1>2, <2>2, <3>1 DEF CellTag
  <2>. QED  BY <2>1, <2>2
<1>. QED  BY <1>3, <1>4, <1>5, <1>6 DEF WatchedTags

(* commit() returns false only if no watched tag changed, and nothing but  *)
(* commit() changes one (validator.h "Return false means no watchpoint     *)
(* hit"), when each watched address has its tag to itself.                 *)
THEOREM RvWatchReported ==
  ASSUME WatchedAlone PROVE Spec => WatchReported
<1>1. Init => WatchesKnown
  BY DEF Init, WatchesKnown
<1>2. TypeOK /\ WatchesKnown /\ [Next]_vars => WatchesKnown'
  BY WatchesStep
<1>3. TypeOK /\ WatchesKnown /\ [Next]_vars
        => [UNCHANGED watches /\ ~hit_watch' => UNCHANGED WatchedTags]_vars
  <2> SUFFICES ASSUME TypeOK, WatchesKnown, Next, UNCHANGED watches, ~hit_watch'
               PROVE  UNCHANGED WatchedTags
    OBVIOUS
  <2>1. CASE Commit
    BY <2>1, CommitWatched
  <2>2. CASE UNCHANGED machine
    BY <2>2 DEF machine, WatchedTags, CellTag
  <2>3. CASE FlushRuleCache \/ SetWatch
    BY <2>2, <2>3 DEF FlushRuleCache, SetWatch
  <2>4. ASSUME NEW pc \in Pc, NEW insn \in Insn, NEW addr \in Address,
               Validate(pc, insn, addr) \/ ValidateCached(pc, insn, addr)
        PROVE  UNCHANGED WatchedTags
    BY <2>2, <2>4 DEF Validate, ValidateCached, validate
  <2>. QED  BY <2>1, <2>3, <2>4 DEF Next
<1>. QED  BY <1>1, <1>2, <1>3, RvTypeCorrect, PTL DEF Spec, WatchReported

-----------------------------------------------------------------------------
(* The reference monitor *)

(* What the monitor reads at a location. *)
MdOrAbsent(l) == IF l = None THEN None ELSE Md[l]

LEMMA RegRead ==
  ASSUME TypeOK, NEW r \in Reg \cup {None}
  PROVE  MdOrAbsent(RegLoc(r)) = GetMs(meta_sets, RegTag(r))
<1>1. CASE r = None
  BY <1>1 DEF MdOrAbsent, RegLoc, RegTag, GetMs
<1>2. CASE r # None
  <2>1. <<"reg", r>> \in Loc
    BY <1>2 DEF Loc
  <2>2. Md[<<"reg", r>>] = GetMs(meta_sets, ireg_tags[r])
    BY <2>1 DEF Md, MdAt
  <2>. QED  BY <1>2, <2>1, <2>2, MonitorAssumption DEF MdOrAbsent, RegLoc, RegTag
<1>. QED  BY <1>1, <1>2

LEMMA CellRead ==
  ASSUME TypeOK, NEW k \in Cell \cup {NoCell}
  PROVE  /\ MdOrAbsent(CellLoc(k)) = GetMs(meta_sets, CellTag(k))
         /\ CellLoc(k) = None <=> k = NoCell
<1>1. CASE k = NoCell
  BY <1>1 DEF MdOrAbsent, CellLoc, CellTag, GetMs
<1>2. CASE k # NoCell
  <2>1. <<"mem", k>> \in Loc
    BY <1>2 DEF Loc
  <2>2. Md[<<"mem", k>>] = GetMs(meta_sets, cell_tags[k])
    BY <2>1 DEF Md, MdAt
  <2>. QED  BY <1>2, <2>1, <2>2, MonitorAssumption DEF MdOrAbsent, CellLoc, CellTag
<1>. QED  BY <1>1, <1>2

(* The source of the second operand. *)
Op2Loc(insn) == IF insn.rs2 # None THEN RegLoc(insn.rs2)
                ELSE IF insn.csr # None THEN <<"csr", insn.csr>> ELSE None

LEMMA Op2Read ==
  ASSUME TypeOK, NEW insn \in Insn
  PROVE  MdOrAbsent(Op2Loc(insn)) = GetMs(meta_sets, Op2Tag(insn))
<1>1. insn.rs2 \in Reg \cup {None} /\ insn.csr \in Csr \cup {None}
  BY ValidatorAssumption DEF DecodedInsn
<1>2. CASE insn.rs2 # None
  BY <1>1, <1>2, RegRead DEF Op2Loc, Op2Tag, RegTag
<1>3. CASE insn.rs2 = None /\ insn.csr # None
  <2>1. <<"csr", insn.csr>> \in Loc
    BY <1>1, <1>3 DEF Loc
  <2>2. Md[<<"csr", insn.csr>>] = GetMs(meta_sets, csr_tags[insn.csr])
    BY <2>1 DEF Md, MdAt
  <2>. QED  BY <1>3, <2>1, <2>2, MonitorAssumption DEF MdOrAbsent, Op2Loc, Op2Tag
<1>4. CASE insn.rs2 = None /\ insn.csr = None
  BY <1>4 DEF MdOrAbsent, Op2Loc, Op2Tag, GetMs
<1>. QED  BY <1>2, <1>3, <1>4

(* The monitor's operands are the metadata of the operand tags, and its    *)
(* untagged requests are the TMT misses.                                   *)
LEMMA SameOperands ==
  ASSUME TypeOK, NEW pc \in Pc, NEW insn \in Insn, NEW addr \in Address
  PROVE  /\ Monitor!Operands(RequestOf(pc, insn, addr)) = OperandMd(OperandTags(pc, insn, addr))
         /\ Monitor!Untagged(RequestOf(pc, insn, addr)) <=> TmtMiss(insn, addr)
<1> DEFINE src == RequestOf(pc, insn, addr).src
           o == OperandTags(pc, insn, addr)
<1>1. insn.rs1 \in Reg \cup {None} /\ insn.rs3 \in Reg \cup {None} /\ pc \in Address
  BY ValidatorAssumption DEF DecodedInsn
<1>2. DataCellOf[addr] \in Cell \cup {NoCell} /\ InsnCellOf[pc] \in Cell \cup {NoCell}
  BY <1>1, CellsTyped
<1>3. /\ DOMAIN src = Field
      /\ src["pc"] = PcLoc /\ src["ci"] = CellLoc(InsnCellOf[pc])
      /\ src["op1"] = RegLoc(insn.rs1) /\ src["op2"] = Op2Loc(insn)
      /\ src["op3"] = RegLoc(insn.rs3)
      /\ src["mem"] = IF IsMem(insn) THEN CellLoc(DataCellOf[addr]) ELSE None
  BY DEF RequestOf, Op2Loc, Field
<1>4. /\ o["pc"] = pc_tag /\ o["ci"] = CellTag(InsnCellOf[pc])
      /\ o["op1"] = RegTag(insn.rs1) /\ o["op2"] = Op2Tag(insn)
      /\ o["op3"] = RegTag(insn.rs3)
      /\ o["mem"] = IF IsMem(insn) THEN CellTag(DataCellOf[addr]) ELSE BadTag
  BY DEF OperandTags, Field
<1> HIDE DEF src, o
<1>5. MdOrAbsent(PcLoc) = GetMs(meta_sets, pc_tag)
  <2>1. PcLoc \in Loc /\ PcLoc[1] = "pc"
    BY DEF Loc, PcLoc
  <2>2. Md[PcLoc] = GetMs(meta_sets, pc_tag)
    BY <2>1 DEF Md, MdAt
  <2>. QED  BY <2>1, <2>2, MonitorAssumption DEF MdOrAbsent
<1>6. MdOrAbsent(src["mem"]) = GetMs(meta_sets, o["mem"])
  <2>1. MdOrAbsent(None) = GetMs(meta_sets, BadTag)
    BY DEF MdOrAbsent, GetMs
  <2>. QED  BY <1>2, <1>3, <1>4, <2>1, CellRead
<1>7. \A f \in Field : MdOrAbsent(src[f]) = GetMs(meta_sets, o[f])
  BY <1>1, <1>2, <1>3, <1>4, <1>5, <1>6, RegRead, CellRead, Op2Read DEF Field
<1>8. Monitor!Operands(RequestOf(pc, insn, addr)) = [f \in Field |-> MdOrAbsent(src[f])]
  BY <1>3 DEF Monitor!Operands, MdOrAbsent, src
<1>9. Monitor!Operands(RequestOf(pc, insn, addr)) = OperandMd(o)
  BY <1>7, <1>8 DEF OperandMd
<1>10. Monitor!Untagged(RequestOf(pc, insn, addr)) <=> TmtMiss(insn, addr)
  <2>1. Monitor!Untagged(RequestOf(pc, insn, addr))
          <=> src["mem"] # None /\ MdOrAbsent(src["mem"]) = None
    BY DEF Monitor!Untagged, MdOrAbsent, src
  <2>2. src["mem"] # None <=> IsMem(insn) /\ DataCellOf[addr] # NoCell
    BY <1>2, <1>3, CellRead
  <2>3. \A t \in Tag : GetMs(meta_sets, t) = None <=> t = BadTag
    BY MetaSetAssumption DEF GetMs, Tag, BadTag, TypeOK
  <2>4. IsMem(insn) /\ DataCellOf[addr] # NoCell
          => o["mem"] = cell_tags[DataCellOf[addr]] /\ o["mem"] \in Tag
    BY <1>2, <1>4 DEF CellTag, TypeOK
  <2>. QED  BY <1>6, <2>1, <2>2, <2>3, <2>4 DEF TmtMiss
<1>. QED  BY <1>9, <1>10 DEF o

(* A request names locations of four kinds. *)
LEMMA LocKinds ==
  /\ PcLoc \in Loc /\ PcLoc[1] = "pc"
  /\ \A l \in Loc : \/ l = PcLoc
                    \/ \E r \in Reg : l = <<"reg", r>>
                    \/ \E c \in Csr : l = <<"csr", c>>
                    \/ \E k \in Cell : l = <<"mem", k>>
  BY DEF Loc, PcLoc

(* The flags and the tags of a result say what its outcome says. *)
LEMMA ResultOfOutcome ==
  ASSUME meta_sets \in Seq(MetaSet), ValidResult(res), NEW r, ResultMd(res) = OutcomeMd(r)
  PROVE  /\ res.pcResult <=> r.pc # None
         /\ res.rdResult <=> r.rd # None
         /\ res.csrResult <=> r.csr # None
         /\ r.pc # None => GetMs(meta_sets, res.pc) = r.pc
         /\ r.rd # None => GetMs(meta_sets, res.rd) = r.rd
         /\ r.csr # None => GetMs(meta_sets, res.csr) = r.csr
<1>1. \A t \in 1 .. Len(meta_sets) : GetMs(meta_sets, t) # None
  BY MetaSetAssumption DEF GetMs, BadTag
<1>2. /\ GetMs(meta_sets, res.pc) # None /\ GetMs(meta_sets, res.rd) # None
      /\ GetMs(meta_sets, res.csr) # None
  BY <1>1 DEF ValidResult
<1>3. /\ r.pc = IF res.pcResult THEN GetMs(meta_sets, res.pc) ELSE None
      /\ r.rd = IF res.rdResult THEN GetMs(meta_sets, res.rd) ELSE None
      /\ r.csr = IF res.csrResult THEN GetMs(meta_sets, res.csr) ELSE None
  BY DEF ResultMd, OutcomeMd
<1>. QED  BY <1>2, <1>3

(* What the validator has pending is the monitor's update. *)
LEMMA SameUpdate ==
  ASSUME TypeOK, verdict = "allowed", NEW r, ResultMd(res) = OutcomeMd(r),
         NEW pc \in Pc, NEW insn \in Insn, NEW addr \in Address,
         pending = PendingOf(insn), insn.has_store => mem_addr = addr
  PROVE  PendingMd = Monitor!Update(RequestOf(pc, insn, addr), r)
<1> DEFINE q == RequestOf(pc, insn, addr)
<1>1. /\ res.pcResult <=> r.pc # None
      /\ res.rdResult <=> r.rd # None
      /\ res.csrResult <=> r.csr # None
      /\ r.pc # None => GetMs(meta_sets, res.pc) = r.pc
      /\ r.rd # None => GetMs(meta_sets, res.rd) = r.rd
      /\ r.csr # None => GetMs(meta_sets, res.csr) = r.csr
  BY ResultOfOutcome DEF TypeOK
<1>2. pending.RD = insn.rd /\ pending.CSR = insn.csr /\ pending.mem = insn.has_store
  BY DEF PendingOf
<1>3. None \notin Loc
  BY MonitorAssumption
<1>4. \A l \in Loc : l \in q.rd <=> \/ insn.rd # 0 /\ l = RegLoc(insn.rd)
                                    \/ insn.has_store /\ l = CellLoc(DataCellOf[addr])
  BY DEF RequestOf
<1>5. \A l \in Loc : l \in q.csr <=> insn.csr # None /\ l = <<"csr", insn.csr>>
  BY DEF RequestOf
<1>6. \A l \in Loc : /\ l \in q.rd => l[1] # "csr" /\ l # PcLoc
                     /\ l \in q.csr => l[1] = "csr" /\ l # PcLoc
  BY <1>3, <1>4, <1>5 DEF RegLoc, CellLoc, PcLoc
<1> HIDE DEF q
<1>7. ASSUME NEW l \in Loc PROVE l \in PendingTargets <=> l \in Monitor!Targets(q, r)
  <2>1. l \in Monitor!Targets(q, r) <=> \/ l = PcLoc /\ r.pc # None
                                        \/ l \in q.rd /\ r.rd # None
                                        \/ l \in q.csr /\ r.csr # None
    BY DEF Monitor!Targets
  <2>2. l \in PendingTargets <=> \/ l = PcLoc /\ res.pcResult
                                 \/ WritesReg /\ pending.RD # 0 /\ l = RegLoc(pending.RD)
                                 \/ WritesMem /\ l = CellLoc(StoreCell)
                                 \/ WritesCsr /\ l = <<"csr", pending.CSR>>
    BY DEF PendingTargets
  <2>3. (WritesCsr /\ l = <<"csr", pending.CSR>>) <=> (l \in q.csr /\ r.csr # None)
    BY <1>1, <1>2, <1>5 DEF WritesCsr
  <2>4. (WritesReg /\ pending.RD # 0 /\ l = RegLoc(pending.RD))
          <=> (insn.rd # 0 /\ l = RegLoc(insn.rd) /\ r.rd # None)
    BY <1>1, <1>2, <1>3 DEF WritesReg, RegLoc
  <2>5. (WritesMem /\ l = CellLoc(StoreCell))
          <=> (insn.has_store /\ l = CellLoc(DataCellOf[addr]) /\ r.rd # None)
    BY <1>1, <1>2 DEF WritesMem, StoreCell
  <2>. QED  BY <1>1, <1>4, <2>1, <2>2, <2>3, <2>4, <2>5
<1>8. PendingTargets = Monitor!Targets(q, r)
  BY <1>7 DEF PendingTargets, Monitor!Targets
<1>9. ASSUME NEW l \in Monitor!Targets(q, r)
      PROVE  GetMs(meta_sets, IF l = PcLoc THEN res.pc
                              ELSE IF l[1] = "csr" THEN res.csr ELSE res.rd)
               = IF l = PcLoc THEN r.pc ELSE IF l \in q.rd THEN r.rd ELSE r.csr
  <2>1. /\ l \in Loc
        /\ \/ l = PcLoc /\ r.pc # None
           \/ l \in q.rd /\ r.rd # None
           \/ l \in q.csr /\ r.csr # None
    BY <1>9 DEF Monitor!Targets
  <2>2. CASE l = PcLoc
    BY <1>1, <1>6, <2>1, <2>2
  <2>3. CASE l \in q.rd /\ r.rd # None
    BY <1>1, <1>6, <2>1, <2>3
  <2>4. CASE l \in q.csr /\ r.csr # None
    BY <1>1, <1>6, <2>1, <2>4
  <2>. QED  BY <2>1, <2>2, <2>3, <2>4
<1>. QED  BY <1>8, <1>9 DEF PendingMd, Monitor!Update, q

(* The same of the state a step leaves. *)
LEMMA SameUpdateNext ==
  ASSUME NEW r, NEW pc \in Pc, NEW insn \in Insn, NEW addr \in Address
  PROVE  (/\ TypeOK /\ verdict = "allowed" /\ ResultMd(res) = OutcomeMd(r)
          /\ pending = PendingOf(insn) /\ (insn.has_store => mem_addr = addr)
          => PendingMd = Monitor!Update(RequestOf(pc, insn, addr), r))'
<1>1. /\ TypeOK /\ verdict = "allowed" /\ ResultMd(res) = OutcomeMd(r)
      /\ pending = PendingOf(insn) /\ (insn.has_store => mem_addr = addr)
      => PendingMd = Monitor!Update(RequestOf(pc, insn, addr), r)
  BY SameUpdate
<1>. QED  BY <1>1, PTL

(* An allowed instruction has the results of an outcome that allows it,    *)
(* whether the rule cache or the policy supplied them.                     *)
LEMMA AllowedOutcome ==
  ASSUME TypeOK, TypeOK', CacheSound, Grows(meta_sets, meta_sets'),
         NEW pc \in Pc, NEW insn \in Insn, NEW addr \in Address,
         NEW o \in [Field -> Tag], ops' = o,
         \/ RuleCacheHit(pc, insn, addr, o)
         \/ EvalSuccess(pc, insn, addr, o)
  PROVE  \E r \in PolicyEval(OperandMd(o)) : r.allowed /\ ResultMd(res)' = OutcomeMd(r)
<1>1. CASE RuleCacheHit(pc, insn, addr, o)
  <2>1. PendingSound' /\ verdict' = "allowed" /\ ctx'.cached = TRUE
    BY <1>1, ValidationSound DEF RuleCacheHit, ContextOf
  <2>2. OperandMd(ops)' = OperandMd(o)
    BY GetMsStable DEF OperandMd, Tag, TypeOK
  <2>3. RuleSound(ops, res)'
    BY <2>1 DEF PendingSound
  <2>4. PICK r \in PolicyEval(OperandMd(ops)') : r.allowed /\ OutcomeMd(r) = ResultMd(res)'
    BY <2>3 DEF RuleSound
  <2>. QED  BY <2>2, <2>4, Zenon
<1>2. CASE EvalSuccess(pc, insn, addr, o)
  <2>1. OperandMd(o) \in [Field -> MdOrNone]
    BY OperandMdTyped
  <2>2. PICK r \in PolicyEval(OperandMd(o)) :
          r.allowed /\ meta_sets' = EvalSets(r) /\ res' = ResultTags(r)
    BY <1>2 DEF EvalSuccess
  <2>3. r \in Outcome
    BY <2>1, <2>2, PolicyAssumption
  <2>4. ResultMd(res)' = OutcomeMd(r)
    BY <2>2, <2>3, ResultTagsDenote DEF TypeOK
  <2>. QED  BY <2>2, <2>4
<1>. QED  BY <1>1, <1>2

(* Metadata stays where it is while tags stay and the vector grows. *)
LEMMA MdStable ==
  ASSUME TypeOK, TypeOK', Grows(meta_sets, meta_sets'), UNCHANGED machine
  PROVE  Md' = Md
<1>1. \A t \in Tag : GetMs(meta_sets', t) = GetMs(meta_sets, t)
  BY GetMsStable DEF Tag, TypeOK
<1>2. ASSUME NEW l \in Loc PROVE MdAt(l)' = MdAt(l)
  <2>1. CASE l = PcLoc
    BY <1>1, <2>1 DEF MdAt, PcLoc, machine, TypeOK
  <2>2. CASE \E r \in Reg : l = <<"reg", r>>
    BY <1>1, <2>2 DEF MdAt, machine, TypeOK
  <2>3. CASE \E c \in Csr : l = <<"csr", c>>
    BY <1>1, <2>3 DEF MdAt, machine, TypeOK
  <2>4. CASE \E k \in Cell : l = <<"mem", k>>
    BY <1>1, <2>4 DEF MdAt, machine, TypeOK
  <2>. QED  BY <2>1, <2>2, <2>3, <2>4, LocKinds
<1>. QED  BY <1>2 DEF Md

(* A call of validate is a decision of the monitor, or stops it. *)
LEMMA ValidateDecides ==
  ASSUME TypeOK, TypeOK', CacheSound, OneEntryPoint, NothingStaged,
         Grows(meta_sets, meta_sets'),
         NEW pc \in Pc, NEW insn \in Insn, NEW addr \in Address,
         Validate(pc, insn, addr) \/ ValidateCached(pc, insn, addr)
  PROVE  \E q \in Requests : Monitor!Decide(q) \/ Monitor!Stop(q)
<1> DEFINE a == IF IsMem(insn) THEN addr ELSE 0
           q == RequestOf(pc, insn, a)
<1>0. a \in Address
  BY ValidatorAssumption
<1>1. PICK staged \in BOOLEAN, mem \in Address, twice \in BOOLEAN :
        /\ validate(pc, insn, addr, staged, mem, twice)
        /\ IsMem(insn) => EffectiveAddr(insn, staged, mem, addr) = addr
  BY ValidateAsAsked
<1> DEFINE used == EffectiveAddr(insn, staged, mem, addr)
           o == OperandTags(pc, insn, used)
<1>2. verdict # "fatal" /\ UNCHANGED machine /\ asked' = [pc |-> pc, insn |-> insn, addr |-> a]
  BY <1>1 DEF validate
<1>3. LastRequest' = q
  <2>1. asked' \in [pc : Pc, insn : Insn, addr : Address]
    BY <1>0, <1>2
  <2>2. asked' # None
    BY <2>1, MonitorAssumption
  <2>. QED  BY <1>2, <2>2 DEF LastRequest
<1>4. q \in Requests
  BY <1>0 DEF Requests
<1>5. IsMem(insn) => used = a
  BY <1>1
<1>6. used \in Address
  BY EffectiveAddrTyped
<1>7. o = OperandTags(pc, insn, a) /\ (TmtMiss(insn, used) <=> TmtMiss(insn, a))
  BY <1>5, OperandTagsOfAccess DEF TmtMiss
<1>8. o \in [Field -> Tag]
  BY <1>6, OperandTagsTyped
<1>9. Md' = Md
  BY <1>2, MdStable
<1>10. Monitor!Operands(q) = OperandMd(o) /\ (Monitor!Untagged(q) <=> TmtMiss(insn, used))
  BY <1>0, <1>7, SameOperands
<1> HIDE DEF a, q, used, o
<1>11. CASE Fatal(insn, addr, staged, mem)
  <2>1. TmtMiss(insn, used) /\ verdict' = "fatal"
    BY <1>11 DEF Fatal, used
  <2>2. PendingMd' = Monitor!NoUpdate
    BY <2>1 DEF PendingMd, Monitor!NoUpdate
  <2>3. Monitor!Stop(q)
    BY <1>2, <1>3, <1>9, <1>10, <2>1, <2>2 DEF Monitor!Stop
  <2>. QED  BY <1>4, <2>3
<1>12. CASE Evaluate(pc, insn, addr, staged, mem, twice)
  <2>1. /\ ~TmtMiss(insn, used)
        /\ ops' = o /\ pending' = PendingOf(insn) /\ mem_addr' = used
        /\ \/ RuleCacheHit(pc, insn, used, o)
           \/ EvalSuccess(pc, insn, used, o)
           \/ EvalFailure(pc, insn, used, o)
    BY <1>12 DEF Evaluate, used, o
  <2>2. \E r \in PolicyEval(OperandMd(o)) :
          /\ verdict' = IF r.allowed THEN "allowed" ELSE "denied"
          /\ PendingMd' = IF r.allowed THEN Monitor!Update(q, r) ELSE Monitor!NoUpdate
    <3>1. CASE RuleCacheHit(pc, insn, used, o) \/ EvalSuccess(pc, insn, used, o)
      <4>1. PICK r \in PolicyEval(OperandMd(o)) : r.allowed /\ ResultMd(res)' = OutcomeMd(r)
        BY <1>6, <1>8, <2>1, <3>1, AllowedOutcome
      <4>2. verdict' = "allowed"
        BY <3>1 DEF RuleCacheHit, EvalSuccess
      <4>3. insn.has_store => mem_addr' = a
        BY <1>5, <2>1 DEF IsMem
      <4>4. PendingMd' = Monitor!Update(q, r)
        BY <1>0, <2>1, <4>1, <4>2, <4>3, SameUpdateNext DEF q
      <4>. QED  BY <4>1, <4>2, <4>4
    <3>2. CASE EvalFailure(pc, insn, used, o)
      <4>1. PICK r \in PolicyEval(OperandMd(o)) : ~r.allowed
        BY <3>2 DEF EvalFailure
      <4>2. verdict' = "denied"
        BY <3>2 DEF EvalFailure
      <4>3. PendingMd' = Monitor!NoUpdate
        BY <4>2 DEF PendingMd, Monitor!NoUpdate
      <4>. QED  BY <4>1, <4>2, <4>3
    <3>. QED  BY <2>1, <3>1, <3>2
  <2>3. Monitor!Decide(q)
    BY <1>2, <1>3, <1>9, <1>10, <2>1, <2>2 DEF Monitor!Decide
  <2>. QED  BY <1>4, <2>3
<1>. QED  BY <1>1, <1>11, <1>12 DEF validate

(* A commit of the validator is a commit of the monitor: it writes exactly *)
(* what was pending, also where several targets are written at once.       *)
LEMMA CommitCommits ==
  ASSUME TypeOK, Commit
  PROVE  Monitor!Commit
<1>1. /\ verdict = "allowed" /\ verdict' = "none"
      /\ pc_tag' = IF res.pcResult THEN res.pc ELSE pc_tag
      /\ ireg_tags' = IF WritesReg /\ pending.RD # 0
                      THEN [ireg_tags EXCEPT ![pending.RD] = res.rd] ELSE ireg_tags
      /\ cell_tags' = IF WritesMem /\ StoreCell # NoCell
                      THEN [cell_tags EXCEPT ![StoreCell] = res.rd] ELSE cell_tags
      /\ csr_tags' = IF WritesCsr
                     THEN [csr_tags EXCEPT ![pending.CSR] = res.csr] ELSE csr_tags
      /\ meta_sets' = meta_sets /\ asked' = asked
  BY DEF Commit
<1>2. ireg_tags \in [Reg -> Tag] /\ csr_tags \in [Csr -> Tag] /\ cell_tags \in [Cell -> Tag]
  BY DEF TypeOK
<1>3. /\ DOMAIN PendingMd = PendingTargets
      /\ \A l \in PendingTargets :
           PendingMd[l] = GetMs(meta_sets, IF l = PcLoc THEN res.pc
                                           ELSE IF l[1] = "csr" THEN res.csr ELSE res.rd)
  BY <1>1 DEF PendingMd
<1>4. \A l \in Loc : l \in PendingTargets <=>
        \/ l = PcLoc /\ res.pcResult
        \/ WritesReg /\ pending.RD # 0 /\ l = RegLoc(pending.RD)
        \/ WritesMem /\ l = CellLoc(StoreCell)
        \/ WritesCsr /\ l = <<"csr", pending.CSR>>
  BY DEF PendingTargets
<1>5. ASSUME NEW l \in Loc
      PROVE  MdAt(l)' = IF l \in PendingTargets THEN PendingMd[l] ELSE MdAt(l)
  <2>0. RegLoc(pending.RD) # PcLoc /\ CellLoc(StoreCell) # PcLoc
    BY MonitorAssumption, LocKinds DEF RegLoc, CellLoc, PcLoc
  <2>1. CASE l = PcLoc
    <3>1. l \in PendingTargets <=> res.pcResult
      BY <1>4, <2>0, <2>1 DEF PcLoc
    <3>2. MdAt(l) = GetMs(meta_sets, pc_tag) /\ MdAt(l)' = GetMs(meta_sets, pc_tag')
      BY <1>1, <2>1 DEF MdAt, PcLoc
    <3>. QED  BY <1>1, <1>3, <2>1, <3>1, <3>2
  <2>2. ASSUME NEW r \in Reg, l = <<"reg", r>>
        PROVE  MdAt(l)' = IF l \in PendingTargets THEN PendingMd[l] ELSE MdAt(l)
    <3>1. l \in PendingTargets <=> WritesReg /\ pending.RD # 0 /\ r = pending.RD
      BY <1>4, <2>2, MonitorAssumption DEF PcLoc, RegLoc, CellLoc, WritesReg
    <3>2. MdAt(l) = GetMs(meta_sets, ireg_tags[r]) /\ MdAt(l)' = GetMs(meta_sets, ireg_tags'[r])
      BY <1>1, <2>2 DEF MdAt
    <3>3. l # PcLoc /\ l[1] # "csr"
      BY <2>2 DEF PcLoc
    <3>. QED  BY <1>1, <1>2, <1>3, <3>1, <3>2, <3>3
  <2>3. ASSUME NEW c \in Csr, l = <<"csr", c>>
        PROVE  MdAt(l)' = IF l \in PendingTargets THEN PendingMd[l] ELSE MdAt(l)
    <3>1. l \in PendingTargets <=> WritesCsr /\ c = pending.CSR
      BY <1>4, <2>3, MonitorAssumption DEF PcLoc, RegLoc, CellLoc
    <3>2. MdAt(l) = GetMs(meta_sets, csr_tags[c]) /\ MdAt(l)' = GetMs(meta_sets, csr_tags'[c])
      BY <1>1, <2>3 DEF MdAt
    <3>3. l # PcLoc /\ l[1] = "csr"
      BY <2>3 DEF PcLoc
    <3>. QED  BY <1>1, <1>2, <1>3, <3>1, <3>2, <3>3
  <2>4. ASSUME NEW k \in Cell, l = <<"mem", k>>
        PROVE  MdAt(l)' = IF l \in PendingTargets THEN PendingMd[l] ELSE MdAt(l)
    <3>1. l \in PendingTargets <=> WritesMem /\ StoreCell # NoCell /\ k = StoreCell
      BY <1>4, <2>4, MonitorAssumption DEF PcLoc, RegLoc, CellLoc
    <3>2. MdAt(l) = GetMs(meta_sets, cell_tags[k]) /\ MdAt(l)' = GetMs(meta_sets, cell_tags'[k])
      BY <1>1, <2>4 DEF MdAt
    <3>3. l # PcLoc /\ l[1] # "csr"
      BY <2>4 DEF PcLoc
    <3>. QED  BY <1>1, <1>2, <1>3, <3>1, <3>2, <3>3
  <2>. QED  BY <2>1, <2>2, <2>3, <2>4, LocKinds
<1>6. Md' = [l \in Loc |-> IF l \in DOMAIN PendingMd THEN PendingMd[l] ELSE Md[l]]
  BY <1>3, <1>5 DEF Md
<1>7. PendingMd' = Monitor!NoUpdate /\ LastRequest' = LastRequest
  BY <1>1 DEF PendingMd, LastRequest, Monitor!NoUpdate
<1>. QED  BY <1>1, <1>6, <1>7 DEF Monitor!Commit

(* The start-up metadata is what the monitor starts from. *)
LEMMA InitMonitor == Init => Monitor!Init
<1> SUFFICES ASSUME Init PROVE Monitor!Init
  OBVIOUS
<1>1. ASSUME NEW m \in MdOrNone, m # None => Known(InitSets, m)
      PROVE  GetMs(InitSets, InitTag(m)) = m
  <2>1. CASE m = None
    BY <2>1 DEF InitTag, GetMs
  <2>2. CASE m # None
    <3>1. /\ InitTag(m) = CanonizeTag(InitSets, m)
          /\ InitTag(m) \in DOMAIN InitSets /\ InitSets[InitTag(m)] = m
      BY <1>1, <2>2, CanonizeTagDenotes DEF InitTag
    <3>2. InitTag(m) # BadTag
      BY <3>1, ValidatorAssumption DEF BadTag
    <3>. QED  BY <3>1, <3>2 DEF GetMs
  <2>. QED  BY <2>1, <2>2
<1>2. ASSUME NEW l \in Loc PROVE MdAt(l) = StartMd[l]
  <2>1. CASE l = PcLoc
    BY <1>1, <2>1, ValidatorAssumption DEF Init, MdAt, StartMd, PcLoc
  <2>2. ASSUME NEW r \in Reg, l = <<"reg", r>> PROVE MdAt(l) = StartMd[l]
    BY <1>1, <2>2, ValidatorAssumption DEF Init, MdAt, StartMd
  <2>3. ASSUME NEW c \in Csr, l = <<"csr", c>> PROVE MdAt(l) = StartMd[l]
    BY <1>1, <2>3, ValidatorAssumption DEF Init, MdAt, StartMd
  <2>4. ASSUME NEW k \in Cell, l = <<"mem", k>> PROVE MdAt(l) = StartMd[l]
    BY <1>1, <2>4, ValidatorAssumption DEF Init, MdAt, StartMd
  <2>. QED  BY <2>1, <2>2, <2>3, <2>4, LocKinds
<1>3. Md = StartMd
  BY <1>2 DEF Md, StartMd
<1>4. LastRequest = None /\ verdict = "none" /\ PendingMd = Monitor!NoUpdate
  BY DEF Init, LastRequest, PendingMd, Monitor!NoUpdate
<1>. QED  BY <1>3, <1>4 DEF Monitor!Init

(* Flushing the rule cache and setting a watch are invisible. *)
LEMMA Invisible ==
  ASSUME FlushRuleCache \/ SetWatch \/ UNCHANGED vars
  PROVE  UNCHANGED Monitor!monitorVars
<1>1. UNCHANGED <<meta_sets, machine, evaluation, host>>
  BY DEF FlushRuleCache, SetWatch, vars
<1>2. meta_sets' = meta_sets /\ UNCHANGED machine
  BY <1>1
<1>3. asked' = asked /\ verdict' = verdict
  BY <1>1 DEF host
<1>4. res' = res /\ pending' = pending /\ mem_addr' = mem_addr
  BY <1>1 DEF evaluation
<1>5. Md' = Md
  BY <1>2 DEF Md, MdAt, machine
<1>6. LastRequest' = LastRequest
  BY <1>3 DEF LastRequest
<1>7. PendingMd' = PendingMd
  BY <1>2, <1>3, <1>4 DEF PendingMd, PendingTargets, WritesReg, WritesMem, WritesCsr, StoreCell
<1>. QED  BY <1>3, <1>5, <1>6, <1>7 DEF Monitor!monitorVars

(* The validator implements the reference monitor: with no rule cache, an  *)
(* ideal or a finite one of any capacity, with metadata kept as canonized  *)
(* tags, under any policy whose cacheable outcomes are functions of the    *)
(* operands, every verdict and every commit is the policy's, on the        *)
(* metadata the operands have when the host asks (rv_validator.cc          *)
(* validate, commit).                                                      *)
THEOREM RvImplementsMonitor ==
  ASSUME OneEntryPoint PROVE Spec => ImplementsMonitor
<1>1. TypeOK /\ TypeOK' /\ CacheInv /\ NothingStaged /\ [Next]_vars
        => [Monitor!Next]_Monitor!monitorVars
  <2> SUFFICES ASSUME TypeOK, TypeOK', CacheInv, NothingStaged, [Next]_vars
               PROVE  [Monitor!Next]_Monitor!monitorVars
    OBVIOUS
  <2>1. ASSUME NEW pc \in Pc, NEW insn \in Insn, NEW addr \in Address,
               Validate(pc, insn, addr) \/ ValidateCached(pc, insn, addr)
        PROVE  Monitor!Next
    BY <2>1, SetsGrow, ValidateDecides DEF CacheInv, Monitor!Next
  <2>2. CASE Commit
    BY <2>2, CommitCommits DEF Monitor!Next
  <2>3. CASE FlushRuleCache \/ SetWatch \/ UNCHANGED vars
    BY <2>3, Invisible
  <2>. QED  BY <2>1, <2>2, <2>3 DEF Next
<1>. QED  BY <1>1, InitMonitor, RvTypeCorrect, RvCacheInv, StagingInvariant, PTL
          DEF Spec, Monitor!Spec, ImplementsMonitor

=============================================================================
