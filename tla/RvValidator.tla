---------------------------- MODULE RvValidator -----------------------------
(***************************************************************************)
(* The RISC-V validator (validator/riscv/rv_validator.cc): the host calls  *)
(* validate before it executes an instruction and commit after it has.     *)
(* validate collects the tags of the operands, asks the rule cache and, on *)
(* a miss, the policy; commit writes the result tags and installs the rule.*)
(*                                                                         *)
(* Tags are indexes into meta_sets (MetaSetCache), stored tags are cells   *)
(* of the tag bus (TagBus), the rule cache is absent, ideal or finite      *)
(* (IdealRuleCache, FiniteRuleCache).  The policy is generated code that   *)
(* is linked in; PolicyEval is what validate and commit rely on.           *)
(***************************************************************************)
EXTENDS MetaSetCache, TagBus, FiniteSets

CONSTANTS
  Reg, Csr,          \* register and CSR numbers
  Insn,              \* decoded instructions the host executes
  Pc,                \* addresses the host executes from
  AddrFixer,         \* external: the host's virtual to physical map
  PolicyEval(_),     \* external: outcomes eval_policy may have for operands
  RegDefault, CsrDefault, EnvDefault, CellDefault,  \* metadata at start-up
  InitSets,          \* meta_sets once the start-up metadata is canonized
  RuleCacheKind,     \* "none", "ideal" or "finite"
  Capacity,          \* capacity of a finite rule cache
  EntryPoints,       \* which of the two validate functions the host calls
  HostFlushes,       \* whether the host calls e_v_flush_rule_cache
  Watchable,         \* registers, CSRs and addresses the host may watch
  CountMax           \* bound on the statistics counters, which saturate there

Field == {"pc", "ci", "op1", "op2", "op3", "mem"}
MdOrNone == MetaSet \cup {None}
Outcome == [allowed : BOOLEAN, cached : BOOLEAN,
            pc : MdOrNone, rd : MdOrNone, csr : MdOrNone]
DecodedInsn == [rd : Reg \cup {None}, rs1 : Reg \cup {None}, rs2 : Reg \cup {None},
                rs3 : Reg \cup {None}, csr : Csr \cup {None},
                has_load : BOOLEAN, has_store : BOOLEAN]

ASSUME ValidatorAssumption ==
  /\ Reg \subseteq Nat /\ 0 \in Reg /\ Csr \subseteq Nat
  /\ None \notin Nat
  /\ Insn \subseteq DecodedInsn
  /\ Pc \subseteq Address /\ 0 \in Address
  /\ AddrFixer \in [Address -> Address]
  /\ RegDefault \in [Reg -> MdOrNone] /\ CsrDefault \in [Csr -> MdOrNone]
  /\ EnvDefault \in MdOrNone /\ CellDefault \in [Cell -> MdOrNone]
  /\ InitSets \in Seq(MetaSet) /\ NoDuplicates(InitSets)
  /\ \A m \in {RegDefault[r] : r \in Reg} \cup {CsrDefault[c] : c \in Csr}
              \cup {EnvDefault} \cup {CellDefault[k] : k \in Cell} :
       m # None => Known(InitSets, m)
  /\ RuleCacheKind \in {"none", "ideal", "finite"} /\ Capacity \in Nat \ {0}
  /\ EntryPoints \subseteq {"validate", "validate_cached"}
  /\ HostFlushes \in BOOLEAN /\ CountMax \in Nat
  /\ Watchable \in [pc : SUBSET BOOLEAN, regs : SUBSET Reg,
                     csrs : SUBSET Csr, addrs : SUBSET Address]

(* What caching a rule relies on: eval_policy sets ctx.cached only for a   *)
(* rule whose outcome is a function of the operand metadata.               *)
ASSUME PolicyAssumption ==
  \A m \in [Field -> MdOrNone] :
    /\ PolicyEval(m) \subseteq Outcome
    /\ \A r \in PolicyEval(m) : r.cached => PolicyEval(m) = {r}

VARIABLES
  meta_sets,                                    \* ms_cache
  pc_tag, ireg_tags, csr_tags, cell_tags,       \* tags of the machine state
  ops, res, ctx,                                \* of the last validation
  pending,                                      \* pending_RD, pending_CSR, has_pending_*
  mem_addr, has_insn_mem_addr,
  failed, failed_ctx, failed_ops,
  rule_cache_table, entries, next_entry, cache_full,   \* rule_cache
  rule_cache_hit, rule_cache_hits, rule_cache_misses,
  watches,                                      \* watch_pc, watch_regs, ...
  asked, verdict, hit_watch                     \* what the host asked and was told

machine == <<pc_tag, ireg_tags, csr_tags, cell_tags>>
evaluation == <<ops, res, ctx, pending, mem_addr, has_insn_mem_addr>>
report == <<failed, failed_ctx, failed_ops>>
rule_cache == <<rule_cache_table, entries, next_entry, cache_full>>
stats == <<rule_cache_hit, rule_cache_hits, rule_cache_misses>>
host == <<asked, verdict, hit_watch>>
vars == <<meta_sets, machine, evaluation, report, rule_cache, stats, watches, host>>

Tag == 0 .. Len(meta_sets)
Operand == [Field -> Nat]
Result == [pc : Nat, rd : Nat, csr : Nat,
           pcResult : BOOLEAN, rdResult : BOOLEAN, csrResult : BOOLEAN]
Context == [epc : Address, bad_addr : Address, cached : BOOLEAN]
ZeroOps == [f \in Field |-> BadTag]

Finite == INSTANCE FiniteRuleCache
Ideal == INSTANCE IdealRuleCache

-----------------------------------------------------------------------------
(* prepare_eval *)

IsMem(insn) == insn.has_load \/ insn.has_store

RegTag(r) == IF r = None THEN BadTag ELSE ireg_tags[r]

(* A tag_bus lookup; out_of_range leaves the operand at BAD_TAG_VALUE. *)
CellTag(cell) == IF cell = NoCell THEN BadTag ELSE cell_tags[cell]

DataCellOf == [a \in Address |-> DataCell(AddrFixer[a])]
InsnCellOf == [a \in Address |-> InsnCell(AddrFixer[a])]

(* A CSR operand is overwritten by a second source register. *)
Op2TagNoCsr(insn) == RegTag(insn.rs2)   \* plausible bug: CSR operand forgotten
Op2Tag(insn) == IF insn.rs2 # None THEN ireg_tags[insn.rs2]
                ELSE IF insn.csr # None THEN csr_tags[insn.csr] ELSE BadTag

OperandTags(pc, insn, addr) ==
  [f \in Field |->
     CASE f = "pc"  -> pc_tag
       [] f = "ci"  -> CellTag(InsnCellOf[pc])
       [] f = "op1" -> RegTag(insn.rs1)
       [] f = "op2" -> Op2Tag(insn)
       [] f = "op3" -> RegTag(insn.rs3)
       [] f = "mem" -> IF IsMem(insn) THEN CellTag(DataCellOf[addr]) ELSE BadTag]

(* A memory operand that the bus knows but nothing tagged: "TMT misses are *)
(* fatal", an exception that no caller catches.                            *)
TmtMiss(insn, addr) ==
  /\ IsMem(insn)
  /\ DataCellOf[addr] # NoCell
  /\ cell_tags[DataCellOf[addr]] = BadTag

(* The effective address: an address supplied by the host if one is staged *)
(* and the instruction accesses memory, else the one computed from rs1.    *)
EffectiveAddr(insn, staged, mem, computed) ==
  IF IsMem(insn) /\ ~staged THEN computed ELSE mem

-----------------------------------------------------------------------------
(* The rule cache behind the virtual calls of rule_cache_t. *)

HasCache == RuleCacheKind # "none"

CacheAllows(o) ==
  HasCache /\ IF RuleCacheKind = "finite" THEN Finite!allow(o) ELSE Ideal!allow(o)

CacheInstall(o, r) ==
  IF RuleCacheKind = "finite" THEN Finite!install_rule(o, r)
  ELSE Ideal!install_rule(o, r) /\ UNCHANGED <<entries, next_entry, cache_full>>

CacheFlush ==
  IF RuleCacheKind = "finite" THEN Finite!flush
  ELSE Ideal!flush /\ UNCHANGED <<entries, next_entry, cache_full>>

Count(n) == IF n < CountMax THEN n + 1 ELSE n

(* Statistics of one lookup.  The three-argument validate counts what the  *)
(* two-argument one has already counted.                                   *)
CountLookup(hit, twice) ==
  IF ~HasCache THEN UNCHANGED stats
  ELSE LET Counted(n) == IF twice THEN Count(Count(n)) ELSE Count(n)
       IN  /\ rule_cache_hit' = hit
           /\ rule_cache_hits' = IF hit THEN Counted(rule_cache_hits) ELSE rule_cache_hits
           /\ rule_cache_misses' = IF hit THEN rule_cache_misses
                                          ELSE Counted(rule_cache_misses)

-----------------------------------------------------------------------------
(* validate *)

OperandMd(o) == [f \in Field |-> GetMs(meta_sets, o[f])]

CanonizeOpt(sets, m) == IF m = None THEN sets ELSE CanonizeSets(sets, m)

(* The vector after setup_validation, and after the policy has canonized   *)
(* the results of outcome r.                                               *)
SetupSets == CanonizeSets(meta_sets, EmptySet)
EvalSets(r) == CanonizeOpt(CanonizeOpt(CanonizeOpt(SetupSets, r.pc), r.rd), r.csr)

(* Result tags: what the policy sets, over the empty set of the set-up. *)
TagOpt(sets, m) == CanonizeTag(sets, IF m = None THEN EmptySet ELSE m)
ResultTags(r) ==
  [pc  |-> TagOpt(EvalSets(r), r.pc),  pcResult  |-> r.pc # None,
   rd  |-> TagOpt(EvalSets(r), r.rd),  rdResult  |-> r.rd # None,
   csr |-> TagOpt(EvalSets(r), r.csr), csrResult |-> r.csr # None]
NoResult ==
  [pc  |-> TagOpt(SetupSets, None), pcResult  |-> FALSE,
   rd  |-> TagOpt(SetupSets, None), rdResult  |-> FALSE,
   csr |-> TagOpt(SetupSets, None), csrResult |-> FALSE]

ContextOf(pc, insn, addr, cached) ==
  [epc |-> pc, bad_addr |-> IF IsMem(insn) THEN addr ELSE 0, cached |-> cached]

PendingOf(insn) == [RD |-> insn.rd, CSR |-> insn.csr, mem |-> insn.has_store]

(* prepare_eval clears failed; handle_violation, which therefore always    *)
(* finds it clear, keeps the context and the operands of the denial.       *)
NoViolationForgotten == UNCHANGED report   \* plausible bug: failed not cleared
NoViolation == failed' = FALSE /\ UNCHANGED <<failed_ctx, failed_ops>>
handle_violation(o) == failed' = TRUE /\ failed_ctx' = ctx' /\ failed_ops' = o

(* The rule cache has the operands: their cached results, no evaluation. *)
RuleCacheHit(pc, insn, addr, o) ==
  /\ CacheAllows(o)
  /\ meta_sets' = SetupSets
  /\ res' = Ideal!Cached(o)
  /\ ctx' = ContextOf(pc, insn, addr, TRUE)
  /\ verdict' = "allowed"
  /\ NoViolation

(* eval_policy succeeds. *)
EvalSuccess(pc, insn, addr, o) ==
  /\ ~CacheAllows(o)
  /\ \E r \in PolicyEval(OperandMd(o)) :
       /\ r.allowed
       /\ meta_sets' = EvalSets(r)
       /\ res' = ResultTags(r)
       /\ ctx' = ContextOf(pc, insn, addr, r.cached)
  /\ verdict' = "allowed"
  /\ NoViolation

(* eval_policy fails. *)
EvalFailure(pc, insn, addr, o) ==
  /\ ~CacheAllows(o)
  /\ \E r \in PolicyEval(OperandMd(o)) :
       /\ ~r.allowed
       /\ ctx' = ContextOf(pc, insn, addr, r.cached)
  /\ meta_sets' = SetupSets
  /\ res' = NoResult
  /\ verdict' = "denied"
  /\ handle_violation(o)

(* prepare_eval has read the operands; staged and mem are the values of    *)
(* has_insn_mem_addr and mem_addr when validate was entered.               *)
Evaluate(pc, insn, addr, staged, mem, twice) ==
  LET used == EffectiveAddr(insn, staged, mem, addr)
      o    == OperandTags(pc, insn, used)
  IN  /\ ~TmtMiss(insn, used)
      /\ \/ RuleCacheHit(pc, insn, used, o)
         \/ EvalSuccess(pc, insn, used, o)
         \/ EvalFailure(pc, insn, used, o)
      /\ ops' = o
      /\ pending' = PendingOf(insn)
      /\ mem_addr' = used
      /\ has_insn_mem_addr' = (staged /\ ~IsMem(insn))
      /\ CountLookup(CacheAllows(o), twice)

(* prepare_eval throws; the exception ends the process, and with it what  *)
(* setup_validation and prepare_eval had assigned so far.                  *)
Fatal(insn, addr, staged, mem) ==
  /\ TmtMiss(insn, EffectiveAddr(insn, staged, mem, addr))
  /\ verdict' = "fatal"
  /\ NoViolation
  /\ UNCHANGED <<meta_sets, evaluation, stats>>

validate(pc, insn, addr, staged, mem, twice) ==
  /\ verdict # "fatal"
  /\ Evaluate(pc, insn, addr, staged, mem, twice) \/ Fatal(insn, addr, staged, mem)
  /\ asked' = [pc |-> pc, insn |-> insn, addr |-> IF IsMem(insn) THEN addr ELSE 0]
  /\ hit_watch' = FALSE
  /\ UNCHANGED <<machine, rule_cache, watches>>

(* validate(pc, insn): addr is reg_reader(rs1) + imm. *)
Validate(pc, insn, addr) ==
  /\ "validate" \in EntryPoints
  /\ validate(pc, insn, addr, has_insn_mem_addr, mem_addr, FALSE)

(* validate(pc, insn, memory_addr): addr is the host's memory_addr. *)
ValidateCached(pc, insn, addr) ==
  /\ "validate_cached" \in EntryPoints
  /\ validate(pc, insn, addr, TRUE, addr, TRUE)

-----------------------------------------------------------------------------
(* commit *)

WritesRegAlways == pending.RD # None   \* plausible bug: rdResult ignored
WritesReg == pending.RD # None /\ res.rdResult
WritesMem == pending.mem /\ res.rdResult
WritesCsr == pending.CSR # None /\ res.csrResult
StoreCell == DataCellOf[mem_addr]

(* A cacheable rule that the cache lacks, or has lost since the lookup. *)
InstallsRuleAlways == HasCache /\ ~CacheAllows(ops)   \* plausible bug
InstallsRule == HasCache /\ ctx.cached /\ ~CacheAllows(ops)

(* Plausible bug: the CSR watches are not consulted. *)
WatchHitNoCsr ==
  \/ res.pcResult /\ watches.pc /\ pc_tag # res.pc
  \/ WritesReg /\ pending.RD \in watches.regs /\ ireg_tags[pending.RD] # res.rd
  \/ WritesMem /\ StoreCell = NoCell
  \/ WritesMem /\ mem_addr \in watches.addrs /\ cell_tags[StoreCell] # res.rd

(* What commit() returns: a watched tag is overwritten by a different one, *)
(* or the store has no tag ("might as well halt").                         *)
WatchHit ==
  \/ res.pcResult /\ watches.pc /\ pc_tag # res.pc
  \/ WritesReg /\ pending.RD \in watches.regs /\ ireg_tags[pending.RD] # res.rd
  \/ WritesMem /\ StoreCell = NoCell
  \/ WritesMem /\ mem_addr \in watches.addrs /\ cell_tags[StoreCell] # res.rd
  \/ WritesCsr /\ pending.CSR \in watches.csrs /\ csr_tags[pending.CSR] # res.csr

(* The caller's contract (validator.h): an instruction is executed, and so *)
(* committed, only if validate returned true for it.                       *)
Commit ==
  /\ verdict = "allowed"
  /\ verdict' = "none"
  /\ hit_watch' = WatchHit
  /\ pc_tag' = IF res.pcResult THEN res.pc ELSE pc_tag
  /\ ireg_tags' = IF WritesReg /\ pending.RD # 0
                  THEN [ireg_tags EXCEPT ![pending.RD] = res.rd] ELSE ireg_tags
  /\ cell_tags' = IF WritesMem /\ StoreCell # NoCell
                  THEN [cell_tags EXCEPT ![StoreCell] = res.rd] ELSE cell_tags
  /\ csr_tags' = IF WritesCsr
                 THEN [csr_tags EXCEPT ![pending.CSR] = res.csr] ELSE csr_tags
  /\ IF InstallsRule
     THEN CacheInstall(ops, res) ELSE UNCHANGED rule_cache
  /\ UNCHANGED <<meta_sets, evaluation, report, stats, watches, asked>>

-----------------------------------------------------------------------------
(* The host's other calls *)

FlushRuleCache ==
  /\ HostFlushes /\ verdict # "fatal"
  /\ IF HasCache THEN CacheFlush ELSE UNCHANGED rule_cache
  /\ UNCHANGED <<meta_sets, machine, evaluation, report, stats, watches, host>>

(* set_pc_watch, set_reg_watch, set_csr_watch and set_mem_watch: watches   *)
(* are only ever added, except for the pc.                                 *)
SetWatch ==
  /\ verdict # "fatal"
  /\ \/ \E b \in Watchable.pc : watches' = [watches EXCEPT !.pc = b]
     \/ \E r \in Watchable.regs : watches' = [watches EXCEPT !.regs = @ \cup {r}]
     \/ \E c \in Watchable.csrs : watches' = [watches EXCEPT !.csrs = @ \cup {c}]
     \/ \E a \in Watchable.addrs : watches' = [watches EXCEPT !.addrs = @ \cup {a}]
  /\ UNCHANGED <<meta_sets, machine, evaluation, report, rule_cache, stats, host>>

(* get_tag of an initializer: canonized, or BAD_TAG_VALUE if the policy    *)
(* defines none.                                                           *)
InitTag(m) == IF m = None THEN BadTag ELSE CanonizeTag(InitSets, m)

(* The constructor and apply_metadata. *)
Init ==
  /\ meta_sets = InitSets
  /\ pc_tag = InitTag(EnvDefault)
  /\ ireg_tags = [r \in Reg |-> InitTag(RegDefault[r])]
  /\ csr_tags = [c \in Csr |-> InitTag(CsrDefault[c])]
  /\ cell_tags = [k \in Cell |-> InitTag(CellDefault[k])]
  /\ ops = ZeroOps
  /\ res = [pc |-> BadTag, rd |-> BadTag, csr |-> BadTag,
            pcResult |-> TRUE, rdResult |-> TRUE, csrResult |-> TRUE]
  /\ ctx = [epc |-> 0, bad_addr |-> 0, cached |-> FALSE]
  /\ pending = [RD |-> None, CSR |-> None, mem |-> FALSE]
  /\ mem_addr = 0 /\ has_insn_mem_addr = FALSE
  /\ failed = FALSE /\ failed_ctx = ctx /\ failed_ops = ops
  /\ Finite!finite_rule_cache
  /\ rule_cache_hit \in BOOLEAN   \* not initialised by the constructor
  /\ rule_cache_hits = 0 /\ rule_cache_misses = 0
  /\ watches = [pc |-> FALSE, regs |-> {}, csrs |-> {}, addrs |-> {}]
  /\ asked = None /\ verdict = "none" /\ hit_watch = FALSE

Next ==
  \/ \E pc \in Pc, insn \in Insn, addr \in Address :
       Validate(pc, insn, addr) \/ ValidateCached(pc, insn, addr)
  \/ Commit
  \/ FlushRuleCache
  \/ SetWatch

Spec == Init /\ [][Next]_vars

-----------------------------------------------------------------------------
(* Properties *)

ValidResult(t) == t \in [pc : 1 .. Len(meta_sets), rd : 1 .. Len(meta_sets),
                         csr : 1 .. Len(meta_sets), pcResult : BOOLEAN,
                         rdResult : BOOLEAN, csrResult : BOOLEAN]

(* Every tag the validator holds, cached rules included, is BAD_TAG_VALUE  *)
(* or an index of the meta set vector.                                     *)
TypeOK ==
  /\ meta_sets \in Seq(MetaSet)
  /\ pc_tag \in Tag
  /\ ireg_tags \in [Reg -> Tag]
  /\ csr_tags \in [Csr -> Tag]
  /\ cell_tags \in [Cell -> Tag]
  /\ ops \in [Field -> Tag]
  /\ ctx \in Context
  /\ pending \in [RD : Reg \cup {None}, CSR : Csr \cup {None}, mem : BOOLEAN]
  /\ mem_addr \in Address
  /\ has_insn_mem_addr \in BOOLEAN
  /\ failed \in BOOLEAN /\ failed_ctx \in Context /\ failed_ops \in [Field -> Tag]
  /\ Finite!TypeOK
  /\ DOMAIN rule_cache_table \subseteq [Field -> Tag]
  /\ \A o \in DOMAIN rule_cache_table : ValidResult(rule_cache_table[o])
  /\ rule_cache_hit \in BOOLEAN
  /\ rule_cache_hits \in 0 .. CountMax /\ rule_cache_misses \in 0 .. CountMax
  /\ verdict \in {"none", "allowed", "denied", "fatal"}
  /\ verdict = "allowed" => ValidResult(res)
  /\ hit_watch \in BOOLEAN
  /\ watches \in [pc : BOOLEAN, regs : SUBSET Reg,
                   csrs : SUBSET Csr, addrs : SUBSET Address]
  /\ asked = None \/ asked \in [pc : Pc, insn : Insn, addr : Address]

(* canonize never stores a meta set twice: two locations carry the same    *)
(* metadata exactly if their tags are equal, which operand comparison in   *)
(* the rule cache and in the watches relies on.                            *)
CanonicalTags == NoDuplicates(meta_sets)

ResultMd(t) == [pc  |-> IF t.pcResult THEN GetMs(meta_sets, t.pc) ELSE None,
                rd  |-> IF t.rdResult THEN GetMs(meta_sets, t.rd) ELSE None,
                csr |-> IF t.csrResult THEN GetMs(meta_sets, t.csr) ELSE None]
OutcomeMd(r) == [pc |-> r.pc, rd |-> r.rd, csr |-> r.csr]

(* A rule in the cache is what the policy would decide: it allows those    *)
(* operands, with those results, and it has no other outcome for them.     *)
RuleSound(o, t) == \E r \in PolicyEval(OperandMd(o)) :
                     /\ PolicyEval(OperandMd(o)) = {r}
                     /\ r.allowed
                     /\ OutcomeMd(r) = ResultMd(t)

(* Every rule in the cache is sound, although meta sets have been added    *)
(* and tags have changed since it was installed.                           *)
CacheSound == \A o \in DOMAIN rule_cache_table : RuleSound(o, rule_cache_table[o])

(* The rule the next commit may install is sound as well; with CacheSound, *)
(* what commit needs to keep the cache sound.                              *)
PendingSound == verdict = "allowed" /\ ctx.cached => RuleSound(ops, res)
CacheInv == CacheSound /\ PendingSound

(* A violation report describes the instruction that was denied: its       *)
(* address and the tags its operands still have.                           *)
ReportMatchesDenial ==
  /\ failed <=> verdict = "denied"
  /\ failed => /\ failed_ctx.epc = asked.pc
               /\ IsMem(asked.insn) => failed_ctx.bad_addr = asked.addr
               /\ failed_ops = OperandTags(asked.pc, asked.insn, asked.addr)

(* Tags of the watched locations. *)
WatchedTags == [pc    |-> IF watches.pc THEN pc_tag ELSE BadTag,
                regs  |-> [r \in watches.regs |-> ireg_tags[r]],
                csrs  |-> [c \in watches.csrs |-> csr_tags[c]],
                addrs |-> [a \in watches.addrs |-> CellTag(DataCellOf[a])]]

(* commit() returns false only if no watched tag changed (validator.h      *)
(* "Return false means no watchpoint hit").                                *)
WatchReported == [][UNCHANGED watches /\ ~hit_watch' => UNCHANGED WatchedTags]_vars

(* The address whose tag decided a load or store is the address of that    *)
(* access (rv_validator.cc "mem_addr has already been set").               *)
AddressAsAsked ==
  verdict \in {"allowed", "denied"} /\ IsMem(asked.insn) => ctx.bad_addr = asked.addr

-----------------------------------------------------------------------------
(* The reference monitor this validator implements *)

PcLoc == <<"pc", 0>>
Loc == {PcLoc} \cup {<<"reg", r>> : r \in Reg} \cup {<<"csr", c>> : c \in Csr}
       \cup {<<"mem", k>> : k \in Cell}

MdAt(l) == GetMs(meta_sets, CASE l[1] = "pc"  -> pc_tag
                              [] l[1] = "reg" -> ireg_tags[l[2]]
                              [] l[1] = "csr" -> csr_tags[l[2]]
                              [] l[1] = "mem" -> cell_tags[l[2]])

RegLoc(r) == IF r = None THEN None ELSE <<"reg", r>>
CellLoc(k) == IF k = NoCell THEN None ELSE <<"mem", k>>

(* The locations an instruction reads and writes. *)
RequestOf(pc, insn, addr) ==
  [src |-> [f \in Field |->
      CASE f = "pc"  -> PcLoc
        [] f = "ci"  -> CellLoc(InsnCellOf[pc])
        [] f = "op1" -> RegLoc(insn.rs1)
        [] f = "op2" -> IF insn.rs2 # None THEN RegLoc(insn.rs2)
                        ELSE IF insn.csr # None THEN <<"csr", insn.csr>> ELSE None
        [] f = "op3" -> RegLoc(insn.rs3)
        [] f = "mem" -> IF IsMem(insn) THEN CellLoc(DataCellOf[addr]) ELSE None],
   rd  |-> {l \in Loc : \/ insn.rd # 0 /\ l = RegLoc(insn.rd)
                        \/ insn.has_store /\ l = CellLoc(DataCellOf[addr])},
   csr |-> {l \in Loc : insn.csr # None /\ l = <<"csr", insn.csr>>}]

(* What the next commit would write, read off res and the pending fields. *)
PendingTargets ==
  {l \in Loc : \/ l = PcLoc /\ res.pcResult
               \/ WritesReg /\ pending.RD # 0 /\ l = RegLoc(pending.RD)
               \/ WritesMem /\ l = CellLoc(StoreCell)
               \/ WritesCsr /\ l = <<"csr", pending.CSR>>}
PendingMd ==
  IF verdict # "allowed" THEN [l \in {} |-> None]
  ELSE [l \in PendingTargets |->
          GetMs(meta_sets, IF l = PcLoc THEN res.pc
                           ELSE IF l[1] = "csr" THEN res.csr ELSE res.rd)]

(* What the monitor sees of the validator: the metadata of the locations,  *)
(* now and at start-up, and the request last decided.                      *)
Md == [l \in Loc |-> MdAt(l)]
StartMd == [l \in Loc |-> CASE l[1] = "pc"  -> EnvDefault
                            [] l[1] = "reg" -> RegDefault[l[2]]
                            [] l[1] = "csr" -> CsrDefault[l[2]]
                            [] l[1] = "mem" -> CellDefault[l[2]]]
Requests == {RequestOf(pc, insn, addr) : pc \in Pc, insn \in Insn, addr \in Address}
LastRequest == IF asked = None THEN None ELSE RequestOf(asked.pc, asked.insn, asked.addr)

(* None is no location and nothing the host asks for. *)
ASSUME MonitorAssumption == None \notin Loc \cup [pc : Pc, insn : Insn, addr : Address]

Monitor == INSTANCE PolicyMonitor WITH
  Request <- Requests, InitMd <- StartMd, Policy <- PolicyEval,
  md <- Md, request <- LastRequest, pending <- PendingMd

(* The validator implements the monitor: with any rule cache, and with     *)
(* metadata kept as canonized tags, its verdicts and commits are those of  *)
(* the policy on the current metadata of the operands the host asked for.  *)
ImplementsMonitor == Monitor!Spec

=============================================================================
