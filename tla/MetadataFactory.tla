--------------------------- MODULE MetadataFactory ---------------------------
(***************************************************************************)
(* metadata_factory_t: from the names of a policy to metadata, and the     *)
(* three ways metadata gets onto the words of a program: by ranges, by the *)
(* opcodes of its code and by the entities its symbols are bound to.       *)
(*                                                                         *)
(* A policy is what its YAML files hold:                                   *)
(*   require  the paths under Require, each with the names of its metadata *)
(*   metas    [name, id] in the order of policy_meta.yml                   *)
(*   groups   for each opgroup its items, a tag or a tag with operand      *)
(*            rules: [meta, rules], rules an option of a sequence          *)
(* Every stage yields the ranges it adds, [start, end, md], in its order.  *)
(***************************************************************************)
EXTENDS MetadataMemoryMap, InstDecoder, LlvmTagger

CONSTANT NameOrder      \* the paths in the order of std::map<std::string, ...>

any == [match |-> "match_all", values |-> <<>>]

MetaNames(policy) == {policy.metas[i].name : i \in DOMAIN policy.metas}

(* A path is its own metadata when it is the name of a tag, whatever        *)
(* Require says.                                                            *)
entity_initializers(policy) ==
  [path \in DOMAIN policy.require \cup MetaNames(policy) |->
     IF path \in MetaNames(policy) THEN {path} ELSE policy.require[path]]

(* A name without an encoding gets a number no tag has. *)
encoding_map_minus_one(policy, name) ==
  LET named == {i \in DOMAIN policy.metas : policy.metas[i].name = name}
  IN  IF named = {} THEN -1 ELSE policy.metas[Max(named)].id

(* encoding_map[name] makes an entry 0 for a name it does not have *)
encoding_map(policy, name) ==
  LET named == {i \in DOMAIN policy.metas : policy.metas[i].name = name}
  IN  IF named = {} THEN 0 ELSE policy.metas[Max(named)].id

(* path_map only remembers answers; the initializers do not change *)
lookup_metadata(policy, path) ==
  IF path \in DOMAIN entity_initializers(policy)
  THEN entry({encoding_map(policy, name) : name \in entity_initializers(policy)[path]})
  ELSE null

(* The paths that begin with a path, in the order of the map *)
lookup_metadata_map(policy, path) ==
  FlattenSeq([i \in DOMAIN NameOrder |->
    Where(NameOrder[i] \in DOMAIN entity_initializers(policy) /\ IsPrefix(path, NameOrder[i]), NameOrder[i])])

-----------------------------------------------------------------------------
(* Operand values are compared as uint32_t: a negative immediate is above  *)
(* every value a rule names (those are taken to be below 2^31).            *)
InRange(value, values) == value >= values[1] /\ value <= values[Len(values)]

operand_rule_match(rule, value) ==
  CASE rule.match = "match_all"          -> TRUE
    [] rule.match = "match_equal"        -> \E i \in DOMAIN rule.values : rule.values[i] = value
    [] rule.match = "match_not_equal"    -> \A i \in DOMAIN rule.values : rule.values[i] # value
    [] rule.match = "match_in_range"     -> InRange(value, rule.values)
    [] rule.match = "match_not_in_range" -> ~InRange(value, rule.values)

(* Rules go with rd, rs1, rs2, rs3 and imm by position; an operand that has *)
(* no rule makes the match fail                                            *)
matches(rules, inst) ==
  LET fields == <<inst.rd, inst.rs1, inst.rs2, inst.rs3, inst.imm>>
  IN  \A i \in DOMAIN fields :
        fields[i] # none => i <= Len(rules) /\ operand_rule_match(rules[i], fields[i][1])

(* The last item with operand rules is the opgroup's rule *)
opgroup_rule(items) == LET ruled == {i \in DOMAIN items : items[i].rules # none}
                       IN  IF ruled = {} THEN <<>> ELSE <<items[Max(ruled)]>>

match_ids == {"match_all", "match_equal", "match_not_equal", "match_in_range", "match_not_in_range"}

(* The constructor throws on a rule of an unknown kind *)
FactoryThrows(policy) ==
  \E g \in DOMAIN policy.groups : \E i \in DOMAIN policy.groups[g] :
    LET rules == policy.groups[g][i].rules
    IN  rules # none /\ \E k \in DOMAIN rules[1] : rules[1][k].match \notin match_ids

lookup_group_metadata(policy, opgroup, inst) ==
  LET items == policy.groups[opgroup]
      rule == opgroup_rule(items)
      plain == {i \in DOMAIN items : items[i].rules = none}
  IN  CASE opgroup \notin DOMAIN policy.groups -> null
        [] opgroup \in DOMAIN policy.groups /\ rule # <<>> /\ matches(rule[1].rules[1], inst) ->
             entry({encoding_map(policy, rule[1].meta)})
        [] OTHER -> entry({encoding_map(policy, items[i].meta) : i \in plain})

-----------------------------------------------------------------------------
Add(start, end, md) == [start |-> start, end |-> end, md |-> md]
AddAll(mrs, adds) ==
  LET after[n \in 0 .. Len(adds)] ==
        IF n = 0 THEN mrs ELSE add_range(after[n - 1], adds[n].start, adds[n].end, adds[n].md)
  IN  after[Len(adds)]

(* apply_tag does nothing for a path it does not know *)
apply_tag(policy, start, end, path) ==
  LET md == lookup_metadata(policy, path) IN IF md = null THEN <<>> ELSE <<Add(start, end, md[1])>>

(* apply_tags throws at the first tag that is not known *)
ApplyThrows(policy, range_map) ==
  \E i \in DOMAIN range_map : \E k \in DOMAIN range_map[i].tags :
    lookup_metadata(policy, range_map[i].tags[k]) = null

apply_tags(policy, range_map) ==
  FlattenSeq([i \in DOMAIN range_map |->
    FlattenSeq([k \in DOMAIN range_map[i].tags |->
      apply_tag(policy, range_map[i].start, range_map[i].end, range_map[i].tags[k])])])

(* Halfwords to what is decoded next.  After a compressed load or store, which
   decode does not flag as compressed, that is one halfword too many. *)
Step(inst) == IF "is_compressed" \in inst.flags THEN 1 ELSE 2

(* tag_opcodes over the halfwords of a section, from the one at pc on *)
tag_opcodes(policy, section, xlen) ==
  LET half(i) == IF i \in DOMAIN section.data THEN section.data[i] ELSE 0
      n == section.size \div 2
      address(i) == uint64(section.address + 2 * (i - 1))
      tagged(i, inst) ==
        LET md == IF IsValid(inst) THEN lookup_group_metadata(policy, inst.name, inst) ELSE null
        IN  IF md = null THEN <<>> ELSE <<Add(address(i), address(i + Step(inst)), md[1])>>
      from[i \in 1 .. n + 2] ==
        IF i > n THEN <<>>
        ELSE LET inst == decode(half(i + 1), half(i), xlen)
             IN  tagged(i, inst) \o from[i + Step(inst)]
  IN  from[1]

(* A symbol is tagged over its size, or for one word when the binding is of *)
(* a single word; a range binding from symbol to symbol                     *)
tag_entities(policy, image, nodes) ==
  LET symbols == symtab(image)
      symbol(n, s) ==
        IF s = <<>> THEN <<>>
        ELSE apply_tag(policy, s[1].address,
                       uint64(s[1].address + (IF is_singularity(n) THEN word_bytes(image) ELSE s[1].size)),
                       n.name)
      range(n, s, e) ==
        IF s = <<>> \/ e = <<>> THEN <<>> ELSE apply_tag(policy, s[1].address, e[1].address, n.name)
      bound(n) ==
        CASE n.kind = "symbol" ->
               symbol(n, find_symbol(symbols, n.elf_name, ~is_singularity(n), Flag(n, "optional")))
          [] n.kind = "range" ->
               range(n, find_symbol(symbols, n.elf_start, FALSE, FALSE),
                        find_symbol(symbols, n.elf_end, FALSE, FALSE))
          [] OTHER -> <<>>
      bindings == FlattenSeq([f \in DOMAIN nodes |-> load_bindings(nodes[f])])
  IN  FlattenSeq([i \in DOMAIN bindings |-> bound(bindings[i])])

=============================================================================
