---------------------------- MODULE QemuInterface ----------------------------
(***************************************************************************)
(* The start of the validator inside the host: e_v_set_metadata reads the  *)
(* configuration, e_v_set_callbacks loads the tag file and makes the       *)
(* validator, and the host may call anything before, between and after.    *)
(* What a policy decides once the validator runs is RvValidator's subject; *)
(* here it may allow or deny.  The tags here are those of the start: later *)
(* ones are results of evaluations, which are never without a tag, on      *)
(* memory that had one, so which memory has none does not change.  The     *)
(* host's addresses are those of the bus.                                  *)
(***************************************************************************)
EXTENDS TagBus, TagFile

CONSTANTS Pcs,          \* addresses the host asks about
          Accesses,     \* addresses loads, stores and e_v_mem_tag go to
          Configs,      \* what the configuration file may hold: sets of its keys, {} when it cannot be read
          StartTags     \* which of "pc", "csr" and "reg" the policy gives a tag before anything runs

ASSUME HostAssumption == Accesses \subseteq Address /\ StartTags \subseteq {"pc", "csr", "reg"}

VARIABLES DOA,
          config,         \* the keys whose variables are set
          rv_validator,   \* <<>>, or the validator <<[xlen, loaded, map, tags]>>
          evaluated,      \* the validator has set ops and res in a validation
          started,        \* history: e_v_set_callbacks has been called
          reply,          \* what the last call returned to the host
          untagged        \* history: what had no tag, or no value, when a call crashed over it

host == <<DOA, config, rv_validator, evaluated, started, reply, untagged>>

HostInit == /\ DOA = FALSE /\ config = {} /\ rv_validator = <<>> /\ evaluated = FALSE
            /\ started = FALSE /\ reply = "none" /\ untagged = <<>>

(* The keys are read in this order, up to the first that is missing. *)
required_keys == <<"policy_dir", "tags_file", "soc_cfg_path">>

e_v_set_metadata(keys) ==
  LET missing == Min({i \in 1 .. 3 : required_keys[i] \notin keys} \cup {4})
      read == {required_keys[i] : i \in 1 .. missing - 1}
  IN  /\ reply # "crash"
      /\ config' = config \cup read \cup (IF missing = 4 THEN keys ELSE {})
      /\ DOA' = (DOA \/ missing # 4)
      /\ reply' = "none"
      /\ UNCHANGED <<rv_validator, evaluated, started, untagged>>

(* soc_tag_configuration_t and the constructor: every tag of the bus holds *)
(* the tag of its SOC element, here null                                   *)
new_validator(load) ==
  [xlen |-> load.xlen, loaded |-> load.loaded, map |-> IF load.loaded THEN load.map ELSE <<>>,
   tags |-> [c \in Cell |-> null]]

(* apply_metadata goes through the runs word by word and stops at the      *)
(* first address without a provider                                        *)
Words(run) == [w \in 1 .. (run.end - run.start + 3) \div 4 |->
                 [cell |-> InsnCell(run.start + 4 * (w - 1)), md |-> run.md]]
apply_metadata(tags, map) ==
  LET runs_ == Runs(map)
      words == FlattenSeq([i \in DOMAIN runs_ |-> Words(runs_[i])])
      stop == Min({i \in DOMAIN words : words[i].cell = NoCell} \cup {Len(words) + 1})
      after[n \in 0 .. Len(words)] ==
        IF n = 0 THEN tags ELSE [after[n - 1] EXCEPT ![words[n].cell] = words[n].md]
  IN  [throws |-> stop <= Len(words), tags |-> after[stop - 1]]

(* The address without a provider is reported and passed over. *)
Construct_passing_over(load) ==
  \E v \in {new_validator(load)} :
    /\ rv_validator' = <<[v EXCEPT !.tags = apply_metadata(v.tags, v.map).tags]>>
    /\ evaluated' = FALSE
    /\ DOA' = ("rule_cache_name" \in config)
    /\ reply' = "none"

(* e_v_set_callbacks once it has read the tag file.  A file that cannot be *)
(* loaded leaves the validator without tags.  An address outside the SOC   *)
(* or any name of a rule cache makes it DOA; a rule_cache without a name   *)
(* configures none.  A run without metadata is dereferenced all the same.  *)
Construct(load) ==
  \E v \in {new_validator(load)} :
    \E applied \in {apply_metadata(v.tags, v.map)} :
      /\ rv_validator' = <<[v EXCEPT !.tags = applied.tags]>>
      /\ evaluated' = FALSE
      /\ DOA' = (applied.throws \/ "rule_cache_name" \in config)
      /\ reply' = IF RunsFault(v.map) THEN "crash" ELSE "none"

(* A policy or a SOC file that cannot be read makes it DOA with the         *)
(* validator it had before, or none.                                        *)
e_v_set_callbacks ==
  /\ reply # "crash"
  /\ started' = TRUE
  /\ IF DOA THEN reply' = "none" /\ UNCHANGED <<DOA, rv_validator, evaluated>>
     ELSE IF {"policy_dir", "soc_cfg_path"} \subseteq config
     THEN \E load \in {load_metadata(IF "tags_file" \in config THEN tag_file ELSE <<>>, 32)} :
            Construct(load)
     ELSE DOA' = TRUE /\ reply' = "none" /\ UNCHANGED <<rv_validator, evaluated>>
  /\ UNCHANGED <<config, untagged>>

-----------------------------------------------------------------------------
address_max(xlen) == IF xlen >= 64 THEN AddrSpace - 1 ELSE IF xlen >= 32 THEN Pow32 - 1 ELSE 2^xlen - 1
Beyond(addr) == addr > address_max(rv_validator[1].xlen)

Answers(replies) == reply' \in replies /\ UNCHANGED <<DOA, evaluated, untagged>>
CrashesOver(what) == reply' = "crash" /\ untagged' = what /\ UNCHANGED <<DOA, evaluated>>
OutOfRange == reply' = "denied" /\ DOA' = TRUE /\ UNCHANGED <<evaluated, untagged>>

(* A call that uses the validator without looking whether there is one *)
Uses(answers) == IF rv_validator = <<>> THEN Answers({"crash"}) ELSE answers

HostCall(answers) ==
  /\ reply # "crash"
  /\ answers
  /\ UNCHANGED <<config, rv_validator, started>>

(* BAD_TAG_VALUE is there *)
Untagged(a) == DataCell(a) # NoCell /\ rv_validator[1].tags[DataCell(a)] = null

(* prepare_eval throws on the first, a TMT miss, and nothing catches it;   *)
(* access is {} or the address of the load or store.                       *)
Validates(access) ==
  IF DOA THEN Answers({"denied"})
  ELSE \/ \E a \in access : Untagged(a) /\ CrashesOver(<<"mem", a>>)
       \/ /\ \A a \in access : ~Untagged(a)
          /\ reply' \in {"allowed", "denied"}
          /\ evaluated' = TRUE /\ UNCHANGED <<DOA, untagged>>

e_v_validate(pc, access) == HostCall(Uses(IF Beyond(pc) THEN OutOfRange ELSE Validates(access)))

(* The access, if there is one, is to the address the host gives. *)
e_v_validate_cached(pc, mem_addr, access) ==
  HostCall(Uses(IF Beyond(pc) \/ Beyond(mem_addr) THEN OutOfRange ELSE Validates(access)))

(* e_v_commit looks at DOA first.  The host commits what it has validated. *)
e_v_commit ==
  /\ rv_validator # <<>> => evaluated \/ DOA
  /\ HostCall(IF DOA THEN Answers({"none"}) ELSE Uses(Answers({"none"})))

(* Memory on no SOC element throws, the set of BAD_TAG_VALUE is not there. *)
e_v_mem_tag(a) ==
  HostCall(Uses(IF ~Beyond(a) /\ (DataCell(a) = NoCell \/ Untagged(a)) THEN CrashesOver(<<"mem", a>>)
            ELSE Answers({"none"})))

(* e_v_pc_tag, e_v_csr_tag and e_v_reg_tag: a register without a tag has no *)
(* set to show.  One out of range is answered without the validator.        *)
e_v_state_tag(kind) ==
  HostCall(\/ kind # "pc" /\ Answers({"none"})
       \/ Uses(\/ Answers({"none"})
               \/ kind \notin StartTags /\ CrashesOver(<<kind>>)))

(* Before the first validation res has no tags and ops no value at all *)
e_v_rule_eval_log ==
  HostCall(Uses(IF evaluated THEN Answers({"none"}) ELSE CrashesOver(<<"ops">>)))

e_v_meta_log_short ==
  HostCall(Uses(Answers({"none"}) \/ (~evaluated /\ CrashesOver(<<"ops">>))))

(* e_v_flush_rule_cache, like the statistics, the violation message and    *)
(* the watches                                                             *)
e_v_flush_rule_cache == HostCall(Uses(Answers({"none"})))

HostNext ==
  /\ \/ \E keys \in Configs : e_v_set_metadata(keys)
     \/ e_v_set_callbacks
     \/ \E pc \in Pcs, access \in {{}} \cup {{a} : a \in Accesses} : e_v_validate(pc, access)
     \/ \E pc \in Pcs, a \in Accesses : \E access \in {{}, {a}} : e_v_validate_cached(pc, a, access)
     \/ \E a \in Accesses : e_v_mem_tag(a)
     \/ \E kind \in {"pc", "csr", "reg"} : e_v_state_tag(kind)
     \/ e_v_commit \/ e_v_rule_eval_log \/ e_v_meta_log_short \/ e_v_flush_rule_cache
  /\ UNCHANGED tag_file

=============================================================================
