# A TLA+ verification of the HOPE policy engine

The policy engine decides, instruction by instruction, whether a simulated
RISC-V processor may go on. It keeps *metadata* for every word of memory, every
register, every CSR and the pc. Before an instruction is executed the host (a
simulator such as QEMU) calls `validate`, which hands the metadata of the
operands to a *policy*; after it has been executed the host calls `commit`,
which writes the metadata the policy computed for the results. This project
models that engine and checks what makes it correct.

## 1. The system

| component | state | operations | interacts with |
|---|---|---|---|
| RISC-V validator (`validator/riscv/rv_validator.*`) | tags of pc, registers, CSRs; operands, results and context of the last evaluation; pending destinations; violation report; watches; statistics | `validate` (two forms), `commit`, `flush_rule_cache`, `set_*_watch`, `apply_metadata` | everything below, by calls |
| Meta set cache (`meta_cache.*`, `meta_set_factory.*`) | a vector of meta sets; a tag is an index | `canonize`, `[]`, `get_tag` | the validator and, through callbacks in `main.cc`, the policy |
| Tag bus (`tag_utils.h`), SOC configuration (`soc_tag_configuration.*`) | one tag provider per SOC element | `data_tag_at`, `insn_tag_at`, `apply` | the validator reads and writes tags by reference |
| Rule caches (`rule_cache/ideal`, `finite`, `dmhc`) | table from operands to results, and replacement state | `allow`, `install_rule`, `flush` | `validate` looks up, `commit` installs, the host flushes |
| Host interface (`main.cc`, `qemu_interface.h`) | the validator, the configuration, `DOA` | `e_v_set_metadata`, `e_v_set_callbacks`, `e_v_validate`, ... | called by the host, in any order it likes |
| Decoder (`inst_decoder.*`) | none | `decode`: fifteen decoders tried in order | the validator (operands of an instruction), the opcode sweep |
| Metadata factory, opgroup rules (`metadata_factory.*`, `opgroup_rule.*`) | metadata of dotted paths, tag encodings, operand rules of opgroups | `lookup_metadata`, `apply_tags`, `tag_opcodes`, `tag_entities` | the validator at start-up, the tagging tool |
| Metadata memory map (`metadata_memory_map.*`) | regions, each a vector of metadata, one entry a word | `add_range`, `get_metadata`, iteration over runs | written by the factory, read by the writers, the listing and `apply_metadata` |
| Range map, taggers (`range_map.*`, `llvm_metadata_tagger.*`, `tag_elf_file.*`, `embed.*`, `annotate.*`) | ranges and the names to tag them with | `add_rwx_ranges`, `add_soc_ranges`, `generate_policy_ranges`, `add_tag_array`, `embed_tags` | ELF image in, factory out; start objcopy and objdump |
| Tag file (`tag_file.*`, `uleb.h`, `register_name_map.h`) | a file | `save_metadata`, `load_metadata`, `write_tag_file`, `load_firmware_tag_file` | the one thing the tool and the host share |
| `gen_tag_info` (`gen_tag_info.cc`) | where it is in `main` | its stages | all the tagging parts, in order |
| Policy | (generated, outside the repository) | `eval_policy` | called by `validate`, calls `canonize` and `get_ms` |

The engine is one thread called by its host. What makes it hard is not
concurrency but *sequences of calls*: state staged by one call and used by
another (`has_insn_mem_addr`, `res`, `pending_*`, `failed`), rules cached in one
state and applied in another, tags that are positions in a vector that grows
in the middle of a validation, a ring that wraps, a host that validates twice,
flushes between a validation and its commit, or stops.
The tagging tool is another process. It starts programs that may fail, writes a
file that may be cut, and may be run again, while a host starts the validator on
whatever file is there; neither side locks the file.

What makes each part correct:

* validator: verdicts and writes are those of the policy on the current
  metadata (with or without a rule cache); a report describes the denial that
  was just made; a watch is never missed;
* meta set cache: tags are canonical and keep their meaning;
* rule caches: what they return is what the policy would say; the finite one is
  bounded and evicts the oldest rule, the multi-hash one finds what it has just
  inserted and confuses no two rules.
* decoder: the order of the decoders does not decide by accident, what it yields
  may be used as an index, and the opcode sweep goes on by the right length;
* tagging: a word ends up with the tags of exactly the ranges that cover it, on
  every way from the range to the map, to the file, and back into the validator;
* host interface: no partly tagged program is allowed to run, and a running
  validator dies only over memory that has no tag;
* the tool's outputs: tag file, ELF copy, listing and validator have the same tags.


## 2. Modules

| module | models |
|---|---|
| `MetaSetCache` | `meta_cache.cc`: `canonize` as a search that appends on a miss, tags as indexes from 1, `get_ms` |
| `TagBus` | `tag_utils.h` and `soc_tag_configuration_t::apply`: which stored tag ("cell") a data or instruction access reaches |
| `IdealRuleCache` | `ideal_rule_cache.cc` |
| `FiniteRuleCache` | `finite_rule_cache.cc`: the ring of keys, eviction, and the `flush` it inherits; also a driver that uses it as `commit` does |
| `PolicyMonitor` | the abstract specification: a reference monitor on metadata, with no tags and no cache |
| `RvValidator` | `rv_validator.cc`: composes the four components above |
| `DmhcFold`, `DmhcHash`, `DmhcPerm` | `compute_hash.cc`: what the hash functions compute, the loops that compute it, and the permutation tables `iperm.c` and `perm5.c` to `perm7.c` |
| `Dmhc` | `dmhc.cc`, `dmhc_rule_cache.cc`: lookup under a mask, insertion with eviction and reinsertion, used as `validate` and `commit` use it |
| `InstDecoder` | `inst_decoder.cc`: `decode` and its fifteen decoders, the instruction tables as functions from function codes to names |
| `Addresses` | what is computed in `uint64_t`: `uint64` |
| `MetadataMemoryMap` | `metadata_memory_map.*`: regions, `add_range` with its four cases, lookup, iteration |
| `ElfImage` | `elf_loader.*`, `symbol_table.cc`, `entity_binding.cc`: what the tools take from an ELF file (sections, symbols, word size) and how an entity names symbols in it |
| `RangeMap` | `range_map.cc`, with the SOC elements as the tools read them |
| `LlvmTagger` | `llvm_metadata_tagger.cc`: the byte code of `.dover_metadata` as a state that folds over the bytes |
| `MetadataFactory` | `metadata_factory.cc`, `opgroup_rule.*`: tags of ranges, opcodes and entities |
| `RegisterNames` | the tables of `register_name_map.h` and `csr_name_map` that a tag file uses |
| `TagFile` | `tag_file.cc`, `uleb.h`: both file formats, writing and loading |
| `GenTagInfo` | `gen_tag_info.cc`, `tag_elf_file.cc`, `embed.cc`, `annotate.cc`: the tool's `main` |
| `QemuInterface` | `main.cc`: start-up, `DOA`, calls in any order, and what each of them crashes on |
| `Tagging` | the tool and the host side by side on one tag file |
| `FiniteRuleCacheProofs` | the finite cache: bounds; which rule leaves it |
| `RvValidatorProofs` | tags and `canonize`; types and sound rules; the refinement of the monitor, reports and watches |
| `DmhcProofs` | the dMHC while all rules have one mask |
| `DmhcHashProofs` | the hash functions for every permutation, bit vector and table |
| `InstDecoderProofs` | the decoder for all 2^32 words |
| `TaggingProofs` | the taggers' ranges, the memory map, the header's ranges, the ELF copy |
| `TagFileProofs` | what is in a tag file, what the validator has applied, what a call crashes over, the types of tool and host |
| `SequenceLemmas` | induction by the least counterexample, flattening, concatenating, inserting |
| `MCFiniteRuleCache`, `MCRvValidator`, `MCDmhc`, `MCDmhcHash`, `MCInstDecoder`, `MCTagging` | instances for TLC |

How they build on each other: `RvValidator` composes `MetaSetCache`, `TagBus`
and the two table caches. `TagFile` rests on `RangeMap`, `LlvmTagger`,
`MetadataFactory` (which calls `InstDecoder`), `MetadataMemoryMap` and
`RegisterNames`; `GenTagInfo` is the process that uses them. `QemuInterface`
joins `TagBus` and `TagFile`; `Tagging` runs it beside `GenTagInfo`.

How `RvValidator` corresponds to the code:

| code | model |
|---|---|
| `ms_cache.meta_sets`, `pc_tag`, `ireg_tags`, `csr_tags` | variables of the same names |
| the tags inside the providers of `tag_bus` | `cell_tags`, one per cell that some address reaches |
| `ops`, `res`, `ctx`, `mem_addr`, `has_insn_mem_addr`, `failed*` | variables of the same names |
| `pending_RD`, `has_pending_RD`, ... | the record `pending`; `None` is "not pending" |
| `rule_cache` | `RuleCacheKind` selects the implementation behind the virtual calls |
| `validate(pc, insn)` | `Validate`: `addr` stands for `reg_reader(rs1) + imm` |
| `validate(pc, insn, memory_addr)` | `ValidateCached` |
| `prepare_eval` | `OperandTags`, `EffectiveAddr`, `PendingOf`, `TmtMiss`, `NoViolation` |
| the three ways `validate` ends | `RuleCacheHit`, `EvalSuccess`, `EvalFailure`; and `Fatal`, the exception of a TMT miss, which no caller catches |
| `commit` | `Commit`, one action with all its writes and the cache installation |
| what the host asked and was told | `asked`, `verdict`, `hit_watch` |

An instruction is its decoding: the registers, the CSR and the load and store
flags that `prepare_eval` reads. `PolicyEval` maps operand metadata to the set of
outcomes `eval_policy` may have; its one assumption, `PolicyAssumption`, is
what caching a rule relies on: `ctx.cached` is left set only if the outcome is a
function of the operands. The host commits only what was allowed, as
`validator.h` demands; `commit` itself does not check.

`Monitor` in `RvValidator` is the refinement mapping to `PolicyMonitor`: a
location's metadata is the meta set its tag denotes, and the pending update is
read off `res` and the pending fields.

`Dmhc` keeps the tables of `dmhc_t` in the record `dmhc`. `Place` is one level
of the recursive `insert`; since `HOP_LIMIT` is 1 there are at most two, and
`insert` composes them. The exclusive or of C is the constant
operator `BitXor` on the words `Word`, of which the module assumes the laws it
uses (`XorAssumption`); `MCDmhc` gives it the bitwise operator, and TLC checks the
laws. The mask `consider` is the set of fields that are not
`BAD_TAG_VALUE`; the array `consider_evict` that nested evictions share is the
`mask` of `Displace`. `status` says how the process ended if an assertion, an `exit`
or an access outside a table ended it. The counters of hits and conflicts,
which are only printed, are left out.

`DmhcHash` takes exclusive or as the constant `BitXor`, too, and assumes of it that
two numbers below a table size that is a power of two give another; `MCDmhcHash`
gives it the bitwise operator and TLC evaluates the assumption. `HashAssumption` also says
what `compute_hash` is called with: tables that are permutations, and vectors of at
least one bit and of no more bits than the table has entries.

The decoder. A word is a pair of 16-bit halves and an immediate the signed `int`
of the code. `Attempts` is the list of the fifteen decoders in the order of
`decode`, which takes the first that accepts. Where the code tries the cases of
a decoder one after the other, the `CASE` guards say what the earlier ones left,
so that no two overlap and a `CASE` means one thing to TLC and to the prover. The
enumeration `op_t` is the union of named sets, by how a name is formed (plain, atomic
with its size, floating point with its format, conversions, moves). The model yields what the code yields
where the RISC-V manual says otherwise: `srlw` has the enumerator of `addw`, one
atomic is spelt `ammor.d`, the immediates of backward branches and jumps and of
compressed branches are assembled from the wrong bits, the stack-relative
compressed stores use five bits, compressed loads scale their offset twice;
`c.addi4spn`, `c.srli`, `c.srai` and `c.andi` never reach their decoder;
`decode_system` does not look at `f3` nor `sllw` at `f7`; atomics and `sc` carry
no load or store flag; `flags_t::operator|` drops `is_compressed`, so compressed
loads and stores count as four bytes in the opcode sweep (`StepIsLength` says for which
instructions that happens); floating-point
registers share the numbers of the integer registers. These are recorded as
hazards where they can matter; no document of the repository fixes the intended
result, so they are not stated as findings.

The tagging tool. A policy is the structure its YAML files parse to: `require`
(from paths to names of metadata), the encodings, and the opgroups with their
operand rules. Each stage of `main` is one action of `GenTagInfo`, with its early
exits (`exit`, `throws`, `crash`, and `endless` for the loop that writes a
negative number as LEB128). `InputsAssumption` says what an input is: addresses of
sections, symbols and SOC elements fit `uint64_t`, sizes and bytes are naturals, tag
numbers fit the `int` they are encoded in. `StageRanges` is the sequence of ranges the present stage is to add to the map.
objcopy and objdump either work or fail; an objcopy that fails may remove the copy it
was to write. The old tag file may resist removal, which ends the run with the file
kept. What objdump prints goes to a file named after the tag file, which is the
tag file itself if its name has no `.taginfo` to replace: the input field `taginfo` says
which, and `ObjdumpTexts` what may be printed, as bytes. `OpenTagFile` and
`WriteBytes` let the file be any prefix of its contents. The history variables
`added` (ranges that were to be tagged), `source` (the map the file was
written from) and `embedded` (the map the ELF copy has) are what the properties
compare with.

The tag file is a sequence of bytes, `tag_file = <<>>` when there is none.
`read_ulebs` is what `read_uleb` returns when it is called to the end of the file,
and both loaders take their numbers from it; `write_uleb` writes at most the ten bytes of a
`uint64_t`. Sorted containers of the code (`std::set`, `std::map`, `list::sort`) are
`SortedIds`, `SortedRanges` and `Sorted`, which take the least element again and
again, or put each where it belongs. The
plain format starts with the register width, which the format description in
`tagging_tools/README.md` leaves out. `load_metadata` starts from the width 32 of
its caller and may change it although it fails in the end. The firmware format is written and read
by position, through four index maps that share one list of metadata.

The host. `config` is the set of configuration variables that are set, not of
keys the last file had: `e_v_set_metadata` stops at the first missing key and
keeps what it has read. `rv_validator` is empty or holds the width, the map and
the tags per cell. What the policy decides is left open here, since it is the
subject of `RvValidator`. A `rule_cache` with a name makes the validator `DOA`, because
`config_rule_cache` compares a string it never fills; one without a name configures
no cache.

`reply = "crash"` is the end of the process, after which nothing happens, and
`untagged` says what it ended over, `<<>>` for the null pointer and for a run
without metadata. `Uses` is a call that goes through `rv_validator`
without looking whether there is one. A TMT miss is thrown by `validate` on a load or
store to memory without a tag and leaves `e_v_validate` and `e_v_validate_cached`
uncaught; `access` is the address of the load or store, if the instruction makes one.
`e_v_mem_tag` throws on memory of no SOC element and takes the meta set of
`BAD_TAG_VALUE` on untagged memory. `e_v_state_tag` (pc, CSR, register)
and the two logs do so for registers to which the policy gives no initial tag
(those not in `StartTags`) and for the operands of a validation that was never made
(`evaluated`). `e_v_flush_rule_cache` stands for the calls that need no more than the
pointer: the statistics, the violation message, and the watches. The tags are those
`apply_metadata` leaves: evaluations change them, but a result is always a tag, so
which memory has none stays the same. The address fixer of the host is taken to
be the identity, and the host commits only what it has validated, unless the
validator is `DOA` and nothing is committed: `validator.h` demands it, and before the
first validation `commit` would read results that have no value.

## 3. Runs

| run | shows |
|---|---|
| `finite` | with flushes at any moment the table stays within its capacity, because every cached key is still in a ring slot; until the first flush ring and table agree exactly and only the oldest rule of a full cache leaves it, which is not the one the header names as the oldest |
| `finite_flush_error` (violation) | after a flush of a wrapped ring an insertion prints "Internal error in rule cache" |
| `rv_finite` | refinement of the monitor with a finite cache, evictions and flushes anywhere; sound rules; canonical tags; faithful reports |
| `rv_ideal` | refinement through the entry point that supplies the address, with the unbounded cache, untagged and unmapped memory and watches of every kind; `CacheInv`, the invariant of the soundness proof; no watched change is missed |
| `rv_stale_addr` (violation) | an address staged for an instruction that is no load or store is used by the next one that is |
| `dmhc_hash` | the hash loops end, use every bit of the operands once and fold them into parities, also over the four tables of the source with the 192 bits of a rule; the hash fits a table of a power of two (for another size `log2` rounds up and it does not, although the constructor of `dmhc_t` accepts every capacity above 1) |
| `dmhc_same_mask` | while all rules look at the same operands: a rule in the match table is never torn (`Consistent`), no lookup returns another operand's rule, every last user recorded is live and hashes where it is recorded, and an insertion finds its rule although it moved others |
| `dmhc_slot_free` (violation) | the assertion of `real_insert` fails although `insert` expects that eviction may free nothing |
| `dmhc_mixed_mask` (violation) | a load from memory without a tag is answered with the rule of a load from tagged memory |
| `gen_tags` | the tagging tool and the host on one tag file, see below |
| `tags_at_zero` (violation) | ranges over a region that starts at address 0 are not merged, and the validator keeps the tags of the last one only |
| `decoder` | decoders overlap only where the order is meant; operands are usable as indexes; the opcode sweep goes on by the length of the instruction for all but the compressed loads and stores, and for none of those (`StepIsLength`); a compressed instruction has the operands of the one it abbreviates |

The comment `finite_rule_cache.h:30-32` says that the oldest entry of a full cache is
`entries[(next_entry+1)%capacity]`. That is not so: `install_rule` evicts
`entries[next_entry]` (`finite_rule_cache.cc:12`), and `EvictsOldest` says that this is
the oldest and, for a capacity above 1, that `DocumentedOldest`, the entry the comment
names, is another. The comment is wrong, the code does what the comment above it
(`:25-27`) promises.

`gen_tags` asks nine questions on one state space: the types; that the map holds exactly
what was added (`MapHoldsAdded`); that the listing shows at an instruction the
tags the validator decides it with, which come another way, through runs, file,
loader and `apply_metadata` (`ListingRuns`; where one region was extended over
another, `get_metadata` ends at the first, and the listing shows only a part of the
tags, although `tagging_tools/README.md:96-97` speaks of "the tags that have been applied");
that a file cut anywhere loads no tag that was not given and a whole one
everything (`LoadsWhatWasWritten`, `FirmwareReadsBack`); that the firmware header
covers the data and SOC ranges however they overlap (`HeaderCovers`); that the
ELF copy has the tags of the tag file beside it, however often the tool was run and
whatever failed on the way (`CopyCarriesTags`); that no instruction
is allowed on partly applied tags (`TaggedWhole`); and what a call can crash over
(`CrashOnlyUntagged`): a host that calls too early or goes on after `DOA` meets the null
pointer, starting on a file with a run without metadata crashes at once, and a
validator that runs and is not `DOA` is killed by an access to memory only where the
loaded file has no entry for it. Such a kill is what the code does on a TMT miss,
not an error of the model: a load from memory no tagger named ends the
simulation. The tool cannot always be run again over its own output: with a policy without
`Require` there is no fresh copy, `embed_tags` finds the section in the copy of the first
run and has objcopy update what the ELF file does not have, and the second run throws
(the inputs with `NoRequire` do that). `CopyCarriesTags` says that a run that fails, this
way or another, leaves no tag file that disagrees with the copy. Files with a run without metadata exist:
where one region was extended over another, runs are not written by address,
and a file cut between two of them may load with a word that has no entry (the
input `Crossed`). `LoadsWhatWasWritten` says that this needs overlapping
regions and a cut file. `HeaderCovers` counts the last address of a header range
as covered, since the SOC elements it is made of have inclusive ends and the end of a
section is the address of the byte behind it; `range.h` calls `end` exclusive, and the
header keeps no trace of which of the two a range had. `MapHoldsAdded` is stated for ranges that are
`WellPlaced`: they start at words, and none that starts at 4 is shorter than a
word. Such a range leaves a region without entries whose end stays 0; the word
at 0 is adjacent to that region, is taken to extend it, and gets no entry when a
range adds it. `TypeOK` includes `RangesTyped`: what a stage is to add are
addresses and numbers of tags. `TaggedWhole` is stated for maps of whole words
(`AlignedMap`) and says of every word of a heterogeneous SOC element that its tag is the
entry one of the loaded regions has for it (`EntriesAt`), or none if none has. A file cut between two ranges does load: the words of
the missing ranges are then untagged, and a host that cannot load the file at all
runs the program without tags. Both satisfy `TaggedWhole`: no property catches
missing tags (listed as hazards), and the code reports neither to the host.

Bounds of the caches and the validator. Capacity 3 with 5 keys (capacity 2 in
`rv_finite`) makes the ring wrap several times and lets a key return after its
eviction. The validator runs use two registers (0, which is never written, and
another), one CSR, one pc and addresses of every kind: tagged RAM, an element
without metadata, and an address on no element. The policy of `MCRvValidator`
has a denial, an uncacheable nondeterministic rule, results present and absent for
each destination, and outcomes that add a meta set (`mixed`) which is not in the
initial vector. `CountMax` saturates the statistics, which are only printed;
it is 0. The two entry points are checked in separate passing runs because
mixing them is what `rv_stale_addr` shows to be wrong: with both, the refinement
does not hold. The addresses of `rv_ideal` are words with a tag each: with two
addresses in one granule `WatchReported` fails, because a watched address is
compared exactly (listed as a hazard).

Bounds of the hash and the dMHC. `dmhc_hash` covers all permutations of five
positions, all vectors of at most four bits, tables of 4, 6, 8 and 1024 entries,
and the source's tables, so that walks of every length and incomplete last chunks
occur. The `MCDmhc` runs use two hash functions, three usable match table entries
and tables of eight: with seven operands the match table overflows, table entries
are shared by up to three rules and evicted rules are reinserted. Tags have two
bits instead of 32; the hash functions are the source's with their permutations
cut to the twelve bits by the walk of `compute_hash`.

Bounds of the decoder. All 49151 compressed words (not 0, and not ending in
`11`) for both register widths, and for every major opcode the decoders know,
and two they do not, every `f3` and `f7` with two destination and five second
source registers (the numbers `decode_system` and the conversions tell apart).

Bounds of the tagging runs. 27 inputs, each for one case: a program with all
kinds of sections, 64 bits, compressed code, `.dover_metadata`, an unknown
byte code in it, `.tag_array` within and beyond `int`, code at address 0, a
range that bridges two regions, one that ends a word below another, regions that
cross, symbols that
are not aligned, an address outside the SOC, files that cannot be read, policies
without defaults, with an unknown register, with two CSRs in one slot, and an
operand rule that is not allowed, and a tag file without `.taginfo` in its name,
with two texts of objdump, one of which loads as a tag file and one of which does
not. `MaxRuns` is 2: what one run leaves behind
(`elf_policy`, the tag file) is all the next one meets. The address space is cut
to fit: `AddrSpace` 65536 stands for 2^64, `Pow32` 4096 for 2^32, `IntMax` 2047
for 2^31 - 1; sections are at addresses below 136 or, for the case beyond `int`,
at 3000. One tag is 130, which takes two bytes as LEB128. The host asks about an
pc in code and one above 2^32; loads, stores and `e_v_mem_tag` go to an address in data,
one the programs leave untagged, and one on no SOC element (`Accesses`); the policy
has initial tags for the pc and the registers but not the CSRs (`StartTags`). The
configuration is complete, incomplete, one with a rule cache, or a file that cannot
be read. The host moves only while the tool is at the tag file or has
ended, as its steps commute with all others; it loads the plain file only.

Deadlock is not checked where the process may end: by a TMT miss, an assertion
of a rule cache, a hash or a word that is finished, a tool that has run
`MaxRuns` times with a crashed host. The engine does nothing unless it is called,
and what it promises is safety, so no fairness is assumed, except in `dmhc_hash`:
there a step is a turn of a loop of one thread, which goes on (`WF_vars(Next)`).
For the tool there is no liveness property to state: a write may fail, and
`endless` is an outcome of the code.


## 4. Proofs

Every theorem holds for all values of the constants that satisfy the module's
assumptions. An assumption on top of those, or on the host, is written in the
theorem and explained here.

**Finite cache** (`FiniteRuleCacheProofs`).
`FiniteTypeCorrect`, `FiniteTableInRing`, `FiniteBounded`: for every capacity,
key set and mix of insertions and flushes. `BoundedTable` is not inductive;
`TableInRing` is, and bounds the table by the image of a set of at most `Capacity`
slots. `FiniteNoInternalError` needs `RingExact` (used slots name distinct cached
keys), which flushes break, and is proved for `NoFlushSpec`.
`FiniteExactUntilFlush` and `FiniteEvictsOldest` are about the specification with
the history variables of `MCFiniteRuleCache`: `flushed`, and `older`, the pairs of
cached keys of which the first was installed earlier. `HistoryInv` says that until
a flush the ring is exact and, read from `next_entry` on, in the
order `older` gives; the entry behind `next_entry`, which the header names, is therefore
the oldest but one.

**Meta sets and the validator** (`RvValidatorProofs`).
`canonize` returns a tag that denotes its argument, extends the vector, and
keeps it free of duplicates. `RvTypeCorrect`: every tag anywhere is `BAD_TAG_VALUE` or
an index of the vector; tags are carried over from the old vector to the longer one
(`TagsGrow`), and the results of `eval_policy` are indexes of the vector it leaves
(`ResultTagsDenote`). `RvCanonicalTags` follows from `SetsGrow`. `RvCacheSound`:
`CacheSound` is not inductive, since `commit` installs what an earlier `validate`
left in `ops`, `res` and `ctx`. `CacheInv` (`RvCacheInv`) adds `PendingSound`, which
says that those are sound when `ctx.cached` is set. A hit gives `PendingSound`
from the cache itself, an evaluation from `PolicyAssumption`.

**The reference monitor** (`RvValidatorProofs`). `RvImplementsMonitor`: every step of
the validator is a step of `PolicyMonitor` under the refinement mapping, or none.
The mapping reads metadata through the tags, so each step needs that old tags keep
their meaning while the vector grows; a validation maps to the monitor's decision
because a cached rule is what the policy decides (`CacheInv`) and because
operands and destinations denote the monitor's; `commit` maps to the monitor's
update because two locations share a tag only if they share a cell.
The theorem, `RvReportMatchesDenial` and `RvAddressAsAsked` assume `OneEntryPoint`:
the host keeps to one of the two `validate` functions. With it no address is ever
found staged (`NothingStaged`); without it they are false, as `rv_stale_addr` shows.
`RvWatchReported` assumes `WatchedAlone`: no other address has the tag of a watched
one. Without it a store to a neighbour in the granule changes the watched tag
unreported (listed as a hazard).

**dMHC** (`DmhcProofs`). `DmhcConsistent`, `DmhcLookupSound`, `DmhcLastUserValid`,
`DmhcInsertFinds` and `DmhcInBounds`, for every number of hash functions,
capacity and hash functions, assuming `Usable`: all rules have one mask (a mixed
cache returns wrong rules, `dmhc_mixed_mask`), hashes are inside their tables and
exclusive ors of addresses are addresses (both hold if the capacity and `c` are powers
of two). `DmhcInv` says that entries are whole, that every last user is a live rule
which hashes to the entry it is recorded for, and that nothing but the assertion
of `real_insert` ends the process. The argument follows one insertion: `SlotValueWorks`
(writing a table entry makes the exclusive or the address wanted, from the laws of
`BitXor` alone), `evict_mtable_entry` keeps the invariant and blanks the entry, and
the reinsertion one level down cannot touch an entry whose hash it must
protect, so the rule inserted first is still found.

**Hash functions** (`DmhcHashProofs`). `HashEveryBitOnce`: the walk from a position to
the next one inside the bit vector is a path in the permutation. `WalkInv` says that
every place filled so far was reached by such a path from its number (`Leads`). Two
paths that end in the same bit started in the same place, since they can be followed
backwards; so the places are filled with different bits, and a one-to-one map of a
finite set into itself leaves none out. `HashIndexesTable`: `FoldInv` says that
result and chunk are below the table size and that the bit in hand is below its
logarithm, where `log2`, which counts up to the first power that is large enough, is
exact (`Log2OfPower`). Powers of two are ordered because `2^n` counts the subsets of `1 .. n`
(`Powers`); `HashAssumption` does the rest.

**Decoder** (`InstDecoderProofs`). The five theorems are stated for `AnyWord`, which decodes any two halves,
where the run tries a sample of the full-size words; `SampleIsAnyWord` says that
the run's specification is a special case. `WordInv` says that the instruction in hand is what `decode` makes of
the word in hand. There is a lemma per decoder and table, on
which words it accepts and what operands it gives: `DecodeOperandsUsable`
and `DecodeFirstDecides` follow from them. `DecodeStepIsLength` follows the flag
`is_compressed`: full-size decoders never set it, a compressed one sets it and loses it again
exactly where `FlagsOr` adds a load or a store (`FormatsMarked`, `DecodersMark`).
For `DecodeCompressedAsBase`, `Fits` says what an instruction with a given opcode looks
like (its operands, and whether it reads or writes memory); every compressed decoder
answers with an instruction that fits, so does the full-size decoder for the word of that
opcode, and the opcode decides (`Fits` is a function of it). `DecodeTypeOK` goes
through the tables once more: every name a table holds is in one of the sets
`op_t` is made of, `OpOf` being the only place where name and enumerator part.

**Tagging** (`TaggingProofs`). `TaggingRangesTyped`: `RangeInv` says that the range map
holds ranges of addresses with names; what `.dover_metadata` is read to, the
rounding of sections, symbols and entities, and the words the opcode sweep stops
at are then followed stage by stage. `TaggingMapHoldsAdded`: `MapInv` says that every
region has whole words, one entry for each, and that a word holds what
the ranges so far give it. It is stronger than the property, which looks only at the words
of `WordAddrs`. The proof takes each case of `add_range` (a new region, a region
extended at its end, at its start, a region that contains the range) and follows the
loop over the ranges by induction over how many have been added.
`TaggingHeaderCovers`: putting
ranges in order keeps them, and after each turn of `coalesce_ranges` the ranges done
cover what the ranges seen do; the wrapped difference of `Joined` joins only ranges
that touch or overlap. `TaggingCopyCarriesTags`: `CarryInv` adds what holds in
between: up to `add_tag_array` and `embed_tags` there is no file written from a map
(`source` is empty since `Start`), and from `annotate` on the copy has the tags of the map
at hand, so the file opened next is written from the map the copy has.

**Tag file** (`TagFileProofs`). `TaggingTypeOK`: `FileInv` says that while the listing and
the file are written no run of the map lacks its metadata (`embed_tags` has iterated
over it before) and that what is in a file are bytes; it needs the types of everything
`write_uleb` is given: runs, sorted ids, headers, indexes, the numbers of registers and
CSRs. `ControlInv` is the part of `TypeOK` about the tool's stage and the host.
`TaggingTaggedWhole`: `ValidatorInv` says that a validator that is not `DOA` has the tags
`apply_metadata` leaves, without an exception, for its map, which is whatever the bytes
found were read to. From the last word that reaches a cell one goes back to the
run, the region and its entry. It needs no assumption on the file: it holds for a cut one
and for one the tool did not write. `TaggingCrashOnlyUntagged`: every call ends in one of
four ways (`CallStep`: it answers, evaluates, meets the null pointer, or crashes over something
that is missing, `Missing`), and `CrashInv` says of a crash what explains it. Where a running
validator finds memory without a tag, `apply_metadata` has been through the whole map
(`ValidatorInv`), so that no word of the cell had an entry with metadata (`BareMemory`);
a run without metadata would have ended the start.

What the prover can do with recursion. The theorems of the library for recursive
functions and for induction take operators, which no installed prover
instantiates. Induction over numbers is still available as the least
counterexample: a set of naturals that is not empty has a least element
(`WFMin` of `WellFoundedInduction`, lemma `LeastNatural`). So a concrete recursive
function such as `AddAll` is shown to satisfy its equation (`AddAllRuns`), and facts
about it are proved range by range. Folds whose step is an operator stay out of
reach, which is why `AddAll` and `XorAll` are recursive functions.

Only model-checked:

* `Terminates` of the hash loops: liveness;
* `FoldsParity`: that folding chunk by chunk gives, in each bit of the hash, the parity
  of the bits that go there relates `BitXor` to the single bits of its arguments
  (`Bitwise` may not be used with the prover, and assuming those laws would be
  assuming most of the claim);
* `LoadsWhatWasWritten` and `FirmwareReadsBack`: that reading inverts writing is an
  induction over the bytes in which sums of symbolic powers of 128 meet division and
  remainder, nonlinear arithmetic that the provers do not do. Their ends are proved: what is written are
  bytes (`TaggingTypeOK`), and what is read is applied as it was read (`TaggingTaggedWhole`);
* the violation runs, which show that something is reachable.

## 5. Not modelled

Rule caches are modelled as `commit` and `validate` use them. In the code at
hand no configuration enables one: `config_rule_cache` compares a string it never
fills (`name_lower`) and so rejects every name.

Left out, with the reason:

* libelf and the YAML library: an image or a policy is the structure they yield,
  and that a file cannot be read is an outcome;
* argument parsing, printing, logging and the text of the listing, of which only
  the tags shown are modelled;
* code no build or caller reaches: `perm4.c` (commented out of `compute_hash.cc`),
  hash functions 0 to 3 and precomputed hash positions, `metadata_register_map.h`,
  `csr_list.h`, `csr_host_name_map`, symbol lookup by address, `get_tags` and
  `get_ranges` of the range map;
* the policy itself, which is generated outside the repository.

What is left of the proofs is the list at the end of section 4.
