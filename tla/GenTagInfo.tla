----------------------------- MODULE GenTagInfo -----------------------------
(***************************************************************************)
(* gen_tag_info: main() with its stages as actions, from the ELF file and  *)
(* the policy to the tag file, and the ELF copy <bin>-<policy> that        *)
(* objcopy makes on the way.  Programs it starts may fail, its output may  *)
(* not open or be cut short, and it may be run again.                      *)
(***************************************************************************)
EXTENDS TagFile

CONSTANTS Inputs,     \* [image, policy, soc, entities, firmware, taginfo]: what it may be called with;
                      \* firmware: with a SOC file, taginfo: the tag file has a name with .taginfo
          ObjdumpTexts, \* what objdump may print, as bytes
          IntMax,     \* the largest int, 2^31 - 1
          MaxRuns     \* how often it is run

Sequence(s) == s \in Seq({s[i] : i \in DOMAIN s})

(* What the libraries hand over: a section, a symbol and a SOC element lie *)
(* at uint64_t addresses, a byte and an id is not negative, and ids are    *)
(* small enough for add_tag_array to compute with them as int.             *)
ASSUME InputsAssumption ==
  /\ Sequence(NameOrder) /\ MaxRuns \in Nat \ {0} /\ ObjdumpTexts \subseteq Seq(0 .. 255)
  /\ \A c \in Inputs :
       /\ Sequence(c.image.sections) /\ Sequence(c.image.symbols) /\ Sequence(c.policy.metas)
       /\ Sequence(c.soc) /\ Sequence(c.entities) /\ \A f \in DOMAIN c.entities : Sequence(c.entities[f])
       /\ \A i \in DOMAIN c.image.sections :
            /\ c.image.sections[i].address \in 0 .. AddrSpace - 1 /\ c.image.sections[i].size \in Nat
            /\ \A k \in DOMAIN c.image.sections[i].data : c.image.sections[i].data[k] \in Nat
       /\ \A i \in DOMAIN c.image.symbols :
            c.image.symbols[i].value \in 0 .. AddrSpace - 1 /\ c.image.symbols[i].size \in Nat
       /\ \A i \in DOMAIN c.policy.metas :
            c.policy.metas[i].id \in Nat /\ 8 * (c.policy.metas[i].id + 2) <= IntMax
       /\ \A i \in DOMAIN c.soc :
            /\ c.soc[i].start \in 0 .. AddrSpace - 1 /\ c.soc[i].end \in 0 .. AddrSpace - 1
            /\ "tag_granularity" \in DOMAIN c.soc[i] => c.soc[i].tag_granularity \in Nat

VARIABLES input,          \* what this run is called with
          stage,          \* the next stage, or how the run ended
          range_map, md_memory_map,
          elf_policy,     \* names of the sections of <bin>-<policy>, {} when there is no such file
          embedded,       \* history: the map whose tags that file has, <<>> or <<map>>
          listing,        \* the annotated listing of this run: the tags shown at an address
          added,          \* history: the ranges that were to be tagged so far
          source,         \* history: the map the tag file was written from
          runs

vars == <<input, stage, range_map, md_memory_map, elf_policy, embedded, listing, added, source, runs,
          tag_file>>

Ended == {"done", "exit", "throws", "crash", "endless"}

image == input.image
policy == input.policy
HasRequire(node) == \E path \in DOMAIN policy.require : IsPrefix(node, path)
SectionNames == {image.sections[i].name : i \in DOMAIN image.sections}
ExecSections == FlattenSeq([i \in DOMAIN image.sections |->
                  Where("EXECINSTR" \in image.sections[i].flags, image.sections[i])])

Init == /\ input \in Inputs
        /\ stage = "start" /\ runs = 1
        /\ range_map = <<>> /\ md_memory_map = <<>>
        /\ elf_policy = {} /\ embedded = <<>> /\ tag_file = <<>>
        /\ listing = <<>> /\ added = <<>> /\ source = <<>>

(* An old tag file is left where it is, to be written over. *)
Start_keeps_tag_file ==
  /\ stage = "start"
  /\ range_map' = <<>> /\ md_memory_map' = <<>> /\ added' = <<>> /\ listing' = <<>>
  /\ stage' \in {IF HasRequire(<<>>) THEN "rwx" ELSE "apply", "throws"}
  /\ UNCHANGED <<input, tag_file, source, elf_policy, embedded, runs>>

(* main up to the taggers: the old tag file goes first, and if it cannot be *)
(* removed nothing else happens.  A policy file that cannot be read throws. *)
Start ==
  /\ stage = "start"
  /\ \/ /\ tag_file # <<>> /\ stage' = "throws"
        /\ UNCHANGED <<tag_file, range_map, md_memory_map, added, listing, source>>
     \/ /\ tag_file' = <<>>
        /\ range_map' = <<>> /\ md_memory_map' = <<>> /\ added' = <<>> /\ listing' = <<>> /\ source' = <<>>
        /\ stage' \in {IF HasRequire(<<>>) THEN "rwx" ELSE "apply", "throws"}
  /\ UNCHANGED <<input, elf_policy, embedded, runs>>

Ranges(next, more) ==
  /\ stage' = next
  /\ range_map' = more
  /\ UNCHANGED <<input, md_memory_map, elf_policy, embedded, listing, added, source, runs, tag_file>>

AddRwxRanges ==
  /\ stage = "rwx"
  /\ IF image = no_image THEN Ranges("throws", range_map)
     ELSE Ranges("llvm", IF HasRequire(<<"elf">>) THEN add_rwx_ranges(range_map, image) ELSE range_map)

GeneratePolicyRanges ==
  /\ stage = "llvm"
  /\ IF ~HasRequire(<<"llvm">>) THEN Ranges("soc", range_map)
     ELSE \E g \in {generate_policy_ranges(image, DOMAIN policy.require)} :
            IF g.throws THEN Ranges("throws", range_map)
            ELSE Ranges("soc", AddTagged(range_map, g.ranges))

AddSocRanges ==
  /\ stage = "soc"
  /\ Ranges("tag_array",
       IF HasRequire(<<"SOC">>) /\ input.firmware
       THEN add_soc_ranges(range_map, input.soc, NameOrder,
                           {p \in DOMAIN policy.require : Head(p) = "SOC"})
       ELSE range_map)

(* The words of .tag_array after the first, one for each tag *)
TagArrayRanges(start) ==
  LET w == word_bytes(image)
  IN  [i \in DOMAIN policy.metas |->
         TaggedRange(uint64(start + policy.metas[i].id * w + w),
                     uint64(start + policy.metas[i].id * w + 2 * w), <<policy.metas[i].name>>)]

(* A section objcopy has to add gets the address 0. *)
TagArrayAddress(copy) ==
  IF ".tag_array" \in copy \cap SectionNames
  THEN (CHOOSE s \in {image.sections[i] : i \in DOMAIN image.sections} : s.name = ".tag_array").address
  ELSE 0

(* objcopy makes <bin>-<policy> anew from the ELF file; when it fails it may *)
(* remove the old one.                                                      *)
Objcopy(works, sections, from) ==
  \/ works /\ elf_policy' = sections /\ embedded' = from
  \/ ~works /\ UNCHANGED <<elf_policy, embedded>>
  \/ ~works /\ elf_policy' = {} /\ embedded' = <<>>

(* add_tag_array: objcopy copies the ELF file with a .tag_array, and the   *)
(* address is read from the copy.  That objcopy fails is not noticed; an   *)
(* address that is no int throws.                                          *)
AddTagArray(copied) ==
  /\ stage = "tag_array"
  /\ Objcopy(copied, SectionNames \cup {".tag_array"}, <<>>)
  /\ \E start_addr \in {TagArrayAddress(elf_policy')} :
       /\ stage' = IF start_addr > IntMax THEN "throws" ELSE "apply"
       /\ range_map' = IF start_addr \in 1 .. IntMax THEN AddTagged(range_map, TagArrayRanges(start_addr))
                       ELSE range_map
  /\ UNCHANGED <<input, md_memory_map, listing, added, source, runs, tag_file>>

Tagged(next, adds) ==
  /\ stage' = next
  /\ md_memory_map' = AddAll(md_memory_map, adds)
  /\ added' = added \o adds
  /\ UNCHANGED <<input, range_map, elf_policy, embedded, listing, source, runs, tag_file>>

(* The factory is made, then the ranges are applied. *)
ApplyFails == FactoryThrows(policy) \/ ApplyThrows(policy, range_map) \/ image = no_image
OpcodeRanges == FlattenSeq([i \in DOMAIN ExecSections |->
                  tag_opcodes(policy, ExecSections[i], 8 * word_bytes(image))])

(* The ranges the stage is to add to the map *)
StageRanges == CASE stage = "apply" /\ ~ApplyFails -> apply_tags(policy, range_map)
                 [] stage = "opcodes" -> OpcodeRanges
                 [] stage = "entities" -> tag_entities(policy, image, input.entities)
                 [] OTHER -> <<>>

ApplyTags == stage = "apply" /\ Tagged(IF ApplyFails THEN "throws" ELSE "opcodes", StageRanges)
TagOpcodes == stage = "opcodes" /\ Tagged("entities", StageRanges)
TagEntities == stage = "entities" /\ Tagged("embed", StageRanges)

(* objcopy starts from the ELF file, without what add_tag_array put into    *)
(* the copy.  Whether .initial_tag_map is added or updated is decided by    *)
(* the old copy: what the ELF file does not have cannot be updated.         *)
EmbedTags(copies) ==
  /\ stage = "embed"
  /\ IF RunsFault(md_memory_map) THEN stage' = "crash" /\ UNCHANGED <<elf_policy, embedded>>
     ELSE \E update \in {".initial_tag_map" \in elf_policy} :
            \E works \in {copies /\ update = (".initial_tag_map" \in SectionNames)} :
              /\ stage' = IF works THEN "annotate" ELSE "throws"
              /\ Objcopy(works, SectionNames \cup {".initial_tag_map"}, <<md_memory_map>>)
  /\ UNCHANGED <<input, range_map, md_memory_map, listing, added, source, runs, tag_file>>

(* Addresses objdump lists: those of the instructions *)
Listed(section) ==
  LET n == section.size \div 2
      from[i \in 1 .. n + 2] ==
        IF i > n THEN {}
        ELSE {section.address + 2 * (i - 1)} \cup from[i + (IF section.data[i] % 4 = 3 THEN 2 ELSE 1)]
  IN  from[1]

(* What objdump prints goes into a file next to the tag file, or into the   *)
(* tag file itself where its name has no .taginfo to replace; the           *)
(* annotated listing goes into a third file.  A file that does not open and *)
(* a lookup behind the entries of a region throw.                           *)
Annotate(disassembled) ==
  LET shown == UNION {Listed(ExecSections[i]) : i \in DOMAIN ExecSections}
  IN  /\ stage = "annotate"
      /\ IF input.taginfo THEN UNCHANGED tag_file ELSE \E t \in ObjdumpTexts : tag_file' = <<t>>
      /\ \/ /\ ~disassembled /\ stage' = "exit" /\ UNCHANGED listing
         \/ disassembled /\ stage' = "throws" /\ UNCHANGED listing
         \/ /\ disassembled /\ \A a \in shown : ~LookupThrows(md_memory_map, a)
            /\ stage' = "write"
            /\ listing' = [a \in shown |-> get_metadata(md_memory_map, a)]
      /\ UNCHANGED <<input, range_map, md_memory_map, elf_policy, embedded, added, source, runs>>

(* What the writers put into the file, and how they end *)
Output == IF input.firmware THEN write_tag_file(md_memory_map, image, policy, input.soc)
          ELSE [bytes |-> save_metadata(md_memory_map, 8 * word_bytes(image)), outcome |-> "ok"]

(* The file is opened; the bytes reach it bit by bit.  save_metadata says  *)
(* nothing of a file it cannot open.                                       *)
OpenTagFile(opened) ==
  /\ stage = "write"
  /\ stage' = CASE opened -> "writing" [] ~opened /\ input.firmware -> "throws" [] OTHER -> "done"
  /\ tag_file' = IF opened THEN <<(<<>>)>> ELSE tag_file
  /\ source' = IF opened THEN <<md_memory_map>> ELSE <<>>
  /\ UNCHANGED <<input, range_map, md_memory_map, elf_policy, embedded, listing, added, runs>>

(* The stream's buffer is written out; all of it when it is closed.  A     *)
(* write that fails makes write_tag_file throw, unless it is the one at    *)
(* the end; save_metadata returns false, which nobody looks at.            *)
WriteBytes ==
  /\ stage = "writing"
  /\ \E out \in {Output} :
       \/ \E n \in Len(tag_file[1]) + 1 .. Len(out.bytes) :
            tag_file' = <<SubSeq(out.bytes, 1, n)>> /\ stage' = "writing"
       \/ /\ out.outcome = "ok" /\ stage' = "done"
          /\ tag_file' = <<out.bytes>>
       \/ /\ tag_file[1] # out.bytes /\ UNCHANGED tag_file
          /\ \/ out.outcome = "ok" /\ stage' = "done"
             \/ input.firmware /\ stage' = "throws"
       \/ /\ out.outcome = "throws" /\ stage' = "throws" /\ UNCHANGED tag_file
       \/ /\ out.outcome = "endless" /\ stage' = "endless"
          /\ tag_file' = <<out.bytes \o <<255, 255>>>>
  /\ UNCHANGED <<input, range_map, md_memory_map, elf_policy, embedded, listing, added, source, runs>>

RunAgain ==
  /\ stage \in Ended \ {"endless"} /\ runs < MaxRuns
  /\ stage' = "start" /\ runs' = runs + 1
  /\ UNCHANGED <<input, range_map, md_memory_map, elf_policy, embedded, listing, added, source, tag_file>>

ToolNext ==
  \/ Start \/ AddRwxRanges \/ GeneratePolicyRanges \/ AddSocRanges
  \/ \E works \in BOOLEAN : \/ AddTagArray(works) \/ EmbedTags(works)
                            \/ Annotate(works) \/ OpenTagFile(works)
  \/ ApplyTags \/ TagOpcodes \/ TagEntities \/ WriteBytes \/ RunAgain

=============================================================================
