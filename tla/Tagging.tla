------------------------------- MODULE Tagging -------------------------------
(***************************************************************************)
(* The tagging tool and the host that starts the validator on its output,  *)
(* side by side.  They share the tag file only.  The host moves while the  *)
(* tool is at the tag file or has ended; its steps commute with every      *)
(* other stage of the tool.  The host is for the plain file.               *)
(***************************************************************************)
EXTENDS GenTagInfo, QemuInterface

CONSTANT WordAddrs      \* the words the properties look at

ASSUME WordAssumption == WordAddrs \subseteq Address /\ \A a \in WordAddrs : a \in Nat /\ a % stride = 0

all == <<vars, host>>

AtTagFile == stage \in Ended \cup {"write", "writing"}

TaggingInit == Init /\ HostInit

Tool == ToolNext /\ UNCHANGED host
Host == /\ AtTagFile /\ ~input.firmware
        /\ HostNext
        /\ UNCHANGED <<input, stage, range_map, md_memory_map, elf_policy, embedded, listing,
                       added, source, runs>>

TaggingNext == Tool \/ Host
TaggingSpec == TaggingInit /\ [][TaggingNext]_all

-----------------------------------------------------------------------------
(* What every region that has a word has for it, and the tags of these *)
EntriesAt(mrs, a) ==
  {mrs[i].mem[Index(mrs[i], a)] :
     i \in {j \in DOMAIN mrs : contains(mrs[j], a) /\ Index(mrs[j], a) <= Len(mrs[j].mem)}}
Held(mrs, a) == UNION {TagsOf(e) : e \in EntriesAt(mrs, a)}

(* Ranges that start at words.  A region whose start is moved by bytes      *)
(* shifts its entries.                                                      *)
Aligned == \A i \in DOMAIN added : added[i].start % 4 = 0

(* A range shorter than a word makes a region without entries whose end    *)
(* stays 0.  At 4 the word at 0 is adjacent to it, and is not contained in  *)
(* it when it has been added.                                               *)
WellPlaced == Aligned /\ \A i \in DOMAIN added : ~(added[i].start = 4 /\ added[i].end \in 5 .. 7)

(* What a tagger may ask for: addresses, and numbers of tags *)
Ids == {md \in SUBSET Nat : IsFiniteSet(md)}
TagRange == [start : 0 .. AddrSpace - 1, end : Nat, md : Ids]
RangesTyped == StageRanges \in Seq(TagRange)

(* The file is written and the host has not begun. *)
Written == source # <<>> /\ tag_file # <<>> /\ config = {} /\ ~started /\ reply = "none" /\ ~DOA

TypeOK ==
  /\ input \in Inputs /\ runs \in 1 .. MaxRuns
  /\ stage \in Ended \cup {"start", "rwx", "llvm", "soc", "tag_array", "apply", "opcodes", "entities",
                           "embed", "annotate", "write", "writing"}
  /\ RangesTyped
  /\ \A i \in DOMAIN md_memory_map : \A k \in DOMAIN md_memory_map[i].mem :
       TagsOf(md_memory_map[i].mem[k]) \subseteq Nat
  /\ tag_file = <<>> \/ \A i \in DOMAIN tag_file[1] : tag_file[1][i] \in 0 .. 255
  /\ DOA \in BOOLEAN /\ started \in BOOLEAN /\ evaluated \in BOOLEAN
  /\ reply \in {"none", "allowed", "denied", "crash"}

(* Whatever regions the ranges were merged into, a word has the tags of    *)
(* exactly the ranges that cover it: add_range neither loses nor spreads a  *)
(* tag when it extends a region at either end.                              *)
MapHoldsAdded ==
  WellPlaced => \A a \in WordAddrs :
    Held(md_memory_map, a) =
      UNION {added[i].md : i \in {j \in DOMAIN added : added[j].start <= a /\ a + 4 <= added[j].end}}

Disjoint(mrs) == \A i, j \in DOMAIN mrs : i < j => mrs[i].end <= mrs[j].start

(* The listing of the finished tag file shows at every instruction what the *)
(* validator started on that file decides it with: the lookup of            *)
(* annotate_asm in the map, and the way of the map through the runs, the    *)
(* file, load_metadata and apply_metadata, come to the same tags.  Where    *)
(* regions overlap the lookup ends at the first, and the listing shows a    *)
(* part of them; not even that where one starts at 0 (OverlapsKept).        *)
ListingRuns ==
  /\ reply = "allowed" /\ Aligned
  /\ source # <<>> /\ tag_file = <<save_metadata(source[1], 8 * word_bytes(image))>>
  /\ rv_validator[1].map = load_metadata(tag_file, 32).map
  =>
    \A a \in {w \in DOMAIN listing \cap WordAddrs : InProvider(w) /\ get_provider(w).heterogeneous} :
      \E runs_with \in {TagsOf(rv_validator[1].tags[InsnCell(a)])} :
        /\ (\A i \in DOMAIN source[1] : source[1][i].start # 0) => TagsOf(listing[a]) \subseteq runs_with
        /\ Disjoint(source[1]) => TagsOf(listing[a]) = runs_with

(* A tag file that was cut anywhere loads, if it loads at all, no tag that *)
(* the tool did not put on that word.  Unless regions overlap it loads     *)
(* nothing that crashes who iterates over it, and every byte counts:       *)
(* saving what was loaded gives the file again.  The file the tool         *)
(* finished always loads, safely and with all tags.  load_metadata and     *)
(* dump_tags agree on which file is whole.                                 *)
LoadsWhatWasWritten ==
  Written /\ ~input.firmware /\ Aligned =>
    \E load \in {load_metadata(tag_file, 32)} :
      /\ load.loaded = dump_tags(tag_file)
      /\ load.loaded => \A a \in WordAddrs : Held(load.map, a) \subseteq Held(source[1], a)
      /\ load.loaded /\ Disjoint(source[1]) =>
           ~RunsFault(load.map) /\ save_metadata(load.map, load.xlen) = tag_file[1]
      /\ tag_file[1] = save_metadata(source[1], 8 * word_bytes(image)) =>
           /\ load.loaded /\ ~RunsFault(load.map)
           /\ \A a \in WordAddrs : Held(load.map, a) = Held(source[1], a)

(* Where two CSRs of the policy share a slot only one of them is read back *)
CsrsDistinct(csrs) == \A p, q \in DOMAIN csrs \ {Csr("Default")} :
                        csr_name_map[Last(p)] = csr_name_map[Last(q)] => p = q

(* The firmware file is read back by position: only the whole file is      *)
(* accepted, and then the reader has the headers, the metadata and the     *)
(* index of every range, register and CSR that the writer meant.           *)
FirmwareReadsBack ==
  Written /\ input.firmware =>
    \E out \in {Output}, load \in {load_firmware_tag_file(tag_file[1])} :
      /\ load.ok <=> out.outcome = "ok" /\ tag_file[1] = out.bytes
      /\ load.ok =>
           \E x \in {Indexes(source[1], policy)}, h \in {Headers(image, policy, input.soc)} :
             /\ load.code = h.code /\ load.data = h.data
             /\ load.metadata = x.metadata
             /\ \A i \in DOMAIN load.memory :
                  x.memory[Range_t(load.memory[i][1], load.memory[i][2])] = load.memory[i][3]
             /\ Len(load.memory) = Cardinality(DOMAIN x.memory)
             /\ \A p \in DOMAIN x.registers \ {Reg("Default"), Reg("Env")} :
                  load.registers[Last(p)] = x.registers[p]
             /\ load.register_default = x.registers[Reg("Default")]
             /\ load.env_default = x.registers[Reg("Env")]
             /\ CsrsDistinct(x.csrs) => \A p \in DOMAIN x.csrs \ {Csr("Default")} :
                  load.csrs[csr_of_slot[csr_name_map[Last(p)]]] = x.csrs[p]

(* The ranges of the header cover the addresses of the data sections and   *)
(* SOC elements and no others, however they touch, nest or overlap.        *)
HeaderCovers ==
  stage = "writing" /\ input.firmware =>
    \E h \in {Headers(image, policy, input.soc)} :
      \E given \in {get_soc_ranges(input.soc, policy) \o SectionRanges(image, FALSE)} :
        \A a \in WordAddrs :
          (\E i \in DOMAIN h.data : h.data[i][1] <= a /\ a <= h.data[i][2])
            <=> (\E i \in DOMAIN given : given[i].start <= a /\ a <= given[i].end)

(* While there is a tag file of the tool, <bin>-<policy> carries the tags   *)
(* of the same map, however often the tool was run and whatever failed: the *)
(* tag file goes before the copy is touched.                                *)
CopyCarriesTags ==
  source # <<>> => ".initial_tag_map" \in elf_policy /\ embedded = source

(* Regions of whole words: a region whose start was moved by bytes ends    *)
(* before or after its last entry                                          *)
AlignedMap(mrs) ==
  \A i \in DOMAIN mrs : /\ mrs[i].start % 4 = 0
                        /\ mrs[i].mem # <<>> => mrs[i].end = mrs[i].start + 4 * Len(mrs[i].mem)

(* Whenever the validator allows an instruction, every word has what the   *)
(* loaded file gives it (where regions overlap, what one of them does),    *)
(* and nothing if the file gives it nothing or no file was loaded: a       *)
(* failure half way through apply_metadata allows nothing.                 *)
TaggedWhole ==
  reply = "allowed" /\ AlignedMap(rv_validator[1].map) =>
    \A a \in {w \in WordAddrs : InProvider(w) /\ get_provider(w).heterogeneous} :
      \E given \in {EntriesAt(rv_validator[1].map, a)} :
        rv_validator[1].tags[InsnCell(a)] \in (IF given = {} THEN {null} ELSE given \ {null})

(* What a call crashes the process over.  A call before e_v_set_callbacks,  *)
(* or after it failed and said so by DOA, meets no validator.  Starting it  *)
(* on a file with a run without metadata crashes at once (cut between the   *)
(* runs of overlapping regions: LoadsWhatWasWritten).  A validator that     *)
(* runs and is not DOA is killed by a load, a store or e_v_mem_tag only     *)
(* where the loaded file gives the memory no tag: that apply_metadata went  *)
(* half way is not found out that way.  The rest is registers the policy    *)
(* has no tag for and the log of an evaluation that was not made.           *)
CrashOnlyUntagged ==
  reply = "crash" =>
    /\ rv_validator = <<>> => (started => DOA)
    /\ rv_validator # <<>> /\ untagged = <<>> => RunsFault(rv_validator[1].map)
    /\ rv_validator # <<>> /\ untagged # <<>> /\ untagged[1] = "mem" =>
         (~DOA /\ AlignedMap(rv_validator[1].map) =>
            \A a \in {w \in WordAddrs : InsnCell(w) # NoCell /\ InsnCell(w) = DataCell(untagged[2])} :
              EntriesAt(rv_validator[1].map, a) = {})
    /\ untagged # <<>> /\ untagged[1] # "mem" =>
         untagged[1] \in {"pc", "csr", "reg"} \ StartTags \/ (untagged[1] = "ops" /\ ~evaluated)

(* "The same range can be specified more than once if you wish to apply     *)
(* multiple tags to it.  Ranges may overlap partially as well.": the tags   *)
(* of every range that covers a word are on the word when the program runs  *)
(* under the file the tool finished.                                        *)
OverlapsKept ==
  /\ reply = "allowed" /\ Aligned
  /\ source # <<>> /\ tag_file = <<save_metadata(source[1], 8 * word_bytes(image))>>
  /\ rv_validator[1].map = load_metadata(tag_file, 32).map
  =>
    \A i \in DOMAIN added : \A a \in {w \in WordAddrs : added[i].start <= w /\ w + 4 <= added[i].end} :
      added[i].md \subseteq TagsOf(rv_validator[1].tags[InsnCell(a)])

=============================================================================
