------------------------------ MODULE RangeMap ------------------------------
(***************************************************************************)
(* range_map_t: the ranges the policy requires tags for, in the order they *)
(* were found, each with the names of its tags.  A dotted name is the      *)
(* sequence of its parts.                                                  *)
(***************************************************************************)
EXTENDS ElfImage

RWX_X == <<"elf", "Section", "SHF_EXECINSTR">>
RWX_R == <<"elf", "Section", "SHF_ALLOC">>
RWX_W == <<"elf", "Section", "SHF_WRITE">>

TaggedRange(start, end, tags) == [start |-> start, end |-> end, tags |-> tags]

RangeMapContains(range_map, start, end) ==
  \E i \in DOMAIN range_map : start >= range_map[i].start /\ end <= range_map[i].end

(* Tags of a range that is there already go to its entry. *)
RangeMapAdd(range_map, start, end, tags) ==
  LET same == {i \in DOMAIN range_map : range_map[i].start = start /\ range_map[i].end = end}
  IN  IF same = {} THEN Append(range_map, TaggedRange(start, end, tags))
      ELSE [range_map EXCEPT ![Min(same)].tags = @ \o tags]

AddTagged(range_map, tagged) ==
  LET after[n \in 0 .. Len(tagged)] ==
        IF n = 0 THEN range_map
        ELSE RangeMapAdd(after[n - 1], tagged[n].start, tagged[n].end, tagged[n].tags)
  IN  after[Len(tagged)]

(* The names for a section; a section that can be executed or written is   *)
(* not looked at further                                                   *)
RwxTags(flags) == CASE "EXECINSTR" \in flags -> <<RWX_R, RWX_X>>
                    [] "EXECINSTR" \notin flags /\ "WRITE" \in flags -> <<RWX_W>>
                    [] flags \cap {"EXECINSTR", "WRITE", "ALLOC"} = {"ALLOC"} -> <<RWX_R>>
                    [] OTHER -> <<>>

add_rwx_ranges(range_map, image) ==
  LET range(s) == Where(RwxTags(s.flags) # <<>>, TaggedRange(s.address, end_address(s), RwxTags(s.flags)))
  IN  AddTagged(range_map, FlattenSeq([i \in DOMAIN image.sections |-> range(image.sections[i])]))

(* "SOC CFG file specifies ranges inclusively, but they should be exclusive" *)
SocRange(elem) == [start |-> elem.start, end |-> uint64(elem.end + 1)]

(* names: the names in the order of the policy, required: those under      *)
(* Require.SOC; an element the SOC does not have is skipped                *)
add_soc_ranges(range_map, soc, names, required) ==
  LET of(name) == {i \in DOMAIN soc : soc[i].name = name}
      last(name) == SocRange(soc[Max(of(name))])
      range(name) == Where(name \in required /\ of(name) # {},
                           TaggedRange(last(name).start, last(name).end, <<name>>))
  IN  AddTagged(range_map, FlattenSeq([i \in DOMAIN names |-> range(names[i])]))

=============================================================================
