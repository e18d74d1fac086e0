------------------------- MODULE MetadataMemoryMap -------------------------
(***************************************************************************)
(* metadata_memory_map_t: the tags of the words of memory, as a vector of  *)
(* regions.  A region holds one entry per word from its start on: a set of *)
(* tags, or nothing where the code keeps a null pointer.                   *)
(***************************************************************************)
EXTENDS Addresses, FiniteSetsExt, SequencesExt, TLC

stride == 4            \* sizeof(uint32_t)

null == <<>>
entry(md) == <<md>>
nulls(n) == [i \in 1 .. n |-> null]
TagsOf(e) == IF e = null THEN {} ELSE e[1]

empty_region == [start |-> 0, end |-> 0, mem |-> <<>>]
contains(r, addr) == r.start <= addr /\ addr < r.end

(* range.start - stride is unsigned: a region that starts at 0 is adjacent *)
(* to nothing                                                              *)
adjacent(r, addr) == addr >= uint64(r.start - stride) /\ addr < r.end + stride

(* A range that starts before the region moves its start and no entry. *)
RegionAdd_no_insert(r, start, end, md) ==
  LET base == IF r.start = r.end \/ start < r.start THEN start ELSE r.start
      s == (start - base) \div stride
      e == (end - base) \div stride
      grown == e > Len(r.mem)
      mem == IF grown THEN r.mem \o nulls(e - Len(r.mem)) ELSE r.mem
  IN  [start |-> base,
       end |-> IF grown THEN base + e * stride ELSE r.end,
       mem |-> [i \in DOMAIN mem |->
                  IF i \in s + 1 .. e THEN entry(md \cup TagsOf(mem[i])) ELSE mem[i]]]

(* mem_region_t::add_range.  The start moves by bytes, the entries by whole *)
(* words; the end moves only when the entries grow.                         *)
RegionAdd(r, start, end, md) ==
  LET fresh == r.start = r.end
      front == IF ~fresh /\ start < r.start THEN nulls((r.start - start) \div stride) ELSE <<>>
      base  == IF fresh \/ start < r.start THEN start ELSE r.start
      old   == front \o r.mem
      s == (start - base) \div stride
      e == (end - base) \div stride
      grown == e > Len(old)
      mem   == IF grown THEN old \o nulls(e - Len(old)) ELSE old
  IN  [start |-> base,
       end |-> IF grown THEN base + e * stride ELSE r.end,
       mem |-> [i \in DOMAIN mem |->
                  IF i \in s + 1 .. e THEN entry(md \cup TagsOf(mem[i])) ELSE mem[i]]]

(* metadata_memory_map_t::add_range: into the first region that the range  *)
(* touches, or else into a region of its own                               *)
add_range(mrs, start, end, md) ==
  LET near  == {i \in DOMAIN mrs : adjacent(mrs[i], start) \/ adjacent(mrs[i], end)}
      after == {i \in DOMAIN mrs : end < mrs[i].start}
  IN  CASE start >= end -> mrs
        [] start < end /\ near # {} ->
             [mrs EXCEPT ![Min(near)] = RegionAdd(@, start, end, md)]
        [] OTHER ->
             InsertAt(mrs, Min(after \cup {Len(mrs) + 1}), RegionAdd(empty_region, start, end, md))

(* The region get_metadata looks into, the first that contains the address *)
RegionOf(mrs, addr) ==
  LET r == {i \in DOMAIN mrs : contains(mrs[i], addr)}
  IN  IF r = {} THEN empty_region ELSE mrs[Min(r)]

Index(r, addr) == (addr - r.start) \div stride + 1

(* mem.at throws where the end of the region is past its entries *)
LookupThrows(mrs, addr) ==
  LET r == RegionOf(mrs, addr) IN r # empty_region /\ Index(r, addr) > Len(r.mem)

(* The entry after the one of the address *)
get_metadata_next(mrs, addr) ==
  LET r == RegionOf(mrs, addr)
  IN  IF r = empty_region THEN null ELSE r.mem[Min({Index(r, addr) + 1, Len(r.mem)})]

get_metadata(mrs, addr) ==
  LET r == RegionOf(mrs, addr) IN IF r = empty_region THEN null ELSE r.mem[Index(r, addr)]

-----------------------------------------------------------------------------
(* What the iterator yields: the runs of equal entries of each region, null *)
(* entries too.  The last run ends where the region does.                   *)
RunStarts(mem) == {i \in DOMAIN mem : i = 1 \/ mem[i] # mem[i - 1]}
RunEnd(mem, i) == Min({j \in RunStarts(mem) : j > i} \cup {Len(mem) + 1})

RunFrom(r, i) ==
  LET addr(k) == r.start + (k - 1) * stride
      next == RunEnd(r.mem, i)
  IN  [start |-> addr(i), end |-> IF next > Len(r.mem) THEN r.end ELSE addr(next), md |-> r.mem[i]]

RegionRuns(r) == FlattenSeq([i \in DOMAIN r.mem |-> Where(i \in RunStarts(r.mem), RunFrom(r, i))])
Runs(mrs) == FlattenSeq([i \in DOMAIN mrs |-> RegionRuns(mrs[i])])

(* The iterator steps into the next region and dereferences its first entry, *)
(* which a region without entries does not have.                             *)
IterationFaults(mrs) == \E i \in DOMAIN mrs : i > 1 /\ mrs[i].mem = <<>>

(* Every user of the iterator dereferences the metadata of a run *)
RunsFault(mrs) == IterationFaults(mrs) \/ \E i \in DOMAIN Runs(mrs) : Runs(mrs)[i].md = null

=============================================================================
