------------------------------- MODULE TagFile -------------------------------
(***************************************************************************)
(* The tag file: what gen_tag_info writes (the plain file for the          *)
(* simulator, or the file with headers for the PEX firmware) and what the  *)
(* validator and dump_tags read back.  A file is a sequence of bytes.      *)
(***************************************************************************)
EXTENDS MetadataFactory, RegisterNames

VARIABLE tag_file      \* <<bytes>>, or <<>> when there is no file

(* Numbers are written seven bits at a time, the low ones first; ten times *)
(* seven bits hold a uint64_t.                                             *)
MaxBytes == 10
write_uleb(n) ==
  LET value[k \in 0 .. MaxBytes] == IF k = 0 THEN n ELSE value[k - 1] \div 128
      last == Min({k \in 1 .. MaxBytes : value[k] = 0} \cup {MaxBytes})
  IN  [k \in 1 .. last |-> (value[k - 1] % 128) + (IF k < last THEN 128 ELSE 0)]

Bytes(values) == FlattenSeq([i \in DOMAIN values |-> write_uleb(values[i])])

(* What read_uleb returns when it is called until the file ends: the       *)
(* numbers, and whether bytes of an unfinished number are left             *)
read_ulebs(bytes) ==
  LET first(i) == i = 1 \/ bytes[i - 1] < 128
      scale[i \in DOMAIN bytes] == IF first(i) THEN 1 ELSE 128 * scale[i - 1]
      number[i \in DOMAIN bytes] ==
        uint64((IF first(i) THEN 0 ELSE number[i - 1]) + (bytes[i] % 128) * scale[i])
  IN  [values |-> FlattenSeq([i \in DOMAIN bytes |-> Where(bytes[i] < 128, number[i])]),
       rest |-> bytes # <<>> /\ Last(bytes) >= 128]

(* The ids of a metadata set, the least first *)
SortedIds(md) ==
  LET left[k \in 0 .. Cardinality(md)] == IF k = 0 THEN md ELSE left[k - 1] \ {Min(left[k - 1])}
  IN  [k \in 1 .. Cardinality(md) |-> Min(left[k - 1])]

-----------------------------------------------------------------------------
RunValues(run) ==
  <<run.start, run.end, Cardinality(run.md[1])>> \o SortedIds(run.md[1])

save_metadata(mrs, xlen) ==
  LET runs == Runs(mrs)
  IN  Bytes(<<xlen>> \o FlattenSeq([i \in DOMAIN runs |-> RunValues(runs[i])]))

(* The end of the file is taken to be a good place for any range to end. *)
RangesFrom_lenient(values, rest) ==
  LET n == Len(values)
      from[p \in 2 .. n + 1] ==
        IF p > n \/ p + 2 > n \/ p + 2 + values[p + 2] > n THEN [ok |-> TRUE, adds |-> <<>>]
        ELSE LET count == values[p + 2]
                 md == {values[i] : i \in p + 3 .. p + 2 + count}
                 tail == from[p + 3 + count]
             IN  [tail EXCEPT !.adds = <<Add(values[p], values[p + 1], md)>> \o @]
  IN  from[2]

(* The ranges of a plain file from its second number on; they may end only *)
(* where the file does                                                     *)
RangesFrom(values, rest) ==
  LET n == Len(values)
      from[p \in 2 .. n + 1] ==
        IF p > n THEN [ok |-> ~rest, adds |-> <<>>]
        ELSE IF p + 2 > n \/ p + 2 + values[p + 2] > n THEN [ok |-> FALSE, adds |-> <<>>]
        ELSE LET count == values[p + 2]
                 md == {values[i] : i \in p + 3 .. p + 2 + count}
                 tail == from[p + 3 + count]
             IN  [tail EXCEPT !.adds = <<Add(values[p], values[p + 1], md)>> \o @]
  IN  from[2]

(* read_uleb sets the number it is to read to 0 before it reads: xlen is 0 *)
(* when the file has no byte, and what the caller set it to when there is  *)
(* no file                                                                 *)
load_metadata(file, xlen) ==
  IF file = <<>> THEN [loaded |-> FALSE, xlen |-> xlen, map |-> <<>>]
  ELSE LET read == read_ulebs(file[1])
       IN  IF read.values = <<>> THEN [loaded |-> FALSE, xlen |-> 0, map |-> <<>>]
           ELSE LET ranges == RangesFrom(read.values, read.rest)
                IN  [loaded |-> ranges.ok, xlen |-> read.values[1], map |-> AddAll(<<>>, ranges.adds)]

(* dump_tags reads the same groups, and stops at a range that ends before  *)
(* it starts                                                               *)
dump_tags(file) ==
  LET read == read_ulebs(file[1])
      ranges == RangesFrom(read.values, read.rest)
  IN  /\ file # <<>> /\ read.values # <<>> /\ ranges.ok
      /\ \A i \in DOMAIN ranges.adds : ranges.adds[i].start <= ranges.adds[i].end

-----------------------------------------------------------------------------
(* metadata_index_map_t: each key with the place of its metadata in a list *)
(* that starts out with the metadata it is given                           *)
Indexed(m, pair) ==
  LET at == Min({i \in DOMAIN m.metadata : m.metadata[i] = pair.md} \cup {Len(m.metadata) + 1})
  IN  [index |-> [k \in DOMAIN m.index \cup {pair.key} |-> IF k = pair.key THEN at - 1 ELSE m.index[k]],
       metadata |-> IF at > Len(m.metadata) THEN Append(m.metadata, pair.md) ELSE m.metadata]

IndexMap(pairs, initial) ==
  LET after[n \in 0 .. Len(pairs)] ==
        IF n = 0 THEN [index |-> <<>>, metadata |-> initial] ELSE Indexed(after[n - 1], pairs[n])
  IN  after[Len(pairs)]

Range_t(start, end) == [start |-> start, end |-> end]
RangeLess(r, q) == r.start < q.start \/ (r.start = q.start /\ r.end < q.end)

(* The keys of a map of ranges, the least first *)
LeastRange(S) == CHOOSE r \in S : \A q \in S : ~RangeLess(q, r)
SortedRanges(S) ==
  LET left[k \in 0 .. Cardinality(S)] == IF k = 0 THEN S ELSE left[k - 1] \ {LeastRange(left[k - 1])}
  IN  [k \in 1 .. Cardinality(S) |-> LeastRange(left[k - 1])]

RunPairs(mrs) ==
  LET runs == Runs(mrs)
  IN  [i \in DOMAIN runs |-> [key |-> Range_t(runs[i].start, runs[i].end), md |-> runs[i].md[1]]]

PathPairs(policy, path) ==
  LET paths == lookup_metadata_map(policy, path)
  IN  [i \in DOMAIN paths |-> [key |-> paths[i], md |-> lookup_metadata(policy, paths[i])[1]]]

Without(index, keys) == [k \in DOMAIN index \ keys |-> index[k]]

-----------------------------------------------------------------------------
(* Headers.  A range of the header ends at its last address. *)
soc_exclude == {<<"SOC", "Memory", "DDR4_0">>, <<"SOC", "Memory", "Ram_0">>}

get_soc_ranges(soc, policy) ==
  LET used(e) == e.name \in DOMAIN entity_initializers(policy) \ soc_exclude
  IN  FlattenSeq([i \in DOMAIN soc |-> Where(used(soc[i]), Range_t(soc[i].start, soc[i].end))])

(* A range is joined to the previous one however far it is. *)
Joined_any(previous, current) == TRUE

(* The difference is unsigned: a range that starts inside the previous one *)
(* and ends after it is not joined                                         *)
Joined(previous, current) == uint64(current.start - previous.end) <= 1

(* One turn of the loop: done are the ranges up to previous *)
Coalesced(done, current) ==
  LET previous == Last(done)
  IN  CASE done = <<>> -> <<current>>
        [] done # <<>> /\ current.end <= previous.end -> done
        [] done # <<>> /\ current.end > previous.end /\ Joined(previous, current) ->
             Append(Front(done), Range_t(previous.start, current.end))
        [] OTHER -> Append(done, current)

(* ranges.sort(): each range goes before the first that is greater. *)
Sorted(ranges) ==
  LET place(done, r) == Min({i \in DOMAIN done : RangeLess(r, done[i])} \cup {Len(done) + 1})
      after[n \in 0 .. Len(ranges)] ==
        IF n = 0 THEN <<>> ELSE InsertAt(after[n - 1], place(after[n - 1], ranges[n]), ranges[n])
  IN  after[Len(ranges)]

coalesce_ranges(ranges) ==
  LET sorted == Sorted(ranges)
      after[n \in 0 .. Len(sorted)] ==
        IF n = 0 THEN <<>> ELSE Coalesced(after[n - 1], sorted[n])
  IN  after[Len(sorted)]

SectionRanges(image, code) ==
  LET flags == {"ALLOC", "WRITE", "EXECINSTR"}
      is_code(s) == s.flags \cap flags = {"ALLOC", "EXECINSTR"}
      range(s) == Where("ALLOC" \in s.flags /\ is_code(s) = code, address_range(s))
  IN  FlattenSeq([i \in DOMAIN image.sections |-> range(image.sections[i])])

(* The granularity of the SOC element with this very range; uint8_t *)
get_soc_granularity(soc, range, default) ==
  LET same == {i \in DOMAIN soc : soc[i].start = range.start /\ soc[i].end = range.end}
  IN  IF same # {} /\ "tag_granularity" \in DOMAIN soc[Min(same)]
      THEN soc[Min(same)].tag_granularity % 256 ELSE default

Headers(image, policy, soc) ==
  LET code == coalesce_ranges(SectionRanges(image, TRUE))
      data == coalesce_ranges(get_soc_ranges(soc, policy) \o SectionRanges(image, FALSE))
  IN  [code |-> code,
       data |-> [i \in DOMAIN data |-> <<data[i].start, data[i].end,
                   get_soc_granularity(soc, data[i], word_bytes(image))>>]]

(* The data ranges go before the code ranges. *)
write_headers_data_first(image, headers) ==
  <<IF word_bytes(image) = 8 THEN 1 ELSE 0, Len(headers.data)>> \o FlattenSeq(headers.data)
    \o <<Len(headers.code)>>
    \o FlattenSeq([i \in DOMAIN headers.code |-> <<headers.code[i].start, headers.code[i].end>>])

write_headers(image, headers) ==
  <<IF word_bytes(image) = 8 THEN 1 ELSE 0, Len(headers.code)>>
    \o FlattenSeq([i \in DOMAIN headers.code |-> <<headers.code[i].start, headers.code[i].end>>])
    \o <<Len(headers.data)>> \o FlattenSeq(headers.data)

-----------------------------------------------------------------------------
Reg(name) == <<"ISA", "RISCV", "Reg", name>>
Csr(name) == <<"ISA", "RISCV", "CSR", name>>

(* The index maps write_tag_file makes, and the list of metadata they share *)
Indexes(mrs, policy) ==
  LET memory == IndexMap(RunPairs(mrs), <<>>)
      registers == IndexMap(PathPairs(policy, <<"ISA", "RISCV", "Reg">>), memory.metadata)
      socs == IndexMap(PathPairs(policy, <<"SOC">>), registers.metadata)
      csrs == IndexMap(PathPairs(policy, <<"ISA", "RISCV", "CSR">>), socs.metadata)
  IN  [memory |-> memory.index, registers |-> registers.index, csrs |-> csrs.index,
       metadata |-> csrs.metadata]

(* Numbers write_uleb does not finish: the -1 of a default that is not     *)
(* there is shifted for ever, and an unknown name throws                   *)
endless == -1
throws == -2
Number(name_map, path) == IF Last(path) \in DOMAIN name_map THEN name_map[Last(path)] ELSE throws
Default(index, path) == IF path \in DOMAIN index THEN index[path] ELSE endless

IndexValues(index, name_map) ==
  LET values(path) == IF path \in DOMAIN index THEN <<Number(name_map, path), index[path]>> ELSE <<>>
  IN  FlattenSeq([i \in DOMAIN NameOrder |-> values(NameOrder[i])])

save_tag_indexes(x) ==
  LET registers == Without(x.registers, {Reg("Default"), Reg("Env")})
      csrs == Without(x.csrs, {Csr("Default")})
      ranges == SortedRanges(DOMAIN x.memory)
  IN  <<Len(x.metadata)>>
        \o FlattenSeq([i \in DOMAIN x.metadata |->
                         <<Cardinality(x.metadata[i])>> \o SortedIds(x.metadata[i])])
        \o <<Cardinality(DOMAIN registers), Default(x.registers, Reg("Default"))>>
        \o IndexValues(registers, register_name_map)
        \o <<Cardinality(DOMAIN csrs), Default(x.csrs, Csr("Default"))>>
        \o IndexValues(csrs, csr_name_map)
        \o <<x.registers[Reg("Env")], Len(ranges)>>
        \o FlattenSeq([i \in DOMAIN ranges |-> <<ranges[i].start, ranges[i].end, x.memory[ranges[i]]>>])

(* What has been written when the writer returns, throws or goes on for ever *)
Emitted(values) ==
  LET stop == Min({i \in DOMAIN values : values[i] < 0} \cup {Len(values) + 1})
  IN  [bytes |-> Bytes(SubSeq(values, 1, stop - 1)),
       outcome |-> CASE stop > Len(values) -> "ok"
                     [] stop <= Len(values) /\ values[stop] = endless -> "endless"
                     [] OTHER -> "throws"]

(* The indexes of the defaults are looked up first. *)
IndexPart(x) == IF Reg("Env") \in DOMAIN x.registers THEN save_tag_indexes(x) ELSE <<throws>>

(* write_tag_file, once the file is open *)
write_tag_file(mrs, image, policy, soc) ==
  Emitted(write_headers(image, Headers(image, policy, soc)) \o IndexPart(Indexes(mrs, policy)))

-----------------------------------------------------------------------------
(* load_firmware_tag_file.  A number past the end is taken as 0 here; what *)
(* is needed is then more than what was read, and the file is rejected.    *)
FirmwareOf(values) ==
  LET at(p) == IF p \in DOMAIN values THEN values[p] ELSE 0
      rows(p, n, width) == [i \in 1 .. n |-> [j \in 1 .. width |-> at(p + (i - 1) * width + j - 1)]]
      code == rows(3, at(2), 2)
      p_data == 3 + 2 * at(2)
      data == rows(p_data + 1, at(p_data), 3)
      p_meta == p_data + 1 + 3 * at(p_data)
      meta[k \in 0 .. at(p_meta)] ==     \* where the k-th set of tags ends
        IF k = 0 THEN p_meta + 1 ELSE LET before == meta[k - 1] IN before + 1 + at(before)
      tags(k) == {at(i) : i \in meta[k - 1] + 1 .. meta[k] - 1}
      p_reg == meta[at(p_meta)]
      registers == rows(p_reg + 2, at(p_reg), 2)
      p_csr == p_reg + 2 + 2 * at(p_reg)
      csrs == rows(p_csr + 2, at(p_csr), 2)
      p_env == p_csr + 2 + 2 * at(p_csr)
      p_mem == p_env + 1
      memory == rows(p_mem + 1, at(p_mem), 3)
      last == p_mem + 3 * at(p_mem)
      first(table, key) == table[Min({i \in DOMAIN table : table[i][1] = key})][2]
      keys(table) == {table[i][1] : i \in DOMAIN table}
  IN  [ok |-> /\ last <= Len(values)
              /\ keys(registers) \subseteq DOMAIN register_of_number
              /\ keys(csrs) \subseteq DOMAIN csr_of_slot,
       code |-> [i \in DOMAIN code |-> Range_t(code[i][1], code[i][2])],
       data |-> data,
       metadata |-> [k \in 1 .. at(p_meta) |-> tags(k)],
       registers |-> [name \in {register_of_number[k] : k \in keys(registers)} |->
                        first(registers, register_name_map[name])],
       csrs |-> [name \in {csr_of_slot[k] : k \in keys(csrs)} |-> first(csrs, csr_name_map[name])],
       register_default |-> at(p_reg + 1), csr_default |-> at(p_csr + 1), env_default |-> at(p_env),
       memory |-> memory]

load_firmware_tag_file(bytes) == FirmwareOf(read_ulebs(bytes).values)

=============================================================================
