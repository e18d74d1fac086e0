----------------------------- MODULE LlvmTagger -----------------------------
(***************************************************************************)
(* llvm_metadata_tagger_t: the .dover_metadata section the compiler wrote, *)
(* a sequence of bytes, read into tagged ranges.                           *)
(***************************************************************************)
EXTENDS RangeMap

PTR_SIZE == 4

(* metadata_ops *)
DMD_SET_BASE_ADDRESS_OP == 1
DMD_TAG_ADDRESS_OP == 2
DMD_END_BLOCK == 8
DMD_FUNCTION_RANGE == 10

(* policy_map and tag_specifiers: the name that goes with each specifier *)
SpecifiedName ==
  << <<"llvm", "CFI_Call-Tgt">>, <<"llvm", "Prologue">>, <<"llvm", "Epilogue">>,
     <<"llvm", "CPI", "FPtrStore">>, <<"llvm", "CFI_Branch-Tgt">>, <<"llvm", "CFI_Return-Tgt">>,
     <<"llvm", "CFI_Return-Instr">>, <<"llvm", "CFI_Call-Instr">>, <<"llvm", "CFI_Branch-Instr">>,
     <<"llvm", "CPI", "FPtrCreate">> >>
NoCFI == <<"llvm", "NoCFI">>

(* Whether the policy's Require tree, given by its leaves, has a node.  The *)
(* cache of the answers is keyed by the rest of the name; no name of the    *)
(* table is the rest of another, so that it never answers for another name. *)
policy_needs_tag(require, name) == \E leaf \in require : IsPrefix(name, leaf)

(* What follows the section in memory is taken to be 0. *)
byte(bytes, i) == IF i \in DOMAIN bytes THEN bytes[i] ELSE 0

(* PTR_SIZE bytes from i on, least significant first *)
pointer(bytes, i) ==
  byte(bytes, i) + 256 * (byte(bytes, i + 1) + 256 * (byte(bytes, i + 2) + 256 * byte(bytes, i + 3)))

check_and_add_range(range_map, start, end, specifier, require) ==
  IF specifier \in DOMAIN SpecifiedName /\ policy_needs_tag(require, SpecifiedName[specifier])
  THEN RangeMapAdd(range_map, start, end, <<SpecifiedName[specifier]>>)
  ELSE range_map

(* One operation.  DMD_TAG_ADDRESS_RANGE_OP has a branch that tests for    *)
(* DMD_TAG_ADDRESS_OP a second time and is never taken: like the policy    *)
(* operations and any unknown byte, it throws.                             *)
ReadOp(st, bytes, require) ==
  LET op == byte(bytes, st.i)
      arg(k) == pointer(bytes, st.i + 1 + k * PTR_SIZE)
      to(n) == [st EXCEPT !.i = @ + 1 + n]
  IN  CASE op = DMD_SET_BASE_ADDRESS_OP ->
             [to(8) EXCEPT !.base = uint64(arg(0) + Pow32 * arg(1))]
        [] op = DMD_TAG_ADDRESS_OP ->
             [to(PTR_SIZE + 1) EXCEPT !.ranges =
                check_and_add_range(@, uint64(st.base + arg(0)), uint64(st.base + arg(0) + PTR_SIZE),
                                    byte(bytes, st.i + 1 + PTR_SIZE), require)]
        [] op = DMD_END_BLOCK ->
             [to(PTR_SIZE) EXCEPT !.generated =
                RangeMapAdd(@, st.base, uint64(st.base + arg(0)), <<>>)]
        [] op = DMD_FUNCTION_RANGE ->
             [to(2 * PTR_SIZE) EXCEPT !.generated =
                RangeMapAdd(@, uint64(st.base + arg(0)), uint64(st.base + arg(1)), <<>>)]
        [] OTHER -> [st EXCEPT !.throws = TRUE]

(* The loop stops where the section ends; an operation is a byte at least. *)
ReadOps(bytes, size, require) ==
  LET start == [i |-> 1, base |-> 0, ranges |-> <<>>, generated |-> <<>>, throws |-> FALSE]
      step(st) == IF st.throws \/ st.i > size THEN st ELSE ReadOp(st, bytes, require)
      after[n \in 0 .. size] == IF n = 0 THEN start ELSE step(after[n - 1])
  IN  after[size]

(* add_code_section_ranges, word by word *)
CodeWords(image) ==
  LET is_code(s) == s.flags \cap {"ALLOC", "WRITE", "EXECINSTR"} = {"ALLOC", "EXECINSTR"}
      count(s) == IF is_code(s) THEN (end_address(s) - s.address + 3) \div PTR_SIZE ELSE 0
      words(s) == [w \in 1 .. count(s) |-> uint64(s.address + (w - 1) * PTR_SIZE)]
  IN  FlattenSeq([i \in DOMAIN image.sections |-> words(image.sections[i])])

(* generate_policy_ranges: what it returns, or that it throws.  Words of   *)
(* code that no range covers are llvm.NoCFI, where the policy asks for it. *)
generate_policy_ranges(image, require) ==
  LET md == {i \in DOMAIN image.sections : image.sections[i].name = ".dover_metadata"}
      section == image.sections[Min(md)]
      read == ReadOps(section.data, section.size, require)
      words == CodeWords(image)
      covered(m, w) == \/ RangeMapContains(m, w, uint64(w + PTR_SIZE))
                       \/ RangeMapContains(read.generated, w, uint64(w + PTR_SIZE))
      uncovered(m, w) ==
        IF covered(m, w) THEN m ELSE RangeMapAdd(m, w, uint64(w + PTR_SIZE), <<NoCFI>>)
      after[n \in 0 .. Len(words)] ==
        IF n = 0 THEN read.ranges ELSE uncovered(after[n - 1], words[n])
  IN  IF md = {} \/ byte(section.data, 1) # DMD_SET_BASE_ADDRESS_OP \/ read.throws
      THEN [throws |-> TRUE, ranges |-> <<>>]
      ELSE [throws |-> FALSE,
            ranges |-> IF policy_needs_tag(require, NoCFI) THEN after[Len(words)] ELSE read.ranges]

=============================================================================
