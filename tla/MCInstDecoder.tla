--------------------------- MODULE MCInstDecoder ---------------------------
(***************************************************************************)
(* decode() over whole families of instruction words: every compressed     *)
(* word for both register widths, and for every major opcode every f3 and  *)
(* f7 with a few register numbers.                                         *)
(***************************************************************************)
EXTENDS InstDecoder, FiniteSets

CONSTANTS Opcodes,      \* major opcodes of the full-size words
          Rds, Rs2s     \* register numbers tried in rd and in rs2

ASSUME SampleAssumption == Opcodes \subseteq 0 .. 127 /\ Rds \subseteq 0 .. 31 /\ Rs2s \subseteq 0 .. 31

VARIABLES hi, lo, xlen, inst
vars == <<hi, lo, xlen, inst>>

Init == /\ hi = 0 /\ lo = 0
        /\ xlen \in {32, 64}
        /\ inst = invalid_inst

(* prepare_eval and tag_opcodes hand each 32-bit word they read to decode *)
Decode(h, l) == hi' = h /\ lo' = l /\ inst' = decode(h, l, xlen) /\ UNCHANGED xlen

DecodeFull ==
    /\ lo = 0 /\ xlen = 32
    /\ \E code \in Opcodes, f3 \in 0 .. 7, f7 \in 0 .. 127, rd \in Rds, rs2 \in Rs2s :
          Decode(f7 * 512 + rs2 * 16, f3 * 4096 + rd * 128 + code)

(* Every word but 0 that is a 16-bit instruction by its last bits *)
CompressedWords == {w \in 1 .. 65535 : w % 4 # 3}

DecodeCompressed ==
    /\ lo = 0
    /\ \E w \in CompressedWords : Decode(0, w)

Next == DecodeFull \/ DecodeCompressed
Spec == Init /\ [][Next]_vars

-----------------------------------------------------------------------------
(* The decoded instruction is well formed and its op is declared in op_t *)
TypeOK ==
    /\ inst.op \in op_t
    /\ inst.flags \subseteq {"has_load", "has_store", "has_csr_load", "has_csr_store",
                             "is_compressed"}

(* Two decoders claim the same word only where a CSR access is also read as
   a system instruction (decode_system does not look at f3), and there the
   order in decode() makes it the CSR access. *)
FirstDecoderDecides ==
    LET claims == {i \in 1 .. 15 : IsValid(Attempts(hi, lo, xlen)[i])}
    IN  \/ Cardinality(claims) <= 1
        \/ claims = {2, 6} /\ lo % 128 = \h73 /\ "has_csr_store" \in inst.flags

(* What prepare_eval and commit take from an instruction without checking
   it.  Register numbers index the 32 register tags: *)
RegsUsable(i) == \A o \in {i.rd, i.rs1, i.rs2, i.rs3} : o = none \/ o[1] \in 0 .. 31

(* the CSR number indexes the 4096 CSR tags, and a CSR access has no rs2,
   whose tag would replace the CSR's in op2: *)
CsrUsable(i) == i.flags \cap {"has_csr_load", "has_csr_store"} # {} =>
                    i.imm # none /\ i.imm[1] \in 0 .. 4095 /\ i.rs2 = none

(* an access to memory has the base register that reg_reader is asked for,
   and a store has no rd, because one result tag serves both. *)
MemUsable(i) ==
    /\ i.flags \cap {"has_load", "has_store"} # {} => i.rs1 # none
    /\ "has_store" \in i.flags => i.rd = none /\ "has_load" \notin i.flags

Usable(i) == RegsUsable(i) /\ CsrUsable(i) /\ MemUsable(i)

(* prepare_eval can use the decoded instruction. *)
OperandsUsable == Usable(inst)

(* A word whose two low bits are not 11 is an instruction of 16 bits *)
Length == IF lo % 4 = 3 THEN 4 ELSE 2
(* The bytes tag_opcodes goes on by, from what decode says *)
Passed == IF "is_compressed" \in inst.flags THEN 2 ELSE 4

(* tag_opcodes goes on by the length of the instruction it just tagged for
   every instruction but the compressed loads and stores, and for none of
   those: their flags have lost is_compressed, so that four bytes are tagged
   and the two of the next instruction are passed over, or its first half
   when it is a full-size one. *)
StepIsLength ==
    IsValid(inst) =>
        (Passed = Length <=> ~(Length = 2 /\ inst.flags \cap {"has_load", "has_store"} # {}))

(* A full-size word, with rd = 1, for each op a compressed instruction has *)
Word(code, f3, f7) == <<f7 * 512, f3 * 4096 + 128 + code>>
BaseWord(op) ==
    CASE op = "addi" -> Word(\h13, 0, 0)  [] op = "addiw" -> Word(\h1b, 0, 0) [] op = "slli" -> Word(\h13, 1, 0)
      [] op = "lui" -> Word(\h37, 0, 0)   [] op = "lw" -> Word(\h03, 2, 0)    [] op = "ld" -> Word(\h03, 3, 0)
      [] op = "flw" -> Word(\h07, 2, 0)   [] op = "fld" -> Word(\h07, 3, 0)   [] op = "sw" -> Word(\h23, 2, 0)
      [] op = "sd" -> Word(\h23, 3, 0)    [] op = "fsw" -> Word(\h27, 2, 0)   [] op = "fsd" -> Word(\h27, 3, 0)
      [] op = "jal" -> Word(\h6f, 0, 0)   [] op = "jalr" -> Word(\h67, 0, 0)  [] op = "beq" -> Word(\h63, 0, 0)
      [] op = "bne" -> Word(\h63, 1, 0)   [] op = "add" -> Word(\h33, 0, 0)   [] op = "sub" -> Word(\h33, 0, 32)
      [] op = "xor" -> Word(\h33, 4, 0)   [] op = "or" -> Word(\h33, 6, 0)    [] op = "and" -> Word(\h33, 7, 0)
      [] op = "subw" -> Word(\h3b, 0, 32) [] op = "addw" -> Word(\h3b, 0, 0)

(* which operands an instruction has and how it accesses memory *)
Shape(i) == [rd |-> i.rd # none, rs1 |-> i.rs1 # none, rs2 |-> i.rs2 # none,
             rs3 |-> i.rs3 # none, imm |-> i.imm # none,
             mem |-> i.flags \cap {"has_load", "has_store"}]

(* A compressed instruction reads and writes what the full-size instruction
   it abbreviates does: the policy sees the same operands for c.sw as for sw. *)
CompressedAsBase ==
    IsValid(inst) /\ lo % 4 # 3 =>
        \E base \in {decode(BaseWord(inst.op)[1], BaseWord(inst.op)[2], xlen)} :
            base.op = inst.op /\ Shape(inst) = Shape(base)

=============================================================================
