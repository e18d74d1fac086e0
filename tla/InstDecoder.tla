---------------------------- MODULE InstDecoder ----------------------------
(***************************************************************************)
(* decode() of validator/riscv/inst_decoder.cc: from an instruction word   *)
(* to the name, operands and flags the validator and the tagging tools     *)
(* use.  A word is a pair <<hi, lo>> of 16-bit halves, because a 32-bit    *)
(* unsigned value does not fit a TLC integer; an immediate is the signed   *)
(* int of the code.  An option<int> is the empty or a one-element          *)
(* sequence, flags_t the set of its true members.                          *)
(*                                                                         *)
(* The enumerator op is named by its mnemonic ("addw" for RISCV_ADDW); it  *)
(* is the instruction's own name except where the code says otherwise.     *)
(***************************************************************************)
EXTENDS Integers, Sequences, FiniteSetsExt, TLC

none == <<>>
some(v) == <<v>>
when(b, v) == IF b THEN some(v) ELSE none

(* The result starts out as that of a compressed instruction. *)
FlagsOr_from_compressed(f, g) == f \cup g \cup {"is_compressed"}

(* flags_t::operator| does not copy is_compressed to its result *)
FlagsOr(f, g) == (f \cup g) \ {"is_compressed"}

(* op_t, by mnemonic; those of plain_ops have no size or format suffix *)
WD(names) == UNION {{n \o ".w", n \o ".d"} : n \in names}
SDQ == {".s", ".d", ".q"}
plain_ops ==
    {"invalid", "beq", "bne", "blt", "bge", "bltu", "bgeu", "jalr", "jal", "lui", "auipc",
     "addi", "slli", "slti", "sltiu", "xori", "srli", "srai", "ori", "andi",
     "add", "sub", "sll", "slt", "sltu", "xor", "srl", "sra", "or", "and",
     "addiw", "slliw", "srliw", "sraiw", "addw", "subw", "sllw", "srlw", "sraw",
     "lb", "lh", "lw", "ld", "lbu", "lhu", "lwu", "sb", "sh", "sw", "sd",
     "fence", "fence.i", "mul", "mulh", "mulhsu", "mulhu", "div", "divu", "rem", "remu",
     "ecall", "ebreak", "uret", "sret", "mret", "dret", "sfence.vma", "wfi",
     "csrrw", "csrrs", "csrrc", "csrrwi", "csrrsi", "csrrci",
     "flw", "fld", "flq", "fsw", "fsd", "fsq", "mulw", "remw", "divw", "divuw", "remuw"}
atomic_ops == {"amoadd", "amoxor", "amoor", "amoand", "amomin", "amomax", "amominu", "amomaxu",
               "amoswap", "lr", "sc"}
fp_ops == {"fadd", "fsub", "fmul", "fdiv", "fsgnj", "fsgnjn", "fsgnjx", "fmin", "fmax",
           "fsqrt", "fle", "flt", "feq", "fclass", "fmadd", "fmsub", "fnmsub", "fnmadd"}
int_sizes == {".w", ".wu", ".l", ".lu"}
formatted_ops == {n \o f : n \in fp_ops, f \in SDQ}
fp_conversions == UNION {{"fcvt" \o f \o g : g \in SDQ \ {f}} : f \in SDQ}
from_int_ops == {"fcvt" \o f \o i : f \in SDQ, i \in int_sizes}
to_int_ops == {"fcvt" \o i \o f : i \in int_sizes, f \in SDQ}
move_ops == UNION {{"fmv.x" \o f, "fmv" \o f \o ".x"} : f \in {".w", ".d", ".q"}}
op_t == plain_ops \cup WD(atomic_ops) \cup formatted_ops
        \cup fp_conversions \cup from_int_ops \cup to_int_ops \cup move_ops

Inst(name, op, rd, rs1, rs2, rs3, imm, flags) ==
    [name |-> name, op |-> op, rd |-> rd, rs1 |-> rs1, rs2 |-> rs2,
     rs3 |-> rs3, imm |-> imm, flags |-> flags]

invalid_inst == Inst("", "invalid", none, none, none, none, none, {})
IsValid(inst) == inst.name # ""

r_type_inst(name, op, rd, rs1, rs2, flags) ==
    Inst(name, op, some(rd), some(rs1), some(rs2), none, none, flags)
r4_type_inst(name, rd, rs1, rs2, rs3) ==
    Inst(name, name, some(rd), some(rs1), some(rs2), some(rs3), none, {})
fp_conv_inst(name, rd, rs1) ==
    Inst(name, name, some(rd), some(rs1), none, none, none, {})
i_type_inst(name, op, rd, rs1, imm, flags) ==
    Inst(name, op, some(rd), some(rs1), none, none, some(imm), flags)
(* The CSR number is kept as the sign-extended immediate. *)
csr_inst_signed(name, rd, rs1, csr) ==
    Inst(name, name, when(rd # 0, rd), when(rs1 >= 0, rs1), none, none,
         some(IF csr >= 2048 THEN csr - 4096 ELSE csr),
         IF rd # 0 THEN FlagsOr({"has_csr_load"}, {"has_csr_store"})
                   ELSE {"has_csr_store"})

csr_inst(name, rd, rs1, csr) ==
    Inst(name, name, when(rd # 0, rd), when(rs1 >= 0, rs1), none, none,
         some(csr),
         IF rd # 0 THEN FlagsOr({"has_csr_load"}, {"has_csr_store"})
                   ELSE {"has_csr_store"})
s_type_inst(name, op, rs1, rs2, imm, flags) ==
    Inst(name, op, none, some(rs1), some(rs2), none, some(imm), flags)
u_type_inst(name, op, rd, imm, flags) ==
    Inst(name, op, some(rd), none, none, none, some(imm), flags)
system_inst(name) == Inst(name, name, none, none, none, none, none, {})

-----------------------------------------------------------------------------
(* Bit fields of a half word, and sign extension of a w-bit field *)
Bits(n, low, width) == (n \div 2^low) % 2^width
Bit(n, i) == Bits(n, i, 1)
SignExt(n, w) == IF n >= 2^(w - 1) THEN n - 2^w ELSE n

(* Every f3/f7/fmt table below holds "" where the code returns invalid_inst *)
Pick(table, key) == IF key \in DOMAIN table THEN table[key] ELSE ""
ByF3(names) == [f3 \in 0 .. Len(names) - 1 |-> names[f3 + 1]]

OpTable == [f7 \in {0, 1, 32} |-> ByF3(
    CASE f7 = 0  -> <<"add", "sll", "slt", "sltu", "xor", "srl", "or", "and">>
      [] f7 = 1  -> <<"mul", "mulh", "mulhsu", "mulhu", "div", "divu", "rem", "remu">>
      [] f7 = 32 -> <<"sub", "", "", "", "", "sra">>)]
Op32Table == [f7 \in {0, 1, 32} |-> ByF3(
    CASE f7 = 0  -> <<"addw", "", "", "", "", "srlw">>
      [] f7 = 1  -> <<"mulw", "", "", "", "divw", "divuw", "remw">>
      [] f7 = 32 -> <<"subw", "", "", "", "", "sraw">>)]

(* The atomics by f5, each for words and for double words *)
Sized(n) == <<n \o ".w", n \o ".d">>
AmoTable == [f5 \in {\h00, \h01, \h02, \h03, \h04, \h08, \h0c, \h10, \h14, \h18, \h1c} |->
    CASE f5 = \h00 -> Sized("amoadd")  [] f5 = \h01 -> Sized("amoswap") [] f5 = \h02 -> Sized("lr")
      [] f5 = \h03 -> Sized("sc")      [] f5 = \h04 -> Sized("amoxor")
      [] f5 = \h08 -> <<"amoor" \o ".w", "ammor.d">>
      [] f5 = \h0c -> Sized("amoand")  [] f5 = \h10 -> Sized("amomin")  [] f5 = \h14 -> Sized("amomax")
      [] f5 = \h18 -> Sized("amominu") [] f5 = \h1c -> Sized("amomaxu")]

(* Every instruction is its own enumerator. *)
OpOf_own_name(name) == name

(* The two names whose enumerator is another instruction's or differs *)
OpOf(name) == CASE name = "srlw"    -> "addw"
                [] name = "ammor.d" -> "amoor" \o ".d"
                [] OTHER            -> name

decode_r_type(code, f3, f7, rd, rs1, rs2) ==
    LET f5 == f7 \div 4
        name == CASE code = \h33 /\ f7 \in DOMAIN OpTable -> Pick(OpTable[f7], f3)
                  [] code = \h3b /\ f3 = 1 -> "sllw"
                  [] code = \h3b /\ f3 # 1 /\ f7 \in DOMAIN Op32Table -> Pick(Op32Table[f7], f3)
                  [] code = \h2f /\ f5 \in DOMAIN AmoTable -> Pick(AmoTable[f5], f3 - 1)
                  [] OTHER -> ""
    IN  CASE name = "" -> invalid_inst
          [] name \in {"lr.w", "lr.d"} ->
                Inst(name, name, some(rd), some(rs1), none, none, none, {"has_load"})
          [] OTHER -> r_type_inst(name, OpOf(name), rd, rs1, rs2, {})

LoadTable == ByF3(<<"lb", "lh", "lw", "ld", "lbu", "lhu", "lwu">>)
FpLoadTable == ByF3(<<"", "", "flw", "fld", "flq">>)
OpImmTable == ByF3(<<"addi", "", "slti", "sltiu", "xori", "", "ori", "andi">>)
CsrTable == ByF3(<<"", "csrrw", "csrrs", "csrrc", "", "csrrwi", "csrrsi", "csrrci">>)

(* f6 is the low byte of imm >> 6, so that the sign of imm is part of it *)
decode_i_type(code, f3, rd, rs1, imm) ==
    LET shamt == imm % 64
        f6    == (imm \div 64) % 256
        load(name)  == i_type_inst(name, name, rd, rs1, imm, {"has_load"})
        arith(name) == i_type_inst(name, name, rd, rs1, imm, {})
        shift(name) == i_type_inst(name, name, rd, rs1, shamt, {})
        valid(name, inst) == IF name = "" THEN invalid_inst ELSE inst
        right(srl, sra) == CASE f6 = 0 -> shift(srl) [] f6 = 16 -> shift(sra)
                             [] OTHER -> invalid_inst
    IN  CASE code = \h03 -> valid(Pick(LoadTable, f3), load(Pick(LoadTable, f3)))
          [] code = \h07 -> valid(Pick(FpLoadTable, f3), load(Pick(FpLoadTable, f3)))
          [] code = \h13 /\ f3 = 1 -> shift("slli")
          [] code = \h13 /\ f3 = 5 -> right("srli", "srai")
          [] code = \h13 /\ f3 \notin {1, 5} -> valid(OpImmTable[f3], arith(OpImmTable[f3]))
          [] code = \h1b /\ f3 = 0 -> arith("addiw")
          [] code = \h1b /\ f3 = 1 -> shift("slliw")
          [] code = \h1b /\ f3 = 5 -> right("srliw", "sraiw")
          [] code = \h67 -> arith("jalr")
          [] code = \h73 -> valid(CsrTable[f3],
                                  csr_inst(CsrTable[f3], rd, IF f3 < 4 THEN rs1 ELSE -1,
                                           imm % 4096))
          [] OTHER -> invalid_inst

StoreTable == ByF3(<<"sb", "sh", "sw", "sd">>)
FpStoreTable == ByF3(<<"", "", "fsw", "fsd", "fsq">>)
BranchTable == ByF3(<<"beq", "bne", "", "", "blt", "bge", "bltu", "bgeu">>)

(* A branch offset: bit 11 of a negative offset is always set *)
BranchImm(s_imm) ==
    2 * Bits(s_imm, 1, 10) + (IF s_imm < 0 THEN -2048 ELSE 2048 * (s_imm % 2))

decode_s_type(code, f3, rs1, rs2, s_imm) ==
    LET store(name)  == IF name = "" THEN invalid_inst
                        ELSE s_type_inst(name, name, rs1, rs2, s_imm, {"has_store"})
        branch(name) == IF name = "" THEN invalid_inst
                        ELSE s_type_inst(name, name, rs1, rs2, BranchImm(s_imm), {})
    IN  CASE code = \h23 -> store(Pick(StoreTable, f3))
          [] code = \h27 -> store(Pick(FpStoreTable, f3))
          [] code = \h63 -> branch(Pick(BranchTable, f3))
          [] OTHER -> invalid_inst

(* A jump offset, from the upper 20 bits; the sign is extended when bit 31
   or bit 30 of the word is set *)
JumpImm(upper) ==
    LET low == 4096 * Bits(upper, 0, 8) + 2048 * Bit(upper, 8) + 2 * Bits(upper, 9, 10)
    IN  low + (IF Bits(upper, 18, 2) # 0 THEN -1048576 ELSE 0)

decode_u_type(code, rd, upper) ==
    LET u_imm == SignExt(upper, 20) * 4096
    IN  CASE code = \h17 -> u_type_inst("auipc", "auipc", rd, u_imm, {})
          [] code = \h37 -> u_type_inst("lui", "lui", rd, u_imm, {})
          [] code = \h6f -> u_type_inst("jal", "jal", rd, JumpImm(upper), {})
          [] OTHER -> invalid_inst

-----------------------------------------------------------------------------
(* Floating point: the format is the low two bits of f7, value 2 is unused *)
Fmt == [fmt \in {0, 1, 3} |-> CASE fmt = 0 -> ".s" [] fmt = 1 -> ".d" [] fmt = 3 -> ".q"]
IntFmt == ByF3(<<".w", ".wu", ".l", ".lu">>)
MoveFmt == [fmt \in {0, 1, 3} |-> CASE fmt = 0 -> ".w" [] fmt = 1 -> ".d" [] fmt = 3 -> ".q"]
FusedTable == [code \in {\h43, \h47, \h4b, \h4f} |->
    CASE code = \h43 -> "fmadd" [] code = \h47 -> "fmsub" [] code = \h4b -> "fnmsub" [] code = \h4f -> "fnmadd"]

(* by f5, and by f3 where the operation depends on it *)
FpArithTable == ByF3(<<"fadd", "fsub", "fmul", "fdiv">>)
FpF3Table == [f5 \in {\h04, \h05, \h14} |-> ByF3(
    CASE f5 = \h04 -> <<"fsgnj", "fsgnjn", "fsgnjx">>
      [] f5 = \h05 -> <<"fmin", "fmax">>
      [] f5 = \h14 -> <<"fle", "flt", "feq">>)]

FpArith(f5, f3) == CASE f5 \in DOMAIN FpArithTable -> FpArithTable[f5]
                     [] f5 \in DOMAIN FpF3Table -> Pick(FpF3Table[f5], f3)
                     [] OTHER -> ""

(* conversions, moves and square root: rs2 selects the other format *)
FpConv(f5, fmt, f3, rs2) ==
    CASE f5 = \h08 /\ rs2 \in DOMAIN Fmt \ {fmt} -> "fcvt" \o Fmt[fmt] \o Fmt[rs2]
      [] f5 = \h0b -> "fsqrt" \o Fmt[fmt]
      [] f5 = \h18 /\ rs2 \in DOMAIN IntFmt -> "fcvt" \o IntFmt[rs2] \o Fmt[fmt]
      [] f5 = \h1a /\ rs2 \in DOMAIN IntFmt -> "fcvt" \o Fmt[fmt] \o IntFmt[rs2]
      [] f5 = \h1c /\ f3 = 0 -> "fmv.x" \o MoveFmt[fmt]
      [] f5 = \h1c /\ f3 = 1 -> "fclass" \o Fmt[fmt]
      [] f5 = \h1e -> "fmv" \o MoveFmt[fmt] \o ".x"
      [] OTHER -> ""

decode_fp(code, f7, f3, rd, rs1, rs2) ==
    LET f5  == f7 \div 4
        fmt == f7 % 4
        arith == FpArith(f5, f3)
        conv  == FpConv(f5, fmt, f3, rs2)
    IN  IF fmt \notin DOMAIN Fmt THEN invalid_inst
        ELSE CASE code \in DOMAIN FusedTable ->
                    r4_type_inst(FusedTable[code] \o Fmt[fmt], rd, rs1, rs2, f5)
               [] code = \h53 /\ arith # "" ->
                    r_type_inst(arith \o Fmt[fmt], arith \o Fmt[fmt], rd, rs1, rs2, {})
               [] code = \h53 /\ arith = "" /\ conv # "" -> fp_conv_inst(conv, rd, rs1)
               [] OTHER -> invalid_inst

SystemTable == [f12 \in {\h000, \h001, \h002, \h102, \h105, \h302, \h7b2} |->
    CASE f12 = \h000 -> "ecall" [] f12 = \h001 -> "ebreak" [] f12 = \h002 -> "uret" [] f12 = \h102 -> "sret"
      [] f12 = \h105 -> "wfi" [] f12 = \h302 -> "mret" [] f12 = \h7b2 -> "dret"]

(* The environment calls are recognised by f7 and rs2 alone, whatever f3 *)
decode_system(code, f7, f3, rs1, rs2) ==
    LET f12 == f7 * 32 + rs2
    IN  CASE code = \h0f /\ f3 = 0 -> system_inst("fence")
          [] code = \h0f /\ f3 = 1 -> system_inst("fence.i")
          [] code = \h73 /\ f12 \in DOMAIN SystemTable -> system_inst(SystemTable[f12])
          [] code = \h73 /\ f7 = 9 ->
                Inst("sfence.vma", "sfence.vma", none, some(rs1), some(rs2), none, none, {})
          [] OTHER -> invalid_inst

-----------------------------------------------------------------------------
(* Compressed instructions.  A compressed load or store is built with
   has_load | is_compressed, which FlagsOr leaves without is_compressed. *)
compressed == {"is_compressed"}
cload == FlagsOr({"has_load"}, compressed)
(* The store flag is left out. *)
cstore_no_access == compressed

cstore == FlagsOr({"has_store"}, compressed)
If(cond, inst) == IF cond THEN inst ELSE invalid_inst
SpWord(uimm) == 4 * Bits(uimm, 2, 4) + 64 * Bits(uimm, 0, 2)
SpDouble(uimm) == 8 * Bits(uimm, 3, 3) + 64 * Bits(uimm, 0, 3)
RegWord(uimm) == 4 * Bits(uimm, 1, 4) + 64 * Bit(uimm, 0)
RegDouble(uimm) == 8 * Bits(uimm, 2, 3) + 64 * Bits(uimm, 0, 2)

decode_ci_type(xlen, quad, f3, rds1, imm) ==
    LET uimm == imm % 64
        addi(name, rd, rs1) == i_type_inst(name, "addi", rd, rs1, imm, compressed)
    IN  CASE quad = 1 /\ f3 = 0 -> If(imm # 0, addi(IF rds1 = 0 THEN "c.nop" ELSE "c.addi", rds1, rds1))
          [] quad = 1 /\ f3 = 1 -> If(xlen = 64 /\ rds1 # 0,
                                      i_type_inst("c.addiw", "addiw", rds1, rds1, imm, compressed))
          [] quad = 1 /\ f3 = 2 -> If(rds1 # 0, addi("c.li", rds1, 0))
          [] quad = 1 /\ f3 = 3 /\ rds1 = 2 -> If(imm # 0, addi("c.addi16sp", 2, 2))
          [] quad = 1 /\ f3 = 3 /\ rds1 # 2 -> If(rds1 # 0 /\ imm # 0,
                                      u_type_inst("c.lui", "lui", rds1, imm * 4096, compressed))
          [] quad = 2 /\ f3 = 0 -> If(imm # 0 /\ (xlen > 32 \/ uimm < 32),
                                      i_type_inst("c.slli", "slli", rds1, rds1, uimm, compressed))
          [] quad = 2 /\ f3 = 1 -> i_type_inst("c.fldsp", "fld", rds1, 2, SpDouble(uimm), cload)
          [] quad = 2 /\ f3 = 2 -> If(rds1 # 0, i_type_inst("c.lwsp", "lw", rds1, 2, SpWord(uimm), cload))
          [] quad = 2 /\ f3 = 3 /\ xlen = 32 -> i_type_inst("c.flwsp", "flw", rds1, 2, SpWord(uimm), cload)
          [] quad = 2 /\ f3 = 3 /\ xlen # 32 -> If(rds1 # 0, i_type_inst("c.ldsp", "ld", rds1, 2, SpDouble(uimm), cload))
          [] OTHER -> invalid_inst

decode_css_type(xlen, quad, f3, rs2, uimm) ==
    CASE quad = 2 /\ f3 = 5 -> s_type_inst("c.fsdsp", "fsd", 2, rs2, SpDouble(uimm), cstore)
      [] quad = 2 /\ f3 = 6 -> s_type_inst("c.swsp", "sw", 2, rs2, SpWord(uimm), cstore)
      [] quad = 2 /\ f3 = 7 /\ xlen = 32 -> s_type_inst("c.fswsp", "fsw", 2, rs2, SpWord(uimm), cstore)
      [] quad = 2 /\ f3 = 7 /\ xlen # 32 -> s_type_inst("c.sdsp", "sd", 2, rs2, SpDouble(uimm), cstore)
      [] OTHER -> invalid_inst

decode_cl_type(xlen, quad, f3, rdp, rs1p, uimm) ==
    LET word == RegWord(uimm) * 4  double == RegDouble(uimm) * 8
    IN  CASE quad = 0 /\ f3 = 1 -> i_type_inst("c.fld", "fld", rdp, rs1p, double, cload)
          [] quad = 0 /\ f3 = 2 -> i_type_inst("c.lw", "lw", rdp, rs1p, word, cload)
          [] quad = 0 /\ f3 = 3 /\ xlen = 32 -> i_type_inst("c.flw", "flw", rdp, rs1p, word, cload)
          [] quad = 0 /\ f3 = 3 /\ xlen # 32 -> i_type_inst("c.ld", "ld", rdp, rs1p, double, cload)
          [] OTHER -> invalid_inst

decode_cs_type(xlen, quad, f3, rs1p, rs2p, uimm) ==
    CASE quad = 0 /\ f3 = 5 -> s_type_inst("c.fsd", "fsd", rs1p, rs2p, RegDouble(uimm), cstore)
      [] quad = 0 /\ f3 = 6 -> s_type_inst("c.sw", "sw", rs1p, rs2p, RegWord(uimm), cstore)
      [] quad = 0 /\ f3 = 7 /\ xlen = 32 -> s_type_inst("c.fsw", "fsw", rs1p, rs2p, RegWord(uimm), cstore)
      [] quad = 0 /\ f3 = 7 /\ xlen # 32 -> s_type_inst("c.sd", "sd", rs1p, rs2p, RegDouble(uimm), cstore)
      [] OTHER -> invalid_inst

decode_cj_type(xlen, quad, f3, imm) ==
    CASE quad = 1 /\ f3 = 1 -> If(xlen = 32, u_type_inst("c.jal", "jal", 1, imm, compressed))
      [] quad = 1 /\ f3 = 5 -> u_type_inst("c.j", "jal", 0, imm, compressed)
      [] OTHER -> invalid_inst

decode_cr_type(quad, f4, rs1, rs2) ==
    If(quad = 2 /\ rs1 # 0,
       CASE f4 = 8 /\ rs2 = 0 -> i_type_inst("c.jr", "jalr", 0, rs1, 0, compressed)
         [] f4 = 8 /\ rs2 # 0 -> r_type_inst("c.mv", "add", rs1, 0, rs2, compressed)
         [] f4 = 9 /\ rs2 = 0 -> i_type_inst("c.jalr", "jalr", 1, rs1, 0, compressed)
         [] f4 = 9 /\ rs2 # 0 -> r_type_inst("c.add", "add", rs1, rs1, rs2, compressed)
         [] OTHER -> invalid_inst)

decode_cb_type(quad, f3, rs1p, imm) ==
    CASE quad = 1 /\ f3 = 6 -> s_type_inst("c.beqz", "beq", rs1p, 0, imm, compressed)
      [] quad = 1 /\ f3 = 7 -> s_type_inst("c.bnez", "bne", rs1p, 0, imm, compressed)
      [] OTHER -> invalid_inst

(* The c.addi4spn case builds an instruction and does not return it, so that
   control reaches the default case whatever the operands *)
decode_ciw_type == invalid_inst

CaTable == [f6 \in {\h23, \h27} |->
               ByF3(IF f6 = \h23 THEN <<"sub", "xor", "or", "and">> ELSE <<"subw", "addw">>)]

(* The cases 0x20 to 0x26 of the code belong to switch (quad), which is at
   most 3: c.srli, c.srai and c.andi are never decoded. *)
decode_ca_type(quad, f6, f2, rds1p, rs2p) ==
    LET op == IF quad = 1 /\ f6 \in DOMAIN CaTable THEN Pick(CaTable[f6], f2) ELSE ""
    IN  If(op # "", r_type_inst("c." \o op, op, rds1p, rds1p, rs2p, compressed))

CjImm(lo) == 32 * Bit(lo, 2) + 2 * Bits(lo, 3, 3) + 128 * Bit(lo, 6) + 64 * Bit(lo, 7)
             + 1024 * Bit(lo, 8) + 256 * Bits(lo, 9, 2) + 16 * Bit(lo, 11)
             - 2048 * Bit(lo, 12)
CbImm(lo) == 32 * Bit(lo, 2) + 2 * Bits(lo, 3, 2) + 64 * Bits(lo, 5, 2)
             + 8 * Bits(lo, 10, 2) - 2048 * Bit(lo, 12)

-----------------------------------------------------------------------------
(* The answers of the decoders in the order decode() asks them *)
Attempts(hi, lo, xlen) ==
    LET opcode == lo % 128
        rd  == Bits(lo, 7, 5)          f3  == Bits(lo, 12, 3)
        rs1 == Bit(lo, 15) + 2 * Bits(hi, 0, 4)
        rs2 == Bits(hi, 4, 5)          f7  == Bits(hi, 9, 7)
        quad == lo % 4                 c_f3 == Bits(lo, 13, 3)
        c_rs2 == Bits(lo, 2, 5)        rdp == Bits(lo, 2, 3) + 8
        rs1p == Bits(lo, 7, 3) + 8
        ci_imm == c_rs2 - 32 * Bit(lo, 12)
        cls_imm == 4 * Bits(lo, 10, 3) + Bits(lo, 5, 2)
    IN  << decode_r_type(opcode, f3, f7, rd, rs1, rs2),
           decode_i_type(opcode, f3, rd, rs1, SignExt(hi \div 16, 12)),
           decode_s_type(opcode, f3, rs1, rs2, SignExt(f7 * 32 + rd, 12)),
           decode_u_type(opcode, rd, hi * 16 + lo \div 4096),
           decode_fp(opcode, f7, f3, rd, rs1, rs2),
           decode_system(opcode, f7, f3, rs1, rs2),
           decode_ci_type(xlen, quad, c_f3, rd, ci_imm),
           decode_css_type(xlen, quad, c_f3, c_rs2, rd),
           decode_cl_type(xlen, quad, c_f3, rdp, rs1p, cls_imm),
           decode_cs_type(xlen, quad, c_f3, rs1p, rdp, cls_imm),
           decode_cj_type(xlen, quad, c_f3, CjImm(lo)),
           decode_cr_type(quad, Bits(lo, 12, 4), rd, c_rs2),
           decode_cb_type(quad, c_f3, rs1p, CbImm(lo)),
           decode_ciw_type,
           decode_ca_type(quad, Bits(lo, 10, 6), Bits(lo, 5, 2), rs1p, rdp) >>

(* A later decoder overrides an earlier one. *)
LastValid(attempts) ==
    LET valid == {i \in DOMAIN attempts : IsValid(attempts[i])}
    IN  IF valid = {} THEN invalid_inst ELSE attempts[Max(valid)]

(* The first decoder that recognises the word decides *)
FirstValid(attempts) ==
    LET valid == {i \in DOMAIN attempts : IsValid(attempts[i])}
    IN  IF valid = {} THEN invalid_inst ELSE attempts[Min(valid)]

(* decode throws for any other xlen; its callers pass 32 or 64 *)
decode(hi, lo, xlen) == FirstValid(Attempts(hi, lo, xlen))
=============================================================================
