------------------------- MODULE InstDecoderProofs --------------------------
(***************************************************************************)
(* decode() over every 32-bit word and both register widths: what the TLC  *)
(* run samples for the full-size words is proved for all of them, that a   *)
(* compressed instruction is decoded as the one it abbreviates too.        *)
(***************************************************************************)
EXTENDS MCInstDecoder, WellFoundedInduction, FiniteSetTheorems, TLAPS

Half == 0 .. 65535
Reg  == 0 .. 31

(* prepare_eval and tag_opcodes hand decode any word that memory holds. *)
AnyWord == Init /\ [][\E h, l \in Half : Decode(h, l)]_vars

(* A decoder whose answer for a full-size word is well formed. *)
Plain(i) == Usable(i) /\ "is_compressed" \notin i.flags

(* An option holds a register number or nothing. *)
OptReg(o) == o = none \/ (\E r \in Reg : o = some(r))

(* An immediate that is a CSR number. *)
CsrNumber(imm) == \E c \in 0 .. 4095 : imm = some(c)

LEMMA UsableInst ==
  ASSUME NEW name, NEW op, NEW rd, NEW rs1, NEW rs2, NEW rs3, NEW imm, NEW flags,
         OptReg(rd), OptReg(rs1), OptReg(rs2), OptReg(rs3),
         flags \cap {"has_csr_load", "has_csr_store"} # {} =>
            CsrNumber(imm) /\ rs2 = none,
         flags \cap {"has_load", "has_store"} # {} => rs1 # none,
         "has_store" \in flags => rd = none /\ "has_load" \notin flags
  PROVE  Usable(Inst(name, op, rd, rs1, rs2, rs3, imm, flags))
<1> SUFFICES ASSUME NEW x, x = Inst(name, op, rd, rs1, rs2, rs3, imm, flags)
             PROVE  Usable(x)
  OBVIOUS
<1>1. /\ x.rd = rd /\ x.rs1 = rs1 /\ x.rs2 = rs2 /\ x.rs3 = rs3
      /\ x.imm = imm /\ x.flags = flags
  BY DEF Inst
<1>2. RegsUsable(x)
  <2>1. \A o : OptReg(o) => o = none \/ o[1] \in 0 .. 31
    BY DEF OptReg, some, Reg
  <2>. QED  BY <1>1, <2>1 DEF RegsUsable
<1>3. CsrUsable(x)
  <2>1. CsrNumber(imm) => imm # none /\ imm[1] \in 0 .. 4095
    BY DEF CsrNumber, some, none
  <2>2. flags \cap {"has_csr_load", "has_csr_store"} # {} =>
           imm # none /\ imm[1] \in 0 .. 4095 /\ rs2 = none
    BY <2>1
  <2>. QED  BY <1>1, <2>2 DEF CsrUsable
<1>4. MemUsable(x)
  BY <1>1 DEF MemUsable
<1>. QED  BY <1>2, <1>3, <1>4 DEF Usable

LEMMA NoneSome == OptReg(none) /\ (\A r \in Reg : OptReg(some(r))) /\ (\A v : some(v) # none)
  BY DEF OptReg, none, some

(* What the constructors of inst_decoder.cc build is usable, whatever name *)
(* and immediate they are given.                                           *)
LEMMA FlagsFacts ==
  /\ cload = {"has_load"} /\ cstore = {"has_store"} /\ compressed = {"is_compressed"}
  /\ FlagsOr({"has_csr_load"}, {"has_csr_store"}) = {"has_csr_load", "has_csr_store"}
  BY DEF cload, cstore, compressed, FlagsOr

LEMMA BuiltR ==
  ASSUME NEW name, NEW op, NEW rd \in Reg, NEW rs1 \in Reg, NEW rs2 \in Reg, NEW flags,
         \A f \in {"has_csr_load", "has_csr_store", "has_store"} : f \notin flags
  PROVE  /\ Usable(r_type_inst(name, op, rd, rs1, rs2, flags))
         /\ r_type_inst(name, op, rd, rs1, rs2, flags).flags = flags
<1>1. r_type_inst(name, op, rd, rs1, rs2, flags).flags = flags
  BY DEF r_type_inst, Inst
<1>. QED  BY <1>1, UsableInst, NoneSome DEF r_type_inst

LEMMA BuiltI ==
  ASSUME NEW name, NEW op, NEW rd \in Reg, NEW rs1 \in Reg, NEW imm, NEW flags,
         \A f \in {"has_csr_load", "has_csr_store", "has_store"} : f \notin flags
  PROVE  /\ Usable(i_type_inst(name, op, rd, rs1, imm, flags))
         /\ i_type_inst(name, op, rd, rs1, imm, flags).flags = flags
<1>1. i_type_inst(name, op, rd, rs1, imm, flags).flags = flags
  BY DEF i_type_inst, Inst
<1>. QED  BY <1>1, UsableInst, NoneSome DEF i_type_inst

LEMMA BuiltS ==
  ASSUME NEW name, NEW op, NEW rs1 \in Reg, NEW rs2 \in Reg, NEW imm, NEW flags,
         \A f \in {"has_csr_load", "has_csr_store", "has_load"} : f \notin flags
  PROVE  /\ Usable(s_type_inst(name, op, rs1, rs2, imm, flags))
         /\ s_type_inst(name, op, rs1, rs2, imm, flags).flags = flags
<1>1. s_type_inst(name, op, rs1, rs2, imm, flags).flags = flags
  BY DEF s_type_inst, Inst
<1>. QED  BY <1>1, UsableInst, NoneSome DEF s_type_inst

LEMMA BuiltU ==
  ASSUME NEW name, NEW op, NEW rd \in Reg, NEW imm, NEW flags,
         \A f \in {"has_csr_load", "has_csr_store", "has_load", "has_store"} : f \notin flags
  PROVE  /\ Usable(u_type_inst(name, op, rd, imm, flags))
         /\ u_type_inst(name, op, rd, imm, flags).flags = flags
<1>1. u_type_inst(name, op, rd, imm, flags).flags = flags
  BY DEF u_type_inst, Inst
<1>. QED  BY <1>1, UsableInst, NoneSome DEF u_type_inst

LEMMA InstFlags ==
  ASSUME NEW name, NEW op, NEW rd, NEW rs1, NEW rs2, NEW rs3, NEW imm, NEW flags
  PROVE  Inst(name, op, rd, rs1, rs2, rs3, imm, flags).flags = flags
  BY DEF Inst

(* The constructors of full-size instructions. *)
LEMMA PlainInst ==
  ASSUME NEW name, NEW op, NEW imm, NEW rd \in Reg, NEW rs1 \in Reg, NEW rs2 \in Reg,
         NEW rs3 \in Reg
  PROVE  /\ Plain(r_type_inst(name, op, rd, rs1, rs2, {}))
         /\ Plain(Inst(name, op, some(rd), some(rs1), none, none, none, {"has_load"}))
         /\ Plain(r4_type_inst(name, rd, rs1, rs2, rs3))
         /\ Plain(fp_conv_inst(name, rd, rs1))
         /\ Plain(i_type_inst(name, op, rd, rs1, imm, {}))
         /\ Plain(i_type_inst(name, op, rd, rs1, imm, {"has_load"}))
         /\ Plain(s_type_inst(name, op, rs1, rs2, imm, {}))
         /\ Plain(s_type_inst(name, op, rs1, rs2, imm, {"has_store"}))
         /\ Plain(u_type_inst(name, op, rd, imm, {}))
         /\ Plain(system_inst(name))
         /\ Plain(invalid_inst)
         /\ Plain(Inst(name, op, none, some(rs1), some(rs2), none, none, {}))
<1>1. /\ Plain(r_type_inst(name, op, rd, rs1, rs2, {}))
      /\ Plain(i_type_inst(name, op, rd, rs1, imm, {}))
      /\ Plain(i_type_inst(name, op, rd, rs1, imm, {"has_load"}))
  BY BuiltR, BuiltI DEF Plain
<1>2. /\ Plain(s_type_inst(name, op, rs1, rs2, imm, {}))
      /\ Plain(s_type_inst(name, op, rs1, rs2, imm, {"has_store"}))
      /\ Plain(u_type_inst(name, op, rd, imm, {}))
  BY BuiltS, BuiltU DEF Plain
<1>3. ASSUME NEW nm, NEW o, NEW d, NEW a, NEW b, NEW c, OptReg(d), OptReg(a), OptReg(b), OptReg(c)
      PROVE  Plain(Inst(nm, o, d, a, b, c, none, {}))
  BY <1>3, UsableInst, InstFlags DEF Plain
<1>4. Plain(Inst(name, op, some(rd), some(rs1), none, none, none, {"has_load"}))
  BY UsableInst, InstFlags, NoneSome DEF Plain
<1>5. Plain(r4_type_inst(name, rd, rs1, rs2, rs3)) /\ Plain(fp_conv_inst(name, rd, rs1))
  BY <1>3, NoneSome DEF r4_type_inst, fp_conv_inst
<1>6. Plain(system_inst(name)) /\ Plain(invalid_inst)
  BY <1>3, NoneSome DEF system_inst, invalid_inst
<1>7. Plain(Inst(name, op, none, some(rs1), some(rs2), none, none, {}))
  BY <1>3, NoneSome
<1>. QED  BY <1>1, <1>2, <1>4, <1>5, <1>6, <1>7

LEMMA CsrBuilt ==
  ASSUME NEW name, NEW rd, NEW rs1, NEW imm, OptReg(rd), OptReg(rs1), CsrNumber(imm)
  PROVE  /\ Plain(Inst(name, name, rd, rs1, none, none, imm, {"has_csr_store"}))
         /\ Plain(Inst(name, name, rd, rs1, none, none, imm, {"has_csr_load", "has_csr_store"}))
         /\ "has_csr_store" \in Inst(name, name, rd, rs1, none, none, imm, {"has_csr_store"}).flags
         /\ "has_csr_store" \in
              Inst(name, name, rd, rs1, none, none, imm, {"has_csr_load", "has_csr_store"}).flags
<1>1. Usable(Inst(name, name, rd, rs1, none, none, imm, {"has_csr_store"}))
  BY UsableInst, NoneSome
<1>2. Usable(Inst(name, name, rd, rs1, none, none, imm, {"has_csr_load", "has_csr_store"}))
  BY UsableInst, NoneSome
<1>. QED  BY <1>1, <1>2, InstFlags DEF Plain

(* A CSR instruction loads and stores the CSR it names and takes at most   *)
(* one register, rs1; rd = 0 leaves only the store.                        *)
LEMMA PlainCsr ==
  ASSUME NEW name, NEW rd \in Reg, NEW rs1, rs1 \in Reg \/ rs1 = -1,
         NEW csr, CsrNumber(some(csr))
  PROVE  /\ Plain(csr_inst(name, rd, rs1, csr))
         /\ "has_csr_store" \in csr_inst(name, rd, rs1, csr).flags
<1>1. CASE rd = 0 /\ rs1 = -1
  <2>1. csr_inst(name, rd, rs1, csr) =
          Inst(name, name, none, none, none, none, some(csr), {"has_csr_store"})
    BY <1>1 DEF csr_inst, when
  <2>. QED  BY <2>1, CsrBuilt, NoneSome
<1>2. CASE rd = 0 /\ rs1 \in Reg
  <2>1. csr_inst(name, rd, rs1, csr) =
          Inst(name, name, none, some(rs1), none, none, some(csr), {"has_csr_store"})
    BY <1>2 DEF csr_inst, when, Reg
  <2>. QED  BY <1>2, <2>1, CsrBuilt, NoneSome
<1>3. CASE rd # 0 /\ rs1 = -1
  <2>1. csr_inst(name, rd, rs1, csr) =
          Inst(name, name, some(rd), none, none, none, some(csr), {"has_csr_load", "has_csr_store"})
    BY <1>3, FlagsFacts DEF csr_inst, when
  <2>. QED  BY <2>1, CsrBuilt, NoneSome
<1>4. CASE rd # 0 /\ rs1 \in Reg
  <2>1. csr_inst(name, rd, rs1, csr) =
          Inst(name, name, some(rd), some(rs1), none, none, some(csr),
               {"has_csr_load", "has_csr_store"})
    BY <1>4, FlagsFacts DEF csr_inst, when, Reg
  <2>. QED  BY <1>4, <2>1, CsrBuilt, NoneSome
<1>. QED  BY <1>1, <1>2, <1>3, <1>4

-----------------------------------------------------------------------------
(* The six decoders of full-size words: each claims only its own opcodes.  *)
LEMMA ClaimsR ==
  ASSUME NEW code, NEW f3, NEW f7, NEW rd \in Reg, NEW rs1 \in Reg, NEW rs2 \in Reg
  PROVE  LET d == decode_r_type(code, f3, f7, rd, rs1, rs2)
         IN  d = invalid_inst \/ (code \in {\h33, \h3b, \h2f} /\ Plain(d))
<1>1. \A name, op : /\ Plain(r_type_inst(name, op, rd, rs1, rs2, {}))
                    /\ Plain(Inst(name, op, some(rd), some(rs1), none, none, none, {"has_load"}))
  BY PlainInst
<1>2. CASE code \in {\h33, \h3b, \h2f}
  <2>1. \E name : decode_r_type(code, f3, f7, rd, rs1, rs2) =
          CASE name = "" -> invalid_inst
            [] name \in {"lr.w", "lr.d"} ->
                  Inst(name, name, some(rd), some(rs1), none, none, none, {"has_load"})
            [] OTHER -> r_type_inst(name, OpOf(name), rd, rs1, rs2, {})
    BY DEF decode_r_type
  <2>. QED  BY <1>1, <1>2, <2>1
<1>3. CASE code \notin {\h33, \h3b, \h2f}
  BY <1>3 DEF decode_r_type
<1>. QED  BY <1>2, <1>3

LEMMA ClaimsS ==
  ASSUME NEW code, NEW f3, NEW rs1 \in Reg, NEW rs2 \in Reg, NEW imm
  PROVE  LET d == decode_s_type(code, f3, rs1, rs2, imm)
         IN  d = invalid_inst \/ (code \in {\h23, \h27, \h63} /\ Plain(d))
<1> DEFINE d == decode_s_type(code, f3, rs1, rs2, imm)
<1>1. \A name, v : /\ Plain(s_type_inst(name, name, rs1, rs2, v, {"has_store"}))
                   /\ Plain(s_type_inst(name, name, rs1, rs2, v, {}))
  BY PlainInst
<1>2. code \notin {\h23, \h27, \h63} => d = invalid_inst
  BY DEF decode_s_type
<1>3. CASE code = \h23
  <2>1. d = IF Pick(StoreTable, f3) = "" THEN invalid_inst
            ELSE s_type_inst(Pick(StoreTable, f3), Pick(StoreTable, f3), rs1, rs2, imm,
                             {"has_store"})
    BY <1>3 DEF decode_s_type
  <2>. QED  BY <1>1, <1>3, <2>1
<1>4. CASE code = \h27
  <2>1. d = IF Pick(FpStoreTable, f3) = "" THEN invalid_inst
            ELSE s_type_inst(Pick(FpStoreTable, f3), Pick(FpStoreTable, f3), rs1, rs2, imm,
                             {"has_store"})
    BY <1>4 DEF decode_s_type
  <2>. QED  BY <1>1, <1>4, <2>1
<1>5. CASE code = \h63
  <2>1. d = IF Pick(BranchTable, f3) = "" THEN invalid_inst
            ELSE s_type_inst(Pick(BranchTable, f3), Pick(BranchTable, f3), rs1, rs2,
                             BranchImm(imm), {})
    BY <1>5 DEF decode_s_type
  <2>. QED  BY <1>1, <1>5, <2>1
<1>. QED  BY <1>2, <1>3, <1>4, <1>5

LEMMA ClaimsU ==
  ASSUME NEW code, NEW rd \in Reg, NEW upper
  PROVE  LET d == decode_u_type(code, rd, upper)
         IN  d = invalid_inst \/ (code \in {\h17, \h37, \h6f} /\ Plain(d))
  BY PlainInst DEF decode_u_type

LEMMA ClaimsI ==
  ASSUME NEW code, NEW f3, NEW rd \in Reg, NEW rs1 \in Reg, NEW imm \in Int
  PROVE  LET d == decode_i_type(code, f3, rd, rs1, imm)
         IN  \/ d = invalid_inst
             \/ /\ code \in {\h03, \h07, \h13, \h1b, \h67, \h73}
                /\ Plain(d)
                /\ code = \h73 => "has_csr_store" \in d.flags
<1> DEFINE Good(d) == d = invalid_inst \/ Plain(d)
<1>1. /\ \A name, v : /\ Good(i_type_inst(name, name, rd, rs1, v, {"has_load"}))
                      /\ Good(i_type_inst(name, name, rd, rs1, v, {}))
      /\ Good(invalid_inst)
  BY PlainInst
<1>2. code \notin {\h03, \h07, \h13, \h1b, \h67, \h73} =>
         decode_i_type(code, f3, rd, rs1, imm) = invalid_inst
  BY DEF decode_i_type
<1>. HIDE DEF Good
<1>9. ASSUME code \in {\h03, \h07, \h13, \h1b, \h67}
      PROVE  Good(decode_i_type(code, f3, rd, rs1, imm))
  <2>1. Good(decode_i_type(\h03, f3, rd, rs1, imm))
    <3> DEFINE name == Pick(LoadTable, f3)
    <3>1. decode_i_type(\h03, f3, rd, rs1, imm) =
            IF name = "" THEN invalid_inst ELSE i_type_inst(name, name, rd, rs1, imm, {"has_load"})
      BY DEF decode_i_type
    <3>. QED  BY <1>1, <3>1
  <2>4. Good(decode_i_type(\h07, f3, rd, rs1, imm))
    <3> DEFINE name == Pick(FpLoadTable, f3)
    <3>1. decode_i_type(\h07, f3, rd, rs1, imm) =
            IF name = "" THEN invalid_inst ELSE i_type_inst(name, name, rd, rs1, imm, {"has_load"})
      BY DEF decode_i_type
    <3>. QED  BY <1>1, <3>1
  <2>2. Good(decode_i_type(\h1b, f3, rd, rs1, imm)) /\ Good(decode_i_type(\h67, f3, rd, rs1, imm))
    BY <1>1 DEF decode_i_type
  <2>3. Good(decode_i_type(\h13, f3, rd, rs1, imm))
    <3>1. CASE f3 = 1
      BY <1>1, <3>1 DEF decode_i_type
    <3>2. CASE f3 = 5
      BY <1>1, <3>2 DEF decode_i_type
    <3>3. CASE f3 \notin {1, 5}
      <4>1. decode_i_type(\h13, f3, rd, rs1, imm) =
              IF OpImmTable[f3] = "" THEN invalid_inst
              ELSE i_type_inst(OpImmTable[f3], OpImmTable[f3], rd, rs1, imm, {})
        BY <3>3 DEF decode_i_type
      <4>. QED  BY <1>1, <4>1
    <3>. QED  BY <3>1, <3>2, <3>3
  <2>. QED  BY <1>9, <2>1, <2>2, <2>3, <2>4
<1>10. code = \h73 => LET d == decode_i_type(code, f3, rd, rs1, imm)
                      IN  Good(d) /\ (d = invalid_inst \/ "has_csr_store" \in d.flags)
  <2> DEFINE arg == IF f3 < 4 THEN rs1 ELSE -1
             csr == imm % 4096
  <2>1. (arg \in Reg \/ arg = -1) /\ CsrNumber(some(csr))
    <3>1. arg \in Reg \/ arg = -1
      OBVIOUS
    <3>2. csr \in 0 .. 4095
      OBVIOUS
    <3>3. CsrNumber(some(csr))
      <4>. HIDE DEF csr
      <4>. QED  BY <3>2 DEF CsrNumber, some
    <3>. QED  BY <3>1, <3>3
  <2>2. decode_i_type(\h73, f3, rd, rs1, imm) =
          IF CsrTable[f3] = "" THEN invalid_inst ELSE csr_inst(CsrTable[f3], rd, arg, csr)
    BY DEF decode_i_type
  <2>. HIDE DEF arg, csr
  <2>3. \A name : /\ Plain(csr_inst(name, rd, arg, csr))
                  /\ "has_csr_store" \in csr_inst(name, rd, arg, csr).flags
    BY <2>1, PlainCsr
  <2>4. \/ decode_i_type(\h73, f3, rd, rs1, imm) = invalid_inst
        \/ /\ Plain(decode_i_type(\h73, f3, rd, rs1, imm))
           /\ "has_csr_store" \in decode_i_type(\h73, f3, rd, rs1, imm).flags
    BY <2>2, <2>3
  <2>. QED  BY <2>4 DEF Good
<1>. QED  BY <1>2, <1>9, <1>10 DEF Good

LEMMA ClaimsFp ==
  ASSUME NEW code, NEW f7, f7 \div 4 \in Reg, NEW f3, NEW rd \in Reg, NEW rs1 \in Reg, NEW rs2 \in Reg
  PROVE  LET d == decode_fp(code, f7, f3, rd, rs1, rs2)
         IN  d = invalid_inst \/ (code \in {\h43, \h47, \h4b, \h4f, \h53} /\ Plain(d))
<1>1. DOMAIN FusedTable = {\h43, \h47, \h4b, \h4f}
  BY DEF FusedTable
<1>3. \A name : /\ Plain(r4_type_inst(name, rd, rs1, rs2, f7 \div 4))
                /\ Plain(r_type_inst(name, name, rd, rs1, rs2, {}))
                /\ Plain(fp_conv_inst(name, rd, rs1))
  BY PlainInst
<1>. QED  BY <1>1, <1>3 DEF decode_fp

LEMMA ClaimsSystem ==
  ASSUME NEW code, NEW f7, NEW f3, NEW rs1 \in Reg, NEW rs2 \in Reg
  PROVE  LET d == decode_system(code, f7, f3, rs1, rs2)
         IN  d = invalid_inst \/ (code \in {\h0f, \h73} /\ Plain(d))
<1>1. \A name : /\ Plain(system_inst(name))
                /\ Plain(Inst(name, name, none, some(rs1), some(rs2), none, none, {}))
  BY PlainInst
<1>. QED  BY <1>1 DEF decode_system

-----------------------------------------------------------------------------
(* The decoders of compressed words: each claims only its own quadrant and *)
(* function codes.                                                         *)
LEMMA UsableCompressed ==
  ASSUME NEW rd \in Reg, NEW rs1 \in Reg, NEW rs2 \in Reg, NEW name, NEW op, NEW imm
  PROVE  /\ Usable(i_type_inst(name, op, rd, rs1, imm, compressed))
         /\ Usable(i_type_inst(name, op, rd, rs1, imm, cload))
         /\ Usable(u_type_inst(name, op, rd, imm, compressed))
         /\ Usable(s_type_inst(name, op, rs1, rs2, imm, cstore))
         /\ Usable(s_type_inst(name, op, rs1, rs2, imm, compressed))
         /\ Usable(r_type_inst(name, op, rd, rs1, rs2, compressed))
<1>1. cload = {"has_load"} /\ cstore = {"has_store"} /\ compressed = {"is_compressed"}
  BY FlagsFacts
<1>2. /\ Usable(i_type_inst(name, op, rd, rs1, imm, compressed))
      /\ Usable(i_type_inst(name, op, rd, rs1, imm, cload))
      /\ Usable(r_type_inst(name, op, rd, rs1, rs2, compressed))
  BY <1>1, BuiltI, BuiltR
<1>3. /\ Usable(s_type_inst(name, op, rs1, rs2, imm, cstore))
      /\ Usable(s_type_inst(name, op, rs1, rs2, imm, compressed))
      /\ Usable(u_type_inst(name, op, rd, imm, compressed))
  BY <1>1, BuiltS, BuiltU
<1>. QED  BY <1>2, <1>3

(* The registers a compressed format implies: x0, ra and sp. *)
LEMMA FixedRegs == 0 \in Reg /\ 1 \in Reg /\ 2 \in Reg
  BY DEF Reg

LEMMA ClaimsCi ==
  ASSUME NEW xlen0, NEW quad, NEW f3, NEW rds1 \in Reg, NEW imm
  PROVE  LET d == decode_ci_type(xlen0, quad, f3, rds1, imm)
         IN  \/ d = invalid_inst
             \/ /\ quad \in {1, 2} /\ f3 \in {0, 1, 2, 3} /\ Usable(d)
                /\ quad = 1 /\ f3 = 1 => xlen0 = 64
<1> DEFINE Good(d) == d = invalid_inst \/ Usable(d)
<1>1. /\ \A name, op, v : /\ Good(i_type_inst(name, op, rds1, rds1, v, compressed))
                          /\ Good(i_type_inst(name, op, rds1, 0, v, compressed))
                          /\ Good(i_type_inst(name, op, 2, 2, v, compressed))
                          /\ Good(i_type_inst(name, op, rds1, 2, v, cload))
                          /\ Good(u_type_inst(name, op, rds1, v, compressed))
      /\ Good(invalid_inst)
  BY UsableCompressed, FixedRegs
<1>. HIDE DEF Good
<1>2. Good(decode_ci_type(xlen0, 1, f3, rds1, imm))
  BY <1>1 DEF decode_ci_type, If
<1>3. Good(decode_ci_type(xlen0, 2, f3, rds1, imm))
  BY <1>1 DEF decode_ci_type, If
<1>4. ~(quad \in {1, 2} /\ f3 \in {0, 1, 2, 3}) =>
         decode_ci_type(xlen0, quad, f3, rds1, imm) = invalid_inst
  BY DEF decode_ci_type
<1>5. xlen0 # 64 => decode_ci_type(xlen0, 1, 1, rds1, imm) = invalid_inst
  BY DEF decode_ci_type, If
<1>. QED  BY <1>2, <1>3, <1>4, <1>5 DEF Good

LEMMA ClaimsCss ==
  ASSUME NEW xlen0, NEW quad, NEW f3, NEW rs2 \in Reg, NEW uimm
  PROVE  LET d == decode_css_type(xlen0, quad, f3, rs2, uimm)
         IN  d = invalid_inst \/ (quad = 2 /\ f3 \in {5, 6, 7} /\ Usable(d))
<1>1. \A name, op, v : Usable(s_type_inst(name, op, 2, rs2, v, cstore))
  BY UsableCompressed, FixedRegs
<1>. QED  BY <1>1 DEF decode_css_type

LEMMA ClaimsCl ==
  ASSUME NEW xlen0, NEW quad, NEW f3, NEW rdp \in Reg, NEW rs1p \in Reg, NEW uimm
  PROVE  LET d == decode_cl_type(xlen0, quad, f3, rdp, rs1p, uimm)
         IN  d = invalid_inst \/ (quad = 0 /\ f3 \in {1, 2, 3} /\ Usable(d))
<1>1. \A name, op, v : Usable(i_type_inst(name, op, rdp, rs1p, v, cload))
  BY UsableCompressed
<1>. QED  BY <1>1 DEF decode_cl_type

LEMMA ClaimsCs ==
  ASSUME NEW xlen0, NEW quad, NEW f3, NEW rs1p \in Reg, NEW rs2p \in Reg, NEW uimm
  PROVE  LET d == decode_cs_type(xlen0, quad, f3, rs1p, rs2p, uimm)
         IN  d = invalid_inst \/ (quad = 0 /\ f3 \in {5, 6, 7} /\ Usable(d))
<1>1. \A name, op, v : Usable(s_type_inst(name, op, rs1p, rs2p, v, cstore))
  BY UsableCompressed
<1>. QED  BY <1>1 DEF decode_cs_type

LEMMA ClaimsCj ==
  ASSUME NEW xlen0, NEW quad, NEW f3, NEW imm
  PROVE  LET d == decode_cj_type(xlen0, quad, f3, imm)
         IN  \/ d = invalid_inst
             \/ quad = 1 /\ (f3 = 5 \/ (f3 = 1 /\ xlen0 = 32)) /\ Usable(d)
<1>1. \A name, op, v : /\ Usable(u_type_inst(name, op, 0, v, compressed))
                       /\ Usable(u_type_inst(name, op, 1, v, compressed))
  BY UsableCompressed, FixedRegs
<1>. QED  BY <1>1 DEF decode_cj_type, If

LEMMA ClaimsCr ==
  ASSUME NEW quad, NEW f4, NEW rs1 \in Reg, NEW rs2 \in Reg
  PROVE  LET d == decode_cr_type(quad, f4, rs1, rs2)
         IN  d = invalid_inst \/ (quad = 2 /\ f4 \in {8, 9} /\ Usable(d))
<1>1. \A name, op, v : /\ Usable(i_type_inst(name, op, 0, rs1, v, compressed))
                       /\ Usable(i_type_inst(name, op, 1, rs1, v, compressed))
                       /\ Usable(r_type_inst(name, op, rs1, 0, rs2, compressed))
                       /\ Usable(r_type_inst(name, op, rs1, rs1, rs2, compressed))
  BY UsableCompressed, FixedRegs
<1>. QED  BY <1>1 DEF decode_cr_type, If

LEMMA ClaimsCb ==
  ASSUME NEW quad, NEW f3, NEW rs1p \in Reg, NEW imm
  PROVE  LET d == decode_cb_type(quad, f3, rs1p, imm)
         IN  d = invalid_inst \/ (quad = 1 /\ f3 \in {6, 7} /\ Usable(d))
<1>1. \A name, op, v : Usable(s_type_inst(name, op, rs1p, 0, v, compressed))
  BY UsableCompressed, FixedRegs
<1>. QED  BY <1>1 DEF decode_cb_type

LEMMA ClaimsCa ==
  ASSUME NEW quad, NEW f6, NEW f2, NEW rds1p \in Reg, NEW rs2p \in Reg
  PROVE  LET d == decode_ca_type(quad, f6, f2, rds1p, rs2p)
         IN  d = invalid_inst \/ (quad = 1 /\ f6 \in {\h23, \h27} /\ Usable(d))
<1>1. \A name, op : Usable(r_type_inst(name, op, rds1p, rds1p, rs2p, compressed))
  BY UsableCompressed
<1>2. DOMAIN CaTable = {\h23, \h27}
  BY DEF CaTable
<1>. QED  BY <1>1, <1>2 DEF decode_ca_type, If

-----------------------------------------------------------------------------
(* The words each decoder, numbered in the order decode() asks them, claims. *)
Region(k, l, x) ==
  LET code == l % 128  quad == l % 4  c_f3 == Bits(l, 13, 3)
  IN  \/ k = 1  /\ code \in {\h33, \h3b, \h2f}
      \/ k = 2  /\ code \in {\h03, \h07, \h13, \h1b, \h67, \h73}
      \/ k = 3  /\ code \in {\h23, \h27, \h63}
      \/ k = 4  /\ code \in {\h17, \h37, \h6f}
      \/ k = 5  /\ code \in {\h43, \h47, \h4b, \h4f, \h53}
      \/ k = 6  /\ code \in {\h0f, \h73}
      \/ k = 7  /\ quad \in {1, 2} /\ c_f3 \in {0, 1, 2, 3} /\ (quad = 1 /\ c_f3 = 1 => x = 64)
      \/ k = 8  /\ quad = 2 /\ c_f3 \in {5, 6, 7}
      \/ k = 9  /\ quad = 0 /\ c_f3 \in {1, 2, 3}
      \/ k = 10 /\ quad = 0 /\ c_f3 \in {5, 6, 7}
      \/ k = 11 /\ quad = 1 /\ (c_f3 = 5 \/ (c_f3 = 1 /\ x = 32))
      \/ k = 12 /\ quad = 2 /\ c_f3 = 4
      \/ k = 13 /\ quad = 1 /\ c_f3 \in {6, 7}
      \/ k = 15 /\ quad = 1 /\ c_f3 = 4

(* A 16-bit word is a number of its range, and its low bits are those of   *)
(* its low bits. The largest half is hidden, as the provers try the        *)
(* numbers up to it.                                                       *)
LEMMA InHalf == ASSUME NEW n \in Half PROVE n \in Int /\ 0 <= n /\ n <= 65535
<1> DEFINE top == 65535
<1>1. Half = 0 .. top /\ top \in Int
  BY DEF Half
<1> HIDE DEF top
<1>2. n \in Int /\ 0 <= n /\ n <= top
  BY <1>1
<1>. QED  BY <1>2 DEF top

LEMMA IsHalf == ASSUME NEW n \in Int, 0 <= n, n <= 65535 PROVE n \in Half
<1> DEFINE top == 65535
<1>1. top \in Int /\ n <= top
  OBVIOUS
<1>2. Half = 0 .. top
  BY DEF Half
<1> HIDE DEF top
<1>. QED  BY <1>1, <1>2

LEMMA LowBits == ASSUME NEW n \in Int PROVE n % 128 \in 0 .. 127 /\ n % 4 = (n % 128) % 4
<1>1. n % 128 \in 0 .. 127
  OBVIOUS
<1>2. \A q \in Int, r \in Int : (4 * q + r) % 4 = r % 4
  OBVIOUS
<1>3. n = 4 * (32 * (n \div 128)) + (n % 128) /\ 32 * (n \div 128) \in Int
  OBVIOUS
<1>. QED  BY <1>1, <1>2, <1>3

(* The regions overlap in one place: opcode 0x73, which decode_i_type reads *)
(* as a CSR access and decode_system as a system instruction.              *)
LEMMA RegionsDisjoint ==
  ASSUME NEW l \in Half, NEW x, NEW i \in 1 .. 15, NEW j \in 1 .. 15,
         Region(i, l, x), Region(j, l, x), i < j
  PROVE  i = 2 /\ j = 6 /\ l % 128 = \h73
<1> DEFINE code == l % 128
           quad == l % 4
           c_f3 == Bits(l, 13, 3)
<1>1. code \in 0 .. 127 /\ quad = code % 4
  BY InHalf, LowBits
<1>2. i <= 6 => quad = 3
  BY <1>1 DEF Region
<1>3. j <= 6 => i = 2 /\ j = 6 /\ code = \h73
  BY DEF Region
<1>4. j > 6 => quad # 3
  BY DEF Region
<1>5. i <= 6
  <2> SUFFICES ASSUME i > 6 PROVE FALSE
    OBVIOUS
  <2>. QED  BY DEF Region
<1>. QED  BY <1>2, <1>3, <1>4, <1>5

(* The register fields of a word are register numbers, and its immediates  *)
(* numbers.                                                                *)
LEMMA Fields ==
  ASSUME NEW h \in Half, NEW l \in Half
  PROVE  /\ Bits(l, 7, 5) \in Reg /\ Bits(h, 4, 5) \in Reg /\ Bits(l, 2, 5) \in Reg
         /\ Bit(l, 15) + 2 * Bits(h, 0, 4) \in Reg
         /\ Bits(l, 2, 3) + 8 \in Reg /\ Bits(l, 7, 3) + 8 \in Reg
         /\ Bits(h, 9, 7) \div 4 \in Reg
         /\ SignExt(h \div 16, 12) \in Int
<1>1. Bits(l, 7, 5) \in Reg /\ Bits(h, 4, 5) \in Reg /\ Bits(l, 2, 5) \in Reg
  <2>1. \A n \in Int : n % 32 \in Reg
    BY DEF Reg
  <2>2. l \div 128 \in Int /\ h \div 16 \in Int /\ l \div 4 \in Int
    <3>1. l \in Int /\ h \in Int
      BY InHalf
    <3>. QED  BY <3>1
  <2>3. /\ Bits(l, 7, 5) = (l \div 128) % 32
        /\ Bits(h, 4, 5) = (h \div 16) % 32
        /\ Bits(l, 2, 5) = (l \div 4) % 32
    BY DEF Bits
  <2>. QED  BY <2>1, <2>2, <2>3
<1>2. Bit(l, 15) + 2 * Bits(h, 0, 4) \in Reg
  <2>1. l \div 32768 \in Int /\ h \div 1 \in Int
    BY InHalf
  <2>2. Bit(l, 15) = (l \div 32768) % 2 /\ Bits(h, 0, 4) = (h \div 1) % 16
    BY DEF Bit, Bits
  <2>3. \A m, n \in Int : (m % 2) + 2 * (n % 16) \in Reg
    BY DEF Reg
  <2>. QED  BY <2>1, <2>2, <2>3
<1>3. Bits(l, 2, 3) + 8 \in Reg /\ Bits(l, 7, 3) + 8 \in Reg
  <2>1. l \div 4 \in Int /\ l \div 128 \in Int
    BY InHalf
  <2>2. Bits(l, 2, 3) = (l \div 4) % 8 /\ Bits(l, 7, 3) = (l \div 128) % 8
    BY DEF Bits
  <2>3. \A n \in Int : (n % 8) + 8 \in Reg
    BY DEF Reg
  <2>. QED  BY <2>1, <2>2, <2>3
<1>4. Bits(h, 9, 7) \div 4 \in Reg
  <2>1. h \div 512 \in Int
    BY InHalf
  <2>2. Bits(h, 9, 7) = (h \div 512) % 128
    BY DEF Bits
  <2>3. \A n \in Int : (n % 128) \div 4 \in Reg
    BY DEF Reg
  <2>. QED  BY <2>1, <2>2, <2>3
<1>5. SignExt(h \div 16, 12) \in Int
  BY InHalf DEF SignExt
<1>. QED  BY <1>1, <1>2, <1>3, <1>4, <1>5

(* The function codes of the register and the arithmetic format begin with *)
(* the three bits the other compressed formats are told apart by.          *)
LEMMA SharedCodes ==
  ASSUME NEW l \in Half
  PROVE  /\ Bits(l, 12, 4) \in {8, 9} => Bits(l, 13, 3) = 4
         /\ Bits(l, 10, 6) \in {\h23, \h27} => Bits(l, 13, 3) = 4
<1>1. Bits(l, 12, 4) \in {8, 9} => Bits(l, 13, 3) = 4
  <2>1. Bits(l, 12, 4) = (l \div 4096) % 16 /\ Bits(l, 13, 3) = (l \div 8192) % 8
    BY DEF Bits
  <2>2. (l \div 4096) % 16 = l \div 4096
    <3>1. l \div 4096 \in 0 .. 15
      BY InHalf
    <3>2. \A q \in 0 .. 15 : q % 16 = q
      OBVIOUS
    <3>. QED  BY <3>1, <3>2
  <2>3. l \div 4096 \in {8, 9} => 32768 <= l /\ l <= 40959
    BY InHalf
  <2>4. 32768 <= l /\ l <= 40959 => l \div 8192 = 4
    BY InHalf
  <2>. QED  BY <2>1, <2>2, <2>3, <2>4
<1>2. Bits(l, 10, 6) \in {\h23, \h27} => Bits(l, 13, 3) = 4
  <2>1. Bits(l, 10, 6) = (l \div 1024) % 64 /\ Bits(l, 13, 3) = (l \div 8192) % 8
    BY DEF Bits
  <2>2. (l \div 1024) % 64 = l \div 1024
    <3>1. l \div 1024 \in 0 .. 63
      <4>1. l \in Int /\ 0 <= l /\ l < 65536
        BY InHalf
      <4>2. /\ l \div 1024 \in Int /\ l % 1024 \in 0 .. 1023
            /\ l = 1024 * (l \div 1024) + (l % 1024)
        BY <4>1
      <4>. QED  BY <4>1, <4>2
    <3>2. \A q \in 0 .. 63 : q % 64 = q
      OBVIOUS
    <3>. QED  BY <3>1, <3>2
  <2>3. l \div 1024 \in {35, 39} => 32768 <= l /\ l <= 40959
    BY InHalf
  <2>4. 32768 <= l /\ l <= 40959 => l \div 8192 = 4
    BY InHalf
  <2>. QED  BY <2>1, <2>2, <2>3, <2>4
<1>. QED  BY <1>1, <1>2

(* Every decoder answers within its region, and usably.                    *)
LEMMA FullAttempts ==
  ASSUME NEW h \in Half, NEW l \in Half, NEW x, NEW k \in 1 .. 6
  PROVE  LET d == Attempts(h, l, x)[k]
         IN  d = invalid_inst \/ (Region(k, l, x) /\ Plain(d))
<1> DEFINE opcode == l % 128
           rd  == Bits(l, 7, 5)
           f3  == Bits(l, 12, 3)
           rs1 == Bit(l, 15) + 2 * Bits(h, 0, 4)
           rs2 == Bits(h, 4, 5)
           f7  == Bits(h, 9, 7)
           imm == SignExt(h \div 16, 12)
           s_imm == SignExt(f7 * 32 + rd, 12)
           upper == h * 16 + l \div 4096
           A   == Attempts(h, l, x)
<1>1. rd \in Reg /\ rs1 \in Reg /\ rs2 \in Reg /\ f7 \div 4 \in Reg /\ imm \in Int
  BY Fields
<1>2. /\ A[1] = decode_r_type(opcode, f3, f7, rd, rs1, rs2)
      /\ A[2] = decode_i_type(opcode, f3, rd, rs1, imm)
      /\ A[3] = decode_s_type(opcode, f3, rs1, rs2, s_imm)
      /\ A[4] = decode_u_type(opcode, rd, upper)
      /\ A[5] = decode_fp(opcode, f7, f3, rd, rs1, rs2)
      /\ A[6] = decode_system(opcode, f7, f3, rs1, rs2)
  BY DEF Attempts
<1>3. Region(1, l, x) <=> opcode \in {\h33, \h3b, \h2f}
  BY DEF Region
<1>4. Region(2, l, x) <=> opcode \in {\h03, \h07, \h13, \h1b, \h67, \h73}
  BY DEF Region
<1>5. Region(3, l, x) <=> opcode \in {\h23, \h27, \h63}
  BY DEF Region
<1>6. Region(4, l, x) <=> opcode \in {\h17, \h37, \h6f}
  BY DEF Region
<1>7. Region(5, l, x) <=> opcode \in {\h43, \h47, \h4b, \h4f, \h53}
  BY DEF Region
<1>8. Region(6, l, x) <=> opcode \in {\h0f, \h73}
  BY DEF Region
<1>. HIDE DEF opcode, rd, f3, rs1, rs2, f7, imm, s_imm, upper, A
<1>9. A[1] = invalid_inst \/ (Region(1, l, x) /\ Plain(A[1]))
  BY <1>1, <1>2, <1>3, ClaimsR
<1>10. A[2] = invalid_inst \/ (Region(2, l, x) /\ Plain(A[2]))
  BY <1>1, <1>2, <1>4, ClaimsI
<1>11. A[3] = invalid_inst \/ (Region(3, l, x) /\ Plain(A[3]))
  BY <1>1, <1>2, <1>5, ClaimsS
<1>12. A[4] = invalid_inst \/ (Region(4, l, x) /\ Plain(A[4]))
  BY <1>1, <1>2, <1>6, ClaimsU
<1>13. A[5] = invalid_inst \/ (Region(5, l, x) /\ Plain(A[5]))
  BY <1>1, <1>2, <1>7, ClaimsFp
<1>14. A[6] = invalid_inst \/ (Region(6, l, x) /\ Plain(A[6]))
  BY <1>1, <1>2, <1>8, ClaimsSystem
<1>15. A[k] = invalid_inst \/ (Region(k, l, x) /\ Plain(A[k]))
  BY <1>9, <1>10, <1>11, <1>12, <1>13, <1>14
<1>. QED  BY <1>15 DEF A

LEMMA CompressedAttempts ==
  ASSUME NEW h \in Half, NEW l \in Half, NEW x, NEW k \in 7 .. 15
  PROVE  LET d == Attempts(h, l, x)[k]
         IN  d = invalid_inst \/ (Region(k, l, x) /\ Usable(d))
<1> DEFINE quad == l % 4
           rd  == Bits(l, 7, 5)
           c_f3 == Bits(l, 13, 3)
           c_rs2 == Bits(l, 2, 5)
           rdp == Bits(l, 2, 3) + 8
           rs1p == Bits(l, 7, 3) + 8
           ci_imm == c_rs2 - 32 * Bit(l, 12)
           cls_imm == 4 * Bits(l, 10, 3) + Bits(l, 5, 2)
           f4 == Bits(l, 12, 4)
           f6 == Bits(l, 10, 6)
           f2 == Bits(l, 5, 2)
           cj_imm == CjImm(l)
           cb_imm == CbImm(l)
           A   == Attempts(h, l, x)
<1>1. rd \in Reg /\ c_rs2 \in Reg /\ rdp \in Reg /\ rs1p \in Reg
  BY Fields
<1>2. (f4 \in {8, 9} => c_f3 = 4) /\ (f6 \in {\h23, \h27} => c_f3 = 4)
  BY SharedCodes
<1>3. /\ A[7] = decode_ci_type(x, quad, c_f3, rd, ci_imm)
      /\ A[8] = decode_css_type(x, quad, c_f3, c_rs2, rd)
      /\ A[9] = decode_cl_type(x, quad, c_f3, rdp, rs1p, cls_imm)
      /\ A[10] = decode_cs_type(x, quad, c_f3, rs1p, rdp, cls_imm)
      /\ A[11] = decode_cj_type(x, quad, c_f3, cj_imm)
      /\ A[12] = decode_cr_type(quad, f4, rd, c_rs2)
      /\ A[13] = decode_cb_type(quad, c_f3, rs1p, cb_imm)
      /\ A[14] = invalid_inst
      /\ A[15] = decode_ca_type(quad, f6, f2, rs1p, rdp)
  <2>1. /\ A[7] = decode_ci_type(x, quad, c_f3, rd, ci_imm)
        /\ A[8] = decode_css_type(x, quad, c_f3, c_rs2, rd)
        /\ A[9] = decode_cl_type(x, quad, c_f3, rdp, rs1p, cls_imm)
    BY DEF Attempts
  <2>2. /\ A[10] = decode_cs_type(x, quad, c_f3, rs1p, rdp, cls_imm)
        /\ A[11] = decode_cj_type(x, quad, c_f3, cj_imm)
        /\ A[12] = decode_cr_type(quad, f4, rd, c_rs2)
    BY DEF Attempts
  <2>3. /\ A[13] = decode_cb_type(quad, c_f3, rs1p, cb_imm)
        /\ A[14] = invalid_inst
        /\ A[15] = decode_ca_type(quad, f6, f2, rs1p, rdp)
    BY DEF Attempts, decode_ciw_type
  <2>. QED  BY <2>1, <2>2, <2>3
<1>4. /\ Region(7, l, x) <=> quad \in {1, 2} /\ c_f3 \in {0, 1, 2, 3} /\ (quad = 1 /\ c_f3 = 1 => x = 64)
      /\ Region(8, l, x) <=> quad = 2 /\ c_f3 \in {5, 6, 7}
      /\ Region(9, l, x) <=> quad = 0 /\ c_f3 \in {1, 2, 3}
      /\ Region(10, l, x) <=> quad = 0 /\ c_f3 \in {5, 6, 7}
  BY DEF Region
<1>5. /\ Region(11, l, x) <=> quad = 1 /\ (c_f3 = 5 \/ (c_f3 = 1 /\ x = 32))
      /\ Region(12, l, x) <=> quad = 2 /\ c_f3 = 4
      /\ Region(13, l, x) <=> quad = 1 /\ c_f3 \in {6, 7}
      /\ Region(15, l, x) <=> quad = 1 /\ c_f3 = 4
  BY DEF Region
<1>. HIDE DEF quad, rd, c_f3, c_rs2, rdp, rs1p, ci_imm, cls_imm, f4, f6, f2, cj_imm, cb_imm, A
<1>7. A[7] = invalid_inst \/ (Region(7, l, x) /\ Usable(A[7]))
  BY <1>1, <1>3, <1>4, ClaimsCi
<1>8. A[8] = invalid_inst \/ (Region(8, l, x) /\ Usable(A[8]))
  BY <1>1, <1>3, <1>4, ClaimsCss
<1>9. A[9] = invalid_inst \/ (Region(9, l, x) /\ Usable(A[9]))
  BY <1>1, <1>3, <1>4, ClaimsCl
<1>10. A[10] = invalid_inst \/ (Region(10, l, x) /\ Usable(A[10]))
  BY <1>1, <1>3, <1>4, ClaimsCs
<1>11. A[11] = invalid_inst \/ (Region(11, l, x) /\ Usable(A[11]))
  BY <1>3, <1>5, ClaimsCj
<1>12. A[12] = invalid_inst \/ (Region(12, l, x) /\ Usable(A[12]))
  BY <1>1, <1>2, <1>3, <1>5, ClaimsCr
<1>13. A[13] = invalid_inst \/ (Region(13, l, x) /\ Usable(A[13]))
  BY <1>1, <1>3, <1>5, ClaimsCb
<1>15. A[15] = invalid_inst \/ (Region(15, l, x) /\ Usable(A[15]))
  BY <1>1, <1>2, <1>3, <1>5, ClaimsCa
<1>16. A[k] = invalid_inst \/ (Region(k, l, x) /\ Usable(A[k]))
  BY <1>3, <1>7, <1>8, <1>9, <1>10, <1>11, <1>12, <1>13, <1>15
<1>. QED  BY <1>16 DEF A

(* decode_i_type makes a CSR access of every word with opcode 0x73 that it *)
(* claims.                                                                 *)
LEMMA CsrAttempt ==
  ASSUME NEW h \in Half, NEW l \in Half, NEW x, l % 128 = \h73
  PROVE  LET d == Attempts(h, l, x)[2]
         IN  d = invalid_inst \/ "has_csr_store" \in d.flags
<1> DEFINE code == l % 128
           rd  == Bits(l, 7, 5)
           f3  == Bits(l, 12, 3)
           rs1 == Bit(l, 15) + 2 * Bits(h, 0, 4)
           imm == SignExt(h \div 16, 12)
           A   == Attempts(h, l, x)
<1>1. rd \in Reg /\ rs1 \in Reg /\ imm \in Int
  BY Fields
<1>2. A[2] = decode_i_type(code, f3, rd, rs1, imm)
  BY DEF Attempts
<1>3. code = \h73
  OBVIOUS
<1>. HIDE DEF code, rd, f3, rs1, imm, A
<1>4. A[2] = invalid_inst \/ "has_csr_store" \in A[2].flags
  BY <1>1, <1>2, <1>3, ClaimsI
<1>. QED  BY <1>4 DEF A

LEMMA NotValid == ~IsValid(invalid_inst)
  BY DEF IsValid, invalid_inst, Inst

LEMMA LeastAttempt ==
  ASSUME NEW T, T \subseteq 1 .. 15, T # {}
  PROVE  Min(T) \in T /\ \A y \in T : Min(T) <= y
<1> DEFINE R == OpToRel(<, Nat)
<1>0. T \subseteq Nat
  OBVIOUS
<1>1. IsWellFoundedOn(R, Nat)
  BY NatLessThanWellFounded
<1>2. \A x, y \in Nat : <<y, x>> \in R <=> y < x
  BY DEF OpToRel
<1> HIDE DEF R
<1>3. PICK x \in T : \A y \in T : ~(<<y, x>> \in R)
  BY <1>0, <1>1, WFMin
<1>4. \A y \in T : ~(y < x)
  BY <1>0, <1>2, <1>3
<1>5. \A y \in T : x <= y
  BY <1>4
<1>. QED  BY <1>5 DEF Min

(* The decoders that claim a word. *)
Claims(h, l, x) == {i \in 1 .. 15 : IsValid(Attempts(h, l, x)[i])}

(* decode answers with the first claim. *)
LEMMA DecodeChooses ==
  ASSUME NEW h, NEW l, NEW x
  PROVE  /\ Claims(h, l, x) = {} => decode(h, l, x) = invalid_inst
         /\ Claims(h, l, x) # {} =>
              \E k \in Claims(h, l, x) : /\ decode(h, l, x) = Attempts(h, l, x)[k]
                                         /\ \A j \in Claims(h, l, x) : k <= j
<1>1. DOMAIN Attempts(h, l, x) = 1 .. 15
  BY DEF Attempts
<1>2. decode(h, l, x) = IF Claims(h, l, x) = {} THEN invalid_inst
                        ELSE Attempts(h, l, x)[Min(Claims(h, l, x))]
  BY <1>1 DEF decode, FirstValid, Claims
<1>3. Claims(h, l, x) \subseteq 1 .. 15
  BY DEF Claims
<1>. QED  BY <1>2, <1>3, LeastAttempt

LEMMA ClaimInRegion ==
  ASSUME NEW h \in Half, NEW l \in Half, NEW x, NEW k \in Claims(h, l, x)
  PROVE  /\ k \in 1 .. 15
         /\ Region(k, l, x)
         /\ Usable(Attempts(h, l, x)[k])
         /\ k <= 6 => "is_compressed" \notin Attempts(h, l, x)[k].flags
<1>1. k \in 1 .. 15 /\ Attempts(h, l, x)[k] # invalid_inst
  BY NotValid DEF Claims
<1>2. CASE k \in 1 .. 6
  BY <1>1, <1>2, FullAttempts DEF Plain
<1>3. CASE k \in 7 .. 15
  BY <1>1, <1>3, CompressedAttempts
<1>. QED  BY <1>1, <1>2, <1>3

-----------------------------------------------------------------------------
(* The word in hand and what decode made of it. *)
WordInv == /\ hi \in Half /\ lo \in Half
           /\ \/ inst = decode(hi, lo, xlen)
              \/ inst = invalid_inst /\ lo = 0

LEMMA WordInvariant == AnyWord => []WordInv
<1>1. Init => WordInv
  BY IsHalf DEF Init, WordInv
<1>2. WordInv /\ [\E h, l \in Half : Decode(h, l)]_vars => WordInv'
  <2> SUFFICES ASSUME WordInv, [\E h, l \in Half : Decode(h, l)]_vars
               PROVE  WordInv'
    OBVIOUS
  <2>1. CASE \E h, l \in Half : Decode(h, l)
    BY <2>1 DEF Decode, WordInv
  <2>2. CASE UNCHANGED vars
    BY <2>2 DEF vars, WordInv
  <2>. QED  BY <2>1, <2>2
<1>. QED  BY <1>1, <1>2, PTL DEF AnyWord

(* The words TLC tries are words. *)
LEMMA SampleIsAnyWord == Spec => AnyWord
<1>1. Next => \E h, l \in Half : Decode(h, l)
  <2>1. ASSUME DecodeFull PROVE \E h, l \in Half : Decode(h, l)
    <3>1. PICK code \in Opcodes, f3 \in 0 .. 7, f7 \in 0 .. 127, rd \in Rds, rs2 \in Rs2s :
            Decode(f7 * 512 + rs2 * 16, f3 * 4096 + rd * 128 + code)
      BY <2>1 DEF DecodeFull
    <3>2. code \in 0 .. 127 /\ rd \in 0 .. 31 /\ rs2 \in 0 .. 31
      BY SampleAssumption
    <3> DEFINE high == f7 * 512 + rs2 * 16
               low  == f3 * 4096 + rd * 128 + code
    <3>3. /\ f3 \in Int /\ 0 <= f3 /\ f3 <= 7 /\ f7 \in Int /\ 0 <= f7 /\ f7 <= 127
          /\ code \in Int /\ 0 <= code /\ code <= 127 /\ rd \in Int /\ 0 <= rd /\ rd <= 31
          /\ rs2 \in Int /\ 0 <= rs2 /\ rs2 <= 31
      BY <3>2
    <3>4. high \in Int /\ 0 <= high /\ high <= 65535
      BY <3>3
    <3>5. low \in Int /\ 0 <= low /\ low <= 65535
      BY <3>3
    <3>6. Decode(high, low)
      BY <3>1
    <3> HIDE DEF high, low
    <3>7. high \in Half /\ low \in Half
      BY <3>4, <3>5, IsHalf
    <3>. QED  BY <3>6, <3>7
  <2>2. ASSUME DecodeCompressed PROVE \E h, l \in Half : Decode(h, l)
    <3> DEFINE top == 65535
    <3>1. CompressedWords = {w \in 1 .. top : w % 4 # 3} /\ top \in Int
      BY DEF CompressedWords
    <3>4. \A w \in Int : 0 <= w /\ w <= top => w \in Half
      BY IsHalf
    <3> HIDE DEF top
    <3>2. CompressedWords \subseteq Half
      BY <3>1, <3>4
    <3>3. 0 \in Half
      BY IsHalf
    <3>. QED  BY <2>2, <3>2, <3>3 DEF DecodeCompressed
  <2>. QED  BY <2>1, <2>2 DEF Next
<1>. QED  BY <1>1, PTL DEF Spec, AnyWord

(* For every word and register width, prepare_eval can use what decode     *)
(* returns: register and CSR numbers index the tag files, a CSR access has *)
(* no rs2, a memory access has a base register and a store no rd.          *)
THEOREM DecodeOperandsUsable == AnyWord => []OperandsUsable
<1>1. WordInv => OperandsUsable
  <2> SUFFICES ASSUME WordInv PROVE Usable(inst)
    BY DEF OperandsUsable
  <2>1. hi \in Half /\ lo \in Half
    BY DEF WordInv
  <2>2. Usable(invalid_inst)
    BY PlainInst, FixedRegs DEF Plain
  <2>3. Usable(decode(hi, lo, xlen))
    BY <2>1, <2>2, DecodeChooses, ClaimInRegion
  <2>. QED  BY <2>2, <2>3 DEF WordInv
<1>. QED  BY <1>1, WordInvariant, PTL

-----------------------------------------------------------------------------
(* How a decoder of compressed words flags its answer: as compressed or as *)
(* an access to memory, never as both.                                     *)
Marks == {{"is_compressed"}, {"has_load"}, {"has_store"}}
Marked(d) == d = invalid_inst \/ d.flags \in Marks

LEMMA FormatsMarked ==
  /\ \A name, op, rd, rs1, imm : /\ Marked(i_type_inst(name, op, rd, rs1, imm, compressed))
                                 /\ Marked(i_type_inst(name, op, rd, rs1, imm, cload))
  /\ \A name, op, rs1, rs2, imm : /\ Marked(s_type_inst(name, op, rs1, rs2, imm, compressed))
                                  /\ Marked(s_type_inst(name, op, rs1, rs2, imm, cstore))
  /\ \A name, op, rd, imm : Marked(u_type_inst(name, op, rd, imm, compressed))
  /\ \A name, op, rd, rs1, rs2 : Marked(r_type_inst(name, op, rd, rs1, rs2, compressed))
  /\ Marked(invalid_inst)
<1>1. compressed \in Marks /\ cload \in Marks /\ cstore \in Marks
  BY FlagsFacts DEF Marks
<1>2. \A name, op, rd, rs1, rs2, rs3, imm, flags : flags \in Marks =>
         Marked(Inst(name, op, rd, rs1, rs2, rs3, imm, flags))
  BY InstFlags DEF Marked
<1>3. Marked(invalid_inst)
  BY DEF Marked
<1> HIDE DEF Marked, Marks
<1>. QED  BY <1>1, <1>2, <1>3 DEF i_type_inst, s_type_inst, u_type_inst, r_type_inst

LEMMA DecodersMark ==
  ASSUME NEW x, NEW q, NEW g, NEW f, NEW r, NEW s, NEW v
  PROVE  /\ Marked(decode_ci_type(x, q, g, r, v))
         /\ Marked(decode_css_type(x, q, g, r, v))
         /\ Marked(decode_cl_type(x, q, g, r, s, v))
         /\ Marked(decode_cs_type(x, q, g, r, s, v))
         /\ Marked(decode_cj_type(x, q, g, v))
         /\ Marked(decode_cr_type(q, f, r, s))
         /\ Marked(decode_cb_type(q, g, r, v))
         /\ Marked(decode_ca_type(q, f, v, r, s))
<1> USE FormatsMarked
<1>1. Marked(decode_ci_type(x, q, g, r, v))
  <2>1. Marked(decode_ci_type(x, 1, g, r, v))
    BY DEF decode_ci_type, If
  <2>2. Marked(decode_ci_type(x, 2, g, r, v))
    BY DEF decode_ci_type, If
  <2>3. q \notin {1, 2} => decode_ci_type(x, q, g, r, v) = invalid_inst
    BY DEF decode_ci_type
  <2>. QED  BY <2>1, <2>2, <2>3
<1>2. Marked(decode_css_type(x, q, g, r, v)) /\ Marked(decode_cs_type(x, q, g, r, s, v))
  BY DEF decode_css_type, decode_cs_type
<1>3. Marked(decode_cl_type(x, q, g, r, s, v)) /\ Marked(decode_cj_type(x, q, g, v))
  BY DEF decode_cl_type, decode_cj_type, If
<1>4. Marked(decode_cr_type(q, f, r, s)) /\ Marked(decode_cb_type(q, g, r, v))
  BY DEF decode_cr_type, decode_cb_type, If
<1>5. Marked(decode_ca_type(q, f, v, r, s))
  BY Zenon DEF decode_ca_type, If
<1>. QED  BY <1>1, <1>2, <1>3, <1>4, <1>5

LEMMA CompressedAttemptsMarked ==
  ASSUME NEW h, NEW l, NEW x, NEW k \in 7 .. 15
  PROVE  Marked(Attempts(h, l, x)[k])
<1> DEFINE A == Attempts(h, l, x)
<1> HIDE DEF Marked
<1>1. Marked(A[7]) /\ Marked(A[8]) /\ Marked(A[9])
  BY DecodersMark DEF Attempts
<1>2. Marked(A[10]) /\ Marked(A[11]) /\ Marked(A[12])
  BY DecodersMark DEF Attempts
<1>3. Marked(A[13]) /\ Marked(A[14]) /\ Marked(A[15])
  BY DecodersMark, FormatsMarked DEF Attempts, decode_ciw_type
<1> HIDE DEF A
<1>4. Marked(A[k])
  BY <1>1, <1>2, <1>3
<1>. QED  BY <1>4 DEF A

(* For every word and register width, what tag_opcodes goes on by is the   *)
(* length of the instruction, unless it is a compressed load or store: two *)
(* bytes too many after each of those.                                     *)
THEOREM DecodeStepIsLength == AnyWord => []StepIsLength
<1>1. WordInv => StepIsLength
  <2> SUFFICES ASSUME WordInv, IsValid(inst)
               PROVE  "is_compressed" \in inst.flags <=>
                         lo % 4 # 3 /\ inst.flags \cap {"has_load", "has_store"} = {}
    BY DEF StepIsLength, Passed, Length
  <2>1. hi \in Half /\ lo \in Half
    BY DEF WordInv
  <2>2. PICK k \in Claims(hi, lo, xlen) : inst = Attempts(hi, lo, xlen)[k]
    BY NotValid, DecodeChooses DEF WordInv
  <2>3. /\ k \in 1 .. 15 /\ Region(k, lo, xlen)
        /\ k <= 6 => "is_compressed" \notin inst.flags
    BY <2>1, <2>2, ClaimInRegion
  <2>4. CASE k <= 6
    <3>1. lo % 128 \in 0 .. 127 /\ lo % 4 = (lo % 128) % 4
      BY <2>1, InHalf, LowBits
    <3>2. lo % 4 = 3
      BY <2>3, <2>4, <3>1 DEF Region
    <3>. QED  BY <2>3, <2>4, <3>2
  <2>5. CASE k \in 7 .. 15
    <3>1. inst.flags \in Marks
      BY <2>2, <2>5, CompressedAttemptsMarked, NotValid DEF Marked
    <3>2. lo % 4 # 3
      BY <2>3, <2>5 DEF Region
    <3>. QED  BY <3>1, <3>2 DEF Marks
  <2>. QED  BY <2>3, <2>4, <2>5
<1>. QED  BY <1>1, WordInvariant, PTL

(* For every word and register width at most one decoder claims the word,  *)
(* except that opcode 0x73 may be claimed as a CSR access and as a system  *)
(* instruction; the order of decode() then makes it the CSR access.        *)
THEOREM DecodeFirstDecides == AnyWord => []FirstDecoderDecides
<1>1. WordInv => FirstDecoderDecides
  <2> SUFFICES ASSUME WordInv PROVE FirstDecoderDecides
    OBVIOUS
  <2> DEFINE claims == Claims(hi, lo, xlen)
  <2>1. hi \in Half /\ lo \in Half
    BY DEF WordInv
  <2>2. \A k \in claims : k \in 1 .. 15 /\ Region(k, lo, xlen)
    BY <2>1, ClaimInRegion
  <2>3. \A i, j \in claims : i < j => i = 2 /\ j = 6 /\ lo % 128 = \h73
    BY <2>1, <2>2, RegionsDisjoint
  <2>4. CASE \E i, j \in claims : i < j
    <3>1. 2 \in claims /\ 6 \in claims /\ lo % 128 = \h73
      BY <2>3, <2>4
    <3>2. \A k \in claims : k = 2 \/ k = 6
      BY <2>2, <2>3, <3>1
    <3>3. inst = Attempts(hi, lo, xlen)[2] /\ inst # invalid_inst
      <4>1. inst = decode(hi, lo, xlen)
        BY <3>1 DEF WordInv
      <4>2. PICK k \in claims : /\ inst = Attempts(hi, lo, xlen)[k]
                                /\ \A j \in claims : k <= j
        BY <3>1, <4>1, DecodeChooses
      <4>3. k = 2
        BY <3>1, <3>2, <4>2
      <4>. QED  BY <4>2, <4>3, <3>1, NotValid DEF Claims
    <3>4. "has_csr_store" \in inst.flags
      BY <2>1, <3>1, <3>3, CsrAttempt
    <3>5. claims = {2, 6}
      BY <3>1, <3>2
    <3>. QED  BY <3>1, <3>4, <3>5 DEF FirstDecoderDecides, Claims
  <2>5. CASE ~ \E i, j \in claims : i < j
    <3>1. \A i, j \in claims : i = j
      BY <2>2, <2>5
    <3>2. Cardinality(claims) <= 1
      <4>1. CASE claims = {}
        BY <4>1, FS_EmptySet
      <4>2. CASE claims # {}
        <5>1. PICK k : claims = {k}
          BY <3>1, <4>2
        <5>. QED  BY <5>1, FS_Singleton
      <4>. QED  BY <4>1, <4>2
    <3>. QED  BY <3>2 DEF FirstDecoderDecides, Claims
  <2>. QED  BY <2>4, <2>5
<1>. QED  BY <1>1, WordInvariant, PTL

-----------------------------------------------------------------------------
(* Compressed instructions and those they abbreviate *)

(* The operands of a format whose instructions access memory this way *)
HasR(i) == i.rd # none /\ i.rs1 # none /\ i.rs2 # none /\ i.rs3 = none /\ i.imm = none
HasI(i) == i.rd # none /\ i.rs1 # none /\ i.rs2 = none /\ i.rs3 = none /\ i.imm # none
HasS(i) == i.rd = none /\ i.rs1 # none /\ i.rs2 # none /\ i.rs3 = none /\ i.imm # none
HasU(i) == i.rd # none /\ i.rs1 = none /\ i.rs2 = none /\ i.rs3 = none /\ i.imm # none
Mem(i)  == i.flags \cap {"has_load", "has_store"}

LEMMA Shapes ==
  ASSUME NEW i, NEW j, Mem(i) = Mem(j),
         \/ HasR(i) /\ HasR(j)
         \/ HasI(i) /\ HasI(j)
         \/ HasS(i) /\ HasS(j)
         \/ HasU(i) /\ HasU(j)
  PROVE  Shape(i) = Shape(j)
<1>1. /\ (i.rd # none) = (j.rd # none) /\ (i.rs1 # none) = (j.rs1 # none)
      /\ (i.rs2 # none) = (j.rs2 # none) /\ (i.rs3 # none) = (j.rs3 # none)
      /\ (i.imm # none) = (j.imm # none)
  BY Zenon DEF HasR, HasI, HasS, HasU
<1>. QED  BY <1>1, Zenon DEF Shape, Mem

IOps == {"addi", "addiw", "slli", "jalr"}
ILoads == {"lw", "ld", "flw", "fld"}
SStores == {"sw", "sd", "fsw", "fsd"}
Branches == {"beq", "bne"}
UOps == {"lui", "jal"}
ROps == {"add", "sub", "xor", "or", "and", "subw", "addw"}

(* All there are of flags_t *)
Flags == {"has_load", "has_store", "has_csr_load", "has_csr_store", "is_compressed"}

(* What an instruction with this op looks like, compressed or not *)
Fits(i) == /\ i.flags \subseteq Flags
           /\ \/ i.op \in IOps /\ HasI(i) /\ Mem(i) = {}
              \/ i.op \in ILoads /\ HasI(i) /\ Mem(i) = {"has_load"}
              \/ i.op \in SStores /\ HasS(i) /\ Mem(i) = {"has_store"}
              \/ i.op \in Branches /\ HasS(i) /\ Mem(i) = {}
              \/ i.op \in UOps /\ HasU(i) /\ Mem(i) = {}
              \/ i.op \in ROps /\ HasR(i) /\ Mem(i) = {}

(* The op alone decides how an instruction that fits looks. *)
LEMMA OpSays ==
  ASSUME NEW i, Fits(i)
  PROVE  /\ i.op \in IOps \cup ILoads \cup SStores \cup Branches \cup UOps \cup ROps
         /\ i.op \in IOps => HasI(i) /\ Mem(i) = {}
         /\ i.op \in ILoads => HasI(i) /\ Mem(i) = {"has_load"}
         /\ i.op \in SStores => HasS(i) /\ Mem(i) = {"has_store"}
         /\ i.op \in Branches => HasS(i) /\ Mem(i) = {}
         /\ i.op \in UOps => HasU(i) /\ Mem(i) = {}
         /\ i.op \in ROps => HasR(i) /\ Mem(i) = {}
<1>1. /\ \A o \in IOps : o \notin ILoads \cup SStores \cup Branches \cup UOps \cup ROps
      /\ \A o \in ILoads : o \notin SStores \cup Branches \cup UOps \cup ROps
  BY DEF IOps, ILoads, SStores, Branches, UOps, ROps
<1>2. /\ \A o \in SStores : o \notin Branches \cup UOps \cup ROps
      /\ \A o \in Branches : o \notin UOps \cup ROps
      /\ \A o \in UOps : o \notin ROps
  BY DEF SStores, Branches, UOps, ROps
<1>. QED  BY <1>1, <1>2, Zenon DEF Fits

LEMMA SameOpSameShape ==
  ASSUME NEW i, NEW j, Fits(i), Fits(j), i.op = j.op
  PROVE  Shape(i) = Shape(j)
<1>1. CASE i.op \in IOps \cup ILoads
  <2>1. HasI(i) /\ HasI(j) /\ Mem(i) = Mem(j)
    BY <1>1, OpSays, Zenon
  <2>. QED  BY <2>1, Shapes, Zenon
<1>2. CASE i.op \in SStores \cup Branches
  <2>1. HasS(i) /\ HasS(j) /\ Mem(i) = Mem(j)
    BY <1>2, OpSays, Zenon
  <2>. QED  BY <2>1, Shapes, Zenon
<1>3. CASE i.op \in UOps
  <2>1. HasU(i) /\ HasU(j) /\ Mem(i) = Mem(j)
    BY <1>3, OpSays, Zenon
  <2>. QED  BY <2>1, Shapes, Zenon
<1>4. CASE i.op \in ROps
  <2>1. HasR(i) /\ HasR(j) /\ Mem(i) = Mem(j)
    BY <1>4, OpSays, Zenon
  <2>. QED  BY <2>1, Shapes, Zenon
<1>. QED  BY <1>1, <1>2, <1>3, <1>4, OpSays

LEMMA FormatsFit ==
  ASSUME NEW name, NEW op, NEW rd, NEW rs1, NEW rs2, NEW imm, NEW flags,
         flags \in {{}, compressed}
  PROVE  /\ op \in IOps => Fits(i_type_inst(name, op, rd, rs1, imm, flags))
         /\ op \in ILoads => Fits(i_type_inst(name, op, rd, rs1, imm, {"has_load"}))
         /\ op \in SStores => Fits(s_type_inst(name, op, rs1, rs2, imm, {"has_store"}))
         /\ op \in Branches => Fits(s_type_inst(name, op, rs1, rs2, imm, flags))
         /\ op \in UOps => Fits(u_type_inst(name, op, rd, imm, flags))
         /\ op \in ROps => Fits(r_type_inst(name, op, rd, rs1, rs2, flags))
<1>1. /\ flags \cap {"has_load", "has_store"} = {}
      /\ {"has_load"} \cap {"has_load", "has_store"} = {"has_load"}
      /\ {"has_store"} \cap {"has_load", "has_store"} = {"has_store"}
  BY DEF compressed
<1>2. op \in IOps => Fits(i_type_inst(name, op, rd, rs1, imm, flags))
  <2> DEFINE i == i_type_inst(name, op, rd, rs1, imm, flags)
  <2>1. i.op = op /\ HasI(i) /\ Mem(i) = {} /\ i.flags \subseteq Flags
    BY <1>1, NoneSome DEF Flags, compressed, i_type_inst, Inst, HasI, Mem
  <2> HIDE DEF i
  <2>2. op \in IOps => Fits(i)
    BY <2>1, Zenon DEF Fits
  <2>. QED  BY <2>2 DEF i
<1>3. op \in ILoads => Fits(i_type_inst(name, op, rd, rs1, imm, {"has_load"}))
  <2> DEFINE i == i_type_inst(name, op, rd, rs1, imm, {"has_load"})
  <2>1. i.op = op /\ HasI(i) /\ Mem(i) = {"has_load"} /\ i.flags \subseteq Flags
    BY <1>1, NoneSome DEF Flags, compressed, i_type_inst, Inst, HasI, Mem
  <2> HIDE DEF i
  <2>2. op \in ILoads => Fits(i)
    BY <2>1, Zenon DEF Fits
  <2>. QED  BY <2>2 DEF i
<1>4. op \in SStores => Fits(s_type_inst(name, op, rs1, rs2, imm, {"has_store"}))
  <2> DEFINE i == s_type_inst(name, op, rs1, rs2, imm, {"has_store"})
  <2>1. i.op = op /\ HasS(i) /\ Mem(i) = {"has_store"} /\ i.flags \subseteq Flags
    BY <1>1, NoneSome DEF Flags, compressed, s_type_inst, Inst, HasS, Mem
  <2> HIDE DEF i
  <2>2. op \in SStores => Fits(i)
    BY <2>1, Zenon DEF Fits
  <2>. QED  BY <2>2 DEF i
<1>5. op \in Branches => Fits(s_type_inst(name, op, rs1, rs2, imm, flags))
  <2> DEFINE i == s_type_inst(name, op, rs1, rs2, imm, flags)
  <2>1. i.op = op /\ HasS(i) /\ Mem(i) = {} /\ i.flags \subseteq Flags
    BY <1>1, NoneSome DEF Flags, compressed, s_type_inst, Inst, HasS, Mem
  <2> HIDE DEF i
  <2>2. op \in Branches => Fits(i)
    BY <2>1, Zenon DEF Fits
  <2>. QED  BY <2>2 DEF i
<1>6. op \in UOps => Fits(u_type_inst(name, op, rd, imm, flags))
  <2> DEFINE i == u_type_inst(name, op, rd, imm, flags)
  <2>1. i.op = op /\ HasU(i) /\ Mem(i) = {} /\ i.flags \subseteq Flags
    BY <1>1, NoneSome DEF Flags, compressed, u_type_inst, Inst, HasU, Mem
  <2> HIDE DEF i
  <2>2. op \in UOps => Fits(i)
    BY <2>1, Zenon DEF Fits
  <2>. QED  BY <2>2 DEF i
<1>7. op \in ROps => Fits(r_type_inst(name, op, rd, rs1, rs2, flags))
  <2> DEFINE i == r_type_inst(name, op, rd, rs1, rs2, flags)
  <2>1. i.op = op /\ HasR(i) /\ Mem(i) = {} /\ i.flags \subseteq Flags
    BY <1>1, NoneSome DEF Flags, compressed, r_type_inst, Inst, HasR, Mem
  <2> HIDE DEF i
  <2>2. op \in ROps => Fits(i)
    BY <2>1, Zenon DEF Fits
  <2>. QED  BY <2>2 DEF i
<1>. QED  BY <1>2, <1>3, <1>4, <1>5, <1>6, <1>7

(* Every decoder of compressed words answers with such an instruction. *)
LEMMA CompressedFits ==
  /\ \A name, rd, rs1, imm : \A op \in IOps : Fits(i_type_inst(name, op, rd, rs1, imm, compressed))
  /\ \A name, rd, rs1, imm : \A op \in ILoads : Fits(i_type_inst(name, op, rd, rs1, imm, cload))
  /\ \A name, rs1, rs2, imm : \A op \in SStores : Fits(s_type_inst(name, op, rs1, rs2, imm, cstore))
  /\ \A name, rs1, rs2, imm : \A op \in Branches : Fits(s_type_inst(name, op, rs1, rs2, imm, compressed))
  /\ \A name, rd, imm : \A op \in UOps : Fits(u_type_inst(name, op, rd, imm, compressed))
  /\ \A name, rd, rs1, rs2 : \A op \in ROps : Fits(r_type_inst(name, op, rd, rs1, rs2, compressed))
  BY FormatsFit, FlagsFacts

LEMMA FitsCi ==
  ASSUME NEW x, NEW quad, NEW f3, NEW rds1, NEW imm
  PROVE  LET d == decode_ci_type(x, quad, f3, rds1, imm) IN d = invalid_inst \/ Fits(d)
<1> DEFINE Good(d) == d = invalid_inst \/ Fits(d)
<1>1. \A name, rd, rs1, v : /\ Good(i_type_inst(name, "addi", rd, rs1, v, compressed))
                            /\ Good(i_type_inst(name, "addiw", rd, rs1, v, compressed))
                            /\ Good(i_type_inst(name, "slli", rd, rs1, v, compressed))
  BY CompressedFits DEF IOps
<1>2. \A name, rd, rs1, v : /\ Good(i_type_inst(name, "lw", rd, rs1, v, cload))
                            /\ Good(i_type_inst(name, "ld", rd, rs1, v, cload))
                            /\ Good(i_type_inst(name, "flw", rd, rs1, v, cload))
                            /\ Good(i_type_inst(name, "fld", rd, rs1, v, cload))
  BY CompressedFits DEF ILoads
<1>3. \A name, rd, v : Good(u_type_inst(name, "lui", rd, v, compressed))
  BY CompressedFits DEF UOps
<1>4. Good(invalid_inst)
  OBVIOUS
<1> HIDE DEF Good
<1>5. Good(decode_ci_type(x, 1, f3, rds1, imm))
  BY <1>1, <1>3, <1>4 DEF decode_ci_type, If
<1>6. Good(decode_ci_type(x, 2, f3, rds1, imm))
  BY <1>1, <1>2, <1>4 DEF decode_ci_type, If
<1>7. quad \notin {1, 2} => decode_ci_type(x, quad, f3, rds1, imm) = invalid_inst
  BY DEF decode_ci_type
<1>. QED  BY <1>5, <1>6, <1>7 DEF Good

LEMMA FitsOthers ==
  ASSUME NEW x, NEW quad, NEW f3, NEW f4, NEW a, NEW b, NEW imm
  PROVE  /\ LET d == decode_css_type(x, quad, f3, a, imm) IN d = invalid_inst \/ Fits(d)
         /\ LET d == decode_cl_type(x, quad, f3, a, b, imm) IN d = invalid_inst \/ Fits(d)
         /\ LET d == decode_cs_type(x, quad, f3, a, b, imm) IN d = invalid_inst \/ Fits(d)
         /\ LET d == decode_cj_type(x, quad, f3, imm) IN d = invalid_inst \/ Fits(d)
         /\ LET d == decode_cr_type(quad, f4, a, b) IN d = invalid_inst \/ Fits(d)
         /\ LET d == decode_cb_type(quad, f3, a, imm) IN d = invalid_inst \/ Fits(d)
<1>1. \A name, rd, rs1, v : /\ Fits(i_type_inst(name, "lw", rd, rs1, v, cload))
                            /\ Fits(i_type_inst(name, "ld", rd, rs1, v, cload))
                            /\ Fits(i_type_inst(name, "flw", rd, rs1, v, cload))
                            /\ Fits(i_type_inst(name, "fld", rd, rs1, v, cload))
                            /\ Fits(i_type_inst(name, "jalr", rd, rs1, v, compressed))
  BY CompressedFits DEF ILoads, IOps
<1>2. \A name, rs1, rs2, v : /\ Fits(s_type_inst(name, "sw", rs1, rs2, v, cstore))
                             /\ Fits(s_type_inst(name, "sd", rs1, rs2, v, cstore))
                             /\ Fits(s_type_inst(name, "fsw", rs1, rs2, v, cstore))
                             /\ Fits(s_type_inst(name, "fsd", rs1, rs2, v, cstore))
                             /\ Fits(s_type_inst(name, "beq", rs1, rs2, v, compressed))
                             /\ Fits(s_type_inst(name, "bne", rs1, rs2, v, compressed))
  BY CompressedFits DEF SStores, Branches
<1>3. \A name, rd, rs1, rs2, v : /\ Fits(u_type_inst(name, "jal", rd, v, compressed))
                                 /\ Fits(r_type_inst(name, "add", rd, rs1, rs2, compressed))
  BY CompressedFits DEF UOps, ROps
<1>4. LET d == decode_css_type(x, quad, f3, a, imm) IN d = invalid_inst \/ Fits(d)
  BY <1>2 DEF decode_css_type
<1>5. LET d == decode_cl_type(x, quad, f3, a, b, imm) IN d = invalid_inst \/ Fits(d)
  BY <1>1 DEF decode_cl_type
<1>6. LET d == decode_cs_type(x, quad, f3, a, b, imm) IN d = invalid_inst \/ Fits(d)
  BY <1>2 DEF decode_cs_type
<1>7. LET d == decode_cj_type(x, quad, f3, imm) IN d = invalid_inst \/ Fits(d)
  BY <1>3 DEF decode_cj_type, If
<1>8. LET d == decode_cr_type(quad, f4, a, b) IN d = invalid_inst \/ Fits(d)
  BY <1>1, <1>3 DEF decode_cr_type, If
<1>9. LET d == decode_cb_type(quad, f3, a, imm) IN d = invalid_inst \/ Fits(d)
  BY <1>2 DEF decode_cb_type
<1>. QED  BY <1>4, <1>5, <1>6, <1>7, <1>8, <1>9

LEMMA FitsCa ==
  ASSUME NEW quad, NEW f6, NEW f2, NEW a, NEW b
  PROVE  LET d == decode_ca_type(quad, f6, f2, a, b) IN d = invalid_inst \/ Fits(d)
<1> DEFINE op == IF quad = 1 /\ f6 \in DOMAIN CaTable THEN Pick(CaTable[f6], f2) ELSE ""
<1>1. op = "" \/ op \in ROps
  <2>1. DOMAIN CaTable = {\h23, \h27}
    BY DEF CaTable
  <2>2. /\ CaTable[\h23] = [g \in 0 .. 3 |-> <<"sub", "xor", "or", "and">>[g + 1]]
        /\ CaTable[\h27] = [g \in 0 .. 1 |-> <<"subw", "addw">>[g + 1]]
    BY DEF CaTable, ByF3
  <2>3. /\ \A g \in 0 .. 3 : <<"sub", "xor", "or", "and">>[g + 1] \in ROps
        /\ \A g \in 0 .. 1 : <<"subw", "addw">>[g + 1] \in ROps
    BY DEF ROps
  <2>4. Pick(CaTable[\h23], f2) \in ROps \/ Pick(CaTable[\h23], f2) = ""
    BY <2>2, <2>3 DEF Pick
  <2>5. Pick(CaTable[\h27], f2) \in ROps \/ Pick(CaTable[\h27], f2) = ""
    BY <2>2, <2>3 DEF Pick
  <2>. QED  BY <2>1, <2>4, <2>5
<1>2. decode_ca_type(quad, f6, f2, a, b) =
        IF op # "" THEN r_type_inst("c." \o op, op, a, a, b, compressed) ELSE invalid_inst
  BY DEF decode_ca_type, If
<1> HIDE DEF op
<1>. QED  BY <1>1, <1>2, CompressedFits, Zenon

LEMMA CompressedAttemptsFit ==
  ASSUME NEW h, NEW l, NEW x, NEW k \in 7 .. 15
  PROVE  LET d == Attempts(h, l, x)[k] IN d = invalid_inst \/ Fits(d)
<1> DEFINE A == Attempts(h, l, x)
           Good(d) == d = invalid_inst \/ Fits(d)
<1>1. \A q, g, r, s, v, f : /\ Good(decode_ci_type(x, q, g, r, v))
                            /\ Good(decode_css_type(x, q, g, r, v))
                            /\ Good(decode_cl_type(x, q, g, r, s, v))
                            /\ Good(decode_cs_type(x, q, g, r, s, v))
                            /\ Good(decode_cj_type(x, q, g, v))
                            /\ Good(decode_cr_type(q, f, r, s))
                            /\ Good(decode_cb_type(q, g, r, v))
                            /\ Good(decode_ca_type(q, f, v, r, s))
  BY FitsCi, FitsOthers, FitsCa
<1>2. Good(decode_ciw_type)
  BY DEF decode_ciw_type
<1> HIDE DEF Good
<1>3. Good(A[7]) /\ Good(A[8]) /\ Good(A[9])
  BY <1>1 DEF Attempts
<1>4. Good(A[10]) /\ Good(A[11]) /\ Good(A[12])
  BY <1>1 DEF Attempts
<1>5. Good(A[13]) /\ Good(A[14]) /\ Good(A[15])
  BY <1>1, <1>2 DEF Attempts
<1> HIDE DEF A
<1>6. Good(A[k])
  BY <1>3, <1>4, <1>5
<1>. QED  BY <1>6 DEF Good, A

-----------------------------------------------------------------------------
(* The full-size words with these codes and their fields. *)
LEMMA WordFields ==
  ASSUME NEW code \in 0 .. 127, NEW f3 \in 0 .. 7, NEW f7 \in {0, 32}
  PROVE  /\ Word(code, f3, f7)[1] \in Half /\ Bits(Word(code, f3, f7)[1], 9, 7) = f7
         /\ Word(code, f3, f7)[2] \in Half /\ Bits(Word(code, f3, f7)[2], 12, 3) = f3
<1> DEFINE h == f7 * 512
           l == f3 * 4096 + 128 + code
<1>1. Word(code, f3, f7)[1] = h /\ Word(code, f3, f7)[2] = l
  BY DEF Word
<1>2. h \in Half /\ Bits(h, 9, 7) = f7
  <2>1. h = 0 \/ h = 16384
    OBVIOUS
  <2>2. h \in Half
    BY <2>1, IsHalf
  <2>3. Bits(h, 9, 7) = f7
    BY DEF Bits
  <2>. QED  BY <2>2, <2>3
<1>3. l \in Int /\ 0 <= l /\ l <= 65535
  OBVIOUS
<1>4. l \in Half
  BY <1>3, IsHalf
<1>5. Bits(l, 12, 3) = f3
  <2>1. l \div 4096 = f3
    OBVIOUS
  <2>2. f3 % 8 = f3
    OBVIOUS
  <2>3. Bits(l, 12, 3) = (l \div 4096) % 8
    BY DEF Bits
  <2>. QED  BY <2>1, <2>2, <2>3
<1>. QED  BY <1>1, <1>2, <1>4, <1>5

(* Where one decoder claims a word that is no CSR access, it decides. *)
LEMMA OnlyClaim ==
  ASSUME NEW h \in Half, NEW l \in Half, NEW x, NEW k \in 1 .. 15,
         IsValid(Attempts(h, l, x)[k]), l % 128 # \h73
  PROVE  decode(h, l, x) = Attempts(h, l, x)[k]
<1>1. k \in Claims(h, l, x)
  BY DEF Claims
<1>2. PICK j \in Claims(h, l, x) : decode(h, l, x) = Attempts(h, l, x)[j] /\ (\A i \in Claims(h, l, x) : j <= i)
  BY <1>1, DecodeChooses
<1>3. j \in 1 .. 15 /\ Region(j, l, x) /\ Region(k, l, x) /\ j <= k
  <2>1. j \in 1 .. 15 /\ Region(j, l, x)
    BY <1>2, ClaimInRegion, Zenon
  <2>2. Region(k, l, x)
    BY <1>1, ClaimInRegion, Zenon
  <2>3. j <= k
    BY <1>1, <1>2, Zenon
  <2>. QED  BY <2>1, <2>2, <2>3
<1>4. j = k
  BY <1>3, RegionsDisjoint
<1>. QED  BY <1>2, <1>4

(* The tables hold the names they list. *)
LEMMA PickAt ==
  ASSUME NEW names, NEW g \in 0 .. Len(names) - 1
  PROVE  Pick(ByF3(names), g) = names[g + 1] /\ ByF3(names)[g] = names[g + 1]
  BY DEF Pick, ByF3
LEMMA TableNames ==
  /\ Pick(OpTable[0], 0) = "add" /\ Pick(OpTable[0], 4) = "xor"
  /\ Pick(OpTable[0], 6) = "or" /\ Pick(OpTable[0], 7) = "and"
  /\ Pick(OpTable[32], 0) = "sub"
  /\ Pick(Op32Table[0], 0) = "addw" /\ Pick(Op32Table[32], 0) = "subw"
  /\ Pick(LoadTable, 2) = "lw" /\ Pick(LoadTable, 3) = "ld"
  /\ Pick(FpLoadTable, 2) = "flw" /\ Pick(FpLoadTable, 3) = "fld"
  /\ OpImmTable[0] = "addi"
  /\ Pick(StoreTable, 2) = "sw" /\ Pick(StoreTable, 3) = "sd"
  /\ Pick(FpStoreTable, 2) = "fsw" /\ Pick(FpStoreTable, 3) = "fsd"
  /\ Pick(BranchTable, 0) = "beq" /\ Pick(BranchTable, 1) = "bne"
<1>1. /\ Pick(OpTable[0], 0) = "add" /\ Pick(OpTable[0], 4) = "xor"
      /\ Pick(OpTable[0], 6) = "or" /\ Pick(OpTable[0], 7) = "and"
  <2> DEFINE names == <<"add", "sll", "slt", "sltu", "xor", "srl", "or", "and">>
  <2>1. OpTable[0] = ByF3(names)
    BY DEF OpTable
  <2>2. Len(names) = 8 /\ names[1] = "add" /\ names[5] = "xor" /\ names[7] = "or" /\ names[8] = "and"
    OBVIOUS
  <2> HIDE DEF names
  <2>3. \A g \in 0 .. 7 : Pick(ByF3(names), g) = names[g + 1]
    BY <2>2, PickAt
  <2>. QED  BY <2>1, <2>2, <2>3
<1>2. Pick(OpTable[32], 0) = "sub"
  <2> DEFINE names == <<"sub", "", "", "", "", "sra">>
  <2>1. OpTable[32] = ByF3(names)
    BY DEF OpTable
  <2>2. Len(names) = 6 /\ names[1] = "sub"
    OBVIOUS
  <2> HIDE DEF names
  <2>. QED  BY <2>1, <2>2, PickAt
<1>3. Pick(Op32Table[0], 0) = "addw"
  <2> DEFINE names == <<"addw", "", "", "", "", "srlw">>
  <2>1. Op32Table[0] = ByF3(names)
    BY DEF Op32Table
  <2>2. Len(names) = 6 /\ names[1] = "addw"
    OBVIOUS
  <2> HIDE DEF names
  <2>. QED  BY <2>1, <2>2, PickAt
<1>4. Pick(Op32Table[32], 0) = "subw"
  <2> DEFINE names == <<"subw", "", "", "", "", "sraw">>
  <2>1. Op32Table[32] = ByF3(names)
    BY DEF Op32Table
  <2>2. Len(names) = 6 /\ names[1] = "subw"
    OBVIOUS
  <2> HIDE DEF names
  <2>. QED  BY <2>1, <2>2, PickAt
<1>5. Pick(LoadTable, 2) = "lw" /\ Pick(LoadTable, 3) = "ld"
  BY DEF Pick, LoadTable, ByF3
<1>6. Pick(FpLoadTable, 2) = "flw" /\ Pick(FpLoadTable, 3) = "fld"
  <2> DEFINE names == <<"", "", "flw", "fld", "flq">>
  <2>1. Len(names) = 5 /\ names[3] = "flw" /\ names[4] = "fld"
    OBVIOUS
  <2>2. FpLoadTable = ByF3(names)
    BY DEF FpLoadTable
  <2> HIDE DEF names
  <2>3. 2 \in 0 .. Len(names) - 1 /\ 3 \in 0 .. Len(names) - 1
    BY <2>1
  <2>4. Pick(ByF3(names), 2) = names[3]
    BY <2>3, PickAt
  <2>5. Pick(ByF3(names), 3) = names[4]
    BY <2>3, PickAt
  <2>. QED  BY <2>1, <2>2, <2>4, <2>5
<1>7. OpImmTable[0] = "addi"
  <2> DEFINE names == <<"addi", "", "slti", "sltiu", "xori", "", "ori", "andi">>
  <2>1. Len(names) = 8 /\ names[1] = "addi"
    OBVIOUS
  <2>2. OpImmTable = ByF3(names)
    BY DEF OpImmTable
  <2> HIDE DEF names
  <2>. QED  BY <2>1, <2>2, PickAt
<1>8. Pick(StoreTable, 2) = "sw" /\ Pick(StoreTable, 3) = "sd"
  BY DEF Pick, StoreTable, ByF3
<1>9. Pick(FpStoreTable, 2) = "fsw" /\ Pick(FpStoreTable, 3) = "fsd"
  <2> DEFINE names == <<"", "", "fsw", "fsd", "fsq">>
  <2>1. Len(names) = 5 /\ names[3] = "fsw" /\ names[4] = "fsd"
    OBVIOUS
  <2>2. FpStoreTable = ByF3(names)
    BY DEF FpStoreTable
  <2> HIDE DEF names
  <2>3. 2 \in 0 .. Len(names) - 1 /\ 3 \in 0 .. Len(names) - 1
    BY <2>1
  <2>4. Pick(ByF3(names), 2) = names[3]
    BY <2>3, PickAt
  <2>5. Pick(ByF3(names), 3) = names[4]
    BY <2>3, PickAt
  <2>. QED  BY <2>1, <2>2, <2>4, <2>5
<1>10. Pick(BranchTable, 0) = "beq" /\ Pick(BranchTable, 1) = "bne"
  <2> DEFINE names == <<"beq", "bne", "", "", "blt", "bge", "bltu", "bgeu">>
  <2>1. Len(names) = 8 /\ names[1] = "beq" /\ names[2] = "bne"
    OBVIOUS
  <2>2. BranchTable = ByF3(names)
    BY DEF BranchTable
  <2> HIDE DEF names
  <2>. QED  BY <2>1, <2>2, PickAt
<1>. QED  BY <1>1, <1>2, <1>3, <1>4, <1>5, <1>6, <1>7, <1>8, <1>9, <1>10

LEMMA ByLoadTable ==
  ASSUME NEW f3, NEW rd, NEW rs1, NEW imm
  PROVE  decode_i_type(\h03, f3, rd, rs1, imm) = IF Pick(LoadTable, f3) = "" THEN invalid_inst
           ELSE i_type_inst(Pick(LoadTable, f3), Pick(LoadTable, f3), rd, rs1, imm, {"has_load"})
  BY DEF decode_i_type

LEMMA ByFpLoadTable ==
  ASSUME NEW f3, NEW rd, NEW rs1, NEW imm
  PROVE  decode_i_type(\h07, f3, rd, rs1, imm) = IF Pick(FpLoadTable, f3) = "" THEN invalid_inst
           ELSE i_type_inst(Pick(FpLoadTable, f3), Pick(FpLoadTable, f3), rd, rs1, imm, {"has_load"})
  BY DEF decode_i_type

LEMMA ByStoreTable ==
  ASSUME NEW f3, NEW rs1, NEW rs2, NEW imm
  PROVE  decode_s_type(\h23, f3, rs1, rs2, imm) = IF Pick(StoreTable, f3) = "" THEN invalid_inst
           ELSE s_type_inst(Pick(StoreTable, f3), Pick(StoreTable, f3), rs1, rs2, imm, {"has_store"})
  BY DEF decode_s_type

LEMMA ByFpStoreTable ==
  ASSUME NEW f3, NEW rs1, NEW rs2, NEW imm
  PROVE  decode_s_type(\h27, f3, rs1, rs2, imm) = IF Pick(FpStoreTable, f3) = "" THEN invalid_inst
           ELSE s_type_inst(Pick(FpStoreTable, f3), Pick(FpStoreTable, f3), rs1, rs2, imm, {"has_store"})
  BY DEF decode_s_type

LEMMA ByBranchTable ==
  ASSUME NEW f3, NEW rs1, NEW rs2, NEW imm
  PROVE  decode_s_type(\h63, f3, rs1, rs2, imm) = IF Pick(BranchTable, f3) = "" THEN invalid_inst
           ELSE s_type_inst(Pick(BranchTable, f3), Pick(BranchTable, f3), rs1, rs2, BranchImm(imm), {})
  BY DEF decode_s_type

(* The name decode_r_type looks up. *)
RName(code, f3, f7) ==
  CASE code = \h33 /\ f7 \in DOMAIN OpTable -> Pick(OpTable[f7], f3)
    [] code = \h3b /\ f3 = 1 -> "sllw"
    [] code = \h3b /\ f3 # 1 /\ f7 \in DOMAIN Op32Table -> Pick(Op32Table[f7], f3)
    [] code = \h2f /\ f7 \div 4 \in DOMAIN AmoTable -> Pick(AmoTable[f7 \div 4], f3 - 1)
    [] OTHER -> ""

LEMMA ByRName ==
  ASSUME NEW code, NEW f3, NEW f7, NEW rd, NEW rs1, NEW rs2
  PROVE  decode_r_type(code, f3, f7, rd, rs1, rs2) =
           LET n == RName(code, f3, f7)
           IN  CASE n = "" -> invalid_inst
                 [] n \in {"lr.w", "lr.d"} ->
                       Inst(n, n, some(rd), some(rs1), none, none, none, {"has_load"})
                 [] OTHER -> r_type_inst(n, OpOf(n), rd, rs1, rs2, {})
  BY Zenon DEF decode_r_type, RName

LEMMA BasesR ==
  ASSUME NEW rd, NEW rs1, NEW rs2
  PROVE  /\ decode_r_type(\h33, 0, 0, rd, rs1, rs2) = r_type_inst("add", "add", rd, rs1, rs2, {})
         /\ decode_r_type(\h33, 0, 32, rd, rs1, rs2) = r_type_inst("sub", "sub", rd, rs1, rs2, {})
         /\ decode_r_type(\h33, 4, 0, rd, rs1, rs2) = r_type_inst("xor", "xor", rd, rs1, rs2, {})
         /\ decode_r_type(\h33, 6, 0, rd, rs1, rs2) = r_type_inst("or", "or", rd, rs1, rs2, {})
         /\ decode_r_type(\h33, 7, 0, rd, rs1, rs2) = r_type_inst("and", "and", rd, rs1, rs2, {})
         /\ decode_r_type(\h3b, 0, 32, rd, rs1, rs2) = r_type_inst("subw", "subw", rd, rs1, rs2, {})
         /\ decode_r_type(\h3b, 0, 0, rd, rs1, rs2) = r_type_inst("addw", "addw", rd, rs1, rs2, {})
<1>1. \A n \in ROps : OpOf(n) = n /\ n # "" /\ n \notin {"lr.w", "lr.d"}
  BY DEF OpOf, ROps
<1>2. ASSUME NEW code, NEW f3, NEW f7, NEW n \in ROps, RName(code, f3, f7) = n
      PROVE  decode_r_type(code, f3, f7, rd, rs1, rs2) = r_type_inst(n, n, rd, rs1, rs2, {})
  <2>1. decode_r_type(code, f3, f7, rd, rs1, rs2) =
          CASE n = "" -> invalid_inst
            [] n \in {"lr.w", "lr.d"} ->
                  Inst(n, n, some(rd), some(rs1), none, none, none, {"has_load"})
            [] OTHER -> r_type_inst(n, OpOf(n), rd, rs1, rs2, {})
    BY <1>2, ByRName, Zenon
  <2>. QED  BY <1>1, <2>1
<1>3. \A f3 : /\ RName(\h33, f3, 0) = Pick(OpTable[0], f3)
              /\ RName(\h33, f3, 32) = Pick(OpTable[32], f3)
  <2>1. DOMAIN OpTable = {0, 1, 32}
    BY DEF OpTable
  <2>. QED  BY <2>1 DEF RName
<1>4. /\ RName(\h3b, 0, 0) = Pick(Op32Table[0], 0)
      /\ RName(\h3b, 0, 32) = Pick(Op32Table[32], 0)
  <2>1. DOMAIN Op32Table = {0, 1, 32}
    BY DEF Op32Table
  <2>. QED  BY <2>1 DEF RName
<1>5. /\ RName(\h33, 0, 0) = "add" /\ RName(\h33, 0, 32) = "sub" /\ RName(\h33, 4, 0) = "xor"
      /\ RName(\h33, 6, 0) = "or" /\ RName(\h33, 7, 0) = "and"
      /\ RName(\h3b, 0, 32) = "subw" /\ RName(\h3b, 0, 0) = "addw"
  BY <1>3, <1>4, TableNames
<1>6. "add" \in ROps /\ "sub" \in ROps /\ "xor" \in ROps /\ "or" \in ROps /\ "and" \in ROps
      /\ "subw" \in ROps /\ "addw" \in ROps
  BY DEF ROps
<1>7. decode_r_type(\h33, 0, 0, rd, rs1, rs2) = r_type_inst("add", "add", rd, rs1, rs2, {})
  BY <1>2, <1>5, <1>6, Zenon
<1>8. decode_r_type(\h33, 0, 32, rd, rs1, rs2) = r_type_inst("sub", "sub", rd, rs1, rs2, {})
  BY <1>2, <1>5, <1>6, Zenon
<1>9. decode_r_type(\h33, 4, 0, rd, rs1, rs2) = r_type_inst("xor", "xor", rd, rs1, rs2, {})
  BY <1>2, <1>5, <1>6, Zenon
<1>10. decode_r_type(\h33, 6, 0, rd, rs1, rs2) = r_type_inst("or", "or", rd, rs1, rs2, {})
  BY <1>2, <1>5, <1>6, Zenon
<1>11. decode_r_type(\h33, 7, 0, rd, rs1, rs2) = r_type_inst("and", "and", rd, rs1, rs2, {})
  BY <1>2, <1>5, <1>6, Zenon
<1>12. decode_r_type(\h3b, 0, 32, rd, rs1, rs2) = r_type_inst("subw", "subw", rd, rs1, rs2, {})
  BY <1>2, <1>5, <1>6, Zenon
<1>13. decode_r_type(\h3b, 0, 0, rd, rs1, rs2) = r_type_inst("addw", "addw", rd, rs1, rs2, {})
  BY <1>2, <1>5, <1>6, Zenon
<1>. QED  BY <1>7, <1>8, <1>9, <1>10, <1>11, <1>12, <1>13

LEMMA BasesI ==
  ASSUME NEW rd, NEW rs1, NEW imm
  PROVE  /\ \E v : decode_i_type(\h13, 0, rd, rs1, imm) = i_type_inst("addi", "addi", rd, rs1, v, {})
         /\ \E v : decode_i_type(\h1b, 0, rd, rs1, imm) = i_type_inst("addiw", "addiw", rd, rs1, v, {})
         /\ \E v : decode_i_type(\h13, 1, rd, rs1, imm) = i_type_inst("slli", "slli", rd, rs1, v, {})
         /\ \E v : decode_i_type(\h67, 0, rd, rs1, imm) = i_type_inst("jalr", "jalr", rd, rs1, v, {})
         /\ \E v : decode_i_type(\h03, 2, rd, rs1, imm) = i_type_inst("lw", "lw", rd, rs1, v, {"has_load"})
         /\ \E v : decode_i_type(\h03, 3, rd, rs1, imm) = i_type_inst("ld", "ld", rd, rs1, v, {"has_load"})
         /\ \E v : decode_i_type(\h07, 2, rd, rs1, imm) = i_type_inst("flw", "flw", rd, rs1, v, {"has_load"})
         /\ \E v : decode_i_type(\h07, 3, rd, rs1, imm) = i_type_inst("fld", "fld", rd, rs1, v, {"has_load"})
<1>4. /\ decode_i_type(\h13, 0, rd, rs1, imm) = i_type_inst("addi", "addi", rd, rs1, imm, {})
      /\ decode_i_type(\h1b, 0, rd, rs1, imm) = i_type_inst("addiw", "addiw", rd, rs1, imm, {})
      /\ decode_i_type(\h13, 1, rd, rs1, imm) = i_type_inst("slli", "slli", rd, rs1, imm % 64, {})
      /\ decode_i_type(\h67, 0, rd, rs1, imm) = i_type_inst("jalr", "jalr", rd, rs1, imm, {})
  BY TableNames DEF decode_i_type
<1>5. /\ decode_i_type(\h03, 2, rd, rs1, imm) = i_type_inst("lw", "lw", rd, rs1, imm, {"has_load"})
      /\ decode_i_type(\h03, 3, rd, rs1, imm) = i_type_inst("ld", "ld", rd, rs1, imm, {"has_load"})
  <2>1. Pick(LoadTable, 2) = "lw" /\ Pick(LoadTable, 3) = "ld"
    BY TableNames
  <2>2. "lw" # "" /\ "ld" # ""
    OBVIOUS
  <2>3. decode_i_type(\h03, 2, rd, rs1, imm) = i_type_inst("lw", "lw", rd, rs1, imm, {"has_load"})
    BY <2>1, <2>2, ByLoadTable, Zenon
  <2>4. decode_i_type(\h03, 3, rd, rs1, imm) = i_type_inst("ld", "ld", rd, rs1, imm, {"has_load"})
    BY <2>1, <2>2, ByLoadTable, Zenon
  <2>. QED  BY <2>3, <2>4
<1>6. /\ decode_i_type(\h07, 2, rd, rs1, imm) = i_type_inst("flw", "flw", rd, rs1, imm, {"has_load"})
      /\ decode_i_type(\h07, 3, rd, rs1, imm) = i_type_inst("fld", "fld", rd, rs1, imm, {"has_load"})
  <2>1. Pick(FpLoadTable, 2) = "flw" /\ Pick(FpLoadTable, 3) = "fld"
    BY TableNames
  <2>2. "flw" # "" /\ "fld" # ""
    OBVIOUS
  <2>3. decode_i_type(\h07, 2, rd, rs1, imm) = i_type_inst("flw", "flw", rd, rs1, imm, {"has_load"})
    BY <2>1, <2>2, ByFpLoadTable, Zenon
  <2>4. decode_i_type(\h07, 3, rd, rs1, imm) = i_type_inst("fld", "fld", rd, rs1, imm, {"has_load"})
    BY <2>1, <2>2, ByFpLoadTable, Zenon
  <2>. QED  BY <2>3, <2>4
<1>. QED  BY <1>4, <1>5, <1>6

LEMMA BasesSU ==
  ASSUME NEW rd, NEW rs1, NEW rs2, NEW imm, NEW upper
  PROVE  /\ \E v : decode_s_type(\h23, 2, rs1, rs2, imm) = s_type_inst("sw", "sw", rs1, rs2, v, {"has_store"})
         /\ \E v : decode_s_type(\h23, 3, rs1, rs2, imm) = s_type_inst("sd", "sd", rs1, rs2, v, {"has_store"})
         /\ \E v : decode_s_type(\h27, 2, rs1, rs2, imm) = s_type_inst("fsw", "fsw", rs1, rs2, v, {"has_store"})
         /\ \E v : decode_s_type(\h27, 3, rs1, rs2, imm) = s_type_inst("fsd", "fsd", rs1, rs2, v, {"has_store"})
         /\ \E v : decode_s_type(\h63, 0, rs1, rs2, imm) = s_type_inst("beq", "beq", rs1, rs2, v, {})
         /\ \E v : decode_s_type(\h63, 1, rs1, rs2, imm) = s_type_inst("bne", "bne", rs1, rs2, v, {})
         /\ \E v : decode_u_type(\h37, rd, upper) = u_type_inst("lui", "lui", rd, v, {})
         /\ \E v : decode_u_type(\h6f, rd, upper) = u_type_inst("jal", "jal", rd, v, {})
<1>4. /\ decode_s_type(\h23, 2, rs1, rs2, imm) = s_type_inst("sw", "sw", rs1, rs2, imm, {"has_store"})
      /\ decode_s_type(\h23, 3, rs1, rs2, imm) = s_type_inst("sd", "sd", rs1, rs2, imm, {"has_store"})
  <2>1. Pick(StoreTable, 2) = "sw" /\ Pick(StoreTable, 3) = "sd"
    BY TableNames
  <2>2. "sw" # "" /\ "sd" # ""
    OBVIOUS
  <2>3. decode_s_type(\h23, 2, rs1, rs2, imm) = s_type_inst("sw", "sw", rs1, rs2, imm, {"has_store"})
    BY <2>1, <2>2, ByStoreTable, Zenon
  <2>4. decode_s_type(\h23, 3, rs1, rs2, imm) = s_type_inst("sd", "sd", rs1, rs2, imm, {"has_store"})
    BY <2>1, <2>2, ByStoreTable, Zenon
  <2>. QED  BY <2>3, <2>4
<1>5. /\ decode_s_type(\h27, 2, rs1, rs2, imm) = s_type_inst("fsw", "fsw", rs1, rs2, imm, {"has_store"})
      /\ decode_s_type(\h27, 3, rs1, rs2, imm) = s_type_inst("fsd", "fsd", rs1, rs2, imm, {"has_store"})
  <2>1. Pick(FpStoreTable, 2) = "fsw" /\ Pick(FpStoreTable, 3) = "fsd"
    BY TableNames
  <2>2. "fsw" # "" /\ "fsd" # ""
    OBVIOUS
  <2>3. decode_s_type(\h27, 2, rs1, rs2, imm) = s_type_inst("fsw", "fsw", rs1, rs2, imm, {"has_store"})
    BY <2>1, <2>2, ByFpStoreTable, Zenon
  <2>4. decode_s_type(\h27, 3, rs1, rs2, imm) = s_type_inst("fsd", "fsd", rs1, rs2, imm, {"has_store"})
    BY <2>1, <2>2, ByFpStoreTable, Zenon
  <2>. QED  BY <2>3, <2>4
<1>6. /\ decode_s_type(\h63, 0, rs1, rs2, imm) = s_type_inst("beq", "beq", rs1, rs2, BranchImm(imm), {})
      /\ decode_s_type(\h63, 1, rs1, rs2, imm) = s_type_inst("bne", "bne", rs1, rs2, BranchImm(imm), {})
  <2>1. Pick(BranchTable, 0) = "beq" /\ Pick(BranchTable, 1) = "bne"
    BY TableNames
  <2>2. "beq" # "" /\ "bne" # ""
    OBVIOUS
  <2>3. decode_s_type(\h63, 0, rs1, rs2, imm) = s_type_inst("beq", "beq", rs1, rs2, BranchImm(imm), {})
    BY <2>1, <2>2, ByBranchTable, Zenon
  <2>4. decode_s_type(\h63, 1, rs1, rs2, imm) = s_type_inst("bne", "bne", rs1, rs2, BranchImm(imm), {})
    BY <2>1, <2>2, ByBranchTable, Zenon
  <2>. QED  BY <2>3, <2>4
<1>7. /\ \E v : decode_u_type(\h37, rd, upper) = u_type_inst("lui", "lui", rd, v, {})
      /\ \E v : decode_u_type(\h6f, rd, upper) = u_type_inst("jal", "jal", rd, v, {})
  BY DEF decode_u_type
<1>. QED  BY <1>4, <1>5, <1>6, <1>7

(* The instruction a decoder builds for one of these ops. *)
IsBase(d, op) == d.op = op /\ d.name = op /\ Fits(d)

LEMMA BuiltBase ==
  ASSUME NEW rd, NEW rs1, NEW rs2, NEW v
  PROVE  /\ \A op \in IOps : IsBase(i_type_inst(op, op, rd, rs1, v, {}), op)
         /\ \A op \in ILoads : IsBase(i_type_inst(op, op, rd, rs1, v, {"has_load"}), op)
         /\ \A op \in SStores : IsBase(s_type_inst(op, op, rs1, rs2, v, {"has_store"}), op)
         /\ \A op \in Branches : IsBase(s_type_inst(op, op, rs1, rs2, v, {}), op)
         /\ \A op \in UOps : IsBase(u_type_inst(op, op, rd, v, {}), op)
         /\ \A op \in ROps : IsBase(r_type_inst(op, op, rd, rs1, rs2, {}), op)
<1>1. \A op, flags : /\ i_type_inst(op, op, rd, rs1, v, flags).op = op
                     /\ i_type_inst(op, op, rd, rs1, v, flags).name = op
                     /\ s_type_inst(op, op, rs1, rs2, v, flags).op = op
                     /\ s_type_inst(op, op, rs1, rs2, v, flags).name = op
                     /\ u_type_inst(op, op, rd, v, flags).op = op
                     /\ u_type_inst(op, op, rd, v, flags).name = op
                     /\ r_type_inst(op, op, rd, rs1, rs2, flags).op = op
                     /\ r_type_inst(op, op, rd, rs1, rs2, flags).name = op
  BY DEF i_type_inst, s_type_inst, u_type_inst, r_type_inst, Inst
<1>. QED  BY <1>1, FormatsFit, Zenon DEF IsBase

(* The decoder of each such op answers to the codes of its base word. *)
BaseOf(op, k, code, f3, f7) ==
  \/ op = "addi" /\ k = 2 /\ code = \h13 /\ f3 = 0 /\ f7 = 0
  \/ op = "addiw" /\ k = 2 /\ code = \h1b /\ f3 = 0 /\ f7 = 0
  \/ op = "slli" /\ k = 2 /\ code = \h13 /\ f3 = 1 /\ f7 = 0
  \/ op = "lui" /\ k = 4 /\ code = \h37 /\ f3 = 0 /\ f7 = 0
  \/ op = "lw" /\ k = 2 /\ code = \h03 /\ f3 = 2 /\ f7 = 0
  \/ op = "ld" /\ k = 2 /\ code = \h03 /\ f3 = 3 /\ f7 = 0
  \/ op = "flw" /\ k = 2 /\ code = \h07 /\ f3 = 2 /\ f7 = 0
  \/ op = "fld" /\ k = 2 /\ code = \h07 /\ f3 = 3 /\ f7 = 0
  \/ op = "sw" /\ k = 3 /\ code = \h23 /\ f3 = 2 /\ f7 = 0
  \/ op = "sd" /\ k = 3 /\ code = \h23 /\ f3 = 3 /\ f7 = 0
  \/ op = "fsw" /\ k = 3 /\ code = \h27 /\ f3 = 2 /\ f7 = 0
  \/ op = "fsd" /\ k = 3 /\ code = \h27 /\ f3 = 3 /\ f7 = 0
  \/ op = "jal" /\ k = 4 /\ code = \h6f /\ f3 = 0 /\ f7 = 0
  \/ op = "jalr" /\ k = 2 /\ code = \h67 /\ f3 = 0 /\ f7 = 0
  \/ op = "beq" /\ k = 3 /\ code = \h63 /\ f3 = 0 /\ f7 = 0
  \/ op = "bne" /\ k = 3 /\ code = \h63 /\ f3 = 1 /\ f7 = 0
  \/ op = "add" /\ k = 1 /\ code = \h33 /\ f3 = 0 /\ f7 = 0
  \/ op = "sub" /\ k = 1 /\ code = \h33 /\ f3 = 0 /\ f7 = 32
  \/ op = "xor" /\ k = 1 /\ code = \h33 /\ f3 = 4 /\ f7 = 0
  \/ op = "or" /\ k = 1 /\ code = \h33 /\ f3 = 6 /\ f7 = 0
  \/ op = "and" /\ k = 1 /\ code = \h33 /\ f3 = 7 /\ f7 = 0
  \/ op = "subw" /\ k = 1 /\ code = \h3b /\ f3 = 0 /\ f7 = 32
  \/ op = "addw" /\ k = 1 /\ code = \h3b /\ f3 = 0 /\ f7 = 0

LEMMA BaseRanges ==
  ASSUME NEW op, NEW k, NEW code, NEW f3, NEW f7, BaseOf(op, k, code, f3, f7)
  PROVE  k \in 1 .. 4 /\ code \in 0 .. 127 /\ f3 \in 0 .. 7 /\ f7 \in {0, 32}
  BY DEF BaseOf

LEMMA Bases ==
  ASSUME NEW op, NEW rd, NEW rs1, NEW rs2, NEW imm, NEW s_imm, NEW upper
  PROVE  /\ \A code, f3, f7 : BaseOf(op, 1, code, f3, f7) => IsBase(decode_r_type(code, f3, f7, rd, rs1, rs2), op)
         /\ \A code, f3, f7 : BaseOf(op, 2, code, f3, f7) => IsBase(decode_i_type(code, f3, rd, rs1, imm), op)
         /\ \A code, f3, f7 : BaseOf(op, 3, code, f3, f7) => IsBase(decode_s_type(code, f3, rs1, rs2, s_imm), op)
         /\ \A code, f3, f7 : BaseOf(op, 4, code, f3, f7) => IsBase(decode_u_type(code, rd, upper), op)
<1>1. /\ IsBase(decode_i_type(\h13, 0, rd, rs1, imm), "addi")
      /\ IsBase(decode_i_type(\h1b, 0, rd, rs1, imm), "addiw")
      /\ IsBase(decode_i_type(\h13, 1, rd, rs1, imm), "slli")
      /\ IsBase(decode_i_type(\h67, 0, rd, rs1, imm), "jalr")
  BY BasesI, BuiltBase DEF IOps
<1>2. /\ IsBase(decode_i_type(\h03, 2, rd, rs1, imm), "lw")
      /\ IsBase(decode_i_type(\h03, 3, rd, rs1, imm), "ld")
      /\ IsBase(decode_i_type(\h07, 2, rd, rs1, imm), "flw")
      /\ IsBase(decode_i_type(\h07, 3, rd, rs1, imm), "fld")
  BY BasesI, BuiltBase DEF ILoads
<1>3. /\ IsBase(decode_s_type(\h23, 2, rs1, rs2, s_imm), "sw")
      /\ IsBase(decode_s_type(\h23, 3, rs1, rs2, s_imm), "sd")
      /\ IsBase(decode_s_type(\h27, 2, rs1, rs2, s_imm), "fsw")
      /\ IsBase(decode_s_type(\h27, 3, rs1, rs2, s_imm), "fsd")
  BY BasesSU, BuiltBase DEF SStores
<1>4. /\ IsBase(decode_s_type(\h63, 0, rs1, rs2, s_imm), "beq")
      /\ IsBase(decode_s_type(\h63, 1, rs1, rs2, s_imm), "bne")
  BY BasesSU, BuiltBase DEF Branches
<1>5. /\ IsBase(decode_u_type(\h37, rd, upper), "lui")
      /\ IsBase(decode_u_type(\h6f, rd, upper), "jal")
  BY BasesSU, BuiltBase DEF UOps
<1>6. /\ IsBase(decode_r_type(\h33, 0, 0, rd, rs1, rs2), "add")
      /\ IsBase(decode_r_type(\h33, 0, 32, rd, rs1, rs2), "sub")
      /\ IsBase(decode_r_type(\h33, 4, 0, rd, rs1, rs2), "xor")
      /\ IsBase(decode_r_type(\h33, 6, 0, rd, rs1, rs2), "or")
      /\ IsBase(decode_r_type(\h33, 7, 0, rd, rs1, rs2), "and")
      /\ IsBase(decode_r_type(\h3b, 0, 32, rd, rs1, rs2), "subw")
      /\ IsBase(decode_r_type(\h3b, 0, 0, rd, rs1, rs2), "addw")
  BY BasesR, BuiltBase DEF ROps
<1>7. \A code, f3, f7 : BaseOf(op, 1, code, f3, f7) => IsBase(decode_r_type(code, f3, f7, rd, rs1, rs2), op)
  BY <1>6 DEF BaseOf
<1>8. \A code, f3, f7 : BaseOf(op, 2, code, f3, f7) => IsBase(decode_i_type(code, f3, rd, rs1, imm), op)
  BY <1>1, <1>2 DEF BaseOf
<1>9. \A code, f3, f7 : BaseOf(op, 3, code, f3, f7) => IsBase(decode_s_type(code, f3, rs1, rs2, s_imm), op)
  BY <1>3, <1>4 DEF BaseOf
<1>10. \A code, f3, f7 : BaseOf(op, 4, code, f3, f7) => IsBase(decode_u_type(code, rd, upper), op)
  BY <1>5 DEF BaseOf
<1>. QED  BY <1>7, <1>8, <1>9, <1>10

(* decode answers each base word with the instruction of its op. *)
LEMMA BaseDecoded ==
  ASSUME NEW op, NEW k \in 1 .. 4, NEW code \in 0 .. 127, NEW f3 \in 0 .. 7, NEW f7 \in {0, 32}, NEW x,
         BaseOf(op, k, code, f3, f7)
  PROVE  IsBase(decode(Word(code, f3, f7)[1], Word(code, f3, f7)[2], x), op)
<1> DEFINE h == Word(code, f3, f7)[1]
           l == Word(code, f3, f7)[2]
           A == Attempts(h, l, x)
<1>1. h \in Half /\ l \in Half /\ l % 128 = code /\ Bits(l, 12, 3) = f3 /\ Bits(h, 9, 7) = f7
  <2>1. /\ h \in Half /\ Bits(h, 9, 7) = f7
        /\ l \in Half /\ Bits(l, 12, 3) = f3
    BY WordFields, Zenon
  <2>4. l % 128 = code
    <3>1. l = f3 * 4096 + 128 + code
      BY DEF Word
    <3> HIDE DEF l
    <3>. QED  BY <3>1
  <2>. QED  BY <2>1, <2>4
<1> HIDE DEF h, l
<1>2. \E rd, rs1, rs2, imm, s_imm, upper :
        /\ A[1] = decode_r_type(code, f3, f7, rd, rs1, rs2)
        /\ A[2] = decode_i_type(code, f3, rd, rs1, imm)
        /\ A[3] = decode_s_type(code, f3, rs1, rs2, s_imm)
        /\ A[4] = decode_u_type(code, rd, upper)
  <2> DEFINE rd  == Bits(l, 7, 5)
             rs1 == Bit(l, 15) + 2 * Bits(h, 0, 4)
             rs2 == Bits(h, 4, 5)
             imm == SignExt(h \div 16, 12)
             s_imm == SignExt(Bits(h, 9, 7) * 32 + rd, 12)
             upper == h * 16 + l \div 4096
  <2>1. /\ A[1] = decode_r_type(l % 128, Bits(l, 12, 3), Bits(h, 9, 7), rd, rs1, rs2)
        /\ A[2] = decode_i_type(l % 128, Bits(l, 12, 3), rd, rs1, imm)
        /\ A[3] = decode_s_type(l % 128, Bits(l, 12, 3), rs1, rs2, s_imm)
        /\ A[4] = decode_u_type(l % 128, rd, upper)
    BY DEF Attempts
  <2> HIDE DEF rd, rs1, rs2, imm, s_imm, upper, A
  <2>. QED  BY <1>1, <2>1
<1> HIDE DEF A
<1>3. IsBase(A[k], op)
  <2>1. PICK rd, rs1, rs2, imm, s_imm, upper :
          /\ A[1] = decode_r_type(code, f3, f7, rd, rs1, rs2)
          /\ A[2] = decode_i_type(code, f3, rd, rs1, imm)
          /\ A[3] = decode_s_type(code, f3, rs1, rs2, s_imm)
          /\ A[4] = decode_u_type(code, rd, upper)
    BY <1>2
  <2>2. k = 1 => IsBase(A[1], op)
    BY <2>1, Bases, Zenon
  <2>3. k = 2 => IsBase(A[2], op)
    BY <2>1, Bases, Zenon
  <2>4. k = 3 => IsBase(A[3], op)
    BY <2>1, Bases, Zenon
  <2>5. k = 4 => IsBase(A[4], op)
    BY <2>1, Bases, Zenon
  <2>6. k = 1 \/ k = 2 \/ k = 3 \/ k = 4
    OBVIOUS
  <2>. QED  BY <2>2, <2>3, <2>4, <2>5, <2>6, Zenon
<1>4. op # "" /\ code # \h73
  <2>1. op # ""
    BY Zenon DEF BaseOf
  <2>2. code # \h73
    BY DEF BaseOf
  <2>. QED  BY <2>1, <2>2
<1>5. IsValid(A[k])
  BY <1>3, <1>4 DEF IsBase, IsValid
<1>6. k \in 1 .. 15 /\ l % 128 # \h73
  <2>1. k \in 1 .. 15
    OBVIOUS
  <2>2. l % 128 # \h73
    BY <1>1, <1>4, Zenon
  <2>. QED  BY <2>1, <2>2
<1>7. decode(h, l, x) = A[k]
  BY <1>1, <1>5, <1>6, OnlyClaim DEF A
<1>. QED  BY <1>3, <1>7 DEF h, l

LEMMA BaseWords ==
  ASSUME NEW x, NEW op \in IOps \cup ILoads \cup SStores \cup Branches \cup UOps \cup ROps
  PROVE  IsBase(decode(BaseWord(op)[1], BaseWord(op)[2], x), op)
<1>1. \E k, code, f3, f7 :
         BaseOf(op, k, code, f3, f7) /\ BaseWord(op) = Word(code, f3, f7)
  <2> DEFINE Goal(o) == \E k, code, f3, f7 :
         BaseOf(o, k, code, f3, f7) /\ BaseWord(o) = Word(code, f3, f7)
  <2>1. Goal("addi")
    <3>1. BaseOf("addi", 2, \h13, 0, 0) /\ BaseWord("addi") = Word(\h13, 0, 0)
      BY DEF BaseOf, BaseWord
    <3>. QED  BY <3>1
  <2>2. Goal("addiw")
    <3>1. BaseOf("addiw", 2, \h1b, 0, 0) /\ BaseWord("addiw") = Word(\h1b, 0, 0)
      BY DEF BaseOf, BaseWord
    <3>. QED  BY <3>1
  <2>3. Goal("slli")
    <3>1. BaseOf("slli", 2, \h13, 1, 0) /\ BaseWord("slli") = Word(\h13, 1, 0)
      BY DEF BaseOf, BaseWord
    <3>. QED  BY <3>1
  <2>4. Goal("lui")
    <3>1. BaseOf("lui", 4, \h37, 0, 0) /\ BaseWord("lui") = Word(\h37, 0, 0)
      BY DEF BaseOf, BaseWord
    <3>. QED  BY <3>1
  <2>5. Goal("lw")
    <3>1. BaseOf("lw", 2, \h03, 2, 0) /\ BaseWord("lw") = Word(\h03, 2, 0)
      BY DEF BaseOf, BaseWord
    <3>. QED  BY <3>1
  <2>6. Goal("ld")
    <3>1. BaseOf("ld", 2, \h03, 3, 0) /\ BaseWord("ld") = Word(\h03, 3, 0)
      BY DEF BaseOf, BaseWord
    <3>. QED  BY <3>1
  <2>7. Goal("flw")
    <3>1. BaseOf("flw", 2, \h07, 2, 0) /\ BaseWord("flw") = Word(\h07, 2, 0)
      BY DEF BaseOf, BaseWord
    <3>. QED  BY <3>1
  <2>8. Goal("fld")
    <3>1. BaseOf("fld", 2, \h07, 3, 0) /\ BaseWord("fld") = Word(\h07, 3, 0)
      BY DEF BaseOf, BaseWord
    <3>. QED  BY <3>1
  <2>9. Goal("sw")
    <3>1. BaseOf("sw", 3, \h23, 2, 0) /\ BaseWord("sw") = Word(\h23, 2, 0)
      BY DEF BaseOf, BaseWord
    <3>. QED  BY <3>1
  <2>10. Goal("sd")
    <3>1. BaseOf("sd", 3, \h23, 3, 0) /\ BaseWord("sd") = Word(\h23, 3, 0)
      BY DEF BaseOf, BaseWord
    <3>. QED  BY <3>1
  <2>11. Goal("fsw")
    <3>1. BaseOf("fsw", 3, \h27, 2, 0) /\ BaseWord("fsw") = Word(\h27, 2, 0)
      BY DEF BaseOf, BaseWord
    <3>. QED  BY <3>1
  <2>12. Goal("fsd")
    <3>1. BaseOf("fsd", 3, \h27, 3, 0) /\ BaseWord("fsd") = Word(\h27, 3, 0)
      BY DEF BaseOf, BaseWord
    <3>. QED  BY <3>1
  <2>13. Goal("jal")
    <3>1. BaseOf("jal", 4, \h6f, 0, 0) /\ BaseWord("jal") = Word(\h6f, 0, 0)
      BY DEF BaseOf, BaseWord
    <3>. QED  BY <3>1
  <2>14. Goal("jalr")
    <3>1. BaseOf("jalr", 2, \h67, 0, 0) /\ BaseWord("jalr") = Word(\h67, 0, 0)
      BY DEF BaseOf, BaseWord
    <3>. QED  BY <3>1
  <2>15. Goal("beq")
    <3>1. BaseOf("beq", 3, \h63, 0, 0) /\ BaseWord("beq") = Word(\h63, 0, 0)
      BY DEF BaseOf, BaseWord
    <3>. QED  BY <3>1
  <2>16. Goal("bne")
    <3>1. BaseOf("bne", 3, \h63, 1, 0) /\ BaseWord("bne") = Word(\h63, 1, 0)
      BY DEF BaseOf, BaseWord
    <3>. QED  BY <3>1
  <2>17. Goal("add")
    <3>1. BaseOf("add", 1, \h33, 0, 0) /\ BaseWord("add") = Word(\h33, 0, 0)
      BY DEF BaseOf, BaseWord
    <3>. QED  BY <3>1
  <2>18. Goal("sub")
    <3>1. BaseOf("sub", 1, \h33, 0, 32) /\ BaseWord("sub") = Word(\h33, 0, 32)
      BY DEF BaseOf, BaseWord
    <3>. QED  BY <3>1
  <2>19. Goal("xor")
    <3>1. BaseOf("xor", 1, \h33, 4, 0) /\ BaseWord("xor") = Word(\h33, 4, 0)
      BY DEF BaseOf, BaseWord
    <3>. QED  BY <3>1
  <2>20. Goal("or")
    <3>1. BaseOf("or", 1, \h33, 6, 0) /\ BaseWord("or") = Word(\h33, 6, 0)
      BY DEF BaseOf, BaseWord
    <3>. QED  BY <3>1
  <2>21. Goal("and")
    <3>1. BaseOf("and", 1, \h33, 7, 0) /\ BaseWord("and") = Word(\h33, 7, 0)
      BY DEF BaseOf, BaseWord
    <3>. QED  BY <3>1
  <2>22. Goal("subw")
    <3>1. BaseOf("subw", 1, \h3b, 0, 32) /\ BaseWord("subw") = Word(\h3b, 0, 32)
      BY DEF BaseOf, BaseWord
    <3>. QED  BY <3>1
  <2>23. Goal("addw")
    <3>1. BaseOf("addw", 1, \h3b, 0, 0) /\ BaseWord("addw") = Word(\h3b, 0, 0)
      BY DEF BaseOf, BaseWord
    <3>. QED  BY <3>1
  <2> HIDE DEF Goal
  <2>24. Goal(op)
    BY <2>1, <2>2, <2>3, <2>4, <2>5, <2>6, <2>7, <2>8, <2>9, <2>10, <2>11, <2>12,
       <2>13, <2>14, <2>15, <2>16, <2>17, <2>18, <2>19, <2>20, <2>21, <2>22, <2>23
       DEF IOps, ILoads, SStores, Branches, UOps, ROps
  <2>. QED  BY <2>24 DEF Goal
<1>2. PICK k, code, f3, f7 : BaseOf(op, k, code, f3, f7) /\ BaseWord(op) = Word(code, f3, f7)
  BY <1>1
<1>3. k \in 1 .. 4 /\ code \in 0 .. 127 /\ f3 \in 0 .. 7 /\ f7 \in {0, 32}
  BY <1>2, BaseRanges
<1>. QED  BY <1>2, <1>3, BaseDecoded, Zenon

(* For every word and register width, a compressed instruction has the     *)
(* operands and accesses memory as the full-size one it abbreviates does:  *)
(* what eval hands the policy does not depend on the encoding.             *)
THEOREM DecodeCompressedAsBase == AnyWord => []CompressedAsBase
<1>1. WordInv => CompressedAsBase
  <2> SUFFICES ASSUME WordInv, IsValid(inst), lo % 4 # 3
               PROVE  \E base \in {decode(BaseWord(inst.op)[1], BaseWord(inst.op)[2], xlen)} :
                         base.op = inst.op /\ Shape(inst) = Shape(base)
    BY DEF CompressedAsBase
  <2>1. PICK k \in Claims(hi, lo, xlen) : inst = Attempts(hi, lo, xlen)[k]
    BY NotValid, DecodeChooses DEF WordInv
  <2>2. hi \in Half /\ lo \in Half
    BY DEF WordInv
  <2>3. k \in 7 .. 15
    <3>1. k \in 1 .. 15 /\ Region(k, lo, xlen)
      BY <2>2, ClaimInRegion
    <3>2. lo % 128 \in 0 .. 127 /\ lo % 4 = (lo % 128) % 4
      BY <2>2, InHalf, LowBits
    <3>3. k <= 6 => lo % 4 = 3
      BY <3>1, <3>2 DEF Region
    <3>. QED  BY <3>1, <3>3
  <2>4. Fits(inst)
    BY <2>1, <2>3, CompressedAttemptsFit, NotValid
  <2>5. inst.op \in IOps \cup ILoads \cup SStores \cup Branches \cup UOps \cup ROps
    BY <2>4, OpSays
  <2> DEFINE base == decode(BaseWord(inst.op)[1], BaseWord(inst.op)[2], xlen)
  <2>6. IsBase(base, inst.op)
    BY <2>5, BaseWords
  <2> HIDE DEF base
  <2>7. base.op = inst.op /\ Shape(inst) = Shape(base)
    BY <2>4, <2>6, SameOpSameShape DEF IsBase
  <2>. QED  BY <2>7 DEF base
<1>. QED  BY <1>1, WordInvariant, PTL

-----------------------------------------------------------------------------
(* The ops decode names are enumerators of op_t. *)
Typed(i) == i.op \in op_t /\ i.flags \subseteq Flags

LEMMA TypedInst ==
  ASSUME NEW name, NEW op \in op_t, NEW rd, NEW rs1, NEW rs2, NEW rs3, NEW imm, NEW flags, flags \subseteq Flags
  PROVE  Typed(Inst(name, op, rd, rs1, rs2, rs3, imm, flags))
  BY DEF Typed, Inst

LEMMA PlainOps == plain_ops \subseteq op_t
  BY DEF op_t

LEMMA ListedNames ==
  ASSUME NEW S, NEW names \in Seq(S), NEW g
  PROVE  /\ Pick(ByF3(names), g) \in S \cup {""}
         /\ g \in 0 .. Len(names) - 1 => ByF3(names)[g] \in S
<1>1. ASSUME g \in 0 .. Len(names) - 1 PROVE g + 1 \in 1 .. Len(names)
  BY <1>1
<1>2. \A i \in 1 .. Len(names) : names[i] \in S
  OBVIOUS
<1>. QED  BY <1>1, <1>2 DEF Pick, ByF3

(* What the tables by f3 hold. *)
Entries == plain_ops \cup {""}

LEMMA PlainTables ==
  ASSUME NEW g
  PROVE  /\ \A f7 \in DOMAIN OpTable : Pick(OpTable[f7], g) \in Entries
         /\ \A f7 \in DOMAIN Op32Table : Pick(Op32Table[f7], g) \in Entries
         /\ Pick(LoadTable, g) \in Entries /\ Pick(FpLoadTable, g) \in Entries
         /\ Pick(StoreTable, g) \in Entries /\ Pick(FpStoreTable, g) \in Entries
         /\ Pick(BranchTable, g) \in Entries
         /\ g \in 0 .. 7 => OpImmTable[g] \in Entries /\ CsrTable[g] \in Entries
<1>1. /\ <<"add", "sll", "slt", "sltu", "xor", "srl", "or", "and">> \in Seq(Entries)
      /\ <<"mul", "mulh", "mulhsu", "mulhu", "div", "divu", "rem", "remu">> \in Seq(Entries)
      /\ <<"sub", "", "", "", "", "sra">> \in Seq(Entries)
  BY DEF Entries, plain_ops
<1>2. /\ <<"addw", "", "", "", "", "srlw">> \in Seq(Entries)
      /\ <<"mulw", "", "", "", "divw", "divuw", "remw">> \in Seq(Entries)
      /\ <<"subw", "", "", "", "", "sraw">> \in Seq(Entries)
  BY DEF Entries, plain_ops
<1>3. /\ <<"lb", "lh", "lw", "ld", "lbu", "lhu", "lwu">> \in Seq(Entries)
      /\ <<"", "", "flw", "fld", "flq">> \in Seq(Entries)
      /\ <<"sb", "sh", "sw", "sd">> \in Seq(Entries)
      /\ <<"", "", "fsw", "fsd", "fsq">> \in Seq(Entries)
  BY DEF Entries, plain_ops
<1>4. /\ <<"beq", "bne", "", "", "blt", "bge", "bltu", "bgeu">> \in Seq(Entries)
      /\ <<"addi", "", "slti", "sltiu", "xori", "", "ori", "andi">> \in Seq(Entries)
      /\ <<"", "csrrw", "csrrs", "csrrc", "", "csrrwi", "csrrsi", "csrrci">> \in Seq(Entries)
  BY DEF Entries, plain_ops
<1>5. \A names \in Seq(Entries) : Pick(ByF3(names), g) \in Entries
  BY ListedNames DEF Entries
<1>6. /\ Pick(OpTable[0], g) \in Entries /\ Pick(OpTable[1], g) \in Entries /\ Pick(OpTable[32], g) \in Entries
  BY <1>1, <1>5 DEF OpTable
<1>7. /\ Pick(Op32Table[0], g) \in Entries /\ Pick(Op32Table[1], g) \in Entries /\ Pick(Op32Table[32], g) \in Entries
  BY <1>2, <1>5 DEF Op32Table
<1>8. /\ Pick(LoadTable, g) \in Entries /\ Pick(FpLoadTable, g) \in Entries
      /\ Pick(StoreTable, g) \in Entries /\ Pick(FpStoreTable, g) \in Entries
      /\ Pick(BranchTable, g) \in Entries
  BY <1>3, <1>4, <1>5 DEF LoadTable, FpLoadTable, StoreTable, FpStoreTable, BranchTable
<1>9. ASSUME g \in 0 .. 7 PROVE OpImmTable[g] \in Entries /\ CsrTable[g] \in Entries
  <2> DEFINE imms == <<"addi", "", "slti", "sltiu", "xori", "", "ori", "andi">>
             csrs == <<"", "csrrw", "csrrs", "csrrc", "", "csrrwi", "csrrsi", "csrrci">>
  <2>1. Len(imms) = 8 /\ Len(csrs) = 8 /\ imms \in Seq(Entries) /\ csrs \in Seq(Entries)
    BY <1>4
  <2>2. OpImmTable = ByF3(imms) /\ CsrTable = ByF3(csrs)
    BY DEF OpImmTable, CsrTable
  <2> HIDE DEF imms, csrs
  <2>3. g \in 0 .. Len(imms) - 1 /\ g \in 0 .. Len(csrs) - 1
    BY <1>9, <2>1
  <2>4. ByF3(imms)[g] \in Entries
    BY <2>1, <2>3, ListedNames, Zenon
  <2>5. ByF3(csrs)[g] \in Entries
    BY <2>1, <2>3, ListedNames, Zenon
  <2>. QED  BY <2>2, <2>4, <2>5
<1>10. DOMAIN OpTable = {0, 1, 32} /\ DOMAIN Op32Table = {0, 1, 32}
  BY DEF OpTable, Op32Table
<1>. QED  BY <1>6, <1>7, <1>8, <1>9, <1>10

LEMMA AmoOps ==
  ASSUME NEW n \in atomic_ops
  PROVE  n \o ".w" \in op_t /\ n \o ".d" \in op_t
<1>1. n \o ".w" \in WD(atomic_ops) /\ n \o ".d" \in WD(atomic_ops)
  BY Zenon DEF WD
<1>2. WD(atomic_ops) \subseteq op_t
  BY DEF op_t
<1>. QED  BY <1>1, <1>2, Zenon

LEMMA AmoTables ==
  ASSUME NEW f5 \in DOMAIN AmoTable, NEW g
  PROVE  Pick(AmoTable[f5], g) \in op_t \cup {"ammor.d", ""}
<1>1. ASSUME NEW a \in op_t \cup {"ammor.d"}, NEW b \in op_t \cup {"ammor.d"}
      PROVE  Pick(<<a, b>>, g) \in op_t \cup {"ammor.d", ""}
  <2> DEFINE t == <<a, b>>
  <2>1. DOMAIN t = {1, 2} /\ t[1] = a /\ t[2] = b
    OBVIOUS
  <2> HIDE DEF t
  <2>2. Pick(t, g) \in {a, b, ""}
    BY <2>1 DEF Pick
  <2>. QED  BY <1>1, <2>2 DEF t
<1>2. ASSUME NEW n \in atomic_ops PROVE Pick(Sized(n), g) \in op_t \cup {"ammor.d", ""}
  BY <1>1, AmoOps DEF Sized
<1>3. Pick(<<"amoor" \o ".w", "ammor.d">>, g) \in op_t \cup {"ammor.d", ""}
  <2>1. "amoor" \o ".w" \in op_t
    BY AmoOps DEF atomic_ops
  <2>. QED  BY <1>1, <2>1
<1>4. \/ \E n \in atomic_ops : AmoTable[f5] = Sized(n)
      \/ AmoTable[f5] = <<"amoor" \o ".w", "ammor.d">>
  <2>1. /\ AmoTable[\h00] = Sized("amoadd")
        /\ AmoTable[\h01] = Sized("amoswap")
        /\ AmoTable[\h02] = Sized("lr")
        /\ AmoTable[\h03] = Sized("sc")
        /\ AmoTable[\h04] = Sized("amoxor")
        /\ AmoTable[\h08] = <<"amoor" \o ".w", "ammor.d">>
        /\ AmoTable[\h0c] = Sized("amoand")
        /\ AmoTable[\h10] = Sized("amomin")
        /\ AmoTable[\h14] = Sized("amomax")
        /\ AmoTable[\h18] = Sized("amominu")
        /\ AmoTable[\h1c] = Sized("amomaxu")
    BY DEF AmoTable
  <2>2. f5 \in {\h00, \h01, \h02, \h03, \h04, \h08, \h0c, \h10, \h14, \h18, \h1c}
    BY DEF AmoTable
  <2>. QED  BY <2>1, <2>2 DEF atomic_ops
<1>. QED  BY <1>2, <1>3, <1>4

LEMMA OpOfTyped ==
  ASSUME NEW n \in op_t \cup {"ammor.d"}
  PROVE  OpOf(n) \in op_t
<1>1. "amoor" \o ".d" \in op_t
  BY AmoOps DEF atomic_ops
<1>2. "addw" \in op_t
  BY PlainOps DEF plain_ops
<1>3. CASE n = "srlw"
  BY <1>2, <1>3 DEF OpOf
<1>4. CASE n = "ammor.d"
  BY <1>1, <1>4 DEF OpOf
<1>5. CASE n # "srlw" /\ n # "ammor.d"
  BY <1>5 DEF OpOf
<1>. QED  BY <1>3, <1>4, <1>5

LEMMA TypedInvalid == Typed(invalid_inst)
<1>1. "invalid" \in op_t
  BY PlainOps DEF plain_ops
<1>. QED  BY <1>1, TypedInst DEF invalid_inst, Flags

LEMMA TypedR ==
  ASSUME NEW code, NEW f3, NEW f7, NEW rd, NEW rs1, NEW rs2
  PROVE  Typed(decode_r_type(code, f3, f7, rd, rs1, rs2))
<1> DEFINE n == RName(code, f3, f7)
<1>1. n \in op_t \cup {"ammor.d", ""}
  <2>1. "sllw" \in op_t
    BY PlainOps DEF plain_ops
  <2>2. Entries \subseteq op_t \cup {"ammor.d", ""}
    BY PlainOps DEF Entries
  <2>3. /\ \A t \in DOMAIN OpTable : Pick(OpTable[t], f3) \in op_t \cup {"ammor.d", ""}
        /\ \A t \in DOMAIN Op32Table : Pick(Op32Table[t], f3) \in op_t \cup {"ammor.d", ""}
    BY <2>2, PlainTables
  <2>4. \A t \in DOMAIN AmoTable : Pick(AmoTable[t], f3 - 1) \in op_t \cup {"ammor.d", ""}
    BY AmoTables
  <2>. QED  BY <2>1, <2>3, <2>4 DEF RName
<1> HIDE DEF n
<1>2. decode_r_type(code, f3, f7, rd, rs1, rs2) =
           CASE n = "" -> invalid_inst
             [] n \in {"lr.w", "lr.d"} ->
                   Inst(n, n, some(rd), some(rs1), none, none, none, {"has_load"})
             [] OTHER -> r_type_inst(n, OpOf(n), rd, rs1, rs2, {})
  BY ByRName, Zenon DEF n
<1>3. n \in {"lr.w", "lr.d"} => n \in op_t
  BY <1>1
<1>4. n # "" => OpOf(n) \in op_t
  BY <1>1, OpOfTyped
<1>5. n # "" => Typed(r_type_inst(n, OpOf(n), rd, rs1, rs2, {}))
  BY <1>4, TypedInst DEF r_type_inst
<1>6. n \in {"lr.w", "lr.d"} => Typed(Inst(n, n, some(rd), some(rs1), none, none, none, {"has_load"}))
  BY <1>3, TypedInst DEF Flags
<1>. QED  BY <1>2, <1>5, <1>6, TypedInvalid

LEMMA TypedU ==
  ASSUME NEW code, NEW rd, NEW upper
  PROVE  Typed(decode_u_type(code, rd, upper))
<1>1. "auipc" \in op_t /\ "lui" \in op_t /\ "jal" \in op_t
  BY PlainOps DEF plain_ops
<1>2. \A op \in op_t : \A v : Typed(u_type_inst(op, op, rd, v, {}))
  BY TypedInst DEF u_type_inst
<1>. QED  BY <1>1, <1>2, TypedInvalid DEF decode_u_type

LEMMA TypedS ==
  ASSUME NEW code, NEW f3, NEW rs1, NEW rs2, NEW imm
  PROVE  Typed(decode_s_type(code, f3, rs1, rs2, imm))
<1>1. ASSUME NEW name \in Entries
      PROVE  \A v : /\ Typed(IF name = "" THEN invalid_inst ELSE s_type_inst(name, name, rs1, rs2, v, {"has_store"}))
                    /\ Typed(IF name = "" THEN invalid_inst ELSE s_type_inst(name, name, rs1, rs2, v, {}))
  <2>1. name # "" => name \in op_t
    BY PlainOps DEF Entries
  <2>. QED  BY <2>1, TypedInst, TypedInvalid DEF s_type_inst, Flags
<1>2. CASE code = \h23
  <2>1. decode_s_type(\h23, f3, rs1, rs2, imm) = IF Pick(StoreTable, f3) = "" THEN invalid_inst
          ELSE s_type_inst(Pick(StoreTable, f3), Pick(StoreTable, f3), rs1, rs2, imm, {"has_store"})
    BY ByStoreTable, Zenon
  <2>2. Pick(StoreTable, f3) \in Entries
    BY PlainTables
  <2>. QED  BY <1>1, <1>2, <2>1, <2>2
<1>3. CASE code = \h27
  <2>1. decode_s_type(\h27, f3, rs1, rs2, imm) = IF Pick(FpStoreTable, f3) = "" THEN invalid_inst
          ELSE s_type_inst(Pick(FpStoreTable, f3), Pick(FpStoreTable, f3), rs1, rs2, imm, {"has_store"})
    BY ByFpStoreTable, Zenon
  <2>2. Pick(FpStoreTable, f3) \in Entries
    BY PlainTables
  <2>. QED  BY <1>1, <1>3, <2>1, <2>2
<1>4. CASE code = \h63
  <2>1. decode_s_type(\h63, f3, rs1, rs2, imm) = IF Pick(BranchTable, f3) = "" THEN invalid_inst
          ELSE s_type_inst(Pick(BranchTable, f3), Pick(BranchTable, f3), rs1, rs2, BranchImm(imm), {})
    BY ByBranchTable, Zenon
  <2>2. Pick(BranchTable, f3) \in Entries
    BY PlainTables
  <2>. QED  BY <1>1, <1>4, <2>1, <2>2
<1>5. CASE code \notin {\h23, \h27, \h63}
  BY <1>5, TypedInvalid DEF decode_s_type
<1>. QED  BY <1>2, <1>3, <1>4, <1>5

LEMMA TypedI ==
  ASSUME NEW code, NEW f3 \in 0 .. 7, NEW rd, NEW rs1, NEW imm
  PROVE  Typed(decode_i_type(code, f3, rd, rs1, imm))
<1>1. ASSUME NEW name \in Entries
      PROVE  /\ \A v : /\ Typed(IF name = "" THEN invalid_inst ELSE i_type_inst(name, name, rd, rs1, v, {"has_load"}))
                       /\ Typed(IF name = "" THEN invalid_inst ELSE i_type_inst(name, name, rd, rs1, v, {}))
             /\ \A a, c : Typed(IF name = "" THEN invalid_inst ELSE csr_inst(name, rd, a, c))
  <2>1. name # "" => name \in op_t
    BY PlainOps DEF Entries
  <2>2. \A v : /\ Typed(IF name = "" THEN invalid_inst ELSE i_type_inst(name, name, rd, rs1, v, {"has_load"}))
               /\ Typed(IF name = "" THEN invalid_inst ELSE i_type_inst(name, name, rd, rs1, v, {}))
    BY <2>1, TypedInst, TypedInvalid DEF i_type_inst, Flags
  <2>3. ASSUME NEW a, NEW c, name # ""
        PROVE  Typed(csr_inst(name, rd, a, c))
    <3> DEFINE flags == IF rd # 0 THEN FlagsOr({"has_csr_load"}, {"has_csr_store"}) ELSE {"has_csr_store"}
    <3>1. flags \subseteq Flags
      BY FlagsFacts DEF Flags
    <3> HIDE DEF flags
    <3>2. csr_inst(name, rd, a, c) = Inst(name, name, when(rd # 0, rd), when(a >= 0, a), none, none, some(c), flags)
      BY Zenon DEF csr_inst, flags
    <3>. QED  BY <2>1, <2>3, <3>1, <3>2, TypedInst
  <2>. QED  BY <2>2, <2>3, TypedInvalid
<1>2. CASE code \in {\h03, \h07}
  <2>1. CASE code = \h03
    <3>1. Pick(LoadTable, f3) \in Entries
      BY PlainTables
    <3>. QED  BY <1>1, <2>1, <3>1, ByLoadTable, Zenon
  <2>2. CASE code = \h07
    <3>1. Pick(FpLoadTable, f3) \in Entries
      BY PlainTables
    <3>. QED  BY <1>1, <2>2, <3>1, ByFpLoadTable, Zenon
  <2>. QED  BY <1>2, <2>1, <2>2
<1>3. ASSUME NEW n \in plain_ops PROVE \A v : Typed(i_type_inst(n, n, rd, rs1, v, {}))
  BY PlainOps, TypedInst DEF i_type_inst
<1>4. \A v : /\ Typed(i_type_inst("slli", "slli", rd, rs1, v, {})) /\ Typed(i_type_inst("srli", "srli", rd, rs1, v, {}))
             /\ Typed(i_type_inst("srai", "srai", rd, rs1, v, {})) /\ Typed(i_type_inst("addiw", "addiw", rd, rs1, v, {}))
             /\ Typed(i_type_inst("slliw", "slliw", rd, rs1, v, {})) /\ Typed(i_type_inst("srliw", "srliw", rd, rs1, v, {}))
             /\ Typed(i_type_inst("sraiw", "sraiw", rd, rs1, v, {})) /\ Typed(i_type_inst("jalr", "jalr", rd, rs1, v, {}))
  <2>1. /\ "slli" \in plain_ops /\ "srli" \in plain_ops /\ "srai" \in plain_ops /\ "addiw" \in plain_ops
        /\ "slliw" \in plain_ops /\ "srliw" \in plain_ops /\ "sraiw" \in plain_ops /\ "jalr" \in plain_ops
    BY DEF plain_ops
  <2>. QED  BY <1>3, <2>1
<1>5. CASE code \in {\h1b, \h67}
  <2>1. Typed(decode_i_type(\h67, f3, rd, rs1, imm))
    BY <1>4 DEF decode_i_type
  <2>2. Typed(decode_i_type(\h1b, f3, rd, rs1, imm))
    BY <1>4, TypedInvalid DEF decode_i_type
  <2>. QED  BY <1>5, <2>1, <2>2
<1>6. CASE code = \h13 /\ f3 \in {1, 5}
  BY <1>4, <1>6, TypedInvalid DEF decode_i_type
<1>7. CASE code = \h13 /\ f3 \notin {1, 5}
  <2>1. decode_i_type(\h13, f3, rd, rs1, imm) =
          IF OpImmTable[f3] = "" THEN invalid_inst
          ELSE i_type_inst(OpImmTable[f3], OpImmTable[f3], rd, rs1, imm, {})
    BY <1>7 DEF decode_i_type
  <2>. QED  BY <1>1, <1>7, <2>1, PlainTables
<1>8. CASE code = \h73
  <2> DEFINE a == IF f3 < 4 THEN rs1 ELSE -1
             c == imm % 4096
  <2>1. decode_i_type(\h73, f3, rd, rs1, imm) =
          IF CsrTable[f3] = "" THEN invalid_inst ELSE csr_inst(CsrTable[f3], rd, a, c)
    BY DEF decode_i_type
  <2> HIDE DEF a, c
  <2>2. CsrTable[f3] \in Entries
    BY PlainTables
  <2>. QED  BY <1>1, <1>8, <2>1, <2>2
<1>9. CASE code \notin {\h03, \h07, \h13, \h1b, \h67, \h73}
  BY <1>9, TypedInvalid DEF decode_i_type
<1>. QED  BY <1>2, <1>5, <1>6, <1>7, <1>8, <1>9

LEMMA TypedSystem ==
  ASSUME NEW code, NEW f7, NEW f3, NEW rs1, NEW rs2
  PROVE  Typed(decode_system(code, f7, f3, rs1, rs2))
<1>1. \A n \in plain_ops : Typed(system_inst(n))
  BY PlainOps, TypedInst DEF system_inst
<1>2. \A t \in DOMAIN SystemTable : SystemTable[t] \in {"ecall", "ebreak", "uret", "sret", "wfi", "mret", "dret"}
  BY DEF SystemTable
<1>3. {"ecall", "ebreak", "uret", "sret", "wfi", "mret", "dret", "fence", "fence.i", "sfence.vma"} \subseteq plain_ops
  BY DEF plain_ops
<1>4. Typed(Inst("sfence.vma", "sfence.vma", none, some(rs1), some(rs2), none, none, {}))
  BY <1>3, PlainOps, TypedInst
<1>5. \A t \in DOMAIN SystemTable : Typed(system_inst(SystemTable[t]))
  BY <1>1, <1>2, <1>3
<1>6. Typed(system_inst("fence")) /\ Typed(system_inst("fence.i"))
  BY <1>1, <1>3
<1>. QED  BY <1>4, <1>5, <1>6, TypedInvalid DEF decode_system

LEMMA FpOps ==
  /\ \A n \in fp_ops, f \in SDQ : n \o f \in op_t
  /\ \A f, g \in SDQ : f # g => "fcvt" \o f \o g \in op_t
  /\ \A f \in SDQ, i \in {".w", ".wu", ".l", ".lu"} : "fcvt" \o f \o i \in op_t /\ "fcvt" \o i \o f \in op_t
  /\ \A f \in {".w", ".d", ".q"} : "fmv.x" \o f \in op_t /\ "fmv" \o f \o ".x" \in op_t
<1>1. \A n \in fp_ops, f \in SDQ : n \o f \in formatted_ops
  BY DEF formatted_ops
<1>2. \A f, g \in SDQ : f # g => "fcvt" \o f \o g \in fp_conversions
  BY DEF fp_conversions
<1>3. \A f \in SDQ, i \in int_sizes : "fcvt" \o f \o i \in from_int_ops /\ "fcvt" \o i \o f \in to_int_ops
  <2>1. \A f \in SDQ, i \in int_sizes : "fcvt" \o f \o i \in from_int_ops
    BY DEF from_int_ops
  <2>2. \A f \in SDQ, i \in int_sizes : "fcvt" \o i \o f \in to_int_ops
    BY DEF to_int_ops
  <2>. QED  BY <2>1, <2>2
<1>4. \A f \in {".w", ".d", ".q"} : "fmv.x" \o f \in move_ops /\ "fmv" \o f \o ".x" \in move_ops
  <2> SUFFICES ASSUME NEW f \in {".w", ".d", ".q"}
               PROVE  "fmv.x" \o f \in move_ops /\ "fmv" \o f \o ".x" \in move_ops
    OBVIOUS
  <2>1. move_ops = UNION {{"fmv.x" \o g, "fmv" \o g \o ".x"} : g \in {".w", ".d", ".q"}}
    BY Zenon DEF move_ops
  <2>2. {"fmv.x" \o f, "fmv" \o f \o ".x"} \in {{"fmv.x" \o g, "fmv" \o g \o ".x"} : g \in {".w", ".d", ".q"}}
    BY Zenon
  <2>. QED  BY <2>1, <2>2, Zenon
<1>5. /\ formatted_ops \subseteq op_t /\ fp_conversions \subseteq op_t
      /\ from_int_ops \subseteq op_t /\ to_int_ops \subseteq op_t /\ move_ops \subseteq op_t
  BY DEF op_t
<1>. QED  BY <1>1, <1>2, <1>3, <1>4, <1>5, Zenon DEF int_sizes

LEMMA FpTables ==
  /\ DOMAIN Fmt = {0, 1, 3} /\ \A t \in {0, 1, 3} : Fmt[t] \in SDQ /\ MoveFmt[t] \in {".w", ".d", ".q"}
  /\ \A t, u \in {0, 1, 3} : t # u => Fmt[t] # Fmt[u]
  /\ \A t \in DOMAIN IntFmt : IntFmt[t] \in {".w", ".wu", ".l", ".lu"}
  /\ \A t \in DOMAIN FusedTable : FusedTable[t] \in fp_ops
  /\ \A f5, f3 : FpArith(f5, f3) \in fp_ops \cup {""}
<1>1. DOMAIN Fmt = {0, 1, 3} /\ Fmt[0] = ".s" /\ Fmt[1] = ".d" /\ Fmt[3] = ".q"
  BY DEF Fmt
<1>2. MoveFmt[0] = ".w" /\ MoveFmt[1] = ".d" /\ MoveFmt[3] = ".q"
  BY DEF MoveFmt
<1>3. \A t \in {0, 1, 3} : Fmt[t] \in SDQ /\ MoveFmt[t] \in {".w", ".d", ".q"}
  BY <1>1, <1>2 DEF SDQ
<1>4. \A t, u \in {0, 1, 3} : t # u => Fmt[t] # Fmt[u]
  BY <1>1
<1>5. \A t \in DOMAIN IntFmt : IntFmt[t] \in {".w", ".wu", ".l", ".lu"}
  <2> DEFINE names == <<".w", ".wu", ".l", ".lu">>
             S == {".w", ".wu", ".l", ".lu"}
  <2>1. names \in Seq(S)
    OBVIOUS
  <2>2. IntFmt = ByF3(names)
    BY DEF IntFmt
  <2> HIDE DEF names, S
  <2>3. DOMAIN ByF3(names) = 0 .. Len(names) - 1
    BY DEF ByF3
  <2>4. \A t \in DOMAIN IntFmt : IntFmt[t] \in S
    BY <2>1, <2>2, <2>3, ListedNames
  <2>. QED  BY <2>4 DEF S
<1>6. \A t \in DOMAIN FusedTable : FusedTable[t] \in fp_ops
  BY DEF FusedTable, fp_ops
<1>7. ASSUME NEW f5, NEW f3 PROVE FpArith(f5, f3) \in fp_ops \cup {""}
  <2>1. <<"fadd", "fsub", "fmul", "fdiv">> \in Seq(fp_ops)
    BY DEF fp_ops
  <2>2. <<"fsgnj", "fsgnjn", "fsgnjx">> \in Seq(fp_ops)
    BY DEF fp_ops
  <2>3. <<"fmin", "fmax">> \in Seq(fp_ops)
    BY DEF fp_ops
  <2>4. <<"fle", "flt", "feq">> \in Seq(fp_ops)
    BY DEF fp_ops
  <2>5. \A names \in Seq(fp_ops) : Pick(ByF3(names), f3) \in fp_ops \cup {""}
    BY ListedNames
  <2>6. \A t \in DOMAIN FpF3Table : Pick(FpF3Table[t], f3) \in fp_ops \cup {""}
    <3>1. DOMAIN FpF3Table = {\h04, \h05, \h14}
      BY DEF FpF3Table
    <3>2. /\ Pick(FpF3Table[\h04], f3) \in fp_ops \cup {""} /\ Pick(FpF3Table[\h05], f3) \in fp_ops \cup {""}
          /\ Pick(FpF3Table[\h14], f3) \in fp_ops \cup {""}
      BY <2>2, <2>3, <2>4, <2>5 DEF FpF3Table
    <3>. QED  BY <3>1, <3>2
  <2>7. \A t \in DOMAIN FpArithTable : FpArithTable[t] \in fp_ops
    <3> DEFINE names == <<"fadd", "fsub", "fmul", "fdiv">>
    <3>1. FpArithTable = ByF3(names)
      BY DEF FpArithTable
    <3>2. names \in Seq(fp_ops)
      BY <2>1
    <3> HIDE DEF names
    <3>3. DOMAIN ByF3(names) = 0 .. Len(names) - 1
      BY DEF ByF3
    <3>. QED  BY <3>1, <3>2, <3>3, ListedNames
  <2>. QED  BY <2>6, <2>7 DEF FpArith
<1>. QED  BY <1>1, <1>3, <1>4, <1>5, <1>6, <1>7

LEMMA FpConvOps ==
  ASSUME NEW f5, NEW fmt \in {0, 1, 3}, NEW f3, NEW rs2
  PROVE  FpConv(f5, fmt, f3, rs2) \in op_t \cup {""}
<1> DEFINE one == "fcvt" \o Fmt[fmt] \o Fmt[rs2]
           two == "fcvt" \o IntFmt[rs2] \o Fmt[fmt]
           three == "fcvt" \o Fmt[fmt] \o IntFmt[rs2]
           root == "fsqrt" \o Fmt[fmt]
           class == "fclass" \o Fmt[fmt]
           out == "fmv.x" \o MoveFmt[fmt]
           into == "fmv" \o MoveFmt[fmt] \o ".x"
<1>1. rs2 \in DOMAIN Fmt \ {fmt} => one \in op_t
  <2>1. rs2 \in DOMAIN Fmt \ {fmt} => Fmt[fmt] \in SDQ /\ Fmt[rs2] \in SDQ /\ Fmt[fmt] # Fmt[rs2]
    BY FpTables
  <2>. QED  BY <2>1, FpOps, Zenon
<1>2. rs2 \in DOMAIN IntFmt => two \in op_t /\ three \in op_t
  <2>1. rs2 \in DOMAIN IntFmt => Fmt[fmt] \in SDQ /\ IntFmt[rs2] \in {".w", ".wu", ".l", ".lu"}
    BY FpTables
  <2>. QED  BY <2>1, FpOps, Zenon
<1>3. root \in op_t /\ class \in op_t
  <2>1. Fmt[fmt] \in SDQ /\ "fsqrt" \in fp_ops /\ "fclass" \in fp_ops
    BY FpTables DEF fp_ops
  <2>. QED  BY <2>1, FpOps, Zenon
<1>4. out \in op_t /\ into \in op_t
  <2>1. MoveFmt[fmt] \in {".w", ".d", ".q"}
    BY FpTables
  <2>. QED  BY <2>1, FpOps, Zenon
<1>5. FpConv(f5, fmt, f3, rs2) =
        CASE f5 = \h08 /\ rs2 \in DOMAIN Fmt \ {fmt} -> one
          [] f5 = \h0b -> root
          [] f5 = \h18 /\ rs2 \in DOMAIN IntFmt -> two
          [] f5 = \h1a /\ rs2 \in DOMAIN IntFmt -> three
          [] f5 = \h1c /\ f3 = 0 -> out
          [] f5 = \h1c /\ f3 = 1 -> class
          [] f5 = \h1e -> into
          [] OTHER -> ""
  BY Zenon DEF FpConv
<1> HIDE DEF one, two, three, root, class, out, into
<1>. QED  BY <1>1, <1>2, <1>3, <1>4, <1>5

LEMMA TypedFp ==
  ASSUME NEW code, NEW f7, NEW f3, NEW rd, NEW rs1, NEW rs2
  PROVE  Typed(decode_fp(code, f7, f3, rd, rs1, rs2))
<1> DEFINE fmt == f7 % 4
           f5 == f7 \div 4
           arith == FpArith(f5, f3)
           conv == FpConv(f5, fmt, f3, rs2)
<1>1. decode_fp(code, f7, f3, rd, rs1, rs2) =
        IF fmt \notin DOMAIN Fmt THEN invalid_inst
        ELSE CASE code \in DOMAIN FusedTable ->
                    r4_type_inst(FusedTable[code] \o Fmt[fmt], rd, rs1, rs2, f5)
               [] code = \h53 /\ arith # "" ->
                    r_type_inst(arith \o Fmt[fmt], arith \o Fmt[fmt], rd, rs1, rs2, {})
               [] code = \h53 /\ arith = "" /\ conv # "" -> fp_conv_inst(conv, rd, rs1)
               [] OTHER -> invalid_inst
  BY Zenon DEF decode_fp
<1>2. \A op \in op_t : /\ Typed(r4_type_inst(op, rd, rs1, rs2, f5)) /\ Typed(fp_conv_inst(op, rd, rs1))
                       /\ Typed(r_type_inst(op, op, rd, rs1, rs2, {}))
  BY TypedInst DEF r4_type_inst, fp_conv_inst, r_type_inst
<1>3. CASE fmt \in DOMAIN Fmt
  <2>1. Fmt[fmt] \in SDQ /\ fmt \in {0, 1, 3} /\ arith \in fp_ops \cup {""}
        /\ (code \in DOMAIN FusedTable => FusedTable[code] \in fp_ops)
    BY <1>3, FpTables, Zenon
  <2>2. conv \in op_t \cup {""}
    BY <2>1, FpConvOps, Zenon
  <2>3. code \in DOMAIN FusedTable => FusedTable[code] \o Fmt[fmt] \in op_t
    BY <2>1, FpOps, Zenon
  <2>4. arith # "" => arith \o Fmt[fmt] \in op_t
    <3>1. arith # "" => arith \in fp_ops
      BY <2>1, Zenon
    <3>. QED  BY <2>1, <3>1, FpOps, Zenon
  <2> DEFINE fused == FusedTable[code] \o Fmt[fmt]
             named == arith \o Fmt[fmt]
  <2>5. decode_fp(code, f7, f3, rd, rs1, rs2) =
          CASE code \in DOMAIN FusedTable -> r4_type_inst(fused, rd, rs1, rs2, f5)
            [] code = \h53 /\ arith # "" -> r_type_inst(named, named, rd, rs1, rs2, {})
            [] code = \h53 /\ arith = "" /\ conv # "" -> fp_conv_inst(conv, rd, rs1)
            [] OTHER -> invalid_inst
    BY <1>1, <1>3, Zenon
  <2>6. (code \in DOMAIN FusedTable => fused \in op_t) /\ (arith # "" => named \in op_t)
    BY <2>3, <2>4, Zenon
  <2> HIDE DEF fused, named, conv, arith, f5, fmt
  <2>. QED  BY <1>2, <2>2, <2>5, <2>6, TypedInvalid
<1>4. CASE fmt \notin DOMAIN Fmt
  BY <1>1, <1>4, TypedInvalid, Zenon
<1>. QED  BY <1>3, <1>4

LEMMA TypedCompressed ==
  ASSUME NEW d, Fits(d)
  PROVE  Typed(d)
<1>1. d.op \in IOps \cup ILoads \cup SStores \cup Branches \cup UOps \cup ROps /\ d.flags \subseteq Flags
  BY OpSays, Zenon DEF Fits
<1>2. IOps \cup ILoads \cup SStores \cup Branches \cup UOps \cup ROps \subseteq plain_ops
  BY DEF IOps, ILoads, SStores, Branches, UOps, ROps, plain_ops
<1>. QED  BY <1>1, <1>2, PlainOps, Zenon DEF Typed

LEMMA TypedAttempts ==
  ASSUME NEW h \in Half, NEW l \in Half, NEW x, NEW k \in 1 .. 15
  PROVE  Typed(Attempts(h, l, x)[k])
<1> DEFINE A == Attempts(h, l, x)
<1>1. CASE k \in 7 .. 15
  <2>1. A[k] = invalid_inst \/ Fits(A[k])
    BY <1>1, CompressedAttemptsFit
  <2>. QED  BY <2>1, TypedCompressed, TypedInvalid
<1>2. CASE k \in 1 .. 6
  <2>1. Bits(l, 12, 3) \in 0 .. 7
    <3>1. l \div 4096 \in Int
      BY InHalf
    <3>2. Bits(l, 12, 3) = (l \div 4096) % 8
      BY DEF Bits
    <3>. QED  BY <3>1, <3>2
  <2>2. Typed(A[1]) /\ Typed(A[3])
    BY TypedR, TypedS DEF Attempts
  <2>3. Typed(A[2])
    BY <2>1, TypedI DEF Attempts
  <2>4. Typed(A[4]) /\ Typed(A[5]) /\ Typed(A[6])
    BY TypedU, TypedFp, TypedSystem DEF Attempts
  <2> HIDE DEF A
  <2>5. Typed(A[k])
    BY <1>2, <2>2, <2>3, <2>4
  <2>. QED  BY <2>5 DEF A
<1>. QED  BY <1>1, <1>2

(* For every word and register width, decode answers with an enumerator of *)
(* op_t, the two it names differently from the instruction included, and   *)
(* with the members of flags_t.                                            *)
THEOREM DecodeTypeOK == AnyWord => []TypeOK
<1>1. WordInv => TypeOK
  <2> SUFFICES ASSUME WordInv PROVE Typed(inst)
    BY DEF TypeOK, Typed, Flags
  <2>1. hi \in Half /\ lo \in Half
    BY DEF WordInv
  <2>2. Typed(decode(hi, lo, xlen))
    <3>1. CASE Claims(hi, lo, xlen) = {}
      BY <3>1, DecodeChooses, TypedInvalid
    <3>2. CASE Claims(hi, lo, xlen) # {}
      <4>1. PICK k \in Claims(hi, lo, xlen) : decode(hi, lo, xlen) = Attempts(hi, lo, xlen)[k]
        BY <3>2, DecodeChooses
      <4>2. k \in 1 .. 15
        BY DEF Claims
      <4>. QED  BY <2>1, <4>1, <4>2, TypedAttempts
    <3>. QED  BY <3>1, <3>2
  <2>. QED  BY <2>2, TypedInvalid DEF WordInv
<1>. QED  BY <1>1, WordInvariant, PTL

=============================================================================
