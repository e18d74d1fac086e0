---------------------------- MODULE RegisterNames ----------------------------
(***************************************************************************)
(* register_name_map and csr_name_map: the number under which the firmware *)
(* tag file keeps the tag of a register or of a CSR.  Registers have a     *)
(* number each; CSRs share 18 tag slots.                                   *)
(***************************************************************************)
EXTENDS Integers, Sequences, FiniteSetsExt, TLC

Numbered(prefix, ns) == {prefix \o ToString(n) : n \in ns}
Series(prefix, from, to) == [i \in 1 .. to - from + 1 |-> prefix \o ToString(from + i - 1)]

(* The integer registers by number, the floating-point registers, the pc *)
Registers ==
  <<"RZero", "RA", "SP", "GP", "TP">> \o Series("T", 0, 2) \o Series("S", 0, 1) \o Series("A", 0, 7)
    \o Series("S", 2, 11) \o Series("T", 3, 6)
    \o Series("FT", 0, 7) \o Series("FS", 0, 1) \o Series("FA", 0, 7)
    \o Series("FS", 2, 11) \o Series("FT", 8, 11) \o <<"PC">>

register_name_map ==
  LET position(name) == CHOOSE i \in DOMAIN Registers : Registers[i] = name
  IN  [name \in {Registers[i] : i \in DOMAIN Registers} |-> position(name) - 1]

(* The CSRs of each slot, from slot 0 on *)
CsrSlots ==
  << {"TSelect", "DCSR", "DPC"} \cup Numbered("TData", 1 .. 3),
     {"DScratch"},
     {"MVendorID", "MArchID", "MIMPID", "MHartID", "MStatus", "MISA", "MEDeleg", "MIDeleg",
      "MIE", "MTVec", "MCounterEN", "MCause", "MIP"},
     {"MScratch"}, {"MEPC"}, {"MTVal"},
     Numbered("PMPCFG", 0 .. 3) \cup Numbered("PMPAddr", 0 .. 15),
     {"MCycle", "MInstRet"} \cup Numbered("MHPMCounter", 3 .. 31) \cup Numbered("MHPMEvent", 3 .. 31),
     {"UStatus", "UIE", "UTVec", "UCause", "UIP"},
     {"UScratch"}, {"UEPC"}, {"UTVal"}, {"FFlags"},
     {"Cycle", "Time", "InstRet"} \cup Numbered("HPMCounter", 3 .. 31),
     {"SStatus", "SIE", "STVec", "SCounterEN", "SCause", "SIP", "SATP"},
     {"SScratch"}, {"SEPC"}, {"STVal"} >>

csr_name_map ==
  LET slot(name) == CHOOSE i \in DOMAIN CsrSlots : name \in CsrSlots[i]
  IN  [name \in UNION {CsrSlots[i] : i \in DOMAIN CsrSlots} |-> slot(name) - 1]

(* The name a slot is read back under, the first of the map that has it *)
csr_of_slot ==
  LET first == <<"DCSR", "DScratch", "MArchID", "MScratch", "MEPC", "MTVal", "PMPAddr0", "MCycle",
                 "UCause", "UScratch", "UEPC", "UTVal", "FFlags", "Cycle", "SATP", "SScratch",
                 "SEPC", "STVal">>
  IN  [slot \in 0 .. 17 |-> first[slot + 1]]

register_of_number == [n \in 0 .. Len(Registers) - 1 |-> Registers[n + 1]]

=============================================================================
