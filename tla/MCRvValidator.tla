---------------------------- MODULE MCRvValidator ---------------------------
(***************************************************************************)
(* TLC instances of the validator: two registers, one CSR, four addresses  *)
(* (code, data, a device without metadata, nothing) and a taint policy.    *)
(***************************************************************************)
EXTENDS RvValidator

CONSTANTS clean, taint, mixed

(* Address 0 is code, 4 data, 8 a device the policy does not describe, and *)
(* 12 is on no SOC element.                                                *)
MCSoc == {[start |-> 0, end |-> 8, heterogeneous |-> TRUE, tag_granularity |-> 4],
          [start |-> 8, end |-> 12, heterogeneous |-> FALSE, tag_granularity |-> 4]}
MCAddrFixer == [a \in Address |-> a]

Base == [rd |-> None, rs1 |-> None, rs2 |-> None, rs3 |-> None, csr |-> None,
         has_load |-> FALSE, has_store |-> FALSE]
Add   == [Base EXCEPT !.rd = 1, !.rs1 = 1, !.rs2 = 1]
Load  == [Base EXCEPT !.rd = 1, !.rs1 = 0, !.has_load = TRUE]
Store == [Base EXCEPT !.rs1 = 0, !.rs2 = 1, !.has_store = TRUE]
Csrrw == [Base EXCEPT !.rd = 0, !.rs1 = 1, !.csr = 5]
MCInsn == {Add, Load, Store, Csrrw}
MemInsn == {Load, Store, Csrrw}

(* Taint: a result is tainted if an operand is; tainted code is not        *)
(* executed; a load of tainted data into a tainted environment is denied;  *)
(* two tainted operands give an arbitrary result that is not cacheable.    *)
MCPolicyEval(m) ==
  LET Join == IF taint \in {m["op1"], m["op2"], m["mem"]} THEN taint ELSE clean
      Out(ok, c, p, d, s) == [allowed |-> ok, cached |-> c, pc |-> p, rd |-> d, csr |-> s]
  IN  IF m["ci"] = taint \/ (m["mem"] = taint /\ m["pc"] = taint)
      THEN {Out(FALSE, TRUE, None, None, None)}
      ELSE IF m["mem"] = None /\ m["op2"] = taint /\ m["op1"] = taint
      THEN {Out(TRUE, FALSE, clean, None, None), Out(TRUE, FALSE, mixed, clean, None)}
      ELSE {Out(TRUE, TRUE, IF m["mem"] = taint THEN taint ELSE None, Join,
                IF m["op1"] = None THEN None ELSE m["op1"])}

(* The same, but only what has a single register operand may be cached. *)
MCPolicyEvalFewCached(m) ==
  {[o EXCEPT !.cached = @ /\ m["op2"] = None] : o \in MCPolicyEval(m)}

MCInitSets == <<taint, clean>>
MCRegDefault == [r \in Reg |-> IF r = 0 THEN clean ELSE taint]
MCCsrDefault == [c \in Csr |-> clean]
MCCellDefault == [k \in Cell |-> IF k[1] = 8 THEN None ELSE clean]
NoWatch == [pc |-> {}, regs |-> {}, csrs |-> {}, addrs |-> {}]
AllWatch == [pc |-> {TRUE}, regs |-> {1}, csrs |-> {5}, addrs |-> {4}]

=============================================================================
