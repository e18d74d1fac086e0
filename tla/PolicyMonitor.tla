--------------------------- MODULE PolicyMonitor ----------------------------
(***************************************************************************)
(* What the validator promises its host, with no tags, no canonization and *)
(* no rule cache: a reference monitor.  Every location of the machine (the *)
(* pc, the registers, the CSRs and the tagged memory cells) carries        *)
(* metadata.  A request to execute an instruction is decided by the policy *)
(* on the metadata its operands carry now; a commit of an allowed request  *)
(* writes exactly the metadata the policy returned for it; nothing else    *)
(* ever changes metadata.                                                  *)
(***************************************************************************)
CONSTANTS
  Loc,          \* locations that carry metadata
  PcLoc,        \* the location of the pc (environment) metadata
  MetaSet,      \* metadata values
  None,         \* no metadata, no location
  Request,      \* requests: [src: Field -> Loc or None, rd, csr: SUBSET Loc]
  InitMd,       \* initial metadata of the locations
  Policy(_)     \* outcomes the policy may return for operand metadata

VARIABLES
  md,           \* metadata of each location
  request,      \* the request last decided
  verdict,      \* "none", "allowed", "denied" or, once stopped, "fatal"
  pending       \* metadata an allowed request writes when it is committed

monitorVars == <<md, request, verdict, pending>>

NoUpdate == [l \in {} |-> None]

Operands(q) == [f \in DOMAIN q.src |-> IF q.src[f] = None THEN None ELSE md[q.src[f]]]

(* A memory operand whose location exists and carries no metadata. *)
Untagged(q) == q.src["mem"] # None /\ md[q.src["mem"]] = None

(* The locations request q writes under policy outcome r. *)
Targets(q, r) == {l \in Loc : \/ l = PcLoc /\ r.pc # None
                              \/ l \in q.rd /\ r.rd # None
                              \/ l \in q.csr /\ r.csr # None}

Update(q, r) == [l \in Targets(q, r) |->
                   IF l = PcLoc THEN r.pc ELSE IF l \in q.rd THEN r.rd ELSE r.csr]

Init == /\ md = InitMd
        /\ request = None
        /\ verdict = "none"
        /\ pending = NoUpdate

(* The monitor decides a request, forgetting one that was not committed. *)
Decide(q) ==
  /\ request' = q
  /\ verdict # "fatal"
  /\ ~Untagged(q)
  /\ \E r \in Policy(Operands(q)) :
       /\ verdict' = IF r.allowed THEN "allowed" ELSE "denied"
       /\ pending' = IF r.allowed THEN Update(q, r) ELSE NoUpdate
  /\ UNCHANGED md

(* A request for untagged memory stops the machine. *)
Stop(q) ==
  /\ request' = q
  /\ verdict # "fatal"
  /\ Untagged(q)
  /\ verdict' = "fatal"
  /\ pending' = NoUpdate
  /\ UNCHANGED md

Commit ==
  /\ verdict = "allowed"
  /\ md' = [l \in Loc |-> IF l \in DOMAIN pending THEN pending[l] ELSE md[l]]
  /\ verdict' = "none"
  /\ pending' = NoUpdate
  /\ UNCHANGED request

Next == (\E q \in Request : Decide(q) \/ Stop(q)) \/ Commit

Spec == Init /\ [][Next]_monitorVars

=============================================================================
