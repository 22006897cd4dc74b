---------------------------- MODULE Instruction ----------------------------
(***************************************************************************)
(* assembly::instruction and the engine's CUSTOM_PARAMS it is built from   *)
(* (goliath/assembly/instruction.h, instruction.cpp).  Text is abstracted  *)
(* to what the code asks of it: whether the disassembly is empty or names  *)
(* LEAVE, and whether the APIReporter attached a name.                     *)
(***************************************************************************)
EXTENDS Integers

CONSTANT AddressSpace   \* 2^32 in the 32-bit build: size_t arithmetic wraps there

ASSUME AddressSpaceAssumption == AddressSpace \in Nat /\ AddressSpace > 1

Address == 0 .. AddressSpace - 1

\* NO_BRANCH is 0; "jcc" stands for the conditional jumps of _is_branch and
\* "unknown" for any other nonzero value the engine may put in BranchType.
BranchType == {"none", "jcc", "jmp", "call", "ret", "unknown"}

Content == {"empty", "leave", "text"}

CustomParams ==
  [eip : Address, content : Content, branch_type : BranchType,
   instrlen : Address, next_addr : Address, side_addr : Address]

InstructionRecord ==
  [eip : Address, content : Content, branch_type : BranchType, len : Address,
   next_node_addr : Address, side_node_addr : Address, api_reporter : BOOLEAN]

-----------------------------------------------------------------------------
(* patch_next_and_side_addr: the engine's successor addresses, repaired in  *)
(* place in the CUSTOM_PARAMS every handler is given.                       *)

\* Mutant: no case for the conditional jumps.
ComputeSideAddrCallsOnly(cp) ==
  IF cp.branch_type = "call" THEN (cp.eip + cp.instrlen) % AddressSpace ELSE 0

ComputeSideAddr(cp) ==
  LET false_branch == (cp.eip + cp.instrlen) % AddressSpace
      to_next      == cp.next_addr = cp.side_addr /\ cp.next_addr = false_branch
  IN  CASE cp.branch_type \in {"jmp", "ret"} -> 0
        [] cp.branch_type = "call"           -> IF to_next THEN 0 ELSE false_branch
        [] OTHER                             -> cp.side_addr

\* Mutant: the engine's addresses are trusted.
PatchNothing(cp) == cp

PatchNextAndSideAddr(cp) == [cp EXCEPT !.side_addr = ComputeSideAddr(cp)]

\* The constructor call of DBTBeforeExecute and DBTBranching; api_reporter is
\* empty until DBTBeforeExecute finds the APIReporter's layer.
MakeInstruction(cp) ==
  [eip |-> cp.eip, content |-> cp.content, branch_type |-> cp.branch_type,
   len |-> cp.instrlen, next_node_addr |-> cp.next_addr,
   side_node_addr |-> cp.side_addr, api_reporter |-> FALSE]

\* A call the APIReporter knows becomes a simple instruction with a name.
WithApiReporter(ins) == [ins EXCEPT !.api_reporter = TRUE, !.branch_type = "none"]

-----------------------------------------------------------------------------
IsBranch(ins) == ins.branch_type \in {"jcc", "jmp", "call", "ret"}
IsCall(ins)   == ins.branch_type = "call"
IsRet(ins)    == ins.branch_type = "ret"
IsLeave(ins)  == ins.content = "leave"

Validate(ins) ==
  /\ ins.content # "empty"
  /\ IsBranch(ins) \/ ins.branch_type = "none"
  /\ ins.eip # 0
  /\ ins.len # 0
  /\ ins.next_node_addr # 0

TrueBranchAddress(ins)  == IF ins.api_reporter THEN 0 ELSE ins.next_node_addr
FalseBranchAddress(ins) == ins.side_node_addr

=============================================================================
