--------------------------- MODULE MCControlFlow ---------------------------
(***************************************************************************)
(* ControlFlow on four addresses.  The instructions disagree about what    *)
(* sits at an address (2 is a conditional jump, a named call or a jump     *)
(* with no successor), as they do for self-modifying code, an indirect     *)
(* branch or a call that is at times an API call.                          *)
(***************************************************************************)
EXTENDS ControlFlow

CONSTANTS MaxBlock, MaxOccurrences   \* bounds of the instance, not of the code

Ins(eip, type, next, side) ==
  [eip |-> eip, content |-> "text", branch_type |-> type, len |-> 1,
   next_node_addr |-> next, side_node_addr |-> side, api_reporter |-> FALSE]

MCInput ==
  { Ins(1, "none", 2, 0),
    Ins(2, "jcc", 3, 1),
    Ins(2, "jcc", 0, 1),
    WithApiReporter(Ins(2, "call", 3, 3)),
    Ins(3, "jmp", 3, 0),
    Ins(4, "ret", 3, 0) }

MCIteration == {1, 2}

Room ==
  \A a \in DOMAIN nodes :
    Len(nodes[a].block) < MaxBlock /\ nodes[a].occurrences < MaxOccurrences

MCNext ==
  \/ \E ins \in MCInput, iteration \in MCIteration : Room /\ AppendToGraph(ins, iteration)
  \/ Generate
  \/ Reload

MCSpec == Init /\ [][MCNext]_vars

=============================================================================
