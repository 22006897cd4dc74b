------------------------------ MODULE MCSerial ------------------------------
(***************************************************************************)
(* Serial for a few instructions: texts of different lengths, one with an  *)
(* API's name, a branch whose targets sort before and behind its block.    *)
(***************************************************************************)
EXTENDS Serial

CONSTANTS MaxRuns, MaxBlock, MaxOccurrences   \* bounds of the instance

MCTextSize == [content \in Content |-> CASE content = "leave" -> 5 [] OTHER -> 8]

Ins(eip, content, type, next, side) ==
  [eip |-> eip, content |-> content, branch_type |-> type, len |-> 1,
   next_node_addr |-> next, side_node_addr |-> side, api_reporter |-> FALSE]

MCInput ==
  { WithApiReporter(Ins(2, "text", "call", 3, 3)),
    Ins(2, "leave", "none", 3, 0),
    Ins(3, "text", "jcc", 2, 1),
    Ins(1, "text", "ret", 3, 0) }

Room ==
  \A a \in DOMAIN nodes :
    Len(nodes[a].block) < MaxBlock /\ nodes[a].occurrences < MaxOccurrences

MCNext ==
  \/ cfg_iteration < MaxRuns /\ BeginRun
  \/ \E ins \in MCInput : Room /\ Trace(ins)
  \/ BeginWrite
  \/ Copy
  \/ EndWrite
  \/ Die

MCSpec == SerialInit /\ [][MCNext]_serial

=============================================================================
