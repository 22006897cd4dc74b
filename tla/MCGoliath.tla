----------------------------- MODULE MCGoliath -----------------------------
(***************************************************************************)
(* Goliath under an engine that calls the callbacks with a few parameters, *)
(* in any order and for either callback: four addresses, MaxRuns runs.     *)
(***************************************************************************)
EXTENDS Goliath

CONSTANTS MaxRuns, MaxBlock, MaxOccurrences   \* bounds of the instance

Params(eip, type, next, side) ==
  [eip |-> eip, content |-> "text", branch_type |-> type, instrlen |-> 1,
   next_addr |-> next, side_addr |-> side]

MCParams ==
  { Params(1, "none", 2, 0),
    Params(2, "jcc", 1, 3),
    Params(2, "jmp", 0, 1),
    Params(3, "call", 1, 1),
    Params(4, "ret", 1, 1),
    [Params(3, "none", 1, 0) EXCEPT !.content = "leave"] }

Room ==
  \A a \in DOMAIN nodes :
    Len(nodes[a].block) < MaxBlock /\ nodes[a].occurrences < MaxOccurrences

MCNext ==
  \/ cfg_iteration < MaxRuns /\ DBTInit
  \/ \E cp \in MCParams : Room /\ DBTBranching(cp)
  \/ \E cp \in MCParams, reported \in BOOLEAN : Room /\ DBTBeforeExecute(cp, reported)
  \/ DBTFinish
  \/ ProcessEnds

MCSpec == PluginInit /\ [][MCNext]_plugin

=============================================================================
