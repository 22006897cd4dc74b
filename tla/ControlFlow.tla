---------------------------- MODULE ControlFlow ----------------------------
(***************************************************************************)
(* graph::control_flow and Node (goliath/graph/control_flow.cpp, node.cpp):*)
(* the map from start addresses to basic blocks that every executed        *)
(* instruction is appended to.  The caller is arbitrary here: it appends   *)
(* any instruction at any iteration, in any order, so what holds of this   *)
(* module does not depend on how the engine drives the plugin.             *)
(* Goliath.tla composes it with the plugin's callbacks.                    *)
(***************************************************************************)
EXTENDS Instruction, Sequences, SequencesExt

VARIABLES nodes,                    \* start address -> node
          start_address_first_node,
          current_pointer,          \* start address of the open block, 0 if none
          current_node_start_addr

graph == <<nodes, start_address_first_node>>   \* what write() saves
cursor == <<current_pointer, current_node_start_addr>>
vars == <<nodes, start_address_first_node, current_pointer, current_node_start_addr>>

-----------------------------------------------------------------------------
(* Node *)

Node ==
  [start_address : Address, iteration : Nat, block : Seq(InstructionRecord),
   is_done : BOOLEAN, max_occurrences : Nat, occurrences : Nat,
   true_branch_address : Address, false_branch_address : Address]

NewNode(address, iteration) ==
  [start_address |-> address, iteration |-> iteration, block |-> <<>>,
   is_done |-> FALSE, max_occurrences |-> 1, occurrences |-> 1,
   true_branch_address |-> 0, false_branch_address |-> 0]

ContainsAddress(node, eip) ==
  \E i \in 1 .. Len(node.block) : node.block[i].eip = eip

\* Mutant: every instruction of the block counts a visit.
AlreadyVisitedAnywhere(node, eip) == [node EXCEPT !.occurrences = @ + 1]

\* Only the head of a block counts a visit, so a loop is counted once a turn.
AlreadyVisited(node, eip) ==
  IF node.block[1].eip = eip
  THEN [node EXCEPT !.occurrences = @ + 1]
  ELSE node

NodeAppendInstruction(node, ins, iteration) ==
  IF node.is_done /\ ContainsAddress(node, ins.eip)
  THEN IF node.iteration = iteration THEN AlreadyVisited(node, ins.eip) ELSE node
  ELSE [node EXCEPT !.block = Append(@, ins)]

\* Mutant: mark_done is forgotten.
TakeBranchNotDone(node, ins) ==
  IF IsRet(ins) THEN node
  ELSE [node EXCEPT !.true_branch_address  = TrueBranchAddress(ins),
                    !.false_branch_address = FalseBranchAddress(ins)]

\* What append_branch_instruction does once the branch is in the block.
TakeBranch(node, ins) ==
  IF IsRet(ins) THEN [node EXCEPT !.is_done = TRUE]
  ELSE [node EXCEPT !.true_branch_address  = TrueBranchAddress(ins),
                    !.false_branch_address = FalseBranchAddress(ins),
                    !.is_done = TRUE]

\* Mutant: no early return for a node that is done.
NodeAppendBranchAgain(node, ins, iteration) ==
  TakeBranch(NodeAppendInstruction(node, ins, iteration), ins)

NodeAppendBranchInstruction(node, ins, iteration) ==
  IF node.is_done
  THEN node
  ELSE TakeBranch(NodeAppendInstruction(node, ins, iteration), ins)

-----------------------------------------------------------------------------
(* control_flow *)

NoNodes == [a \in {} |-> NewNode(a, 0)]

NodeExists(address) == address \in DOMAIN nodes

\* Mutant: the map is not looked at.
GetNewNode(address, iteration) == NewNode(address, iteration)

\* get_current_node: the node is moved out of the map and always put back.
GetCurrentNode(address, iteration) ==
  IF NodeExists(address) THEN nodes[address] ELSE NewNode(address, iteration)

\* nodes[key] = node
Put(map, key, node) ==
  [a \in DOMAIN map \cup {key} |-> IF a = key THEN node ELSE map[a]]

\* Mutant: only the true branch gets a node.
TrueNeighbor(node) == {node.true_branch_address} \ {0}

\* Mutant: "no branch" is taken for an address.
NeighborsAtZero(node) == {node.true_branch_address, node.false_branch_address}

Neighbors(node) == {node.true_branch_address, node.false_branch_address} \ {0}

\* append_node_neighbors: a target not seen yet becomes an empty node.
WithNeighbors(map, node, iteration) ==
  [a \in DOMAIN map \cup Neighbors(node) |->
     IF a \in DOMAIN map THEN map[a] ELSE NewNode(a, iteration)]

\* set_and_get_current_address: the address it returns, and the field nothing
\* reads.
CurrentAddress(eip) == IF current_pointer = 0 THEN eip ELSE current_pointer

SetCurrentNodeStart(eip) ==
  current_node_start_addr' =
    IF current_node_start_addr = 0 THEN eip ELSE current_node_start_addr

\* Mutant: every append assigns it.
SetStartOfLastNode(eip) == start_address_first_node' = eip

\* append assigns this before it looks at the instruction.
SetStartOfFirstNode(eip) ==
  start_address_first_node' =
    IF start_address_first_node = 0 THEN eip ELSE start_address_first_node

\* Mutant: the cursor is set before the instruction is validated.
RejectAfterCursor(ins, iteration) ==
  /\ ~Validate(ins)
  /\ SetStartOfFirstNode(ins.eip)
  /\ current_pointer' = CurrentAddress(ins.eip)
  /\ SetCurrentNodeStart(ins.eip)
  /\ UNCHANGED nodes

\* The throw of append_instruction and append_branch_instruction.
RejectInstruction(ins, iteration) ==
  /\ ~Validate(ins)
  /\ SetStartOfFirstNode(ins.eip)
  /\ UNCHANGED <<nodes, cursor>>

AppendInstruction(ins, iteration) ==
  /\ Validate(ins)
  /\ ~IsBranch(ins)
  /\ LET current == CurrentAddress(ins.eip)
         node    == NodeAppendInstruction(GetCurrentNode(current, iteration), ins, iteration)
     IN  /\ nodes' = Put(nodes, current, node)
         /\ current_pointer' = current
  /\ SetCurrentNodeStart(ins.eip)
  /\ SetStartOfFirstNode(ins.eip)

\* Mutant: the cursor stays on a finished block.
KeepCurrentAddress(node, current) == current_pointer' = current

\* The cursor is on the block appended to; a finished block is left.
UnsetCurrentAddress(node, current) ==
  current_pointer' = IF node.is_done THEN 0 ELSE current

AppendBranchInstruction(ins, iteration) ==
  /\ Validate(ins)
  /\ IsBranch(ins)
  /\ LET current == CurrentAddress(ins.eip)
         node    == NodeAppendBranchInstruction(GetCurrentNode(current, iteration), ins, iteration)
     IN  /\ nodes' = Put(WithNeighbors(nodes, node, iteration), current, node)
         /\ UnsetCurrentAddress(node, current)
  /\ SetCurrentNodeStart(ins.eip)
  /\ SetStartOfFirstNode(ins.eip)

AppendToGraph(ins, iteration) ==
  \/ RejectInstruction(ins, iteration)
  \/ AppendInstruction(ins, iteration)
  \/ AppendBranchInstruction(ins, iteration)

\* set_nodes_max_occurrences: the loop's `max` (a set of one number), and the
\* map it leaves.
LargestOccurrences(map) ==
  {max \in {0} \cup {map[a].occurrences : a \in DOMAIN map} :
     \A a \in DOMAIN map : map[a].occurrences <= max}

WithMaxOccurrences(map, max) ==
  [a \in DOMAIN map |-> [map[a] EXCEPT !.max_occurrences = max]]

\* generate: graphviz() and gdl() both start with it and then only print.
Generate ==
  /\ \E max \in LargestOccurrences(nodes) : nodes' = WithMaxOccurrences(nodes, max)
  /\ UNCHANGED <<start_address_first_node, cursor>>

\* write() into the shared memory, clean(), and the next run's read() into a
\* new object: the cursor is not part of what is written.
Reload ==
  /\ current_pointer' = 0
  /\ current_node_start_addr' = 0
  /\ UNCHANGED graph

-----------------------------------------------------------------------------
Init ==
  /\ nodes = NoNodes
  /\ start_address_first_node = 0
  /\ current_pointer = 0
  /\ current_node_start_addr = 0

Next ==
  \/ \E ins \in InstructionRecord, iteration \in Nat : AppendToGraph(ins, iteration)
  \/ Generate
  \/ Reload

Spec == Init /\ [][Next]_vars

-----------------------------------------------------------------------------
(* Properties.  The parts of the invariant are operators of a map of nodes,  *)
(* so that Goliath.tla can ask them of the live graph and of the stored one. *)

\* The types of the fields of control_flow and Node; keys are never 0, the
\* value current_pointer uses for "no open block".
TypeOK ==
  /\ DOMAIN nodes \subseteq Address \ {0}
  /\ nodes = [a \in DOMAIN nodes |-> nodes[a]]
  /\ \A a \in DOMAIN nodes : nodes[a] \in Node
  /\ start_address_first_node \in Address
  /\ current_pointer \in Address
  /\ current_node_start_addr \in Address

\* A node is filed under its own start address, and the first instruction of
\* its block sits there: what AlreadyVisited compares with (node.cpp:62-63)
\* and what name() prints is the address other nodes' edges lead to.
KeyedByHead(map) ==
  \A a \in DOMAIN map :
    /\ map[a].start_address = a
    /\ map[a].block # <<>> => map[a].block[1].eip = a

\* A block is marked done exactly when a branch instruction has been put in
\* it, so no path through append leaves a branch in an open block or closes a
\* block that falls through (node.cpp:44-58).
DoneByBranch(map) ==
  \A a \in DOMAIN map :
    map[a].is_done <=> \E i \in 1 .. Len(map[a].block) : IsBranch(map[a].block[i])

\* A node's outgoing edges are those of the one branch instruction it holds:
\* none before it, none for a return, and never a second branch's.
EdgesOfBranch(map) ==
  \A a \in DOMAIN map :
    /\ ~map[a].is_done => map[a].true_branch_address = 0 /\ map[a].false_branch_address = 0
    /\ \A i \in 1 .. Len(map[a].block) : IsBranch(map[a].block[i]) =>
         LET ins == map[a].block[i] IN
           /\ map[a].true_branch_address = IF IsRet(ins) THEN 0 ELSE TrueBranchAddress(ins)
           /\ map[a].false_branch_address = IF IsRet(ins) THEN 0 ELSE FalseBranchAddress(ins)

\* No dangling edge: the target of every edge the graphviz and gdl relations
\* print is itself a node of the map (append_node_neighbors).
EdgesClosed(map) ==
  \A a \in DOMAIN map :
    /\ map[a].true_branch_address # 0 => map[a].true_branch_address \in DOMAIN map
    /\ map[a].false_branch_address # 0 => map[a].false_branch_address \in DOMAIN map

\* An empty node stands for a branch target not executed yet: some finished
\* node has an edge to it, so the drawing has no unreachable empty box.
EmptyNodesAreTargets(map) ==
  \A a \in DOMAIN map : map[a].block = <<>> =>
    \E b \in DOMAIN map : a \in {map[b].true_branch_address, map[b].false_branch_address}

NodesKeyedByHead == KeyedByHead(nodes)
NodesDoneByBranch == DoneByBranch(nodes)
NodesEdgesOfBranch == EdgesOfBranch(nodes)
NodesEdgesClosed == EdgesClosed(nodes)
NodesEmptyAreTargets == EmptyNodesAreTargets(nodes)

\* The open block the cursor names exists and has begun: get_current_node
\* never starts a node the cursor already pointed at.
CursorOnBlock ==
  current_pointer # 0 =>
    current_pointer \in DOMAIN nodes /\ nodes[current_pointer].block # <<>>

\* No append, generation or reload forgets a node or rewrites what a block
\* holds: blocks only grow at their end, across runs too.
BlocksOnlyGrow ==
  [][\A a \in DOMAIN nodes :
       a \in DOMAIN nodes' /\ IsPrefix(nodes[a].block, nodes'[a].block)]_vars

\* Once a block is done its edges and its mark are final, however often and in
\* whichever run it is entered again.
DoneIsFinal ==
  [][\A a \in DOMAIN nodes : nodes[a].is_done =>
       /\ nodes'[a].is_done
       /\ nodes'[a].true_branch_address = nodes[a].true_branch_address
       /\ nodes'[a].false_branch_address = nodes[a].false_branch_address]_vars

=============================================================================
