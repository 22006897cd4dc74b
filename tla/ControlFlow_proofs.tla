------------------------ MODULE ControlFlow_proofs -------------------------
(***************************************************************************)
(* Proofs about ControlFlow, for every size of the address space, every    *)
(* instruction the caller may append and every order of calls.  The        *)
(* invariant of the map is taken apart into what holds of each node alone  *)
(* (NodeInv) and what relates nodes (the edges).                           *)
(***************************************************************************)
EXTENDS ControlFlow, TLAPS

HasBranch(node) == \E i \in 1 .. Len(node.block) : IsBranch(node.block[i])

\* What KeyedByHead, DoneByBranch and EdgesOfBranch say of the node filed at a.
NodeInv(node, a) ==
  /\ node \in Node
  /\ node.start_address = a
  /\ node.block # <<>> => node.block[1].eip = a
  /\ node.is_done <=> HasBranch(node)
  /\ ~node.is_done => node.true_branch_address = 0 /\ node.false_branch_address = 0
  /\ \A i \in 1 .. Len(node.block) : IsBranch(node.block[i]) =>
       /\ node.true_branch_address =
            IF IsRet(node.block[i]) THEN 0 ELSE TrueBranchAddress(node.block[i])
       /\ node.false_branch_address =
            IF IsRet(node.block[i]) THEN 0 ELSE FalseBranchAddress(node.block[i])

\* What every append keeps of a node it is given.
Keeps(old, new) ==
  /\ IsPrefix(old.block, new.block)
  /\ old.is_done => /\ new.is_done
                    /\ new.true_branch_address = old.true_branch_address
                    /\ new.false_branch_address = old.false_branch_address

-----------------------------------------------------------------------------
(* One node *)

\* The node get_current_node and append_node_neighbors make.
LEMMA NewNodeInv ==
  ASSUME NEW a \in Address, NEW iteration \in Nat
  PROVE  NodeInv(NewNode(a, iteration), a)
BY AddressSpaceAssumption DEF NodeInv, NewNode, Node, HasBranch, Address

\* Both branch addresses of an instruction are addresses, 0 among them.
LEMMA BranchAddresses ==
  ASSUME NEW ins \in InstructionRecord
  PROVE  TrueBranchAddress(ins) \in Address /\ FalseBranchAddress(ins) \in Address
<1>1. ins.next_node_addr \in Address /\ ins.side_node_addr \in Address
  BY DEF InstructionRecord
<1>2. 0 \in Address
  BY AddressSpaceAssumption DEF Address
<1> QED
  BY <1>1, <1>2 DEF TrueBranchAddress, FalseBranchAddress

\* What appending to a block does to it, entry by entry.
LEMMA AppendBlock ==
  ASSUME NEW block \in Seq(InstructionRecord), NEW ins \in InstructionRecord
  PROVE  /\ Append(block, ins) \in Seq(InstructionRecord)
         /\ Len(Append(block, ins)) = Len(block) + 1
         /\ \A i \in 1 .. Len(block) : Append(block, ins)[i] = block[i]
         /\ Append(block, ins)[Len(block) + 1] = ins
         /\ Append(block, ins) # <<>>
         /\ IsPrefix(block, Append(block, ins))
BY DEF IsPrefix

\* Blocks that grow at their end, in one step and in two.
LEMMA PrefixItself ==
  ASSUME NEW S, NEW s \in Seq(S)
  PROVE  IsPrefix(s, s)
BY DEF IsPrefix

LEMMA PrefixTransitive ==
  ASSUME NEW S, NEW s \in Seq(S), NEW t \in Seq(S), NEW u \in Seq(S),
         IsPrefix(s, t), IsPrefix(t, u)
  PROVE  IsPrefix(s, u)
<1>1. Len(s) <= Len(t) /\ Len(t) <= Len(u)
  BY DEF IsPrefix
<1>2. \A i \in 1 .. Len(s) : s[i] = t[i]
  <2>1. \A i \in 1 .. Len(s) : SubSeq(s, 1, Len(s))[i] = s[i] /\ SubSeq(t, 1, Len(s))[i] = t[i]
    BY <1>1
  <2> QED
    BY <2>1 DEF IsPrefix
<1>3. \A i \in 1 .. Len(t) : t[i] = u[i]
  <2>1. \A i \in 1 .. Len(t) : SubSeq(t, 1, Len(t))[i] = t[i] /\ SubSeq(u, 1, Len(t))[i] = u[i]
    BY <1>1
  <2> QED
    BY <2>1 DEF IsPrefix
<1>4. SubSeq(s, 1, Len(s)) = SubSeq(u, 1, Len(s))
  <2>1. \A i \in 1 .. Len(s) : s[i] = u[i]
    BY <1>1, <1>2, <1>3
  <2> QED
    BY <1>1, <2>1
<1> QED
  BY <1>1, <1>4 DEF IsPrefix

\* Node::append_instruction, called for an instruction that does not branch:
\* the node stays one, its mark and its edges are not touched.
LEMMA NodeAppendInstructionInv ==
  ASSUME NEW node, NEW a \in Address, NodeInv(node, a),
         NEW ins \in InstructionRecord, NEW iteration \in Nat,
         ~IsBranch(ins),
         node.block = <<>> => ins.eip = a
  PROVE  LET new == NodeAppendInstruction(node, ins, iteration)
         IN  /\ NodeInv(new, a) /\ new.block # <<>> /\ Keeps(node, new)
             /\ new.true_branch_address = node.true_branch_address
             /\ new.false_branch_address = node.false_branch_address
<1> DEFINE new == NodeAppendInstruction(node, ins, iteration)
<1>1. CASE node.is_done /\ ContainsAddress(node, ins.eip)
  <2>1. new \in {node, [node EXCEPT !.occurrences = @ + 1]}
    BY <1>1 DEF NodeAppendInstruction, AlreadyVisited
  <2>2. new \in Node /\ \A f \in {"start_address", "block", "is_done",
                "true_branch_address", "false_branch_address"} : new[f] = node[f]
    BY <2>1 DEF NodeInv, Node
  <2>3. node.block # <<>>
    BY <1>1 DEF NodeInv, HasBranch, Node
  <2> QED
    BY <2>2, <2>3 DEF NodeInv, HasBranch, Keeps, IsPrefix, Node
<1>2. CASE ~(node.is_done /\ ContainsAddress(node, ins.eip))
  <2>1. new = [node EXCEPT !.block = Append(@, ins)]
    BY <1>2 DEF NodeAppendInstruction
  <2>2. node.block \in Seq(InstructionRecord)
    BY DEF NodeInv, Node
  <2>3. /\ new \in Node
        /\ new.block = Append(node.block, ins)
        /\ \A f \in {"start_address", "is_done",
                "true_branch_address", "false_branch_address"} : new[f] = node[f]
    BY <2>1, <2>2, AppendBlock DEF NodeInv, Node
  <2>4. new.block[1].eip = a
    BY <2>2, <2>3, AppendBlock DEF NodeInv
  <2>5. \A i \in 1 .. Len(new.block) :
          IsBranch(new.block[i]) => i \in 1 .. Len(node.block) /\ new.block[i] = node.block[i]
    BY <2>2, <2>3, AppendBlock
  <2>6. HasBranch(new) <=> HasBranch(node)
    BY <2>2, <2>3, <2>5, AppendBlock DEF HasBranch
  <2> QED
    BY <2>2, <2>3, <2>4, <2>5, <2>6, AppendBlock DEF NodeInv, Keeps
<1> QED
  BY <1>1, <1>2

\* Node::append_branch_instruction: the node is done afterwards, and its edges
\* are those of the branch that finished it, then or before.
LEMMA NodeAppendBranchInv ==
  ASSUME NEW node, NEW a \in Address, NodeInv(node, a),
         NEW ins \in InstructionRecord, NEW iteration \in Nat,
         IsBranch(ins),
         node.block = <<>> => ins.eip = a
  PROVE  LET new == NodeAppendBranchInstruction(node, ins, iteration)
         IN  NodeInv(new, a) /\ new.block # <<>> /\ Keeps(node, new) /\ new.is_done
<1> DEFINE new == NodeAppendBranchInstruction(node, ins, iteration)
<1>1. CASE node.is_done
  <2>1. new = node
    BY <1>1 DEF NodeAppendBranchInstruction
  <2>2. node.block # <<>>
    BY <1>1 DEF NodeInv, HasBranch, Node
  <2> QED
    BY <1>1, <2>1, <2>2 DEF Keeps, IsPrefix
<1>2. CASE ~node.is_done
  <2> DEFINE true_address  == IF IsRet(ins) THEN node.true_branch_address ELSE TrueBranchAddress(ins)
             false_address == IF IsRet(ins) THEN node.false_branch_address ELSE FalseBranchAddress(ins)
             pushed        == [node EXCEPT !.block = Append(@, ins)]
  <2>1. node.block \in Seq(InstructionRecord)
    BY DEF NodeInv, Node
  <2>2. NodeAppendInstruction(node, ins, iteration) = pushed
    BY <1>2 DEF NodeAppendInstruction
  <2>3. /\ pushed \in Node
        /\ pushed.block = Append(node.block, ins)
        /\ \A f \in {"start_address", "true_branch_address", "false_branch_address"} :
             pushed[f] = node[f]
    BY <2>1, AppendBlock DEF NodeInv, Node
  <2>4. true_address \in Address /\ false_address \in Address
    BY BranchAddresses DEF NodeInv, Node
  <2>5. new = TakeBranch(pushed, ins)
    BY <1>2, <2>2 DEF NodeAppendBranchInstruction
  <2>6. /\ new \in Node
        /\ new.block = Append(node.block, ins)
        /\ new.start_address = node.start_address
        /\ new.true_branch_address = true_address
        /\ new.false_branch_address = false_address
        /\ new.is_done
    BY <2>3, <2>4, <2>5 DEF TakeBranch, Node
  <2>7. new.block[1].eip = a
    BY <2>1, <2>6, AppendBlock DEF NodeInv
  <2>8. \A i \in 1 .. Len(new.block) :
          IsBranch(new.block[i]) => i = Len(node.block) + 1 /\ new.block[i] = ins
    BY <1>2, <2>1, <2>6, AppendBlock DEF NodeInv, HasBranch
  <2>9. HasBranch(new)
    BY <2>1, <2>6, AppendBlock DEF HasBranch
  <2>10. node.true_branch_address = 0 /\ node.false_branch_address = 0
    BY <1>2 DEF NodeInv
  <2>11. \A i \in 1 .. Len(new.block) : IsBranch(new.block[i]) =>
       /\ new.true_branch_address =
            IF IsRet(new.block[i]) THEN 0 ELSE TrueBranchAddress(new.block[i])
       /\ new.false_branch_address =
            IF IsRet(new.block[i]) THEN 0 ELSE FalseBranchAddress(new.block[i])
    BY <2>6, <2>8, <2>10
  <2> QED
    BY <1>2, <2>1, <2>6, <2>7, <2>9, <2>11, AppendBlock DEF NodeInv, Keeps
<1> QED
  BY <1>1, <1>2

-----------------------------------------------------------------------------
(* The map *)

\* The invariant, as a predicate of the map, and its inductive form for the
\* module's variables: the cursor has to be part of it, because the head of a
\* block is right only if the cursor never names a block that has not begun.
MapInv(map) ==
  /\ DOMAIN map \subseteq Address \ {0}
  /\ map = [a \in DOMAIN map |-> map[a]]
  /\ \A a \in DOMAIN map : NodeInv(map[a], a)
  /\ EdgesClosed(map)
  /\ EmptyNodesAreTargets(map)

IInv ==
  /\ MapInv(nodes)
  /\ start_address_first_node \in Address
  /\ current_pointer \in Address
  /\ current_node_start_addr \in Address
  /\ CursorOnBlock

\* The properties the runs check follow from it.
LEMMA MapInvParts ==
  ASSUME NEW map, MapInv(map)
  PROVE  /\ \A a \in DOMAIN map : map[a] \in Node
         /\ KeyedByHead(map)
         /\ DoneByBranch(map)
         /\ EdgesOfBranch(map)
         /\ EdgesClosed(map)
         /\ EmptyNodesAreTargets(map)
<1>1. \A a \in DOMAIN map : NodeInv(map[a], a)
  BY DEF MapInv
<1>2. (\A a \in DOMAIN map : map[a] \in Node) /\ KeyedByHead(map)
  BY <1>1 DEF NodeInv, KeyedByHead
<1>3. DoneByBranch(map)
  BY <1>1 DEF NodeInv, HasBranch, DoneByBranch
<1>4. EdgesOfBranch(map)
  BY <1>1 DEF NodeInv, EdgesOfBranch
<1> QED
  BY <1>2, <1>3, <1>4 DEF MapInv

\* get_current_node: the node found or made for the address the cursor names
\* can take the instruction.
LEMMA CurrentNodeInv ==
  ASSUME IInv, NEW ins \in InstructionRecord, Validate(ins), NEW iteration \in Nat
  PROVE  LET current == CurrentAddress(ins.eip)
             node    == GetCurrentNode(current, iteration)
         IN  /\ current \in Address \ {0}
             /\ NodeInv(node, current)
             /\ node.block = <<>> => ins.eip = current
             /\ current \in DOMAIN nodes => node = nodes[current]
<1> DEFINE current == CurrentAddress(ins.eip)
           node    == GetCurrentNode(current, iteration)
<1>1. ins.eip \in Address \ {0}
  BY DEF Validate, InstructionRecord
<1>2. current \in Address \ {0}
  BY <1>1 DEF CurrentAddress, IInv
<1>3. NodeInv(node, current)
  BY <1>2, NewNodeInv DEF GetCurrentNode, NodeExists, IInv, MapInv
<1>4. node.block = <<>> => ins.eip = current
  <2>1. CASE current_pointer = 0
    BY <2>1 DEF CurrentAddress
  <2>2. CASE current_pointer # 0
    BY <2>2 DEF CurrentAddress, CursorOnBlock, IInv, GetCurrentNode, NodeExists
  <2> QED
    BY <2>1, <2>2
<1>5. current \in DOMAIN nodes => node = nodes[current]
  BY DEF GetCurrentNode, NodeExists
<1> QED
  BY <1>2, <1>3, <1>4, <1>5

\* append_node_neighbors and the assignment after it: replacing or adding one
\* node that has begun, with its targets, keeps the invariant of the map.  The
\* node's old edges, if it was in the map and done, are its new ones.
LEMMA PutInv ==
  ASSUME NEW map, MapInv(map),
         NEW key \in Address \ {0}, NEW node, NodeInv(node, key), node.block # <<>>,
         key \in DOMAIN map => Keeps(map[key], node),
         NEW iteration \in Nat
  PROVE  LET new == Put(WithNeighbors(map, node, iteration), key, node)
         IN  /\ MapInv(new)
             /\ \A a \in DOMAIN map : a \in DOMAIN new /\ Keeps(map[a], new[a])
             /\ key \in DOMAIN new /\ new[key] = node
<1> DEFINE targets == Neighbors(node)
           new     == Put(WithNeighbors(map, node, iteration), key, node)
<1>1. targets \subseteq Address \ {0}
  BY DEF Neighbors, NodeInv, Node
<1>2. DOMAIN new = DOMAIN map \cup targets \cup {key}
  BY DEF Put, WithNeighbors
<1>3. new[key] = node
  BY <1>2 DEF Put
<1>4. \A a \in DOMAIN map : a # key => new[a] = map[a]
  BY <1>2 DEF Put, WithNeighbors
<1>5. \A a \in targets : a # key /\ a \notin DOMAIN map => new[a] = NewNode(a, iteration)
  BY <1>2 DEF Put, WithNeighbors
<1>6. new = [a \in DOMAIN new |-> new[a]]
  BY DEF Put
<1> HIDE DEF targets, new
<1>7. \A a \in DOMAIN new : NodeInv(new[a], a)
  <2> SUFFICES ASSUME NEW a \in DOMAIN new
               PROVE  NodeInv(new[a], a)
    OBVIOUS
  <2>1. CASE a = key
    BY <1>3, <2>1
  <2>2. CASE a # key /\ a \in DOMAIN map
    BY <1>4, <2>2 DEF MapInv
  <2>3. CASE a # key /\ a \notin DOMAIN map
    <3>1. a \in targets
      BY <1>2, <2>3
    <3>2. a \in Address
      BY <1>1, <3>1
    <3> QED
      BY <1>5, <2>3, <3>1, <3>2, NewNodeInv
  <2> QED
    BY <2>1, <2>2, <2>3
<1>8. \A a \in DOMAIN map : a \in DOMAIN new /\ Keeps(map[a], new[a])
  <2>1. \A a \in DOMAIN map : Keeps(map[a], map[a])
    BY DEF Keeps, IsPrefix
  <2> QED
    BY <1>2, <1>3, <1>4, <2>1
<1>9. EdgesClosed(new)
  <2> SUFFICES ASSUME NEW a \in DOMAIN new
               PROVE  /\ new[a].true_branch_address # 0 => new[a].true_branch_address \in DOMAIN new
                      /\ new[a].false_branch_address # 0 => new[a].false_branch_address \in DOMAIN new
    BY DEF EdgesClosed
  <2>1. CASE a = key
    BY <1>2, <1>3, <2>1 DEF targets, Neighbors
  <2>2. CASE a # key /\ a \in DOMAIN map
    BY <1>2, <1>4, <2>2 DEF MapInv, EdgesClosed
  <2>3. CASE a # key /\ a \notin DOMAIN map
    <3>1. new[a] = NewNode(a, iteration)
      BY <1>2, <1>5, <2>3
    <3> QED
      BY <3>1 DEF NewNode
  <2> QED
    BY <2>1, <2>2, <2>3
<1>10. EmptyNodesAreTargets(new)
  <2> SUFFICES ASSUME NEW a \in DOMAIN new, new[a].block = <<>>
               PROVE  \E b \in DOMAIN new :
                        a \in {new[b].true_branch_address, new[b].false_branch_address}
    BY DEF EmptyNodesAreTargets
  <2>1. a # key
    BY <1>3
  <2>2. CASE a \in DOMAIN map
    <3>1. PICK b \in DOMAIN map :
            a \in {map[b].true_branch_address, map[b].false_branch_address}
      BY <1>4, <2>1, <2>2 DEF MapInv, EmptyNodesAreTargets
    <3>2. map[b].is_done
      BY <2>2, <3>1 DEF MapInv, NodeInv
    <3>3. /\ b \in DOMAIN new
          /\ new[b].true_branch_address = map[b].true_branch_address
          /\ new[b].false_branch_address = map[b].false_branch_address
      BY <1>8, <3>2 DEF Keeps
    <3> QED
      BY <3>1, <3>3
  <2>3. CASE a \notin DOMAIN map
    BY <1>2, <1>3, <2>1, <2>3 DEF targets, Neighbors
  <2> QED
    BY <2>2, <2>3
<1>11. key \in DOMAIN new /\ DOMAIN new \subseteq Address \ {0}
  BY <1>1, <1>2 DEF MapInv
<1>12. MapInv(new)
  BY <1>6, <1>7, <1>9, <1>10, <1>11 DEF MapInv
<1> QED
  BY <1>3, <1>8, <1>11, <1>12 DEF new

\* set_nodes_max_occurrences changes one field of every node, which no part of
\* the invariant looks at.
LEMMA MaxOccurrencesInv ==
  ASSUME NEW map, MapInv(map), NEW max \in LargestOccurrences(map)
  PROVE  LET new == WithMaxOccurrences(map, max)
         IN  /\ MapInv(new)
             /\ DOMAIN new = DOMAIN map
             /\ \A a \in DOMAIN map : Keeps(map[a], new[a]) /\ new[a].block = map[a].block
<1> DEFINE new == WithMaxOccurrences(map, max)
<1>1. max \in Nat
  BY DEF LargestOccurrences, MapInv, NodeInv, Node
<1>2. DOMAIN new = DOMAIN map /\ new = [a \in DOMAIN new |-> new[a]]
  BY DEF WithMaxOccurrences
<1>3. \A a \in DOMAIN map : /\ new[a] \in Node
                           /\ \A f \in {"start_address", "block", "is_done",
                                "true_branch_address", "false_branch_address"} :
                                  new[a][f] = map[a][f]
  BY <1>1 DEF WithMaxOccurrences, MapInv, NodeInv, Node
<1> HIDE DEF new
<1>4. \A a \in DOMAIN map : NodeInv(new[a], a)
  BY <1>3 DEF MapInv, NodeInv, HasBranch
<1>5. \A a \in DOMAIN map : Keeps(map[a], new[a])
  BY <1>3 DEF Keeps, IsPrefix
<1>6. EdgesClosed(new) /\ EmptyNodesAreTargets(new)
  BY <1>2, <1>3 DEF MapInv, EdgesClosed, EmptyNodesAreTargets
<1>7. MapInv(new)
  BY <1>2, <1>4, <1>6 DEF MapInv
<1> QED
  BY <1>2, <1>3, <1>5, <1>7 DEF new

-----------------------------------------------------------------------------
(* The steps *)

\* What every step does to the nodes it finds: BlocksOnlyGrow and DoneIsFinal
\* are read off it.
NodesKept == \A a \in DOMAIN nodes : a \in DOMAIN nodes' /\ Keeps(nodes[a], nodes'[a])

LEMMA NodesKeptIfUnchanged ==
  ASSUME nodes' = nodes
  PROVE  NodesKept
BY DEF NodesKept, Keeps, IsPrefix

\* The throw leaves the map alone.
LEMMA RejectStep ==
  ASSUME IInv, NEW ins \in InstructionRecord, NEW iteration \in Nat,
         RejectInstruction(ins, iteration)
  PROVE  IInv' /\ NodesKept
<1>1. start_address_first_node' \in Address
  BY DEF IInv, RejectInstruction, SetStartOfFirstNode, InstructionRecord
<1> QED
  BY <1>1, NodesKeptIfUnchanged DEF IInv, RejectInstruction, cursor, CursorOnBlock

\* Every accepted instruction moves the two start addresses in the same way.
LEMMA StartsTyped ==
  ASSUME IInv, NEW ins \in InstructionRecord,
         SetCurrentNodeStart(ins.eip), SetStartOfFirstNode(ins.eip)
  PROVE  start_address_first_node' \in Address /\ current_node_start_addr' \in Address
BY DEF IInv, SetCurrentNodeStart, SetStartOfFirstNode, InstructionRecord

\* append_instruction has no targets to add: those of the node it extends are
\* there already.
LEMMA AppendInstructionStep ==
  ASSUME IInv, NEW ins \in InstructionRecord, NEW iteration \in Nat,
         AppendInstruction(ins, iteration)
  PROVE  IInv' /\ NodesKept
<1> DEFINE current == CurrentAddress(ins.eip)
           old     == GetCurrentNode(current, iteration)
           node    == NodeAppendInstruction(old, ins, iteration)
<1>1. /\ Validate(ins) /\ ~IsBranch(ins)
      /\ nodes' = Put(nodes, current, node)
      /\ current_pointer' = current
      /\ SetCurrentNodeStart(ins.eip) /\ SetStartOfFirstNode(ins.eip)
  BY DEF AppendInstruction
<1> HIDE DEF current
<1>2. /\ current \in Address \ {0}
      /\ NodeInv(old, current)
      /\ old.block = <<>> => ins.eip = current
      /\ current \in DOMAIN nodes => old = nodes[current]
  BY <1>1, CurrentNodeInv DEF current
<1>3. /\ NodeInv(node, current) /\ node.block # <<>> /\ Keeps(old, node)
      /\ node.true_branch_address = old.true_branch_address
      /\ node.false_branch_address = old.false_branch_address
  BY <1>1, <1>2, NodeAppendInstructionInv
<1>4. Neighbors(node) \subseteq DOMAIN nodes
  <2>1. CASE current \in DOMAIN nodes
    BY <1>2, <1>3, <2>1 DEF Neighbors, IInv, MapInv, EdgesClosed
  <2>2. CASE current \notin DOMAIN nodes
    BY <1>3, <2>2 DEF Neighbors, GetCurrentNode, NodeExists, NewNode
  <2> QED
    BY <2>1, <2>2
<1> HIDE DEF old, node
<1>5. WithNeighbors(nodes, node, iteration) = nodes
  BY <1>4 DEF WithNeighbors, IInv, MapInv
<1>6. /\ MapInv(nodes')
      /\ \A a \in DOMAIN nodes : a \in DOMAIN nodes' /\ Keeps(nodes[a], nodes'[a])
      /\ current \in DOMAIN nodes' /\ nodes'[current] = node
  BY <1>1, <1>2, <1>3, <1>5, PutInv DEF IInv
<1>7. CursorOnBlock'
  BY <1>1, <1>3, <1>6 DEF CursorOnBlock
<1> QED
  BY <1>1, <1>2, <1>6, <1>7, StartsTyped DEF IInv, NodesKept

\* append_branch_instruction, through unset_current_address.
LEMMA AppendBranchInstructionStep ==
  ASSUME IInv, NEW ins \in InstructionRecord, NEW iteration \in Nat,
         AppendBranchInstruction(ins, iteration)
  PROVE  IInv' /\ NodesKept
<1> DEFINE current == CurrentAddress(ins.eip)
           old     == GetCurrentNode(current, iteration)
           node    == NodeAppendBranchInstruction(old, ins, iteration)
<1>1. /\ Validate(ins) /\ IsBranch(ins)
      /\ nodes' = Put(WithNeighbors(nodes, node, iteration), current, node)
      /\ current_pointer' = IF node.is_done THEN 0 ELSE current
      /\ SetCurrentNodeStart(ins.eip) /\ SetStartOfFirstNode(ins.eip)
  BY DEF AppendBranchInstruction, UnsetCurrentAddress
<1> HIDE DEF current
<1>2. /\ current \in Address \ {0}
      /\ NodeInv(old, current)
      /\ old.block = <<>> => ins.eip = current
      /\ current \in DOMAIN nodes => old = nodes[current]
  BY <1>1, CurrentNodeInv DEF current
<1>3. NodeInv(node, current) /\ node.block # <<>> /\ Keeps(old, node) /\ node.is_done
  BY <1>1, <1>2, NodeAppendBranchInv
<1> HIDE DEF old, node
<1>4. /\ MapInv(nodes')
      /\ \A a \in DOMAIN nodes : a \in DOMAIN nodes' /\ Keeps(nodes[a], nodes'[a])
  BY <1>1, <1>2, <1>3, PutInv DEF IInv
<1>5. current_pointer' = 0 /\ 0 \in Address
  BY <1>1, <1>3, AddressSpaceAssumption DEF Address
<1> QED
  BY <1>1, <1>4, <1>5, StartsTyped DEF IInv, NodesKept, CursorOnBlock

LEMMA AppendToGraphStep ==
  ASSUME IInv, NEW ins \in InstructionRecord, NEW iteration \in Nat,
         AppendToGraph(ins, iteration)
  PROVE  IInv' /\ NodesKept
BY RejectStep, AppendInstructionStep, AppendBranchInstructionStep DEF AppendToGraph

LEMMA GenerateStep ==
  ASSUME IInv, Generate
  PROVE  IInv' /\ NodesKept
<1>1. PICK max \in LargestOccurrences(nodes) : nodes' = WithMaxOccurrences(nodes, max)
  BY DEF Generate
<1>2. /\ MapInv(nodes')
      /\ DOMAIN nodes' = DOMAIN nodes
      /\ \A a \in DOMAIN nodes : Keeps(nodes[a], nodes'[a]) /\ nodes'[a].block = nodes[a].block
  BY <1>1, MaxOccurrencesInv DEF IInv
<1>3. UNCHANGED <<start_address_first_node, current_pointer, current_node_start_addr>>
  BY DEF Generate, cursor
<1> QED
  BY <1>2, <1>3 DEF IInv, NodesKept, CursorOnBlock

LEMMA ReloadStep ==
  ASSUME IInv, Reload
  PROVE  IInv' /\ NodesKept
<1>1. 0 \in Address
  BY AddressSpaceAssumption DEF Address
<1> QED
  BY <1>1, NodesKeptIfUnchanged DEF IInv, Reload, graph, CursorOnBlock

LEMMA StutterStep ==
  ASSUME IInv, UNCHANGED vars
  PROVE  IInv' /\ NodesKept
BY NodesKeptIfUnchanged DEF IInv, vars, CursorOnBlock

LEMMA InitIInv == Init => IInv
<1> SUFFICES ASSUME Init PROVE IInv
  OBVIOUS
<1>1. DOMAIN nodes = {} /\ nodes = [a \in DOMAIN nodes |-> nodes[a]]
  BY DEF Init, NoNodes
<1>2. MapInv(nodes)
  BY <1>1 DEF MapInv, EdgesClosed, EmptyNodesAreTargets
<1> QED
  BY <1>2, AddressSpaceAssumption DEF Init, IInv, CursorOnBlock, Address

LEMMA NextStep ==
  ASSUME IInv, [Next]_vars
  PROVE  IInv' /\ NodesKept
BY AppendToGraphStep, GenerateStep, ReloadStep, StutterStep DEF Next

-----------------------------------------------------------------------------
(* The theorems *)

THEOREM InductiveInvariant == Spec => []IInv
<1>1. IInv /\ [Next]_vars => IInv'
  BY NextStep
<1> QED
  BY <1>1, InitIInv, PTL DEF Spec

\* Type correctness of the graph, under any caller.
THEOREM TypeCorrect == Spec => []TypeOK
<1>1. IInv => TypeOK
  BY MapInvParts DEF IInv, MapInv, TypeOK
<1> QED
  BY <1>1, InductiveInvariant, PTL

\* No edge of the drawing dangles, whatever is appended in whatever order.
THEOREM NoDanglingEdge == Spec => []NodesEdgesClosed
<1>1. IInv => NodesEdgesClosed
  BY DEF IInv, MapInv, NodesEdgesClosed
<1> QED
  BY <1>1, InductiveInvariant, PTL

\* Each node is a basic block: filed under the address of its first
\* instruction, done exactly when it holds a branch, with that branch's edges.
THEOREM NodesAreBlocks ==
  Spec => [](NodesKeyedByHead /\ NodesDoneByBranch /\ NodesEdgesOfBranch)
<1>1. IInv => NodesKeyedByHead /\ NodesDoneByBranch /\ NodesEdgesOfBranch
  BY MapInvParts DEF IInv, NodesKeyedByHead, NodesDoneByBranch, NodesEdgesOfBranch
<1> QED
  BY <1>1, InductiveInvariant, PTL

\* An empty node is the target of an edge, and the cursor is on a block that
\* has begun.
THEOREM NoOrphans == Spec => [](NodesEmptyAreTargets /\ CursorOnBlock)
<1>1. IInv => NodesEmptyAreTargets /\ CursorOnBlock
  BY DEF IInv, MapInv, NodesEmptyAreTargets
<1> QED
  BY <1>1, InductiveInvariant, PTL

\* Nothing that was recorded is forgotten or rewritten.
THEOREM GraphOnlyGrows == Spec => BlocksOnlyGrow /\ DoneIsFinal
<1>1. IInv /\ [Next]_vars =>
        /\ [\A a \in DOMAIN nodes :
              a \in DOMAIN nodes' /\ IsPrefix(nodes[a].block, nodes'[a].block)]_vars
        /\ [\A a \in DOMAIN nodes : nodes[a].is_done =>
              /\ nodes'[a].is_done
              /\ nodes'[a].true_branch_address = nodes[a].true_branch_address
              /\ nodes'[a].false_branch_address = nodes[a].false_branch_address]_vars
  BY NextStep DEF NodesKept, Keeps
<1> QED
  BY <1>1, InductiveInvariant, PTL DEF Spec, BlocksOnlyGrow, DoneIsFinal

=============================================================================
