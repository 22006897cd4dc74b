--------------------------- MODULE Goliath_proofs ---------------------------
(***************************************************************************)
(* Proofs about Goliath, for every size of the address space, every        *)
(* parameter the callbacks may be given, every order of callbacks and any  *)
(* number of runs that are finished, fail or die.  What the callbacks do   *)
(* to the live graph is ControlFlow_proofs' AppendToGraphStep; the work    *)
(* here is to carry it over to the graph in shared memory.                 *)
(***************************************************************************)
EXTENDS Goliath, ControlFlow_proofs

-----------------------------------------------------------------------------
(* The instructions the callbacks make *)

\* The repaired side address is an address again, wrapped like the code's.
LEMMA PatchedParams ==
  ASSUME NEW cp \in CustomParams
  PROVE  PatchNextAndSideAddr(cp) \in CustomParams
<1>1. /\ cp.eip \in Nat /\ cp.instrlen \in Nat
      /\ AddressSpace \in Nat /\ AddressSpace > 0
      /\ cp.side_addr \in Address /\ 0 \in Address
  BY AddressSpaceAssumption DEF CustomParams, Address
<1>2. (cp.eip + cp.instrlen) % AddressSpace \in Address
  BY <1>1 DEF Address
<1>3. ComputeSideAddr(cp) \in Address
  BY <1>1, <1>2 DEF ComputeSideAddr
<1> QED
  BY <1>3 DEF PatchNextAndSideAddr, CustomParams

LEMMA MadeInstructions ==
  ASSUME NEW cp \in CustomParams
  PROVE  LET made == MakeInstruction(PatchNextAndSideAddr(cp))
         IN  made \in InstructionRecord /\ WithApiReporter(made) \in InstructionRecord
BY PatchedParams DEF MakeInstruction, WithApiReporter, InstructionRecord, CustomParams,
                     BranchType

\* Both callbacks of an instruction patch its parameters.  A call's side address
\* is the address behind it after both, unless the engine announced a call to
\* the next instruction with another side address.
THEOREM CallPatchedTwice ==
  ASSUME NEW cp \in CustomParams, cp.branch_type = "call"
  PROVE  LET behind == (cp.eip + cp.instrlen) % AddressSpace
         IN  PatchNextAndSideAddr(PatchNextAndSideAddr(cp)).side_addr = behind
               <=> cp.next_addr # behind \/ cp.side_addr = behind \/ behind = 0
<1> DEFINE behind == (cp.eip + cp.instrlen) % AddressSpace
           once   == PatchNextAndSideAddr(cp)
<1>1. \A p \in CustomParams : p.branch_type = "call" =>
        PatchNextAndSideAddr(p).side_addr =
          IF p.next_addr = p.side_addr /\ p.next_addr = (p.eip + p.instrlen) % AddressSpace
          THEN 0 ELSE (p.eip + p.instrlen) % AddressSpace
  BY DEF PatchNextAndSideAddr, ComputeSideAddr, CustomParams
<1>2. /\ once \in CustomParams
      /\ once.branch_type = "call" /\ once.eip = cp.eip /\ once.instrlen = cp.instrlen
      /\ once.next_addr = cp.next_addr
  BY PatchedParams DEF PatchNextAndSideAddr, CustomParams
<1>3. once.side_addr = IF cp.next_addr = cp.side_addr /\ cp.next_addr = behind THEN 0 ELSE behind
  BY <1>1
<1>4. PatchNextAndSideAddr(once).side_addr =
        IF cp.next_addr = once.side_addr /\ cp.next_addr = behind THEN 0 ELSE behind
  BY <1>1, <1>2
<1> HIDE DEF behind, once
<1>5. PatchNextAndSideAddr(once).side_addr = behind
        <=> cp.next_addr # behind \/ cp.side_addr = behind \/ behind = 0
  BY <1>3, <1>4
<1> QED
  BY <1>5 DEF behind, once

-----------------------------------------------------------------------------
(* The stamps *)

\* Appending creates nodes with the stamp it is given and changes none.
LEMMA NodeStamp ==
  ASSUME NEW node \in Node, NEW ins \in InstructionRecord, NEW iteration \in Nat
  PROVE  /\ NodeAppendInstruction(node, ins, iteration).iteration = node.iteration
         /\ NodeAppendBranchInstruction(node, ins, iteration).iteration = node.iteration
<1>1. NodeAppendInstruction(node, ins, iteration) \in
        {node, [node EXCEPT !.occurrences = @ + 1], [node EXCEPT !.block = Append(@, ins)]}
  BY DEF NodeAppendInstruction, AlreadyVisited
<1>2. \A n \in {node, [node EXCEPT !.occurrences = @ + 1],
                [node EXCEPT !.block = Append(@, ins)]} :
        n.iteration = node.iteration /\ TakeBranch(n, ins).iteration = node.iteration
  BY DEF TakeBranch, Node
<1> QED
  BY <1>1, <1>2 DEF NodeAppendBranchInstruction

LEMMA StampsStep ==
  ASSUME IInv, NEW ins \in InstructionRecord, NEW iteration \in Nat,
         AppendToGraph(ins, iteration)
  PROVE  \A a \in DOMAIN nodes' :
           \/ nodes'[a].iteration = iteration
           \/ a \in DOMAIN nodes /\ nodes'[a].iteration = nodes[a].iteration
<1> DEFINE current == CurrentAddress(ins.eip)
           old     == GetCurrentNode(current, iteration)
<1>1. CASE RejectInstruction(ins, iteration)
  BY <1>1 DEF RejectInstruction
<1>2. CASE ~RejectInstruction(ins, iteration)
  <2>1. Validate(ins)
    BY <1>2 DEF AppendToGraph, AppendInstruction, AppendBranchInstruction
  <2>2. /\ old \in Node
        /\ current \in DOMAIN nodes => old = nodes[current]
    BY <2>1, CurrentNodeInv DEF NodeInv
  <2>3. \/ old.iteration = iteration
        \/ current \in DOMAIN nodes /\ old.iteration = nodes[current].iteration
    BY DEF GetCurrentNode, NodeExists, NewNode
  <2>4. CASE AppendInstruction(ins, iteration)
    BY <2>2, <2>3, <2>4, NodeStamp DEF AppendInstruction, Put
  <2>5. CASE AppendBranchInstruction(ins, iteration)
    <3> DEFINE node == NodeAppendBranchInstruction(old, ins, iteration)
               new  == WithNeighbors(nodes, node, iteration)
    <3>1. nodes' = Put(new, current, node)
      BY <2>5 DEF AppendBranchInstruction
    <3>2. node.iteration = old.iteration
      BY <2>2, NodeStamp
    <3> HIDE DEF current, old, node
    <3>3. \A a \in DOMAIN new : \/ new[a].iteration = iteration
                                \/ a \in DOMAIN nodes /\ new[a] = nodes[a]
      BY DEF WithNeighbors, NewNode
    <3> HIDE DEF new
    <3> QED
      BY <2>3, <3>1, <3>2, <3>3 DEF Put
  <2> QED
    BY <1>2, <2>4, <2>5 DEF AppendToGraph
<1> QED
  BY <1>1, <1>2

-----------------------------------------------------------------------------
(* The invariant *)

\* Every block of the smaller map is the beginning of the larger map's.
GrownFrom(larger, smaller) ==
  \A a \in DOMAIN smaller :
    a \in DOMAIN larger /\ IsPrefix(smaller[a].block, larger[a].block)

\* The stamps of a map are numbers of runs that have begun.
Stamped(map) == \A a \in DOMAIN map : map[a].iteration \in 1 .. cfg_iteration

StoredInv ==
  /\ stored = Write(stored.nodes, stored.start_address_first_node)
  /\ stored.start_address_first_node \in Address
  /\ MapInv(stored.nodes)
  /\ Stamped(stored.nodes)

\* An open run has loaded what was stored; without one there is no graph to
\* load it into but an empty one.  This is why a run's DBTInit may file the
\* stored nodes in the map it finds (read() clears nothing).
RunInv ==
  /\ Stamped(nodes)
  /\ phase = "running" =>
       /\ cfg_iteration # 0 /\ current_iteration = cfg_iteration
       /\ GrownFrom(nodes, stored.nodes)
  /\ phase # "running" => nodes = NoNodes /\ current_pointer = 0
  /\ phase = "idle" => ~engine_e /\ ~logger_out /\ ~graph_g

Types ==
  /\ engine_e \in BOOLEAN /\ logger_out \in BOOLEAN /\ graph_g \in BOOLEAN
  /\ current_iteration \in Nat
  /\ cfg_iteration \in Nat
  /\ phase \in Phase

PluginInv == IInv /\ StoredInv /\ RunInv /\ Types

\* What a step does to the shared memory, in terms of SharedGraph.
SharedStep == [Shared!SharedNext]_(Shared!shared)

-----------------------------------------------------------------------------
(* Grown and empty maps *)

LEMMA BlocksAreSequences ==
  ASSUME NEW map, MapInv(map)
  PROVE  \A a \in DOMAIN map : map[a] \in Node /\ map[a].block \in Seq(InstructionRecord)
BY DEF MapInv, NodeInv, Node

\* A map that keeps a map that contains another contains it as well.
LEMMA GrownTransitive ==
  ASSUME NEW small, MapInv(small), NEW old, MapInv(old), NEW new, MapInv(new),
         GrownFrom(old, small), GrownFrom(new, old)
  PROVE  GrownFrom(new, small)
<1> SUFFICES ASSUME NEW a \in DOMAIN small
             PROVE  a \in DOMAIN new /\ IsPrefix(small[a].block, new[a].block)
  BY DEF GrownFrom
<1>1. /\ a \in DOMAIN old /\ IsPrefix(small[a].block, old[a].block)
      /\ a \in DOMAIN new /\ IsPrefix(old[a].block, new[a].block)
  BY DEF GrownFrom
<1> QED
  BY <1>1, BlocksAreSequences, PrefixTransitive

LEMMA EmptyMapInv == MapInv(NoNodes) /\ Stamped(NoNodes) /\ Stamped(NoNodes)'
<1>1. DOMAIN NoNodes = {} /\ NoNodes = [a \in DOMAIN NoNodes |-> NoNodes[a]]
  BY DEF NoNodes
<1> QED
  BY <1>1 DEF MapInv, EdgesClosed, EmptyNodesAreTargets, Stamped

\* Loading into an empty map.
LEMMA LoadIntoEmpty ==
  ASSUME StoredInv
  PROVE  ReadNodes(NoNodes, stored) = stored.nodes
<1>1. DOMAIN NoNodes = {} /\ stored.nodes = [a \in DOMAIN stored.nodes |-> stored.nodes[a]]
  BY DEF NoNodes, StoredInv, MapInv
<1> QED
  BY <1>1 DEF ReadNodes

-----------------------------------------------------------------------------
(* The steps *)

\* Two ways to leave the shared memory's abstraction alone.
LEMMA SharedUnchanged ==
  ASSUME UNCHANGED memory, (phase' = "running") <=> (phase = "running")
  PROVE  SharedStep
BY DEF SharedStep, Shared!shared, memory

\* A run that ends without storing: a failed generation or a dead process.
LEMMA SharedAbandoned ==
  ASSUME UNCHANGED memory, phase' = "idle"
  PROVE  SharedStep
<1>1. CASE phase = "running"
  <2>1. Shared!AbandonRun
    BY <1>1 DEF Shared!AbandonRun, memory
  <2> QED
    BY <2>1 DEF SharedStep, Shared!SharedNext
<1>2. CASE phase # "running"
  BY <1>2, SharedUnchanged
<1> QED
  BY <1>1, <1>2

LEMMA StoredUnchanged ==
  ASSUME StoredInv, UNCHANGED memory
  PROVE  StoredInv'
BY DEF StoredInv, Stamped, memory

\* What every ending of DBTInit but the last one amounts to.
LEMMA InitEndsStep ==
  ASSUME PluginInv, InitCalled, UNCHANGED <<vars, current_iteration, memory>>,
         phase' \in {"failed", "thrown", "undefined"},
         engine_e' \in BOOLEAN, logger_out' \in BOOLEAN, graph_g' \in BOOLEAN
  PROVE  PluginInv' /\ SharedStep
<1>1. IInv'
  BY StutterStep DEF PluginInv
<1>2. StoredInv'
  BY StoredUnchanged DEF PluginInv
<1>3. RunInv'
  BY DEF PluginInv, RunInv, InitCalled, Stamped, vars, memory
<1>4. Types'
  BY DEF PluginInv, Types, Phase, memory
<1>5. SharedStep
  BY SharedUnchanged DEF InitCalled
<1> QED
  BY <1>1, <1>2, <1>3, <1>4, <1>5 DEF PluginInv

\* DBTInit that returns TRUE: the run starts from what is stored.
LEMMA InitSucceedsStep ==
  ASSUME PluginInv, InitSucceeds
  PROVE  PluginInv' /\ SharedStep
<1>1. /\ phase \in {"idle", "failed"} /\ phase' = "running"
      /\ cfg_iteration' = cfg_iteration + 1 /\ current_iteration' = cfg_iteration + 1
      /\ stored' = stored
      /\ current_pointer' = current_pointer
      /\ current_node_start_addr' = current_node_start_addr
      /\ engine_e' = TRUE /\ logger_out' = TRUE /\ graph_g' = TRUE
  BY DEF InitSucceeds, InitCalled, BeginIteration, cursor
<1>2. cfg_iteration \in Nat /\ nodes = NoNodes /\ current_pointer = 0
  BY <1>1 DEF PluginInv, RunInv, Types
<1>3. /\ nodes' = IF cfg_iteration # 0 THEN stored.nodes ELSE NoNodes
      /\ start_address_first_node' \in Address
  BY <1>2, LoadIntoEmpty DEF InitSucceeds, LoadGraph, graph, PluginInv, IInv, StoredInv
<1>4. cfg_iteration = 0 => DOMAIN stored.nodes = {}
  BY DEF PluginInv, StoredInv, Stamped
<1>5. MapInv(nodes') /\ MapInv(stored.nodes)
  BY <1>3, EmptyMapInv DEF PluginInv, StoredInv
<1>6. IInv'
  BY <1>1, <1>2, <1>3, <1>5 DEF PluginInv, IInv, CursorOnBlock
<1>7. StoredInv'
  BY <1>1, <1>2 DEF PluginInv, StoredInv, Stamped
<1>8. GrownFrom(nodes', stored'.nodes)
  BY <1>1, <1>3, <1>4, <1>5, BlocksAreSequences, PrefixItself DEF GrownFrom
<1>9. Stamped(nodes)'
  BY <1>1, <1>3, <1>7, EmptyMapInv DEF StoredInv, Stamped
<1>10. RunInv'
  BY <1>1, <1>2, <1>8, <1>9 DEF RunInv
<1>11. Types'
  BY <1>1, <1>2 DEF Types, Phase
<1>12. Shared!OpenRun
  BY <1>1 DEF Shared!OpenRun
<1> QED
  BY <1>6, <1>7, <1>10, <1>11, <1>12 DEF PluginInv, SharedStep, Shared!SharedNext

LEMMA InitStep ==
  ASSUME PluginInv, DBTInit
  PROVE  PluginInv' /\ SharedStep
<1>1. CASE InitEngineFails \/ InitEngineThrows \/ InitUndefined
  BY <1>1, InitEndsStep DEF InitEngineFails, InitEngineThrows, InitUndefined, singletons,
                            PluginInv, Types
<1>2. CASE InitLoggerFails \/ InitGraphFails
  BY <1>2, InitEndsStep DEF InitLoggerFails, InitGraphFails, PluginInv, Types
<1> QED
  BY <1>1, <1>2, InitSucceedsStep DEF DBTInit

\* Both callbacks: an instruction appended with the present run's stamp, or
\* nothing but the singletons' state.
LEMMA AppendCaughtStep ==
  ASSUME PluginInv, phase = "running", NEW ins \in InstructionRecord, AppendCaught(ins),
         UNCHANGED <<engine_e, logger_out, current_iteration, memory, phase>>
  PROVE  PluginInv' /\ SharedStep
<1>1. /\ current_iteration \in 1 .. cfg_iteration /\ cfg_iteration \in Nat
      /\ GrownFrom(nodes, stored.nodes)
      /\ UNCHANGED <<cfg_iteration, stored>>
  BY DEF PluginInv, RunInv, Types, memory
<1>2. IInv' /\ NodesKept
  BY <1>1, AppendToGraphStep DEF AppendCaught, PluginInv
<1>3. StoredInv'
  BY StoredUnchanged DEF PluginInv
<1>4. Stamped(nodes)'
  <2>1. \A a \in DOMAIN nodes' :
           \/ nodes'[a].iteration = current_iteration
           \/ a \in DOMAIN nodes /\ nodes'[a].iteration = nodes[a].iteration
    BY <1>1, StampsStep DEF AppendCaught, PluginInv
  <2> QED
    BY <1>1, <2>1 DEF PluginInv, RunInv, Stamped
<1>5. GrownFrom(nodes, stored.nodes)'
  <2>1. GrownFrom(nodes', nodes)
    BY <1>2 DEF NodesKept, Keeps, GrownFrom
  <2>2. MapInv(stored.nodes) /\ MapInv(nodes) /\ MapInv(nodes')
    BY <1>2 DEF PluginInv, StoredInv, IInv
  <2>3. GrownFrom(nodes', stored.nodes)
    BY <1>1, <2>1, <2>2, GrownTransitive
  <2> QED
    BY <1>1, <2>3
<1>6. RunInv'
  BY <1>1, <1>4, <1>5 DEF PluginInv, RunInv
<1>7. Types'
  BY DEF PluginInv, Types, AppendCaught, memory
<1> QED
  BY <1>2, <1>3, <1>6, <1>7, SharedUnchanged DEF PluginInv

LEMMA PluginStutterStep ==
  ASSUME PluginInv, UNCHANGED plugin
  PROVE  PluginInv' /\ SharedStep
<1>1. IInv'
  BY StutterStep DEF PluginInv, plugin
<1>2. StoredInv'
  BY StoredUnchanged DEF PluginInv, plugin
<1>3. RunInv'
  BY DEF PluginInv, RunInv, Stamped, plugin, vars, memory, singletons
<1>4. Types'
  BY DEF PluginInv, Types, plugin, memory, singletons
<1> QED
  BY <1>1, <1>2, <1>3, <1>4, SharedUnchanged DEF PluginInv, plugin

LEMMA BranchingStep ==
  ASSUME PluginInv, NEW cp \in CustomParams, DBTBranching(cp)
  PROVE  PluginInv' /\ SharedStep
<1> DEFINE ins == MakeInstruction(PatchNextAndSideAddr(cp))
<1>1. CASE UNCHANGED <<vars, graph_g>>
  BY <1>1, PluginStutterStep DEF DBTBranching, plugin, singletons
<1>2. CASE AppendCaught(ins)
  BY <1>2, MadeInstructions, AppendCaughtStep DEF DBTBranching
<1> QED
  BY <1>1, <1>2 DEF DBTBranching

LEMMA BeforeExecuteStep ==
  ASSUME PluginInv, NEW cp \in CustomParams, NEW reported \in BOOLEAN,
         DBTBeforeExecute(cp, reported)
  PROVE  PluginInv' /\ SharedStep
<1> DEFINE made == MakeInstruction(PatchNextAndSideAddr(cp))
           ins  == IF reported THEN WithApiReporter(made) ELSE made
<1>1. CASE UNCHANGED <<vars, graph_g>>
  BY <1>1, PluginStutterStep DEF DBTBeforeExecute, plugin, singletons
<1>2. CASE AppendCaught(ins)
  <2>1. ins \in InstructionRecord
    BY MadeInstructions
  <2> QED
    BY <1>2, <2>1, AppendCaughtStep DEF DBTBeforeExecute
<1> QED
  BY <1>1, <1>2 DEF DBTBeforeExecute

\* Whatever ends a run leaves an empty graph and no singleton behind.
LEMMA CleanedStep ==
  ASSUME PluginInv, FreshGraph, CleanSingletons, phase' = "idle", StoredInv',
         current_iteration' \in Nat, UNCHANGED cfg_iteration
  PROVE  PluginInv'
<1>1. 0 \in Address
  BY AddressSpaceAssumption DEF Address
<1>2. IInv'
  BY <1>1, EmptyMapInv DEF FreshGraph, IInv, CursorOnBlock
<1>3. RunInv'
  BY EmptyMapInv DEF RunInv, FreshGraph, CleanSingletons, Stamped
<1>4. Types'
  BY DEF PluginInv, Types, CleanSingletons, Phase
<1> QED
  BY <1>2, <1>3, <1>4 DEF PluginInv

\* DBTFinish as far as the unloader: what is stored contains what was.
LEMMA FinishStoresStep ==
  ASSUME PluginInv, FinishStores
  PROVE  PluginInv' /\ SharedStep
<1>1. PICK max \in LargestOccurrences(nodes) :
        stored' = Write(WithMaxOccurrences(nodes, max), start_address_first_node)
  BY DEF FinishStores
<1> DEFINE new == WithMaxOccurrences(nodes, max)
<1>2. /\ stored'.nodes = new
      /\ stored'.start_address_first_node = start_address_first_node
      /\ stored' = Write(stored'.nodes, stored'.start_address_first_node)
  BY <1>1 DEF Write
<1>3. /\ phase = "running" /\ phase' = "idle"
      /\ FreshGraph /\ CleanSingletons
      /\ UNCHANGED <<current_iteration, cfg_iteration>>
  BY DEF FinishStores
<1>4. /\ MapInv(nodes) /\ MapInv(stored.nodes)
      /\ start_address_first_node \in Address
      /\ Stamped(nodes) /\ GrownFrom(nodes, stored.nodes)
  BY <1>3 DEF PluginInv, IInv, StoredInv, RunInv
<1>5. /\ MapInv(new)
      /\ DOMAIN new = DOMAIN nodes
      /\ \A a \in DOMAIN nodes : new[a].block = nodes[a].block
  BY <1>4, MaxOccurrencesInv
<1>6. \A a \in DOMAIN nodes : new[a].iteration = nodes[a].iteration
  BY <1>4, BlocksAreSequences DEF WithMaxOccurrences, Node
<1> HIDE DEF new
<1>7. StoredInv'
  <2>1. Stamped(stored.nodes)'
    BY <1>2, <1>3, <1>4, <1>5, <1>6 DEF Stamped
  <2> QED
    BY <1>2, <1>4, <1>5, <2>1 DEF StoredInv
<1>8. PluginInv'
  BY <1>3, <1>7, CleanedStep DEF PluginInv, Types
<1>9. Shared!CommitRun
  <2>1. \A a \in DOMAIN stored.nodes :
          a \in DOMAIN stored'.nodes /\ IsPrefix(stored.nodes[a].block, stored'.nodes[a].block)
    BY <1>2, <1>4, <1>5 DEF GrownFrom
  <2> QED
    BY <1>3, <2>1 DEF Shared!CommitRun, Shared!Keeps, Shared!IsPrefix, IsPrefix
<1> QED
  BY <1>8, <1>9 DEF SharedStep, Shared!SharedNext

\* A run that stores nothing.
LEMMA RunLostStep ==
  ASSUME PluginInv, FinishFails \/ ProcessEnds
  PROVE  PluginInv' /\ SharedStep
<1>1. /\ FreshGraph /\ CleanSingletons /\ phase' = "idle" /\ UNCHANGED memory
      /\ current_iteration' \in Nat
  BY DEF FinishFails, ProcessEnds, PluginInv, Types
<1>2. StoredInv'
  BY <1>1, StoredUnchanged DEF PluginInv
<1> QED
  BY <1>1, <1>2, CleanedStep, SharedAbandoned DEF memory

LEMMA PluginStep ==
  ASSUME PluginInv, [PluginNext]_plugin
  PROVE  PluginInv' /\ SharedStep
BY InitStep, BranchingStep, BeforeExecuteStep, FinishStoresStep, RunLostStep, PluginStutterStep
   DEF PluginNext, DBTFinish

LEMMA PluginInitInv == PluginInit => PluginInv /\ Shared!SharedInit
<1> SUFFICES ASSUME PluginInit PROVE PluginInv /\ Shared!SharedInit
  OBVIOUS
<1>1. IInv
  BY InitIInv DEF PluginInit
<1>2. /\ stored.nodes = NoNodes /\ stored.start_address_first_node = 0
      /\ stored = Write(stored.nodes, stored.start_address_first_node)
  BY DEF PluginInit, Write
<1>3. StoredInv
  BY <1>2, EmptyMapInv, AddressSpaceAssumption DEF StoredInv, Address
<1>4. RunInv /\ Types
  BY EmptyMapInv DEF PluginInit, Init, RunInv, Types, Phase
<1>5. DOMAIN stored.nodes = {}
  BY <1>2 DEF NoNodes
<1>6. Shared!SharedInit
  BY <1>5 DEF PluginInit, Shared!SharedInit
<1> QED
  BY <1>1, <1>3, <1>4, <1>6 DEF PluginInv

-----------------------------------------------------------------------------
(* The theorems *)

THEOREM PluginInvariant == PluginSpec => []PluginInv
<1>1. PluginInv /\ [PluginNext]_plugin => PluginInv'
  BY PluginStep
<1> QED
  BY <1>1, PluginInitInv, PTL DEF PluginSpec

\* Type correctness of the plugin and of the shared memory.
THEOREM PluginTypeCorrect == PluginSpec => []PluginTypeOK
<1>1. PluginInv => PluginTypeOK
  <2> SUFFICES ASSUME PluginInv PROVE PluginTypeOK
    OBVIOUS
  <2>1. TypeOK
    BY MapInvParts DEF PluginInv, IInv, MapInv, TypeOK
  <2>2. /\ DOMAIN stored.nodes \subseteq Address \ {0}
        /\ stored.nodes = [a \in DOMAIN stored.nodes |-> stored.nodes[a]]
        /\ \A a \in DOMAIN stored.nodes : stored.nodes[a] \in Node
    BY MapInvParts DEF PluginInv, StoredInv, MapInv
  <2> QED
    BY <2>1, <2>2 DEF PluginInv, StoredInv, Types, PluginTypeOK
<1> QED
  BY <1>1, PluginInvariant, PTL

\* The graph in shared memory is well formed, whatever the callbacks are given
\* and however runs end.
THEOREM StoredIsGraph == PluginSpec => []StoredWellFormed
<1>1. PluginInv => StoredWellFormed
  BY MapInvParts DEF PluginInv, StoredInv, StoredWellFormed
<1> QED
  BY <1>1, PluginInvariant, PTL

\* An open run's graph contains what is stored; between runs nothing is left.
THEOREM RunsStartFromStored == PluginSpec => []LiveContainsStored
<1>1. PluginInv => LiveContainsStored
  BY DEF PluginInv, RunInv, GrownFrom, LiveContainsStored
<1> QED
  BY <1>1, PluginInvariant, PTL

\* The loop test of node.cpp:31-39 compares numbers of runs that have begun.
THEOREM StampsAreRuns == PluginSpec => []IterationStamps
<1>1. PluginInv => IterationStamps
  BY DEF PluginInv, RunInv, StoredInv, Stamped, IterationStamps
<1> QED
  BY <1>1, PluginInvariant, PTL

\* The plugin implements the abstract specification of the shared memory.
THEOREM PluginImplementsSharedGraph == PluginSpec => ImplementsSharedGraph
<1>1. PluginInv /\ [PluginNext]_plugin => [Shared!SharedNext]_(Shared!shared)
  BY PluginStep DEF SharedStep
<1>2. PluginInit => Shared!SharedInit
  BY PluginInitInv
<1> QED
  BY <1>1, <1>2, PluginInvariant, PTL DEF PluginSpec, ImplementsSharedGraph, Shared!SharedSpec

=============================================================================
