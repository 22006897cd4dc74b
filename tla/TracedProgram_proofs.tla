------------------------ MODULE TracedProgram_proofs ------------------------
(***************************************************************************)
(* Proofs for every binary the engine may run: the first node of the       *)
(* drawing is the entry point's (the instruction there is the first one    *)
(* given to append, accepted or not, and no later run moves it), and       *)
(* colours follow counts.                                                  *)
(***************************************************************************)
EXTENDS TracedProgram, Goliath_proofs, Drawing_proofs

-----------------------------------------------------------------------------
(* What appending does to the first node *)

\* A graph with nodes starts at the entry point.  A start address that is set
\* has a node, which has begun, unless the entry point's instruction may be
\* rejected.
StartsAtEntry(map, start) ==
  /\ map # NoNodes => start = EntryPoint /\ start # 0
  /\ EntryAccepted /\ start # 0 =>
       /\ EntryPoint \in DOMAIN map
       /\ map[EntryPoint].block # <<>>

LEMMA NoNodesIsEmpty == DOMAIN NoNodes = {}
BY DEF NoNodes

\* The first instruction of an empty graph becomes its first node.
LEMMA FirstAppend ==
  ASSUME IInv, nodes = NoNodes, NEW ins \in InstructionRecord, Validate(ins),
         NEW iteration \in Nat, AppendToGraph(ins, iteration)
  PROVE  /\ ins.eip \in DOMAIN nodes' /\ nodes'[ins.eip].block # <<>>
         /\ start_address_first_node' =
              IF start_address_first_node = 0 THEN ins.eip ELSE start_address_first_node
<1> DEFINE current == CurrentAddress(ins.eip)
           old     == GetCurrentNode(current, iteration)
<1>1. current = ins.eip
  BY NoNodesIsEmpty DEF IInv, CursorOnBlock, CurrentAddress
<1>2. /\ current \in Address \ {0}
      /\ NodeInv(old, current)
      /\ old.block = <<>> => ins.eip = current
  BY CurrentNodeInv
<1> HIDE DEF current, old
<1>3. CASE AppendInstruction(ins, iteration)
  <2> DEFINE node == NodeAppendInstruction(old, ins, iteration)
  <2>1. ~IsBranch(ins) /\ nodes' = Put(nodes, current, node) /\ SetStartOfFirstNode(ins.eip)
    BY <1>3 DEF AppendInstruction, current, old
  <2>2. node.block # <<>>
    BY <1>2, <2>1, NodeAppendInstructionInv
  <2> QED
    BY <1>1, <2>1, <2>2 DEF Put, SetStartOfFirstNode
<1>4. CASE AppendBranchInstruction(ins, iteration)
  <2> DEFINE node == NodeAppendBranchInstruction(old, ins, iteration)
  <2>1. /\ IsBranch(ins)
        /\ nodes' = Put(WithNeighbors(nodes, node, iteration), current, node)
        /\ SetStartOfFirstNode(ins.eip)
    BY <1>4 DEF AppendBranchInstruction, current, old
  <2>2. node.block # <<>>
    BY <1>2, <2>1, NodeAppendBranchInv
  <2> QED
    BY <1>1, <2>1, <2>2 DEF Put, SetStartOfFirstNode
<1> QED
  BY <1>3, <1>4 DEF AppendToGraph, RejectInstruction

\* Later ones leave it where it is.
LEMMA LaterAppend ==
  ASSUME IInv, start_address_first_node = EntryPoint, EntryPoint # 0,
         StartsAtEntry(nodes, start_address_first_node),
         NEW ins \in InstructionRecord, NEW iteration \in Nat, AppendToGraph(ins, iteration)
  PROVE  /\ start_address_first_node' = EntryPoint
         /\ StartsAtEntry(nodes', start_address_first_node')
<1>1. IInv' /\ NodesKept
  BY AppendToGraphStep
<1>2. start_address_first_node' = EntryPoint
  BY DEF AppendToGraph, AppendInstruction, AppendBranchInstruction, RejectInstruction,
         SetStartOfFirstNode
<1>3. ASSUME EntryAccepted
      PROVE  EntryPoint \in DOMAIN nodes' /\ nodes'[EntryPoint].block # <<>>
  <2>1. EntryPoint \in DOMAIN nodes /\ nodes[EntryPoint].block # <<>>
    BY <1>3 DEF StartsAtEntry
  <2>2. /\ EntryPoint \in DOMAIN nodes'
        /\ IsPrefix(nodes[EntryPoint].block, nodes'[EntryPoint].block)
    BY <1>1, <2>1 DEF NodesKept, Keeps
  <2>3. /\ nodes[EntryPoint].block \in Seq(InstructionRecord)
        /\ nodes'[EntryPoint].block \in Seq(InstructionRecord)
    BY <1>1, <2>1, <2>2, BlocksAreSequences DEF IInv
  <2> QED
    BY <2>1, <2>2, <2>3 DEF IsPrefix
<1> QED
  BY <1>2, <1>3 DEF StartsAtEntry

-----------------------------------------------------------------------------
(* The invariant *)

\* The parameters DBTBeforeExecute is left with by DBTBranching.
Patched(w) == [w EXCEPT !.params = PatchNextAndSideAddr(@)]

\* What DBTBranching leaves to DBTBeforeExecute.
LeftToSecond(w) ==
  LET ins == MakeInstruction(PatchNextAndSideAddr(w.params)) IN IsCall(ins) \/ IsLeave(ins)

EngineInv ==
  /\ pc \in DOMAIN Program \cup {0}
  /\ executing \in BOOLEAN
  /\ executing => phase = "running" /\ way \in Ways

\* As long as an open run has no start address, the engine is at the entry point,
\* and half way through its instruction only if DBTBranching had nothing to append.
EntryInv ==
  /\ StartsAtEntry(nodes, start_address_first_node)
  /\ StartsAtEntry(stored.nodes, stored.start_address_first_node)
  /\ start_address_first_node \in {0, EntryPoint}
  /\ stored.start_address_first_node \in {0, EntryPoint}
  /\ phase = "running" /\ start_address_first_node = 0 =>
       /\ pc = EntryPoint
       /\ executing => pc # 0 /\ \E w \in Program[EntryPoint] : way = Patched(w) /\ LeftToSecond(w)

TracedInv == PluginInv /\ EngineInv /\ EntryInv

-----------------------------------------------------------------------------
(* The steps *)

LEMMA PatchedWay ==
  ASSUME NEW w \in Ways
  PROVE  /\ Patched(w) \in Ways
         /\ Patched(w).params = PatchNextAndSideAddr(w.params)
         /\ Patched(w).reported = w.reported
         /\ Patched(w).successors = w.successors
BY PatchedParams DEF Patched, Ways

\* The patch changes nothing that validate looks at.
LEMMA PatchValidates ==
  ASSUME NEW p \in CustomParams
  PROVE  LET ins == MakeInstruction(PatchNextAndSideAddr(p))
         IN  /\ Validate(ins) <=> Validate(MakeInstruction(p))
             /\ Validate(ins) => Validate(WithApiReporter(ins))
             /\ ins.eip = p.eip /\ WithApiReporter(ins).eip = p.eip
             /\ ins.branch_type = p.branch_type
             /\ ins.content = p.content
             /\ ~IsBranch(WithApiReporter(ins))
<1> DEFINE q == PatchNextAndSideAddr(p)
<1>1. /\ q \in CustomParams
      /\ q.eip = p.eip /\ q.content = p.content /\ q.branch_type = p.branch_type
      /\ q.instrlen = p.instrlen /\ q.next_addr = p.next_addr
  BY PatchedParams DEF PatchNextAndSideAddr, CustomParams
<1> HIDE DEF q
<1>2. MakeInstruction(q).eip = p.eip /\ MakeInstruction(q).content = p.content
      /\ MakeInstruction(q).branch_type = p.branch_type
  BY <1>1 DEF MakeInstruction
<1>3. Validate(MakeInstruction(q)) <=> Validate(MakeInstruction(p))
  BY <1>1 DEF Validate, MakeInstruction, IsBranch
<1>4. /\ WithApiReporter(MakeInstruction(q)).eip = p.eip
      /\ ~IsBranch(WithApiReporter(MakeInstruction(q)))
  BY <1>1 DEF MakeInstruction, WithApiReporter, IsBranch
<1>5. Validate(MakeInstruction(q)) => Validate(WithApiReporter(MakeInstruction(q)))
  BY <1>1 DEF Validate, MakeInstruction, WithApiReporter, IsBranch
<1> QED
  BY <1>2, <1>3, <1>4, <1>5 DEF q

\* The engine keeps to the plugin's interface.
LEMMA TracedIsPlugin ==
  ASSUME EngineInv, [TracedNext]_traced
  PROVE  [PluginNext]_plugin
<1>1. CASE StartRun \/ FinishRun \/ KillRun
  BY <1>1 DEF StartRun, FinishRun, KillRun, PluginNext, DBTFinish
<1>2. CASE CallBranching
  <2>1. PICK w \in Program[pc] : DBTBranching(w.params)
    BY <1>2 DEF CallBranching
  <2>2. pc \in DOMAIN Program
    BY <1>2 DEF CallBranching, EngineInv
  <2>3. w.params \in CustomParams
    BY <2>1, <2>2, ProgramAssumption DEF Ways
  <2> QED
    BY <2>1, <2>3 DEF PluginNext
<1>3. CASE CallBeforeExecute
  <2>1. \E w \in Ways : DBTBeforeExecute(w.params, w.reported)
    <3>1. CASE executing /\ Executes(way)
      BY <3>1 DEF Executes, EngineInv
    <3>2. CASE pc # 0 /\ \E w \in Program[pc] : Executes(w)
      BY <3>2, ProgramAssumption DEF Executes, EngineInv
    <3> QED
      BY <1>3, <3>1, <3>2 DEF CallBeforeExecute
  <2>2. \A w \in Ways : w.params \in CustomParams /\ w.reported \in BOOLEAN
    BY DEF Ways
  <2> QED
    BY <2>1, <2>2 DEF PluginNext
<1>4. CASE UNCHANGED traced
  BY <1>4 DEF traced
<1> QED
  BY <1>1, <1>2, <1>3, <1>4 DEF TracedNext

LEMMA TracedPluginStep ==
  ASSUME TracedInv, [TracedNext]_traced
  PROVE  PluginInv'
BY TracedIsPlugin, PluginStep DEF TracedInv

LEMMA StartRunStep ==
  ASSUME TracedInv, StartRun
  PROVE  EngineInv' /\ EntryInv'
<1>1. /\ DBTInit /\ UNCHANGED <<executing, way>>
      /\ ~executing /\ phase # "running" /\ nodes = NoNodes
  <2>1. phase \in {"idle", "failed"}
    BY DEF StartRun, DBTInit, InitEngineFails, InitEngineThrows, InitUndefined, InitLoggerFails,
           InitGraphFails, InitSucceeds, InitCalled
  <2> QED
    BY <2>1 DEF StartRun, TracedInv, EngineInv, PluginInv, RunInv
<1>2. CASE phase' # "running"
  <2>1. UNCHANGED <<vars, stored, pc>>
    BY <1>1, <1>2 DEF StartRun, DBTInit, InitEngineFails, InitEngineThrows, InitUndefined,
         InitLoggerFails, InitGraphFails, InitSucceeds, memory
  <2> QED
    BY <1>1, <1>2, <2>1 DEF TracedInv, EngineInv, EntryInv, vars, StartsAtEntry
<1>3. CASE phase' = "running"
  <2>1. InitSucceeds /\ pc' = EntryPoint
    BY <1>3 DEF StartRun, DBTInit, InitEngineFails, InitEngineThrows, InitUndefined,
         InitLoggerFails, InitGraphFails
  <2>2. /\ stored' = stored
        /\ \/ nodes' = stored.nodes /\ start_address_first_node' = stored.start_address_first_node
           \/ nodes' = NoNodes /\ start_address_first_node' = start_address_first_node
    BY <1>1, <2>1, LoadIntoEmpty DEF InitSucceeds, LoadGraph, graph, TracedInv, PluginInv
  <2>3. EntryPoint \in DOMAIN Program
    BY ProgramAssumption
  <2> QED
    BY <1>1, <1>3, <2>1, <2>2, <2>3 DEF TracedInv, EngineInv, EntryInv, StartsAtEntry
<1> QED
  BY <1>2, <1>3

\* A callback that gives append an instruction: the entry point's if it is the
\* first one of all.
LEMMA AppendStep ==
  ASSUME TracedInv, NEW ins \in InstructionRecord, AppendCaught(ins),
         start_address_first_node = 0 =>
           ins.eip = EntryPoint /\ EntryPoint # 0 /\ (EntryAccepted => Validate(ins))
  PROVE  /\ StartsAtEntry(nodes', start_address_first_node')
         /\ start_address_first_node' = EntryPoint /\ EntryPoint # 0
<1>1. IInv /\ current_iteration \in Nat
  BY DEF TracedInv, PluginInv, Types
<1>2. CASE start_address_first_node = 0
  <2>1. nodes = NoNodes
    BY <1>2 DEF TracedInv, EntryInv, StartsAtEntry
  <2>2. start_address_first_node' = EntryPoint
    BY <1>2 DEF AppendCaught, AppendToGraph, AppendInstruction, AppendBranchInstruction,
                RejectInstruction, SetStartOfFirstNode
  <2>3. EntryAccepted => EntryPoint \in DOMAIN nodes' /\ nodes'[EntryPoint].block # <<>>
    BY <1>1, <1>2, <2>1, FirstAppend DEF AppendCaught
  <2> QED
    BY <1>2, <2>2, <2>3 DEF StartsAtEntry
<1>3. CASE start_address_first_node # 0
  BY <1>1, <1>3, LaterAppend DEF AppendCaught, TracedInv, EntryInv
<1> QED
  BY <1>2, <1>3

LEMMA CallBranchingStep ==
  ASSUME TracedInv, CallBranching
  PROVE  EngineInv' /\ EntryInv'
<1>1. PICK w \in Program[pc] : DBTBranching(w.params) /\ way' = Patched(w)
  BY DEF CallBranching, Patched
<1> DEFINE ins == MakeInstruction(PatchNextAndSideAddr(w.params))
<1>2. pc \in DOMAIN Program /\ w \in Ways /\ w.params \in CustomParams /\ w.params.eip = pc
  BY ProgramAssumption DEF CallBranching, TracedInv, EngineInv, Ways
<1>3. /\ phase = "running" /\ phase' = "running" /\ executing' = TRUE
      /\ pc # 0 /\ UNCHANGED <<pc, stored>>
  BY <1>1 DEF CallBranching, DBTBranching, memory
<1>4. EngineInv'
  BY <1>1, <1>2, <1>3, PatchedWay DEF EngineInv
<1>5. CASE IsCall(ins) \/ IsLeave(ins)
  <2>1. UNCHANGED vars
    BY <1>1, <1>5 DEF DBTBranching
  <2>2. LeftToSecond(w)
    BY <1>5 DEF LeftToSecond
  <2>3. EntryInv'
    BY <1>1, <1>3, <2>1, <2>2 DEF TracedInv, EntryInv, vars, StartsAtEntry
  <2> QED
    BY <1>4, <2>3
<1>6. CASE ~(IsCall(ins) \/ IsLeave(ins))
  <2>1. AppendCaught(ins)
    BY <1>1, <1>6 DEF DBTBranching
  <2>2. start_address_first_node = 0 =>
          ins.eip = EntryPoint /\ EntryPoint # 0 /\ (EntryAccepted => Validate(ins))
    BY <1>1, <1>2, <1>3, PatchValidates DEF TracedInv, EntryInv, EntryAccepted, CallBranching
  <2>3. ins \in InstructionRecord
    BY <1>2, MadeInstructions
  <2> HIDE DEF ins
  <2>4. /\ StartsAtEntry(nodes', start_address_first_node')
        /\ start_address_first_node' = EntryPoint /\ EntryPoint # 0
    BY <2>1, <2>2, <2>3, AppendStep
  <2>5. EntryInv'
    BY <1>3, <2>4 DEF TracedInv, EntryInv
  <2> QED
    BY <1>4, <2>5
<1> QED
  BY <1>5, <1>6

\* The second callback: at the entry point of a graph that has not begun it has
\* an instruction to append.
LEMMA ExecutesStep ==
  ASSUME TracedInv, NEW w \in Ways, Executes(w),
         start_address_first_node = 0 =>
           /\ EntryPoint # 0
           /\ \E p \in CustomParams :
                /\ w.params = p \/ w.params = PatchNextAndSideAddr(p)
                /\ p.eip = EntryPoint
                /\ EntryAccepted => Validate(MakeInstruction(p))
                /\ p.branch_type \in {"none", "call"}
  PROVE  EngineInv' /\ EntryInv'
<1> DEFINE made == MakeInstruction(PatchNextAndSideAddr(w.params))
           ins  == IF w.reported THEN WithApiReporter(made) ELSE made
<1>1. /\ phase = "running" /\ phase' = "running" /\ executing' = FALSE
      /\ UNCHANGED stored
      /\ pc' \in DOMAIN Program \cup {0}
      /\ w.params \in CustomParams /\ w.reported \in BOOLEAN
  BY DEF Executes, DBTBeforeExecute, memory, Ways
<1>2. EngineInv'
  BY <1>1 DEF EngineInv
<1>3. start_address_first_node = 0 =>
        /\ ins.eip = EntryPoint /\ EntryPoint # 0 /\ (EntryAccepted => Validate(ins))
        /\ ~(IsBranch(ins) /\ ~IsCall(ins))
  <2> SUFFICES ASSUME start_address_first_node = 0
               PROVE  /\ ins.eip = EntryPoint /\ EntryPoint # 0
                      /\ EntryAccepted => Validate(ins)
                      /\ ~(IsBranch(ins) /\ ~IsCall(ins))
    OBVIOUS
  <2>1. PICK p \in CustomParams :
          /\ w.params = p \/ w.params = PatchNextAndSideAddr(p)
          /\ p.eip = EntryPoint
          /\ EntryAccepted => Validate(MakeInstruction(p))
          /\ p.branch_type \in {"none", "call"}
    OBVIOUS
  <2>2. /\ EntryAccepted => Validate(MakeInstruction(w.params))
        /\ w.params.eip = EntryPoint /\ w.params.branch_type \in {"none", "call"}
    <3>1. /\ PatchNextAndSideAddr(p).eip = p.eip
          /\ PatchNextAndSideAddr(p).branch_type = p.branch_type
      BY DEF PatchNextAndSideAddr, CustomParams
    <3> QED
      BY <2>1, <3>1, PatchValidates
  <2>3. /\ EntryAccepted => Validate(made) /\ Validate(WithApiReporter(made))
        /\ made.eip = EntryPoint /\ WithApiReporter(made).eip = EntryPoint
        /\ made.branch_type \in {"none", "call"}
        /\ ~IsBranch(WithApiReporter(made))
    BY <1>1, <2>2, PatchValidates
  <2> QED
    BY <2>3 DEF IsBranch, IsCall
<1>4. ins \in InstructionRecord
  BY <1>1, MadeInstructions
<1>5. \/ UNCHANGED vars /\ IsBranch(ins) /\ ~IsCall(ins)
      \/ AppendCaught(ins)
  BY DEF Executes, DBTBeforeExecute
<1> HIDE DEF ins
<1>6. CASE UNCHANGED vars /\ IsBranch(ins) /\ ~IsCall(ins)
  <2>1. start_address_first_node # 0
    BY <1>3, <1>6
  <2>2. EntryInv'
    BY <1>1, <1>6, <2>1 DEF TracedInv, EntryInv, vars, StartsAtEntry
  <2> QED
    BY <1>2, <2>2
<1>7. CASE AppendCaught(ins)
  <2>1. /\ StartsAtEntry(nodes', start_address_first_node')
        /\ start_address_first_node' = EntryPoint /\ EntryPoint # 0
    BY <1>3, <1>4, <1>7, AppendStep
  <2>2. EntryInv'
    BY <1>1, <2>1 DEF TracedInv, EntryInv
  <2> QED
    BY <1>2, <2>2
<1> QED
  BY <1>5, <1>6, <1>7

LEMMA CallBeforeExecuteStep ==
  ASSUME TracedInv, CallBeforeExecute
  PROVE  EngineInv' /\ EntryInv'
<1>1. CASE executing /\ Executes(way)
  <2>1. way \in Ways /\ phase = "running"
    BY <1>1 DEF TracedInv, EngineInv
  <2>2. ASSUME start_address_first_node = 0
        PROVE  /\ EntryPoint # 0
               /\ \E p \in CustomParams :
                    /\ way.params = p \/ way.params = PatchNextAndSideAddr(p)
                    /\ p.eip = EntryPoint
                    /\ EntryAccepted => Validate(MakeInstruction(p))
                    /\ p.branch_type \in {"none", "call"}
    <3> EntryPoint # 0
      BY <1>1, <2>1, <2>2 DEF TracedInv, EntryInv
    <3>1. PICK w \in Program[EntryPoint] : way = Patched(w) /\ LeftToSecond(w)
      BY <1>1, <2>1, <2>2 DEF TracedInv, EntryInv
    <3>2. /\ w \in Ways /\ w.params \in CustomParams /\ w.params.eip = EntryPoint
          /\ EntryAccepted => Validate(MakeInstruction(w.params))
          /\ w.params.content = "leave" => w.params.branch_type = "none"
      BY <3>1, ProgramAssumption DEF Ways, EntryAccepted
    <3>3. w.params.branch_type \in {"none", "call"}
      BY <3>1, <3>2, PatchValidates DEF LeftToSecond, IsCall, IsLeave
    <3>4. way.params = PatchNextAndSideAddr(w.params)
      BY <3>1, <3>2, PatchedWay
    <3> QED
      BY <3>2, <3>3, <3>4
  <2> QED
    BY <1>1, <2>1, <2>2, ExecutesStep
<1>2. CASE pc # 0 /\ \E w \in Program[pc] : ~CallsBranching(w) /\ Executes(w)
  <2>1. PICK w \in Program[pc] : ~CallsBranching(w) /\ Executes(w)
    BY <1>2
  <2>2. pc \in DOMAIN Program /\ w \in Ways /\ w.params \in CustomParams /\ w.params.eip = pc
    BY <1>2, ProgramAssumption DEF TracedInv, EngineInv, Ways
  <2>3. phase = "running"
    BY <2>1 DEF Executes, DBTBeforeExecute
  <2>4. ASSUME start_address_first_node = 0
        PROVE  /\ EntryPoint # 0
               /\ \E p \in CustomParams :
                    /\ w.params = p \/ w.params = PatchNextAndSideAddr(p)
                    /\ p.eip = EntryPoint
                    /\ EntryAccepted => Validate(MakeInstruction(p))
                    /\ p.branch_type \in {"none", "call"}
    <3>1. /\ pc = EntryPoint /\ w.params.branch_type = "none"
          /\ EntryAccepted => Validate(MakeInstruction(w.params))
      BY <2>1, <2>3, <2>4 DEF TracedInv, EntryInv, CallsBranching, Branches, EntryAccepted
    <3> QED
      BY <1>2, <2>2, <3>1
  <2> QED
    BY <2>1, <2>2, <2>4, ExecutesStep
<1> QED
  BY <1>1, <1>2 DEF CallBeforeExecute

\* However a run ends, the next one finds what was stored, and no graph.
LEMMA RunEndsStep ==
  ASSUME TracedInv, FreshGraph, pc' = 0, executing' = FALSE,
         StartsAtEntry(stored'.nodes, stored'.start_address_first_node),
         stored'.start_address_first_node \in {0, EntryPoint}, phase' = "idle"
  PROVE  EngineInv' /\ EntryInv'
BY DEF FreshGraph, EngineInv, EntryInv, StartsAtEntry

LEMMA FinishRunStep ==
  ASSUME TracedInv, FinishRun
  PROVE  EngineInv' /\ EntryInv'
<1>1. CASE FinishStores /\ Leaves(transfers)
  <2>1. PICK max \in LargestOccurrences(nodes) :
          stored' = Write(WithMaxOccurrences(nodes, max), start_address_first_node)
    BY <1>1 DEF FinishStores
  <2> DEFINE new == WithMaxOccurrences(nodes, max)
  <2>2. stored'.nodes = new /\ stored'.start_address_first_node = start_address_first_node
    BY <2>1 DEF Write
  <2>3. DOMAIN new = DOMAIN nodes /\ \A a \in DOMAIN nodes : new[a].block = nodes[a].block
    BY MaxOccurrencesInv DEF TracedInv, PluginInv, IInv
  <2>4. nodes = NoNodes => new = NoNodes
    BY DEF WithMaxOccurrences, NoNodes
  <2> HIDE DEF new
  <2>5. StartsAtEntry(stored'.nodes, stored'.start_address_first_node)
    BY <2>2, <2>3, <2>4 DEF TracedInv, EntryInv, StartsAtEntry
  <2> QED
    BY <1>1, <2>2, <2>5, RunEndsStep DEF FinishStores, Leaves, TracedInv, EntryInv
<1>2. CASE FinishFails /\ Leaves(kept)
  BY <1>2, RunEndsStep DEF FinishFails, Leaves, memory, TracedInv, EntryInv
<1> QED
  BY <1>1, <1>2 DEF FinishRun

LEMMA KillRunStep ==
  ASSUME TracedInv, KillRun
  PROVE  EngineInv' /\ EntryInv'
BY RunEndsStep DEF KillRun, ProcessEnds, Leaves, memory, TracedInv, EntryInv

LEMMA TracedStep ==
  ASSUME TracedInv, [TracedNext]_traced
  PROVE  TracedInv'
<1>1. CASE UNCHANGED traced
  <2>1. UNCHANGED <<vars, stored, phase, pc, executing, way>>
    BY <1>1 DEF traced, plugin, memory, position
  <2>2. EngineInv' /\ EntryInv'
    BY <2>1 DEF TracedInv, EngineInv, EntryInv, vars, StartsAtEntry
  <2> QED
    BY <2>2, TracedPluginStep DEF TracedInv
<1>2. CASE TracedNext
  <2>1. EngineInv' /\ EntryInv'
    BY <1>2, StartRunStep, CallBranchingStep, CallBeforeExecuteStep, FinishRunStep, KillRunStep
       DEF TracedNext
  <2> QED
    BY <2>1, TracedPluginStep DEF TracedInv
<1> QED
  BY <1>1, <1>2

LEMMA TracedInitInv == TracedInit => TracedInv
<1> SUFFICES ASSUME TracedInit PROVE TracedInv
  OBVIOUS
<1>1. PluginInv
  BY PluginInitInv DEF TracedInit
<1>2. EngineInv
  BY DEF TracedInit, EngineInv
<1>3. EntryInv
  BY DEF TracedInit, PluginInit, Init, Write, EntryInv, StartsAtEntry
<1> QED
  BY <1>1, <1>2, <1>3 DEF TracedInv

-----------------------------------------------------------------------------
(* What one append does to the map *)

\* Node::append_branch_instruction or Node::append_instruction, as append
\* dispatches them.
NodeAppend(node, ins, iteration) ==
  IF IsBranch(ins) THEN NodeAppendBranchInstruction(node, ins, iteration)
                   ELSE NodeAppendInstruction(node, ins, iteration)

\* An instruction that validates changes the node the cursor names, and adds
\* the targets of its branch.
LEMMA AppendedTo ==
  ASSUME IInv, NEW ins \in InstructionRecord, Validate(ins), NEW iteration \in Nat,
         AppendToGraph(ins, iteration)
  PROVE  LET current == CurrentAddress(ins.eip)
             new     == NodeAppend(GetCurrentNode(current, iteration), ins, iteration)
         IN  /\ DOMAIN nodes' = DOMAIN nodes \cup {current}
                                  \cup (IF IsBranch(ins) THEN Neighbors(new) ELSE {})
             /\ nodes'[current] = new
             /\ \A a \in DOMAIN nodes \ {current} : nodes'[a] = nodes[a]
             /\ \A a \in DOMAIN nodes' \ (DOMAIN nodes \cup {current}) :
                  nodes'[a] = NewNode(a, iteration)
             /\ current_pointer' = IF IsBranch(ins) /\ new.is_done THEN 0 ELSE current
<1> DEFINE current == CurrentAddress(ins.eip)
           new     == NodeAppend(GetCurrentNode(current, iteration), ins, iteration)
<1>1. CASE AppendInstruction(ins, iteration)
  <2>1. /\ ~IsBranch(ins) /\ nodes' = Put(nodes, current, new) /\ current_pointer' = current
    BY <1>1 DEF AppendInstruction, NodeAppend
  <2> HIDE DEF current, new
  <2>2. /\ DOMAIN nodes' = DOMAIN nodes \cup {current}
        /\ nodes'[current] = new
        /\ \A a \in DOMAIN nodes \ {current} : nodes'[a] = nodes[a]
    BY <2>1 DEF Put
  <2> QED
    BY <2>1, <2>2 DEF current, new
<1>2. CASE AppendBranchInstruction(ins, iteration)
  <2>1. /\ IsBranch(ins) /\ nodes' = Put(WithNeighbors(nodes, new, iteration), current, new)
        /\ current_pointer' = IF new.is_done THEN 0 ELSE current
    BY <1>2 DEF AppendBranchInstruction, UnsetCurrentAddress, NodeAppend
  <2> HIDE DEF current, new
  <2>2. /\ DOMAIN nodes' = DOMAIN nodes \cup {current} \cup Neighbors(new)
        /\ nodes'[current] = new
        /\ \A a \in DOMAIN nodes \ {current} : nodes'[a] = nodes[a]
        /\ \A a \in DOMAIN nodes' \ (DOMAIN nodes \cup {current}) :
             nodes'[a] = NewNode(a, iteration)
    BY <2>1 DEF Put, WithNeighbors
  <2> QED
    BY <2>1, <2>2 DEF current, new
<1> QED
  BY <1>1, <1>2 DEF AppendToGraph, RejectInstruction

-----------------------------------------------------------------------------
(* The counts the colours are picked from *)

Counted(map) == \A a \in DOMAIN map : map[a].occurrences # 0

\* Between DBTInit and DBTFinish counts only rise; the stored ones are shaded.
CountsInv ==
  /\ Counted(nodes)
  /\ Counted(stored.nodes)
  /\ HotterIsDarker

LEMMA NodeCount ==
  ASSUME NEW node \in Node, node.occurrences # 0,
         NEW ins \in InstructionRecord, NEW iteration \in Nat
  PROVE  NodeAppend(node, ins, iteration).occurrences # 0
<1>1. \A n \in {node, [node EXCEPT !.occurrences = @ + 1],
                [node EXCEPT !.block = Append(@, ins)]} :
        n.occurrences # 0 /\ TakeBranch(n, ins).occurrences # 0
  BY DEF TakeBranch, Node
<1>2. NodeAppendInstruction(node, ins, iteration) \in
        {node, [node EXCEPT !.occurrences = @ + 1], [node EXCEPT !.block = Append(@, ins)]}
  BY DEF NodeAppendInstruction, AlreadyVisited
<1> QED
  BY <1>1, <1>2 DEF NodeAppend, NodeAppendBranchInstruction

LEMMA CountedAppend ==
  ASSUME IInv, Counted(nodes), NEW ins \in InstructionRecord, NEW iteration \in Nat,
         AppendToGraph(ins, iteration)
  PROVE  Counted(nodes')
<1> DEFINE current == CurrentAddress(ins.eip)
           old     == GetCurrentNode(current, iteration)
<1>1. CASE ~Validate(ins)
  BY <1>1 DEF AppendToGraph, RejectInstruction, AppendInstruction, AppendBranchInstruction
<1>2. CASE Validate(ins)
  <2>1. old \in Node /\ old.occurrences # 0
    BY <1>2, CurrentNodeInv DEF NodeInv, GetCurrentNode, NodeExists, NewNode, Counted
  <2>2. NodeAppend(old, ins, iteration).occurrences # 0
    BY <2>1, NodeCount
  <2>3. \A a \in DOMAIN nodes' :
          \/ a = current /\ nodes'[a] = NodeAppend(old, ins, iteration)
          \/ a \in DOMAIN nodes /\ nodes'[a] = nodes[a]
          \/ nodes'[a] = NewNode(a, iteration)
    BY <1>2, AppendedTo
  <2> HIDE DEF current, old
  <2> QED
    BY <2>2, <2>3 DEF Counted, NewNode
<1> QED
  BY <1>1, <1>2

LEMMA CountsStep ==
  ASSUME PluginInv, CountsInv, [PluginNext]_plugin
  PROVE  CountsInv'
<1>0. DOMAIN NoNodes = {}
  BY NoNodesIsEmpty
<1>1. CASE UNCHANGED plugin
  BY <1>1 DEF CountsInv, HotterIsDarker, plugin, vars, memory
<1>2. CASE DBTInit
  <2>1. stored' = stored /\ nodes' \in {nodes, NoNodes, stored.nodes}
    <3>1. CASE InitSucceeds
      BY <3>1, LoadIntoEmpty
         DEF InitSucceeds, InitCalled, LoadGraph, graph, PluginInv, RunInv
    <3>2. CASE ~InitSucceeds
      BY <1>2, <3>2 DEF DBTInit, InitEngineFails, InitEngineThrows, InitUndefined,
           InitLoggerFails, InitGraphFails, vars, memory
    <3> QED
      BY <3>1, <3>2
  <2> QED
    BY <1>0, <2>1 DEF CountsInv, HotterIsDarker, Counted
<1>3. ASSUME NEW ins \in InstructionRecord, AppendCaught(ins), UNCHANGED memory
      PROVE  CountsInv'
  <2>1. IInv /\ current_iteration \in Nat
    BY DEF PluginInv, Types
  <2>2. Counted(nodes')
    BY <1>3, <2>1, CountedAppend DEF AppendCaught, CountsInv
  <2> QED
    BY <1>3, <2>2 DEF CountsInv, HotterIsDarker, memory
<1>4. ASSUME NEW cp \in CustomParams, DBTBranching(cp)
      PROVE  CountsInv'
  <2>1. CASE UNCHANGED vars
    BY <1>4, <2>1 DEF DBTBranching, CountsInv, HotterIsDarker, vars, memory
  <2>2. CASE AppendCaught(MakeInstruction(PatchNextAndSideAddr(cp)))
    BY <1>3, <1>4, <2>2, MadeInstructions DEF DBTBranching
  <2> QED
    BY <1>4, <2>1, <2>2 DEF DBTBranching
<1>5. ASSUME NEW cp \in CustomParams, NEW reported \in BOOLEAN, DBTBeforeExecute(cp, reported)
      PROVE  CountsInv'
  <2> DEFINE made == MakeInstruction(PatchNextAndSideAddr(cp))
             ins  == IF reported THEN WithApiReporter(made) ELSE made
  <2>1. CASE UNCHANGED vars
    BY <1>5, <2>1 DEF DBTBeforeExecute, CountsInv, HotterIsDarker, vars, memory
  <2>2. CASE AppendCaught(ins)
    <3>1. ins \in InstructionRecord /\ UNCHANGED memory
      BY <1>5, MadeInstructions DEF DBTBeforeExecute
    <3> HIDE DEF ins
    <3> QED
      BY <1>3, <2>2, <3>1
  <2> QED
    BY <1>5, <2>1, <2>2 DEF DBTBeforeExecute
<1>6. CASE FinishStores
  <2>1. PICK max \in LargestOccurrences(nodes) :
          stored'.nodes = WithMaxOccurrences(nodes, max)
    BY <1>6 DEF FinishStores, Write
  <2>2. /\ nodes = [a \in DOMAIN nodes |-> nodes[a]]
        /\ \A a \in DOMAIN nodes : nodes[a] \in Node /\ nodes[a].occurrences # 0
    BY DEF PluginInv, IInv, MapInv, NodeInv, CountsInv, Counted
  <2>3. HotterIsDarker'
    BY <2>1, <2>2, GeneratedIsShaded DEF HotterIsDarker
  <2>4. Counted(stored'.nodes)
    BY <2>1, <2>2 DEF Counted, WithMaxOccurrences, Node
  <2>5. nodes' = NoNodes
    BY <1>6 DEF FinishStores, FreshGraph
  <2> QED
    BY <1>0, <2>3, <2>4, <2>5 DEF CountsInv, Counted
<1>7. CASE FinishFails \/ ProcessEnds
  BY <1>0, <1>7 DEF FinishFails, ProcessEnds, FreshGraph, CountsInv, Counted, HotterIsDarker, memory
<1> QED
  BY <1>1, <1>2, <1>4, <1>5, <1>6, <1>7 DEF PluginNext, DBTFinish

-----------------------------------------------------------------------------
(* The theorems *)

\* The plugin's invariant, and where the engine is as long as the graph is empty.
THEOREM TracedInvariant == TracedSpec => []TracedInv
<1>1. TracedInv /\ [TracedNext]_traced => TracedInv'
  BY TracedStep
<1> QED
  BY <1>1, TracedInitInv, PTL DEF TracedSpec

\* The engine that runs a binary is one of the callers Goliath's theorems speak
\* of: they hold of every traced run.
THEOREM EngineKeepsToInterface == TracedSpec => PluginSpec
<1>1. TracedInv /\ [TracedNext]_traced => [PluginNext]_plugin
  BY TracedIsPlugin DEF TracedInv
<1>2. TracedInit => PluginInit
  BY DEF TracedInit
<1> QED
  BY <1>1, <1>2, TracedInvariant, PTL DEF TracedSpec, PluginSpec

\* The drawing starts where the binary does, in every run that is stored.
THEOREM DrawingStartsAtEntry == TracedSpec => []FirstNodeIsEntry
<1>1. TracedInv => FirstNodeIsEntry
  BY DEF TracedInv, EntryInv, StartsAtEntry, FirstNodeIsEntry
<1> QED
  BY <1>1, TracedInvariant, PTL

\* The colours of every drawing follow its counts.
THEOREM ColoursFollowCounts == TracedSpec => []HotterIsDarker
<1>1. TracedInv /\ CountsInv /\ [TracedNext]_traced => CountsInv'
  BY TracedIsPlugin, CountsStep DEF TracedInv
<1>2. TracedInit => CountsInv
  BY NoNodesIsEmpty
     DEF TracedInit, PluginInit, Init, Write, CountsInv, Counted, HotterIsDarker, DarkerIfHotter
<1>3. CountsInv => HotterIsDarker
  BY DEF CountsInv
<1> QED
  BY <1>1, <1>2, <1>3, TracedInvariant, PTL DEF TracedSpec

=============================================================================
