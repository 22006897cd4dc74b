------------------------------ MODULE Goliath ------------------------------
(***************************************************************************)
(* The plugin (goliath/goliath.cpp): the callbacks the engine calls, the   *)
(* three singletons they share (engine, logger, graph), and the region of  *)
(* the engine's shared memory that outlives a run.  The engine is external *)
(* and arbitrary: while a run is open it may call DBTBranching and         *)
(* DBTBeforeExecute with any parameters; the process may end at any time.  *)
(* Reports and log lines are output only and are left out.                 *)
(***************************************************************************)
EXTENDS ControlFlow

VARIABLES engine_e,            \* engine.cpp: e, the mapped view
          logger_out,          \* logger.cpp: out, the log stream
          graph_g,             \* graph.cpp: g, the graph object
          current_iteration,   \* goliath.cpp:37
          cfg_iteration,       \* shared memory: the run counter
          stored,              \* shared memory: what control_flow::write left
          phase                \* what the last callback told the engine

singletons == <<engine_e, logger_out, graph_g>>
memory == <<cfg_iteration, stored>>
plugin == <<vars, singletons, current_iteration, memory, phase>>

\* "failed": DBTInit returned FALSE; "thrown": an exception left it;
\* "undefined": it used a pointer it never assigned.
Phase == {"idle", "running", "failed", "thrown", "undefined"}

-----------------------------------------------------------------------------
(* memory::unloader and memory::loader.  The byte layout is left out: a     *)
(* graph is stored as the start address and the pairs of the map.           *)

Write(map, start) == [nodes |-> map, start_address_first_node |-> start]

\* Mutant: the loop ends one node early.
ReadNodesButLast(map, region) ==
  [a \in DOMAIN map \cup {b \in DOMAIN region.nodes : \E c \in DOMAIN region.nodes : c > b} |->
     IF a \in DOMAIN region.nodes THEN region.nodes[a] ELSE map[a]]

\* read() files each stored node in the map it finds; it clears nothing.
ReadNodes(map, region) ==
  [a \in DOMAIN map \cup DOMAIN region.nodes |->
     IF a \in DOMAIN region.nodes THEN region.nodes[a] ELSE map[a]]

\* The state of a graph that was deleted, and of the next one created.
FreshGraph ==
  /\ nodes' = NoNodes
  /\ start_address_first_node' = 0
  /\ current_pointer' = 0
  /\ current_node_start_addr' = 0

CleanSingletons ==
  /\ engine_e' = FALSE
  /\ logger_out' = FALSE
  /\ graph_g' = FALSE

-----------------------------------------------------------------------------
(* DBTInit: one action per way it ends, in the order of its early returns.  *)

InitCalled == phase \in {"idle", "failed"}

\* No mapping to open, or a creator that returns null.
InitEngineFails ==
  /\ InitCalled
  /\ ~engine_e
  /\ phase' = "failed"
  /\ UNCHANGED <<vars, singletons, current_iteration, memory>>

\* MapViewOfFile fails: the engine's constructor throws and nothing catches.
InitEngineThrows ==
  /\ InitCalled
  /\ ~engine_e
  /\ phase' = "thrown"
  /\ UNCHANGED <<vars, singletons, current_iteration, memory>>

\* With the singleton already there the local pointer is never assigned.  Its
\* stale value may fault (here) or happen to be the right one (the actions below).
InitUndefined ==
  /\ InitCalled
  /\ engine_e \/ graph_g
  /\ phase' = "undefined"
  /\ UNCHANGED <<vars, singletons, current_iteration, memory>>

InitLoggerFails ==
  /\ InitCalled
  /\ ~logger_out
  /\ engine_e' = TRUE
  /\ phase' = "failed"
  /\ UNCHANGED <<vars, logger_out, graph_g, current_iteration, memory>>

InitGraphFails ==
  /\ InitCalled
  /\ ~graph_g
  /\ engine_e' = TRUE
  /\ logger_out' = TRUE
  /\ phase' = "failed"
  /\ UNCHANGED <<vars, graph_g, current_iteration, memory>>

\* Mutant: the graph is loaded from the third run on.
LoadGraphLate ==
  IF cfg_iteration > 1
  THEN /\ nodes' = ReadNodes(nodes, stored)
       /\ start_address_first_node' = stored.start_address_first_node
  ELSE UNCHANGED graph

\* memory::loader, unless this is the first run.
LoadGraph ==
  IF cfg_iteration # 0
  THEN /\ nodes' = ReadNodes(nodes, stored)
       /\ start_address_first_node' = stored.start_address_first_node
  ELSE UNCHANGED graph

\* Mutant: the iteration is read before it is incremented.
BeginIterationLate ==
  /\ cfg_iteration' = cfg_iteration + 1
  /\ current_iteration' = cfg_iteration

BeginIteration ==
  /\ cfg_iteration' = cfg_iteration + 1
  /\ current_iteration' = cfg_iteration'

InitSucceeds ==
  /\ InitCalled
  /\ engine_e' = TRUE
  /\ logger_out' = TRUE
  /\ graph_g' = TRUE
  /\ LoadGraph
  /\ BeginIteration
  /\ phase' = "running"
  /\ UNCHANGED <<cursor, stored>>

DBTInit ==
  \/ InitEngineFails
  \/ InitEngineThrows
  \/ InitUndefined
  \/ InitLoggerFails
  \/ InitGraphFails
  \/ InitSucceeds

-----------------------------------------------------------------------------
(* The callbacks of a run.  Both patch the CUSTOM_PARAMS in place, so the   *)
(* second callback for one instruction patches what the first one left.     *)

\* graph::instance() creates the graph if need be; an append that throws is
\* logged and changes what RejectInstruction changes.
AppendCaught(ins) ==
  /\ AppendToGraph(ins, current_iteration)
  /\ graph_g' = TRUE

\* Mutant: a LEAVE is not left to DBTBeforeExecute.
DBTBranchingLeave(cp) ==
  LET ins == MakeInstruction(PatchNextAndSideAddr(cp)) IN
    /\ phase = "running"
    /\ IF IsCall(ins) THEN UNCHANGED <<vars, graph_g>> ELSE AppendCaught(ins)
    /\ UNCHANGED <<engine_e, logger_out, current_iteration, memory, phase>>

DBTBranching(cp) ==
  LET ins == MakeInstruction(PatchNextAndSideAddr(cp)) IN
    /\ phase = "running"
    /\ IF IsCall(ins) \/ IsLeave(ins)
       THEN UNCHANGED <<vars, graph_g>>
       ELSE AppendCaught(ins)
    /\ UNCHANGED <<engine_e, logger_out, current_iteration, memory, phase>>

\* reported: the APIReporter's layer is there, the instruction enters an API.
DBTBeforeExecute(cp, reported) ==
  LET made == MakeInstruction(PatchNextAndSideAddr(cp))
      ins  == IF reported THEN WithApiReporter(made) ELSE made IN
    /\ phase = "running"
    /\ IF IsBranch(ins) /\ ~IsCall(ins)
       THEN UNCHANGED <<vars, graph_g>>
       ELSE AppendCaught(ins)
    /\ UNCHANGED <<engine_e, logger_out, current_iteration, memory, phase>>

-----------------------------------------------------------------------------
(* DBTFinish.  Executing the generated definition (debug build) comes after *)
(* the graph is stored and changes no state of the plugin.                  *)

FinishStores ==
  /\ phase = "running"
  /\ \E max \in LargestOccurrences(nodes) :
       stored' = Write(WithMaxOccurrences(nodes, max), start_address_first_node)
  /\ FreshGraph
  /\ CleanSingletons
  /\ phase' = "idle"
  /\ UNCHANGED <<current_iteration, cfg_iteration>>

\* generate throws: goto _clean skips the unloader.
FinishFails ==
  /\ phase = "running"
  /\ FreshGraph
  /\ CleanSingletons
  /\ phase' = "idle"
  /\ UNCHANGED <<current_iteration, memory>>

DBTFinish == FinishStores \/ FinishFails

\* The analysed process is gone, with the plugin in it; the engine's mapping
\* is not.  The next DBTInit runs in a new process.
ProcessEnds ==
  /\ phase # "idle"
  /\ FreshGraph
  /\ CleanSingletons
  /\ current_iteration' = 0
  /\ phase' = "idle"
  /\ UNCHANGED memory

-----------------------------------------------------------------------------
PluginInit ==
  /\ Init
  /\ engine_e = FALSE
  /\ logger_out = FALSE
  /\ graph_g = FALSE
  /\ current_iteration = 0
  /\ cfg_iteration = 0
  /\ stored = Write(NoNodes, 0)
  /\ phase = "idle"

PluginNext ==
  \/ DBTInit
  \/ \E cp \in CustomParams : DBTBranching(cp)
  \/ \E cp \in CustomParams, reported \in BOOLEAN : DBTBeforeExecute(cp, reported)
  \/ DBTFinish
  \/ ProcessEnds

PluginSpec == PluginInit /\ [][PluginNext]_plugin

-----------------------------------------------------------------------------
(* Properties *)

PluginTypeOK ==
  /\ TypeOK
  /\ engine_e \in BOOLEAN /\ logger_out \in BOOLEAN /\ graph_g \in BOOLEAN
  /\ current_iteration \in Nat
  /\ cfg_iteration \in Nat
  /\ phase \in Phase
  /\ stored = Write(stored.nodes, stored.start_address_first_node)
  /\ stored.start_address_first_node \in Address
  /\ DOMAIN stored.nodes \subseteq Address \ {0}
  /\ stored.nodes = [a \in DOMAIN stored.nodes |-> stored.nodes[a]]
  /\ \A a \in DOMAIN stored.nodes : stored.nodes[a] \in Node

\* The graph in shared memory, which the next run and the drawing start from,
\* is well formed whatever the callbacks were given and however runs ended.
StoredWellFormed ==
  /\ KeyedByHead(stored.nodes)
  /\ DoneByBranch(stored.nodes)
  /\ EdgesOfBranch(stored.nodes)
  /\ EdgesClosed(stored.nodes)
  /\ EmptyNodesAreTargets(stored.nodes)

\* While a run is open its graph contains what shared memory holds (the load
\* of goliath.cpp:59-62 is never skipped), and between runs nothing is left of
\* it: every way out of DBTFinish cleans what DBTInit set up (goliath.h:90-93).
LiveContainsStored ==
  /\ phase = "running" =>
       \A a \in DOMAIN stored.nodes :
         a \in DOMAIN nodes /\ IsPrefix(stored.nodes[a].block, nodes[a].block)
  /\ phase = "idle" =>
       nodes = NoNodes /\ current_pointer = 0 /\ ~engine_e /\ ~logger_out /\ ~graph_g

\* The iteration a node was created in is the number of a run that has begun:
\* what the loop test of node.cpp:31-39 compares the current run with.
IterationStamps ==
  /\ phase = "running" => current_iteration = cfg_iteration
  /\ \A a \in DOMAIN nodes : nodes[a].iteration \in 1 .. cfg_iteration
  /\ \A a \in DOMAIN stored.nodes : stored.nodes[a].iteration \in 1 .. cfg_iteration

Shared == INSTANCE SharedGraph WITH
  iteration <- cfg_iteration,
  open      <- phase = "running",
  region    <- "whole",
  blocks    <- [a \in DOMAIN stored.nodes |-> stored.nodes[a].block]

\* The plugin implements the abstract specification of the shared memory: a
\* run commits at most once, between its DBTInit and its DBTFinish, and never
\* loses what earlier runs stored.
ImplementsSharedGraph == Shared!SharedSpec

\* goliath.h:22: "If any initialisation procedure fails this will return FALSE".
\* Here: also when DBTInit is called again after it has failed.
InitAlwaysDefined == phase # "undefined"

=============================================================================
