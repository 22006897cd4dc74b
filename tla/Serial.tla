------------------------------- MODULE Serial -------------------------------
(***************************************************************************)
(* The graph in the engine's shared memory, field by field: what           *)
(* control_flow::write copies where, in the order it copies it, and what   *)
(* control_flow::read makes of what it finds.  A run writes over the graph *)
(* of the run before it, in place, and its process may die between two     *)
(* memcpys.  Offsets count bytes from cfg_serialize_memory_region; a field *)
(* is one value (a number, a text), kept at the offset of its first byte.  *)
(***************************************************************************)
EXTENDS ControlFlow, FiniteSets

CONSTANTS Word,         \* sizeof(size_t), sizeof(unsigned), sizeof(BRANCH_TYPE): 4
          TextSize,     \* the length of a disassembly that is not empty
          ApiSize,      \* the length of an API's name
          RegionSize    \* bytes from the region's start to the end of the mapping

ASSUME SerialAssumption ==
  /\ Word \in Nat \ {0} /\ ApiSize \in Nat \ {0}
  /\ RegionSize \in Nat /\ RegionSize >= 2 * Word
  /\ \A content \in Content \ {"empty"} : TextSize[content] \in Nat \ {0}

VARIABLES mem,             \* offset -> the field that begins there
          copies,          \* the memcpys the open write has still to make
          cfg_iteration,
          phase,           \* what the process is doing
          written,         \* history: the graph of the last complete write
          region           \* history: "whole", "partial" once a write has come to the
                           \* node count, "torn" if that write was cut short

serial == <<vars, mem, copies, cfg_iteration, phase, written, region>>

\* "garbage": read() took the bytes of one field for another; "overrun":
\* write() left the mapping.  Neither run goes on here.
SerialPhase == {"idle", "running", "writing", "garbage", "overrun"}

-----------------------------------------------------------------------------
(* Sizes.  A text takes its characters and a terminator, a missing one the  *)
(* guard value.                                                             *)

Field(kind, value) == [kind |-> kind, value |-> value]

ContentSize(content) == IF content = "empty" THEN Word ELSE TextSize[content] + 1
ApiReporterSize(named) == IF named THEN ApiSize + 1 ELSE Word

FieldSize(field) ==
  CASE field.kind = "word"    -> Word
    [] field.kind = "branch"  -> Word
    [] field.kind = "bool"    -> 1
    [] field.kind = "content" -> ContentSize(field.value)
    [] field.kind = "api"     -> ApiReporterSize(field.value)

\* Where each of several things begins that lie one behind the other, and where
\* the last of them ends: Offsets(sizes)[i] is the end of the i-th.
Offsets(sizes) ==
  LET to[i \in 0 .. Len(sizes)] == IF i = 0 THEN 0 ELSE to[i - 1] + sizes[i]
  IN  to

Total(sizes) == Offsets(sizes)[Len(sizes)]

\* Mutant: the terminator of the API's name is not counted.
InstructionMemSizeNoTerminator(ins) ==
  5 * Word + ContentSize(ins.content) + IF ins.api_reporter THEN ApiSize ELSE Word

InstructionMemSize(ins) ==
  5 * Word + ContentSize(ins.content) + ApiReporterSize(ins.api_reporter)

BlockSizes(block) == [i \in DOMAIN block |-> InstructionMemSize(block[i])]

\* One word per instruction more than load_to_memory writes.
NodeMemSize(node) ==
  7 * Word + 1 + Word * Len(node.block) + Total(BlockSizes(node.block))

\* The nodes in the order of their addresses, as std::map iterates.
Keys(map) ==
  CHOOSE keys \in [1 .. Cardinality(DOMAIN map) -> DOMAIN map] :
    \A i, j \in DOMAIN keys : i < j => keys[i] < keys[j]

\* Mutant: the keys are not counted.
MemSizeWithoutKeys(map) ==
  2 * Word + Total([i \in DOMAIN Keys(map) |-> NodeMemSize(map[Keys(map)[i]])])

NodeSizes(map, keys) == [i \in DOMAIN keys |-> Word + NodeMemSize(map[keys[i]])]

MemSize(map) == 2 * Word + Total(NodeSizes(map, Keys(map)))

ItFits(map, size) == MemSize(map) <= size

-----------------------------------------------------------------------------
(* write(): the memcpys on the way.  Fields lie one behind the other; an    *)
(* instruction and a node lie where mem_size() of those before them ends.   *)

Number(n) == Field("word", n)

FieldSizes(fields) == [i \in DOMAIN fields |-> FieldSize(fields[i])]

PlaceAll(at, fields) ==
  [i \in DOMAIN fields |->
     [at |-> at + Offsets(FieldSizes(fields))[i - 1], field |-> fields[i]]]

InstructionFields(ins) ==
  <<Number(ins.len), Number(ins.next_node_addr), Number(ins.side_node_addr), Number(ins.eip),
    Field("content", ins.content), Field("api", ins.api_reporter),
    Field("branch", ins.branch_type)>>

HeadFields(key, node) ==
  <<Number(key), Number(node.start_address), Number(node.iteration), Number(Len(node.block))>>

TailFields(node) ==
  <<Field("bool", node.is_done), Number(node.max_occurrences),
    Number(node.true_branch_address), Number(node.false_branch_address),
    Number(node.occurrences)>>

WriteBlock(at, block) ==
  FlattenSeq([i \in DOMAIN block |->
    PlaceAll(at + Offsets(BlockSizes(block))[i - 1], InstructionFields(block[i]))])

\* The key and the node behind it.
WriteNode(at, key, node) ==
  LET body == at + 4 * Word
      tail == body + Total(BlockSizes(node.block))
  IN  PlaceAll(at, HeadFields(key, node)) \o WriteBlock(body, node.block)
        \o PlaceAll(tail, TailFields(node))

WriteNodes(at, map, keys) ==
  FlattenSeq([i \in DOMAIN keys |->
    WriteNode(at + Offsets(NodeSizes(map, keys))[i - 1], keys[i], map[keys[i]])])

WriteGraph(map, start) ==
  PlaceAll(0, <<Number(start), Number(Len(Keys(map)))>>)
    \o WriteNodes(2 * Word, map, Keys(map))

\* memcpy of one field: whatever it overlaps is gone.
Store(m, at, field) ==
  LET intact == {o \in DOMAIN m : o + FieldSize(m[o]) <= at \/ o >= at + FieldSize(field)}
  IN  [o \in intact \cup {at} |-> IF o = at THEN field ELSE m[o]]

-----------------------------------------------------------------------------
(* read(): the position `from` it has come to, and the values on the way;   *)
(* ok is lost when a field is not where the reader looks for it.            *)

Take(m, r, kind) ==
  IF r.ok /\ r.from \in DOMAIN m /\ m[r.from].kind = kind
  THEN [r EXCEPT !.from = @ + FieldSize(m[r.from]), !.values = Append(@, m[r.from].value)]
  ELSE [r EXCEPT !.ok = FALSE]

TakeAll(m, from, kinds) ==
  LET taken[i \in 0 .. Len(kinds)] ==
        IF i = 0 THEN [from |-> from, ok |-> TRUE, values |-> <<>>]
        ELSE Take(m, taken[i - 1], kinds[i])
  IN  taken[Len(kinds)]

InstructionOf(v) ==
  [len |-> v[1], next_node_addr |-> v[2], side_node_addr |-> v[3], eip |-> v[4],
   content |-> v[5], api_reporter |-> v[6], branch_type |-> v[7]]

\* r read an instruction on: the stride is that of what has been taken.
PushInstruction(r, taken) ==
  IF r.ok /\ taken.ok
  THEN LET ins == InstructionOf(taken.values) IN
         [from |-> r.from + InstructionMemSize(ins), ok |-> TRUE, block |-> Append(r.block, ins)]
  ELSE [r EXCEPT !.ok = FALSE]

ReadInstruction(m, r) ==
  PushInstruction(r,
    TakeAll(m, r.from, <<"word", "word", "word", "word", "content", "api", "branch">>))

ReadBlock(m, from, n) ==
  LET read[i \in 0 .. n] ==
        IF i = 0 THEN [from |-> from, ok |-> TRUE, block |-> <<>>]
        ELSE ReadInstruction(m, read[i - 1])
  IN  read[n]

\* `head`: the key and what comes before the block; `tail`: what comes behind it.
NodeOf(head, block, tail) ==
  [start_address |-> head[2], iteration |-> head[3], block |-> block, is_done |-> tail[1],
   max_occurrences |-> tail[2], true_branch_address |-> tail[3],
   false_branch_address |-> tail[4], occurrences |-> tail[5]]

PushNode(r, head, body, tail) ==
  IF r.ok /\ head.ok /\ body.ok /\ tail.ok
  THEN LET node == NodeOf(head.values, body.block, tail.values) IN
         [from |-> r.from + Word + NodeMemSize(node), ok |-> TRUE,
          nodes |-> Put(r.nodes, head.values[1], node)]
  ELSE [r EXCEPT !.ok = FALSE]

\* One turn of read()'s loop: the key, the node and its stride.
ReadNode(m, r) ==
  LET head == TakeAll(m, r.from, <<"word", "word", "word", "word">>)
      body == ReadBlock(m, head.from, IF head.ok THEN head.values[4] ELSE 0)
      tail == TakeAll(m, body.from, <<"bool", "word", "word", "word", "word">>)
  IN  PushNode(r, head, body, tail)

ReadNodes(m, from, n) ==
  LET read[i \in 0 .. n] ==
        IF i = 0 THEN [from |-> from, ok |-> TRUE, nodes |-> NoNodes]
        ELSE ReadNode(m, read[i - 1])
  IN  read[n]

\* A region nothing was written to is zero: no nodes, no start address.
ReadGraph(m) ==
  LET head == TakeAll(m, 0, <<"word", "word">>)
      body == ReadNodes(m, head.from, head.values[2])
  IN  [ok |-> body.ok, nodes |-> body.nodes, start_address_first_node |-> head.values[1]]

-----------------------------------------------------------------------------
(* Runs *)

\* Mutant: the object outlives the run.
KeptGraph == UNCHANGED vars

DeletedGraph ==
  /\ nodes' = NoNodes
  /\ start_address_first_node' = 0
  /\ current_pointer' = 0
  /\ current_node_start_addr' = 0

\* Mutant: the loader is not called.
LoadNothing(found) == phase' = "running" /\ UNCHANGED graph

Load(found) ==
  IF found.ok
  THEN /\ phase' = "running"
       /\ nodes' = found.nodes
       /\ start_address_first_node' = found.start_address_first_node
  ELSE /\ phase' = "garbage"
       /\ UNCHANGED graph

\* DBTInit: the loader reads what is there unless this is the first run.
BeginRun ==
  /\ phase = "idle"
  /\ cfg_iteration' = cfg_iteration + 1
  /\ IF cfg_iteration # 0
     THEN Load(ReadGraph(mem))
     ELSE phase' = "running" /\ UNCHANGED graph
  /\ UNCHANGED <<cursor, mem, copies, written, region>>

Trace(ins) ==
  /\ phase = "running"
  /\ AppendToGraph(ins, cfg_iteration)
  /\ UNCHANGED <<mem, copies, cfg_iteration, phase, written, region>>

\* DBTFinish up to the unloader.
BeginWrite ==
  /\ phase = "running"
  /\ phase' = "writing"
  /\ Generate
  /\ copies' = WriteGraph(nodes', start_address_first_node)
  /\ UNCHANGED <<mem, cfg_iteration, written, region>>

\* The next memcpy of write().
Copy ==
  /\ phase = "writing"
  /\ copies # <<>>
  /\ LET copy == Head(copies) IN
       /\ IF copy.at + FieldSize(copy.field) > RegionSize
          THEN /\ phase' = "overrun"
               /\ UNCHANGED <<mem, copies>>
          ELSE /\ mem' = Store(mem, copy.at, copy.field)
               /\ copies' = Tail(copies)
               /\ UNCHANGED phase
       /\ region' = IF region = "whole" /\ copy.at # 0 THEN "partial" ELSE region
  /\ UNCHANGED <<vars, cfg_iteration, written>>

EndWrite ==
  /\ phase = "writing"
  /\ copies = <<>>
  /\ phase' = "idle"
  /\ written' = [nodes |-> nodes, start_address_first_node |-> start_address_first_node]
  /\ region' = "whole"
  /\ DeletedGraph
  /\ UNCHANGED <<mem, copies, cfg_iteration>>

\* The process dies; shared memory keeps what was copied.
Die ==
  /\ phase \in {"running", "writing"}
  /\ phase' = "idle"
  /\ copies' = <<>>
  /\ region' = IF region = "whole" THEN "whole" ELSE "torn"
  /\ DeletedGraph
  /\ UNCHANGED <<mem, cfg_iteration, written>>

SerialInit ==
  /\ Init
  /\ mem = Store(Store(<<>>, 0, Field("word", 0)), Word, Field("word", 0))
  /\ copies = <<>>
  /\ cfg_iteration = 0
  /\ phase = "idle"
  /\ written = [nodes |-> NoNodes, start_address_first_node |-> 0]
  /\ region = "whole"

SerialNext ==
  \/ BeginRun
  \/ \E ins \in InstructionRecord : Trace(ins)
  \/ BeginWrite
  \/ Copy
  \/ EndWrite
  \/ Die

SerialSpec == SerialInit /\ [][SerialNext]_serial

-----------------------------------------------------------------------------
(* Properties *)

\* A field that some write may have left: the reader of a torn region may meet
\* any of them anywhere, so that an address may turn out to be any number.
AnyField ==
  [kind : {"word"}, value : Nat] \cup [kind : {"bool", "api"}, value : BOOLEAN]
    \cup [kind : {"content"}, value : Content] \cup [kind : {"branch"}, value : BranchType]

StoredInstruction ==
  [eip : Nat, content : Content, branch_type : BranchType, len : Nat,
   next_node_addr : Nat, side_node_addr : Nat, api_reporter : BOOLEAN]

StoredNode ==
  [start_address : Nat, iteration : Nat, block : Seq(StoredInstruction), is_done : BOOLEAN,
   max_occurrences : Nat, occurrences : Nat,
   true_branch_address : Nat, false_branch_address : Nat]

StoredGraph(map) ==
  /\ DOMAIN map \subseteq Nat
  /\ IsFiniteSet(DOMAIN map)
  /\ map \in [DOMAIN map -> StoredNode]

\* The graph is typed even when it was read from a write that was cut short; no
\* field of the region leaves the mapping; a finished or killed run leaves
\* nothing in the process for the next one to load into (graph.cpp:47-54).
SerialTypeOK ==
  /\ StoredGraph(nodes) /\ StoredGraph(written.nodes)
  /\ start_address_first_node \in Nat
  /\ current_pointer \in Nat
  /\ cfg_iteration \in Nat
  /\ phase \in SerialPhase
  /\ region \in {"whole", "partial", "torn"}
  /\ DOMAIN mem \subseteq Nat
  /\ \A o \in DOMAIN mem : mem[o] \in AnyField /\ o + FieldSize(mem[o]) <= RegionSize
  /\ copies # <<>> => phase \in {"writing", "overrun"}
  /\ phase = "idle" =>
       nodes = NoNodes /\ start_address_first_node = 0 /\ current_pointer = 0

IsWritten(found) ==
  /\ found.ok
  /\ found.nodes = written.nodes
  /\ written.nodes # NoNodes =>
       found.start_address_first_node = written.start_address_first_node

\* The reader gets back what the last complete write was given, over whatever
\* larger or smaller graph it was written, and while the next write has not
\* come past the start address: reader, writer and mem_size agree on the place
\* of every field (control_flow.cpp:119-158, node.cpp:297-384).
ReadsWhatWasWritten == region = "whole" => IsWritten(ReadGraph(mem))

\* A graph that it_fits says fits is written inside the region
\* (control_flow.cpp:264-278): mem_size never counts too little.
FitsIsEnough == phase = "overrun" => ~ItFits(nodes, RegionSize)

Shared == INSTANCE SharedGraph WITH
  iteration <- cfg_iteration,
  open      <- phase # "idle",
  region    <- region,
  blocks    <- [a \in DOMAIN written.nodes |-> written.nodes[a].block]

\* The bytes implement the abstract specification of the shared memory: a run
\* that begins on a whole region commits a graph that contains the last one,
\* whatever died before it, and only a death between two memcpys tears it.
SerialImplementsSharedGraph == Shared!SharedSpec

\* control_flow.h:43-45: write assumes that the memory it is given "is bigger
\* enough to hold all the internal information".
RegionIsBigEnough == phase # "overrun"

=============================================================================
