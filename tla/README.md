# CFGTrace in TLA+

CFGTrace (library name *goliath*) is a plugin for a dynamic binary
instrumentation engine. The engine executes a 32-bit Windows binary, calls the
plugin for every instruction, and the plugin builds the control flow graph of
what was executed: basic blocks filed under their start address, a green edge
for the taken target of a branch and a red one for the other, a colour for how
often a block ran. The engine runs the same binary many times (its *concolic*
mode), each run in a new process, and the graph travels from run to run through
a region of the engine's shared memory.

This directory holds a TLA+ model of that plugin, TLC configurations that check
it on small instances, and TLAPS proofs for every value of the constants.

- [The system](#the-system): inventory of components, state, operations, hazards
- [The modules](#the-modules): what models what
- [The runs](#the-runs): what each checks, bounds, what it shows
- [Findings](#findings): where the code and its own documentation disagree
- [The proofs](#the-proofs)
- [What is not modelled](#what-is-not-modelled)
- [The plan](#the-plan)

Paths below are relative to the repository's root.

## The system

The plugin is single-threaded: every callback runs in the thread of the engine
that calls it. What is hard about it is not locking but *protocol*: a graph
built incrementally by two callbacks that partly overlap, early returns and
exceptions between two assignments, singletons that outlive a failed call, and
state that survives the process in a shared mapping.

| component | files | state | operations |
|---|---|---|---|
| instruction | `goliath/assembly/instruction.*` | one executed instruction: address, text, branch kind, length, two successor addresses, name of the API it calls | classification (`is_branch`, `is_ret`, ...), `validate`, `true/false_branch_address`, `patch_next_and_side_addr`, serialisation |
| graph | `goliath/graph/control_flow.*`, `node.*` | `nodes` (address to block), `start_address_first_node`, the cursor `current_pointer` / `current_node_start_addr` | `append`, `generate`, `write`, `read` |
| plugin interface | `goliath/goliath.cpp`, `include/goliath.h` | `current_iteration` | `DBTInit`, `DBTBranching`, `DBTBeforeExecute`, `DBTFinish`, `GetLayer` |
| engine, logger and graph singletons | `goliath/engine/`, `logger/`, `graph/graph.cpp` | one static pointer each, a custom creator each | `instance`/`initialise`, `clean`, `custom_creation` |
| shared memory | `goliath/engine/engine.cpp:9-16`, `engine.h`, `memory/` | run counter, (unused) size, serialised graph | `cfg_iteration`, `cfg_serialize_memory_region`, `loader`, `unloader` |
| command runner | `goliath/command/`, `definition/` | a child process and its stderr pipe | `execute` of `dot` or of the gdl viewer, debug build only |
| text | `goliath/format/`, `error/`, `random/` | none | formatting, error messages, a random file name |
| engine and analysed binary | not in the repository; `tests/machinery.cpp` imitates it | which instruction executes next | calls the callbacks |

### How they interact

    engine --DBTInit----------> engine singleton -> logger -> graph
                                (run counter # 0: loader reads the stored graph)
                                run counter + 1
    engine --DBTBranching-----> patch params, append a branch (not a call, not LEAVE)
    engine --DBTBeforeExecute-> patch the same params again, look for the APIReporter,
                                append what DBTBranching left: simple instructions, calls
    engine --DBTFinish--------> generate the definition (sets max_occurrences),
                                unloader writes the graph, [debug: run dot],
                                clean graph, logger, engine

`append` files the instruction in the *open block*: the node `current_pointer`
names or, if there is none, the node at the instruction's own address. A branch
closes the block: the node gets its two edges, becomes `done`, its targets get
empty nodes, the cursor is cleared. Executing a finished block again is a
*visit*: its head counts it, if the node was created in the present run.

### What is hard, and what must hold

PROJECT.json lists the hazards line by line. In groups:

- **A graph filled out of order.** Targets are nodes long before they have code;
  blocks overlap; a self loop moves the node under construction out of the map
  and an empty pointer back in. No edge may lose its node, no node may lie under
  another's address, no placeholder may lack an edge to it.
- **The cursor between callbacks.** It decides whose block the next instruction
  joins, and it has to survive rejected instructions, finished nodes, indirect
  branches and a reload.
- **Two callbacks for one instruction.** Both patch the same parameters, and they
  must divide the instructions between them: none lost, none twice.
- **Failure in the middle.** `append` throws after it has written
  `start_address_first_node`; `DBTInit` returns after some singletons are set;
  `generate` throws past the writer; the process may die anywhere.
- **Runs.** The counter is incremented at the beginning and the graph written at
  the end; the next run has to start from what the last *finished* run left, and
  nothing recorded may be lost or rewritten.
- **Visits.** `occurrences` picks the colour; it is counted against the iteration
  a node was created in, which may be earlier than the one that filled it.
- **Bytes.** Reader and writer agree on strides only because both use `mem_size`;
  nothing bounds the serialised graph; a crash inside `write` leaves a mixture.
- **The drawing.** The colour follows a count through nine intervals of a rounded
  percentage; the maximum it is taken against is loaded and raised again.
- **The child process.** Parent and child race on a pipe, while the handler that
  started it still has a report to make and singletons to clean.

## The modules

| module | models | how |
|---|---|---|
| `Instruction` | `assembly::instruction`, `CUSTOM_PARAMS`, the address patch | pure operators; `size_t` sums wrap at `AddressSpace` (2^32 in the build) |
| `ControlFlow` | `graph::control_flow`, `Node` | state machine of the graph under an arbitrary caller |
| `ControlFlow_proofs` | | the theorems about it |
| `Drawing` | what `graphviz` and `gdl` print: boxes, labels, edges, colours | pure operators of a map of nodes |
| `Drawing_proofs` | | `pick_color` for every count |
| `Goliath` | the callbacks, the singletons, the shared memory, process death | extends `ControlFlow`, gives it the caller `goliath.cpp` is |
| `Goliath_proofs` | | its invariant, and that it implements `SharedGraph` |
| `SharedGraph` | | abstract specification of the shared memory: runs open, commit once or are abandoned, a commit contains what was there, and only a death while storing tears the region |
| `TracedProgram` | the engine and the binary (external) | drives `Goliath` along the paths of a binary, with histories of what was executed, and compares them with the `Drawing` |
| `TracedProgram_proofs` | | for every binary: the engine is a caller of `Goliath`, the drawing starts at the entry point, colours follow counts |
| `DirectBinary_proofs` | | for every binary of direct branches: what the drawing says of the execution |
| `Serial` | the bytes of the stored graph: `mem_size`, `load_to_memory`, `load_from_memory`, `write`, `read` | extends `ControlFlow`; `write` is the list of its memcpys, made one at a time over what the last run left |
| `Serial_proofs` | | for every graph: the reader gets back what was written, `it_fits` is enough, and `Serial` implements `SharedGraph` |
| `Execute` | `command::execute`, `graphviz::execute`; the child process and the pipe (external) | two processes, the parent with a program counter |
| `Execute_proofs` | | the theorems about it |
| `Finish` | `DBTFinish` stage by stage in its four builds, `gdl::execute` | extends `Execute`, which is what its drawing stage runs |
| `Finish_proofs` | | the theorems about it |
| `MCControlFlow`, `MCGoliath`, `MCTracedProgram`, `MCSerial` | | instances for TLC |

### ControlFlow

The four variables are the four fields of `control_flow`. `nodes` is a function
from the addresses in the map to `Node` records; a `unique_ptr` moved out by
`get_current_node` is always moved back before the method returns
(`control_flow.cpp:193,210,215,248`), so the map between two operations never
holds an empty pointer and the move itself is not a state.

| action | code |
|---|---|
| `AppendInstruction` | `append` + `append_instruction` + `Node::append_instruction` (+ `already_visited`) |
| `AppendBranchInstruction` | `append` + `append_branch_instruction` + `Node::append_branch_instruction` + `append_node_neighbors` + `unset_current_address` |
| `RejectInstruction` | the throw of either when `validate` fails: `start_address_first_node` has already been set |
| `Generate` | `graphviz()` / `gdl()`: `set_nodes_max_occurrences`, then only text |
| `Reload` | `write`, `clean`, and the next run's `read` into a new object: the cursor is not stored |

`Next` lets the caller append any instruction whatever at any iteration, so what
holds here needs no assumption about the engine, the disassembler or the order
of the callbacks. The `is_branch` throws of both append methods are unreachable
from `append`, which dispatches on the same predicate, and are not actions.

The parts of the invariant (`KeyedByHead`, `DoneByBranch`, `EdgesOfBranch`,
`EdgesClosed`, `EmptyNodesAreTargets`) are operators of a map, because `Goliath`
asks them of two maps: the live graph's and the stored one's.

### Goliath

| action | code |
|---|---|
| `InitEngineFails`, `InitEngineThrows`, `InitLoggerFails`, `InitGraphFails`, `InitSucceeds` | the ways `DBTInit` ends, in the order of its early returns |
| `InitUndefined` | `goliath.cpp:42,52`: with a singleton already there, the local pointer is never assigned; its value may fault (this action) or happen to be right (the actions above) |
| `DBTBranching`, `DBTBeforeExecute` | the callbacks, with `patch_next_and_side_addr`, the APIReporter test, the filter and the `try` around `append` |
| `FinishStores`, `FinishFails` | `DBTFinish` with `generate` returning and throwing |
| `ProcessEnds` | the analysed process dies; the engine's mapping survives |

`phase` is what the last callback told the engine. Singletons are Booleans: what
matters is whether the pointer is set. `DBTFinish` in the debug build runs the
drawing command *after* the graph is stored, and both its outcomes lead to the
same clean-up, so that call is not a state here; `Finish` opens that step up.

### Drawing

`Draw(map)` is what both formats print, without their syntax: a box per node,
named by its start address, coloured, labelled with its instructions (told apart
by address and by being a `ret`), and an edge per branch target. `PickColor` is
`pick_color` with percentages counted in ninths and multiplied by `max`, which makes
every number in it whole; that the interval ends at 100.0 and is decremented to
99 is kept. The build's double arithmetic and the model differ in one point: a
count of exactly 7/9 of the maximum is colour 8 in the build and 7 here.

### TracedProgram

The engine, from `goliath.h:36` and `:78` and `tests/machinery.cpp:35-41`: for an
instruction that branches, and for `LEAVE`, `DBTBranching` and then `DBTBeforeExecute` with the
same (patched) parameters; for every other instruction `DBTBeforeExecute`. A
binary is a function from addresses to the *ways* the instruction there may
execute; `ProgramAssumption` asks that the engine reports the address it executes, and
that a `LEAVE` at the entry point is no branch (neither callback would append it). History
variables record how often a block was started (`entered`) and which instruction followed
which (`transfers`, and `kept` for the stored runs).
A run may be stopped between any two instructions and the process killed
between any two callbacks.

Most of what the drawing says of the execution is true only of a binary without
the constructs it is known to draw wrongly (see [Findings](#findings)). `DirectBinary`
says which binaries those are, as a predicate of the constant `Program`. It
excludes:

- an instruction the APIReporter names that is a `jmp`, a `jcc` or a `ret`
  (`import_thunk`; a `call` to an API is allowed, and is what the reporter is for);
- a `jmp` or `call` with more than one target over the runs (`indirect_jump`; a
  return may go anywhere);
- an instruction `validate` rejects, one that ends at the top of the address
  space, and a `LEAVE` that branches;
- a call to the next instruction that is announced with another side address
  (`CallPatchedTwice`: the second callback patches it wrongly).

`LoopProgram` and `SpinProgram` satisfy it and the two binaries of the findings do not:
`DirectPrograms`, an assumption of `MCTracedProgram` that TLC evaluates.

### Serial

`Goliath` stores the graph as one value in one step. `Serial` looks inside that
step. The region is a function from byte offsets to the *field* that begins
there: a word, the branch type, the `is_done` byte, a text or its guard value.
What a memcpy overlaps is gone from it, and what lies in the gaps that
`mem_size` leaves (a word per instruction more than `load_to_memory` writes)
stays from older graphs.

| operator or action | code |
|---|---|
| `InstructionMemSize`, `NodeMemSize`, `MemSize`, `ItFits` | `mem_size` of the three classes, `control_flow::it_fits` |
| `Offsets`, `Total` | the pointer as it advances: where each thing begins that follows others of known sizes |
| `InstructionFields`, `HeadFields`, `TailFields` | what `instruction::load_to_memory` and `Node::load_to_memory` copy, in their order; `PlaceAll` puts fields one behind the other |
| `WriteBlock`, `WriteNode`, `WriteGraph` | the loops of `Node::load_to_memory` and `control_flow::write`: all memcpys, each element where the `mem_size` of those before it ends |
| `ReadInstruction`, `ReadNode`, `ReadGraph` | `load_from_memory` and `control_flow::read` |
| `BeginRun`, `Trace`, `BeginWrite`, `EndWrite` | the parts of `DBTInit` and `DBTFinish` around reader and writer, and what is appended between them |
| `Copy` | one memcpy of `write` |
| `Die` | the process dies between two of them, or before |

A read that finds another kind of field than it looks for (`garbage`), and a
write that leaves the mapping (`overrun`), are phases in which the run is not
followed further: what the build does there is undefined.

`SerialImplementsSharedGraph` states the same promise as `Goliath`'s refinement one
level lower, with `region` as the history that says whether the region is whole.

### Execute and Finish

`DBTFinish` of the debug build runs `dot` and collects its stderr. In `Execute` the
parent's program counter names its next call; each call but the peek and the read
may fail. A failed Win32 call *throws or terminates*: the exception's text is
looked up inside a `noexcept` function (`error/win32.cpp:8`), and the look-up throws
for a code that has no message. The child opens a `WriteFile` of any length
(`BeginWrite`), which goes into the pipe as room allows (`FillPipe`) and returns
when all of it is there, and exits with 0 or 1. Text is counted: what the
properties need is how much was written, read and is still in the pipe.

`Finish` puts this inside the handler. `stage` walks `generate`, `unload`, `draw`
(debug build only), `report`, `clean`; `GotoClean` is the `goto _clean` of a caught
exception.

| action | code |
|---|---|
| `Generate`, `Unload`, `Report`, `Clean` | the stages of `goliath.cpp:169-201` |
| `DrawGraphviz`, `DrawEnds` | `graphviz::execute`, one call of `Execute` at a time, and its return or throw |
| `DrawGdl` | `gdl::execute`: a file that opens or does not |
| `ChildRuns` | the child, which may outlive the handler |

## The runs

| run | module | states | expected |
|---|---|---|---|
| `graph` | MCControlFlow | 219,552 | pass |
| `plugin` | MCGoliath | 274,043 | pass |
| `traced_runs` | MCTracedProgram, LoopProgram | 13,465 | pass |
| `serial` | MCSerial | 285,296 | pass |
| `finish` | Finish | 1,062 | pass |
| `import_thunk`, `resumed_block`, `spin_loop`, `indirect_jump` | MCTracedProgram | | violation |
| `init_again` | MCGoliath | | violation |
| `region_overrun` | MCSerial | | violation |
| `stderr_dropped` | Execute | | violation |

**`graph`**: is the graph well formed under *any* caller? Every node lies under
its first instruction's address (`NodesKeyedByHead`), is done exactly when it
holds a branch (`NodesDoneByBranch`), has the edges of that branch and no other
(`NodesEdgesOfBranch`); every edge's target is a node (`NodesEdgesClosed`) and
every empty node is a target (`NodesEmptyAreTargets`); the cursor is on a block
that has begun (`CursorOnBlock`); nothing recorded is forgotten or rewritten
(`BlocksOnlyGrow`, `DoneIsFinal`).
*Bounds*: four addresses, six instructions. They are chosen to contradict each
other (address 2 is a conditional jump, one that does not validate, or a named
call), to include a self loop, a return and a target nobody executes.
`MaxBlock = 3` instructions per block and `MaxOccurrences = 2` stop the state
space; two iterations are enough for "the node's own" and "another", which is
all the code distinguishes. These bounds are guards of the instance
(`Room`), not of the model.

**`plugin`**: what does shared memory hold through failed, repeated and
successful initialisations, callbacks in any order, generations that fail and
processes that die? The stored graph is well formed (`StoredWellFormed`); an open
run contains it, and between runs nothing of the run is left
(`LiveContainsStored`); node stamps are numbers of runs that have begun and the
present run's number is the counter (`IterationStamps`); and the whole plugin
implements `SharedGraph` (`ImplementsSharedGraph`), by the refinement mapping
`iteration <- cfg_iteration`, `open <- phase = "running"`, `region <- "whole"`,
`blocks <-` the blocks of the stored nodes. A constructor that throws out of
`DBTInit` is one of the steps: it opens no run and stores nothing.
*Bounds*: `MaxRuns = 3`, so that a run that stored nothing can lie between two
that did; `MaxBlock = 2`, `MaxOccurrences = 2`. The engine stops after `MaxRuns`
runs: `CHECK_DEADLOCK FALSE`.

**`traced_runs`**: is what was executed what is drawn? On a binary with a loop
over a called function, a call to the next instruction (to learn its own
address), a conditional jump into the middle of a block drawn before, an API call
inside a block, a `LEAVE` and a return out of the binary: every transfer of control
made in this run or in a stored one is drawn (`TransfersDrawn`); a block finished
in the run it was created in counts exactly the times it was entered
(`VisitsCounted`), and of two stored boxes the one that ran more often is not the
lighter one (`HotterIsDarker`); every call that is followed has a red edge to the
instruction behind it, although its address is patched twice (`ReturnSiteDrawn`);
no instruction both callbacks are given is appended twice (`AppendedOnce`); the
first node is the entry point's (`FirstNodeIsEntry`); a finished block gets no
further instruction (`DoneBlocksFrozen`).
*Bounds*: 3 runs of at most 27 instructions: one pass through the binary is 11
instructions long and a turn of its loop 8, so a run can take the loop twice and
leave: counts of one, two and three occur, each a colour of its own. The instance
satisfies `ProgramAssumption`, which TLC evaluates.
`CHECK_DEADLOCK FALSE`: the engine stops after `MaxRuns`, and a process that fails
for good is replaced by a new one only while runs are left.

**`serial`**: does the next run get the graph back? Outside a torn write the reader
finds in the region exactly the nodes the last complete write was given, over
whatever smaller or larger graph they were written, after any number of runs
that died (`ReadsWhatWasWritten`); the first memcpy of a write, the start address,
does no harm by itself, the second, the node count, does. A graph that `it_fits`
accepts stays inside the region (`FitsIsEnough`), a run that begins on a whole region
commits a graph that contains the last one (`SerialImplementsSharedGraph`), and
whatever was read, the graph can be traced on and stored again, no field written leaves
the mapping, and nothing of a run is left in the process after it (`SerialTypeOK`): `read`
clears nothing, so a graph that outlived its run would be mixed into the next. After a torn write the reader may find the old nodes under
the new count, a mixture, or bytes that are no fields: all three are reachable
here, and nothing in the code tells them apart.
*Bounds*: three runs, so that a graph is written over a torn one over a whole
one; four instructions with texts of two lengths and an API's name, blocks of at
most two, a branch whose targets sort before and behind it; `Word = 4`.
`RegionSize = 256` where the real region has 0xC0000 less the shared header:
most graphs of the instance fit and the largest do not, so that both sides of
`it_fits` occur. `CHECK_DEADLOCK FALSE`: the engine stops after `MaxRuns`, and
`garbage` and `overrun` are not followed.

**`finish`**: what may the drawing cost, and does the handler come to its end? Every
character of the child's stderr is read or in the pipe, and the loop ends only when
the child has ended and the pipe is empty (`AllOutputRead`): the read that follows
the wait is what collects the output written just before the exit. A normal return
means an exit with code 0 and every handle closed (`ReturnMeansSuccess`). The graph is
stored before the first call of the drawing (`StoredBeforeDrawing`), so that even a
process that ends inside an exception's constructor loses no run. A report means that
the graph is stored and drawn (`ReportMeansDone`). The handler ends with everything
cleaned (`FinishReturns`): a child blocked on the full pipe cannot exit, and only the
timeout of the wait lets the parent empty it; only the `terminate` excuses it.
*Bounds*: `Capacity = 3` below `MaxOutput = 7`, so that the child blocks, more than
once; `ReadSize = 2` below `Capacity`, so that the inner loop turns. Outputs of
0, 1 and 2 characters are the boundaries of the trimming. Both formats and both
builds are initial states. `CHECK_DEADLOCK FALSE`: a finished handler does nothing
more.

**Fairness.** Only `finish` has a liveness property. `FinishSpec` assumes weak
fairness of the handler and of the child, which is the operating system's
scheduling of two runnable threads, and a child that writes at most `MaxOutput`
characters: a child that is scheduled and not blocked exits. Nothing in the code
gives the second: a `dot` that never ends keeps `DBTFinish` for good. The
callbacks have no progress property of their own: the engine owes the plugin
nothing and may kill the process at any time.

## Findings

Each is a run that TLC must find violated, of a property that states what the
repository says.

- **`import_thunk`** (`goliath.cpp:149`, code bug). `DBTBranching` never looks for
  the APIReporter; `DBTBeforeExecute` does, and clears the branch type. A `jmp` into
  an API is appended by both. When the jmp is a whole block, as in every import
  thunk, the second append leaves the cursor on the finished node, the code
  after the API call is pushed behind its branch and the next branch is dropped.
- **`resumed_block`** (`node.cpp:41`, code bug). A block a run was stopped in is
  stored unfinished; the next run appends the same instructions to it again.
- **`spin_loop`** (`node.cpp:47`, code bug). A block made of one branch is never
  counted as visited again: the tightest loop has the colour of a block run once.
- **`init_again`** (`goliath.cpp:47`, code bug). `DBTInit` after a failed `DBTInit`
  uses a pointer it never assigned.
- **`indirect_jump`** (`node.cpp:47`, code bug). A `jmp` through a table that goes
  elsewhere in a later turn or run: its block is done, and the new edge is never
  drawn, although the runs are repeated to find it.
- **`region_overrun`** (`goliath.cpp:178`, doc and code diverge). `write` assumes that
  its memory is big enough; its only caller never asks `it_fits`, and the graph
  grows with every run.
- **`stderr_dropped`** (`graphviz.cpp:35`, code bug). `if (!process_stderr.empty())`
  appends `process_exit`: what `dot` wrote is in no message, and a `dot` that
  complains and exits with 0 is a success.

Smaller ones, without a run:

- On the paths that throw, `command::execute` leaves handles open
  (`execute.cpp:61` the reader, later throws what is left); if closing the writer fails,
  the child is left writing to a pipe nobody reads. No document promises
  otherwise.
- `engine::instance` (`engine.cpp:197`) never closes the mapping's handle, although
  `goliath.h:90-93` has `DBTFinish` free all that `DBTInit` initialised.
- A rejected instruction at the entry point leaves its address as that of the first node
  (`control_flow.cpp:228` assigns it before anything is validated), although
  `control_flow.h:24-25` says it is that of an instruction "that has been added". The field is
  stored and loaded, but nothing else reads it.
- A process that dies inside `write` behind the node count leaves a region that the next
  run reads all the same: `DBTInit` (`goliath.cpp:60`) asks only whether the run counter is
  zero, and `read` follows the new count over the bytes of older nodes, or over zeroes.
  `control_flow.h:37-38` says that `read` *assumes* that its memory holds a graph. `Serial`
  reaches this (phase `garbage`, in its shortest form in the second run of all); nothing
  in the code keeps it out, so no property of a passing run is about it: `ReadsWhatWasWritten` and
  `SharedGraph` say what holds *unless* a write was torn, and that only a death behind the
  node count tears one.
- `engine::plugin_report` (`engine.cpp:81`) uses the offset of the report's *size*;
  nothing calls it.
- `pick_color`'s test for the half of an interval (`node.cpp:129-134`) compares a
  percentage of the half with 50 instead of 100 and is always true, so the upper
  end of the interval is taken: lemma `UpperHalf` of `Drawing_proofs`. Colour 1 is left
  for the lowest ninth and for a count of one against a maximum of one.

The passing properties are stated around them: `VisitsCounted` speaks of blocks
of more than one instruction, `FirstNodeIsEntry` asks for the entry point's
code only if `append` accepts the entry point's instruction, `LoopProgram` reaches its API by a call.

## The proofs

`ControlFlow_proofs` proves, for every `AddressSpace` above 1, every instruction
and every order of calls:

| theorem | statement |
|---|---|
| `TypeCorrect` | `Spec => []TypeOK` |
| `NodesAreBlocks` | `Spec => [](NodesKeyedByHead /\ NodesDoneByBranch /\ NodesEdgesOfBranch)` |
| `NoDanglingEdge` | `Spec => []NodesEdgesClosed` |
| `NoOrphans` | `Spec => [](NodesEmptyAreTargets /\ CursorOnBlock)` |
| `GraphOnlyGrows` | `Spec => BlocksOnlyGrow /\ DoneIsFinal` |

They rest on one inductive invariant, `IInv`, and on the assumption
`AddressSpaceAssumption` alone. `IInv` has a part for each node by itself
(`NodeInv`: its type, its key, its mark, its edges), a part that relates nodes
(edges closed, empty nodes are targets), and a part for the cursor. None of the
three is inductive without the others. `NodesKeyedByHead` needs the cursor part:
an append to a block that has not begun would file an instruction under another
one's address, and `CursorOnBlock` is what excludes it. `NodesEdgesOfBranch`
needs `NodesDoneByBranch`: edges are overwritten by every branch accepted, and only
a node that is not done, hence holds no branch, accepts one.
`NodesEmptyAreTargets` needs `DoneIsFinal`'s content, for an edge that could change
would orphan its old target: that every operation keeps the edges of done nodes
is the lemma form `Keeps`, which the node lemmas establish together with `NodeInv`
and which `GraphOnlyGrows` then lifts to the action properties.

The argument goes bottom-up: `NewNodeInv`, `NodeAppendInstructionInv` and
`NodeAppendBranchInv` about one node; `PutInv` and `CurrentNodeInv` about the map;
one lemma per action (`RejectStep`, `AppendInstructionStep`,
`AppendBranchInstructionStep`, `GenerateStep`, `ReloadStep`); `NextStep` puts them
together.

`LargestOccurrences` is the set of the (at most one) maxima of a map, and `Generate`
takes its member. That a finite nonempty set of numbers has a maximum is a fact by
induction over the set, which these proofs do not need: they use only what holds of any
maximum, and TLC checks that `Generate` does fire.

`Execute_proofs` proves, for every `Capacity` and `ReadSize` above 0 and every
`MaxOutput`:

| theorem | statement |
|---|---|
| `TypeCorrect` | `ExecuteSafety => []ExecuteTypeOK` |
| `NoOutputLost` | `ExecuteSafety => []AllOutputRead` |
| `ReturnIsSuccess` | `ExecuteSafety => []ReturnMeansSuccess` |

Its `IInv` says what is true at each of the parent's calls: before the loop
nothing has been read and an absent child has written nothing (`BeforeLoop`); in
the loop the count and the pipe add up (`ReadOrInPipe`); `success` means that the
child *has* ended, so that a pipe seen empty after it stays empty
(`LoopLeftEmpty`, the heart of the argument: `AllOutputRead` alone does not survive
the step from the peek to the trimming); which handles are open (`OpenHandles`)
and that the code has been looked at (`CodeSeen`).

`Finish_proofs` proves the same of the whole handler:

| theorem | statement |
|---|---|
| `DrawingCostsNothing` | `FinishSafety => []StoredBeforeDrawing` |
| `ReportIsTrue` | `FinishSafety => []ReportMeansDone` |

`FInv` is `Execute`'s invariant and `StageInv`, which ties the stage to the runner's
program counter: until the drawing stage the runner has not moved, so a runner that
has moved means a stored graph; behind it, it has returned. Every step of the handler
is a step of the runner or leaves it alone (`FinishStepsExecute`), so that the
invariant of `Execute` is not proved again.

`Drawing_proofs` proves of `pick_color`, for every count:

| theorem | statement |
|---|---|
| `ShadeFollowsCount` | of two counts against one maximum the larger never gets the lighter colour; a maximum above 1 gets the darkest |
| `GeneratedIsShaded` | in the map `set_nodes_max_occurrences` leaves, a box with a higher count is not lighter |

The code reaches a colour by rounded intervals, a test of halves and an index into a
list. The lemmas take these apart: some interval holds the percentage, and it lies strictly
above the lower end of the first that does (`FirstWithinExists`); the
test for the lower half never succeeds (`UpperHalf`), so the shade is darker than
the first `k` exactly when the share of the maximum lies above `k` ninths
(`ShadeOfShare`), which is monotone.

`Goliath_proofs` proves, for whatever parameters the callbacks are given in whatever
order and however runs end:

| theorem | statement |
|---|---|
| `PluginTypeCorrect` | `PluginSpec => []PluginTypeOK` |
| `StoredIsGraph` | `PluginSpec => []StoredWellFormed` |
| `RunsStartFromStored` | `PluginSpec => []LiveContainsStored` |
| `StampsAreRuns` | `PluginSpec => []IterationStamps` |
| `PluginImplementsSharedGraph` | `PluginSpec => ImplementsSharedGraph` |
| `CallPatchedTwice` | the side address of a call both callbacks have patched is the address behind it, unless a call to the next instruction was announced with another side address |

`PluginInv` has four parts. `IInv` is `ControlFlow`'s, for the live graph.
`StoredInv` says it of the stored map, of which it has to be known before it can be
loaded. `RunInv` relates the two: an open run's graph is grown from the stored one, and
outside a run the live graph is *empty*. That last part is what
`RunsStartFromStored` needs at `DBTInit`: `read` clears nothing, so what it loads is the
stored graph only if the map it loads into is empty. `Types` has the rest. For the refinement
each step lemma also shows `SharedStep`, the step of `SharedGraph` it amounts to, so
that the theorem is a simulation and no second pass through the actions. Most endings
of `DBTInit` and of a run share a lemma (`InitEndsStep`, `CleanedStep`,
`AppendCaughtStep`).

`TracedProgram_proofs` proves, for every binary that satisfies `ProgramAssumption`:

| theorem | statement |
|---|---|
| `EngineKeepsToInterface` | `TracedSpec => PluginSpec` |
| `DrawingStartsAtEntry` | `TracedSpec => []FirstNodeIsEntry` |
| `ColoursFollowCounts` | `TracedSpec => []HotterIsDarker` |

By the first, `Goliath`'s theorems hold of every traced run. The second needs to know
where the engine is as long as no start address is set (`EntryInv`): at the entry point,
and between its two callbacks only if `DBTBranching` had nothing to append. It holds of
binaries whose entry point is rejected as well: a graph may then have a start address and no
node, be stored so, and be filled by a later run from another instruction on, and the start
address is still the entry point's. That the entry point has its code needs
`EntryAccepted`. `LoopProgram`'s is accepted, so the rejected case is the theorem's alone.

`HotterIsDarker` is about the stored map; `GeneratedIsShaded` has it of the map
`generate` leaves, if no count in it is zero. `CountsInv` is that, for the live and the stored
map: what is loaded, created and visited never counts zero.

`DirectBinary_proofs` proves, for every binary that satisfies `DirectBinary`, every number
of runs and every way they end:

| theorem | statement |
|---|---|
| `DirectInvariant` | `TracedSpec => []DirectInv` |
| `TransfersAreDrawn` | `TracedSpec => []TransfersDrawn` |
| `OccurrencesAreVisits` | `TracedSpec => []VisitsCounted` |
| `CallsLeadBehind` | `TracedSpec => []ReturnSiteDrawn` |
| `CallbacksDivideInstructions` | `TracedSpec => []AppendedOnce` |
| `DoneBlocksStay` | `TracedSpec => DoneBlocksFrozen` |

None of the five properties is inductive: each is about where the *engine* is, and
the graph only knows its cursor. `DirectInv` connects the two.

- `Line` says what a block is. In one pass it would be a straight line of instructions;
  but a run may stop in the middle of a block, and the next one appends the same
  instructions again (`resumed_block`). So a block is a sequence of passes over one
  line: every address in it but the highest is followed in memory by another address of it
  (`NextOf`), only its last element may branch, and the pass in progress has met
  everything below where it is. This is the part that had to be found; the obvious
  one, addresses increase, is false after the first resumption and holds only of blocks
  created in the present run (`Increasing`, a part of `CountingInv`).
- `PositionInv` says where the engine is relative to the cursor. Between instructions
  (`Ready`) either the open block goes on behind the last instruction, or there is no
  cursor and a finished block has an edge (or a return) to the program counter. Between
  the two callbacks of a branch, either the first has left it to the second
  (`LEAVE`, calls) or it has appended it (`BranchDone`), and the second will skip it.
  That a cursor on a *finished* block means that the next instruction is one inside
  it is what `DoneBlocksFrozen` and `AppendedOnce` need.
- `TransfersInv` says that every transfer is `Recorded`: two adjacent instructions of a
  block, or an end of a finished block with an edge. It is about nodes, not about the
  drawing, so that one lemma (`RecordedStays`) carries it over every step that only
  grows the graph; `RecordedIsDrawn` turns it into `TransfersDrawn` at the end.
- `CountingInv` compares `occurrences` with `entered` for the nodes of this run: one while
  the block is being written, equal once it is done and has more than one instruction.

The two callbacks are two steps. `FirstCallback` and `SecondCallback` say what each makes
of a way (patched once, patched twice: the arithmetic is there), `AppendOnLine` and
`AppendCounted` what an append does to the graph, and `SecondAppends` and `SecondSkips` put them
together; then one lemma per action of `TracedNext`, and `DirectStep`.

`Serial_proofs` proves, for every size of words, texts and region that satisfies
`SerialAssumption`, every sequence of instructions, every number of runs and every death
between two memcpys:

| theorem | statement |
|---|---|
| `SerialInvariant` | `SerialSpec => []SInv` |
| `SerialTypeCorrect` | `SerialSpec => []SerialTypeOK` |
| `ReadsBack` | `SerialSpec => []ReadsWhatWasWritten` |
| `FitsSuffices` | `SerialSpec => []FitsIsEnough` |
| `SerialRefines` | `SerialSpec => SerialImplementsSharedGraph` |

The assumption is that words and texts take space and that the mapping has room for the two
words the engine's zeroed region already holds (`RegionSize >= 2 * Word`).

Writer and reader are loops over graphs of any size, so what they compute is a fact by
induction. The library's induction theorems take an operator as a parameter, which no
installed prover can instantiate; `Induction` states the principle for a *set* of numbers
instead, from the well-foundedness of finite sets under inclusion, and each inductive
argument defines the set of the steps at which its claim holds. `Recursion` gives the
recursive functions of the model their equations in the same way.

The argument goes from the bytes up. `Laid` says that copies lie one behind the other
between two offsets without overlapping, `Holds` that a memory has each copy where it was
put. First the writer: the fields of an instruction, a block, a node and the whole graph
are laid out within exactly what `mem_size` counts, or less (`InstructionLaid` to
`GraphLaid`). The word per instruction that `NodeMemSize` counts too much is a gap behind
every node, which the proof allows for and `FitsIsEnough` survives. Then the
reader: from a memory that holds what the writer laid out, each reader returns what was
written and stops where the writer stopped (`TakePlaced`, `InstructionBack`, `BlockBack`,
`NodeBack`, `NodesBack`, `GraphBack`). The strides agree because the reader's is the
`mem_size` of what it has just read, hence, by what has been shown of that, the writer's.
From any other memory the readers still return something typed (`TakeAllTyped` to
`ReadGraphTyped`), which is all that holds of a torn region.

`SInv` connects this with the runs. `ReadsWhatWasWritten` is not inductive: it says what
the reader would return now, and the next memcpy changes the memory.

- `WholeInv` replaces it by what the memory holds, which a memcpy can be shown to keep or
  to end.
- `WriteInv` says how far the open write has come: a first part of its copies is in memory
  and the rest is to be made, so that when none is left the memory holds the new graph.
- `HeadInv` is about the first memcpy, the start address. The region stays whole through it
  only because an open run on a whole region has the start address already there, or the
  region has no nodes, in which case the start address is not compared.
- `RunInv` and `WrittenInv` say where the run's graph comes from, which the refinement needs
  when a run commits (it contains the last one) and `HeadInv` at the first memcpy.
- `PhaseInv` ties `region` to the phase (a write that is half way is the open one) and says
  that before the first run, which reads nothing, there is nothing to read.

`ControlFlow`'s invariant is not a part: a graph that was read from a torn region need not
satisfy it. `StoredGraph`, which any graph does that the reader can return, is what the
proofs use. Each step lemma shows the invariant and the step of `SharedGraph` together.

Only model-checked: `FinishReturns`, which needs fairness. The properties of the runs that
expect a violation are false, and so not proved. Every other property of a passing run is
stated by a theorem.

## What is not modelled

- *Text*: disassembly and API names (kept: empty or not, LEAVE or not, named or
  not), labels, the definition's layout, log lines, plugin reports, error
  messages, the random file name.
- *Bytes within a field*: `Serial` keeps a field as one value at one offset. A reader
  that is off by some bytes is in `garbage`; which number or text it would make of
  them is not modelled, and neither is a text whose first four bytes equal the
  guard value.
- *Failing peek or read* in the command runner: the parent is the only reader of a
  pipe whose handle it holds.
- *Rounding* of doubles in `pick_color`: percentages are exact here, see
  [Drawing](#drawing).
- *The logger's stream* and a callback the engine makes without a successful
  `DBTInit`: the engine's side of the interface excludes the second.
- *The mapping's handle*, which is opened and never closed.
- *Width of counters*: addresses wrap at `AddressSpace`; `occurrences`, `iteration`
  and the run counter are natural numbers here and 32-bit in the code: 2^32
  visits or runs are out of the program's reach.
- *Memory exhaustion* (`bad_alloc`), and a layer of the APIReporter without text.
- *Fields of the shared region the plugin has accessors for but never uses*
  (flags, plugin path, stack top, protected files).

## The plan

Order: the graph, then its life across runs, then what the drawing says of the
execution, then bytes, then the child process.

1. *(done)* `Instruction`, `ControlFlow`, its proofs, run `graph`.
2. *(done)* `SharedGraph`, `Goliath`, the refinement checked, run `plugin`.
3. *(done)* `TracedProgram`, run `traced_runs`, the findings.
4. *(done)* `Serial`, its refinement of `SharedGraph`, runs `serial` and
   `region_overrun`.
5. *(done)* `Execute` and `Finish`, their proofs, runs `finish` and `stderr_dropped`.
6. *(done)* `Drawing`: `pick_color`, proved monotone and checked across runs.
7. *(done)* Proofs about `Goliath`, the refinement included.
8. *(done)* `EngineKeepsToInterface` and `DrawingStartsAtEntry`.
9. *(done)* What the drawing says of the execution, for binaries of direct branches:
   `DirectBinary_proofs`; colours for all binaries.
10. *(done)* `Serial`: its writer and reader as recursive functions, its invariant, and its
    refinement of `SharedGraph`: `Serial_proofs`.
