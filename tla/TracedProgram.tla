--------------------------- MODULE TracedProgram ---------------------------
(***************************************************************************)
(* Goliath under the engine as it is used: it executes one binary over and *)
(* over, each run from the entry point along some path, and reports every  *)
(* instruction it executes: DBTBeforeExecute, and before it DBTBranching   *)
(* with the same CUSTOM_PARAMS if the instruction branches or is a LEAVE   *)
(* (goliath.h:36 and 78, tests/machinery.cpp:35-41).  The engine and the binary are external.    *)
(* The history variables say what was executed, for the properties to      *)
(* compare with what the graph draws.                                      *)
(***************************************************************************)
EXTENDS Goliath, Drawing

\* Program[a] is the set of ways the instruction at a may execute: its
\* parameters, whether the APIReporter knows it, and where control goes next.
CONSTANTS Program, EntryPoint, MaxRuns, MaxSteps

\* The ways an instruction may execute.
Ways == [params : CustomParams, reported : BOOLEAN, successors : SUBSET (DOMAIN Program \cup {0})]

\* The engine reports what it executes, and takes no LEAVE for a branch.
ASSUME ProgramAssumption ==
  /\ EntryPoint \in DOMAIN Program
  /\ \A a \in DOMAIN Program :
       Program[a] \subseteq Ways /\ \A w \in Program[a] : w.params.eip = a
  /\ \A w \in Program[EntryPoint] :
       w.params.content = "leave" => w.params.branch_type = "none"

VARIABLES pc,          \* the next instruction; 0 when control left the binary
          executing,   \* between the two callbacks of one instruction
          way,         \* the way the instruction at pc executes
          last,        \* the instruction executed before it in this run, or 0
          starts,      \* the next instruction starts a block: it follows a branch
          entered,     \* how often this run started a block at each address
          transfers,   \* pairs of successive instructions, this run and stored ones
          kept,        \* those of the runs the plugin stored
          steps        \* instructions executed in this run

position == <<pc, executing, way, last, starts>>
history == <<entered, transfers, kept, steps>>
traced == <<plugin, position, history>>

NoWay == [params |-> [eip |-> 0, content |-> "empty", branch_type |-> "none",
                      instrlen |-> 0, next_addr |-> 0, side_addr |-> 0],
          reported |-> FALSE, successors |-> {}]

Branches(w) == w.params.branch_type # "none"

\* The engine takes a LEAVE for a branch.
CallsBranching(w) == Branches(w) \/ w.params.content = "leave"

-----------------------------------------------------------------------------
(* A binary without the constructs that the graph is known to draw wrongly: *)
(* a jump the APIReporter knows, an instruction with several branch targets *)
(* other than a return, and instructions that validate rejects.             *)

\* The instruction is followed by the one behind it: it does not branch, or it
\* is a call into an API, whose code is not reported.
Falls(w) == ~Branches(w) \/ w.reported

Behind(w) == w.params.eip + w.params.instrlen

DirectWay(w) ==
  LET p == w.params IN
    /\ Validate(MakeInstruction(p))
    /\ Behind(w) < AddressSpace
    /\ p.content = "leave" => ~Branches(w)
    /\ w.reported => p.branch_type \in {"none", "call"}
    /\ p.branch_type = "call" /\ p.next_addr = Behind(w) => p.side_addr = Behind(w)
    /\ Falls(w) => w.successors \subseteq {0, Behind(w)}
    /\ ~Falls(w) /\ p.branch_type \in {"call", "jmp"} => w.successors \subseteq {0, p.next_addr}
    /\ p.branch_type = "jcc" => w.successors \subseteq {0, p.next_addr, p.side_addr}

\* Only a return may execute in several ways.
DirectBinary ==
  \A a \in DOMAIN Program : \A v, w \in Program[a] :
    /\ DirectWay(w)
    /\ v = w \/ (v.params.branch_type = "ret" /\ w.params.branch_type = "ret")

-----------------------------------------------------------------------------
StartRun ==
  /\ cfg_iteration < MaxRuns
  /\ DBTInit
  /\ IF phase' = "running"
     THEN /\ pc' = EntryPoint
          /\ starts' = TRUE
     ELSE UNCHANGED <<pc, starts>>
  /\ UNCHANGED <<executing, way, last, history>>

\* The first callback for a branch.  The second one is given the parameters
\* the first one has patched.
CallBranching ==
  /\ ~executing
  /\ steps < MaxSteps
  /\ pc # 0
  /\ \E w \in Program[pc] :
       /\ CallsBranching(w)
       /\ DBTBranching(w.params)
       /\ way' = [w EXCEPT !.params = PatchNextAndSideAddr(@)]
  /\ executing' = TRUE
  /\ UNCHANGED <<pc, last, starts, history>>

\* The instruction at pc executes by way w and control moves on.
Executes(w) ==
  /\ DBTBeforeExecute(w.params, w.reported)
  /\ pc' \in w.successors
  /\ last' = pc
  /\ starts' = (Branches(w) /\ ~w.reported)
  /\ entered' = IF starts THEN [entered EXCEPT ![pc] = @ + 1] ELSE entered
  /\ transfers' = IF last = 0 THEN transfers ELSE transfers \cup {<<last, pc>>}
  /\ steps' = steps + 1
  /\ executing' = FALSE
  /\ way' = NoWay
  /\ UNCHANGED kept

CallBeforeExecute ==
  \/ /\ executing
     /\ Executes(way)
  \/ /\ ~executing
     /\ steps < MaxSteps
     /\ pc # 0
     /\ \E w \in Program[pc] : ~CallsBranching(w) /\ Executes(w)

\* The end of a run; only what was stored stays of its history.
Leaves(remaining) ==
  /\ pc' = 0
  /\ executing' = FALSE
  /\ way' = NoWay
  /\ last' = 0
  /\ starts' = FALSE
  /\ entered' = [a \in DOMAIN entered |-> 0]
  /\ transfers' = remaining
  /\ kept' = remaining
  /\ steps' = 0

\* The analysis of a run may be stopped between any two instructions.
FinishRun ==
  /\ ~executing
  /\ \/ FinishStores /\ Leaves(transfers)
     \/ FinishFails /\ Leaves(kept)

KillRun == ProcessEnds /\ Leaves(kept)

TracedInit ==
  /\ PluginInit
  /\ pc = 0
  /\ executing = FALSE
  /\ way = NoWay
  /\ last = 0
  /\ starts = FALSE
  /\ entered = [a \in DOMAIN Program |-> 0]
  /\ transfers = {}
  /\ kept = {}
  /\ steps = 0

TracedNext ==
  \/ StartRun
  \/ CallBranching
  \/ CallBeforeExecute
  \/ FinishRun
  \/ KillRun

TracedSpec == TracedInit /\ [][TracedNext]_traced

-----------------------------------------------------------------------------
(* Properties *)

WithoutRepeats(block) == \A i, j \in 1 .. Len(block) : block[i].eip = block[j].eip => i = j

AllDrawn(drawing, pairs) == \A t \in pairs : IsDrawn(drawing, t)

\* Every transfer of control the binary made, in this run and in the runs
\* stored before it, is drawn: overlapping blocks, jumps into the middle of a
\* block, and blocks resumed in a later run included.
TransfersDrawn ==
  /\ phase = "running" /\ ~executing => AllDrawn(Draw(nodes), transfers)
  /\ AllDrawn(Draw(stored.nodes), kept)

\* The count a block's colour is picked from: a block of several instructions
\* that was created and finished in this run has been entered exactly
\* `occurrences` times in it.  (Blocks of one instruction are never counted
\* again, and blocks of earlier runs keep the count of their own run.)
VisitsCounted ==
  phase = "running" /\ ~executing =>
    \A a \in DOMAIN nodes :
      nodes[a].iteration = current_iteration /\ nodes[a].is_done /\ Len(nodes[a].block) > 1
        => nodes[a].occurrences = entered[a]

\* The colours of the stored drawing follow the counts, over blocks of several
\* runs whose counts and maxima were loaded and raised again (node.cpp:101-139).
HotterIsDarker == DarkerIfHotter(stored.nodes)

\* The red edge of a call leads to the instruction behind it, although the
\* parameters it is taken from are patched in place by both callbacks, and the
\* patch of a call to the next instruction is not idempotent
\* (instruction.cpp:72-77).
ReturnSiteDrawn == CallsReturn(nodes) /\ CallsReturn(stored.nodes)

EntryAccepted == \A w \in Program[EntryPoint] : Validate(MakeInstruction(w.params))

\* The drawing starts where the binary does: the first node is the entry
\* point's (control_flow.h:24-25), whatever append rejects; and it has its code,
\* unless it is the entry point's own instruction that was rejected, after
\* append had taken its address (control_flow.cpp:228).
FirstNodeIsEntry ==
  stored.nodes # NoNodes =>
    /\ stored.start_address_first_node = EntryPoint
    /\ EntryAccepted => /\ EntryPoint \in DOMAIN stored.nodes
                        /\ stored.nodes[EntryPoint].block # <<>>

\* Once a block is done, no later pass through it, in this run or another,
\* adds an instruction to it.
DoneBlocksFrozen ==
  [][phase = "running" /\ phase' = "running" =>
       \A a \in DOMAIN nodes :
         nodes[a].is_done => nodes'[a].block = nodes[a].block]_traced

\* The two callbacks divide the instructions between them: a block begun in this
\* run holds no instruction twice, LEAVE and calls included, which both
\* callbacks are given (goliath.cpp:104-105, 136-145).
AppendedOnce ==
  \A a \in DOMAIN nodes : nodes[a].iteration = current_iteration =>
    WithoutRepeats(nodes[a].block)

\* The drawing of tests/run.cpp:189-204 shows each instruction of a block once.
BlocksWithoutRepeats ==
  \A a \in DOMAIN stored.nodes : WithoutRepeats(stored.nodes[a].block)

\* The same count for blocks of one instruction: node.cpp:32-33 says that a
\* visit at the node's own iteration "means we have a loop".
LoopsCounted ==
  phase = "running" /\ ~executing =>
    \A a \in DOMAIN nodes :
      nodes[a].iteration = current_iteration /\ nodes[a].is_done
        => nodes[a].occurrences = entered[a]

=============================================================================
