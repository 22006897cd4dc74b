------------------------------- MODULE Finish -------------------------------
(***************************************************************************)
(* DBTFinish (goliath/goliath.cpp:159-204), stage by stage: generate the   *)
(* definition, store the graph, draw the definition (debug build: `dot`    *)
(* for graphviz, a file for gdl), make a report, clean.  Goliath.tla has   *)
(* the same handler as one step; here is what happens inside it while a    *)
(* child process runs.                                                     *)
(***************************************************************************)
EXTENDS Execute

VARIABLES stage,         \* of the handler
          debug,         \* the build: without NDEBUG
          format,        \* the build: GENERATION_FORMAT
          definitions,   \* allocated, with the text of the drawing
          stored,        \* memory::unloader has run
          singletons,    \* graph, logger and engine are there
          report         \* DBTFinish returns one

build == <<debug, format>>
results == <<definitions, stored, singletons, report>>
finish == <<execute, stage, build, results>>

Stage == {"generate", "unload", "draw", "report", "clean", "finished"}

\* Mutant: the graph is stored when the drawing is done.
UnloadAfterDraw(now) ==
  CASE now = "generate" -> IF debug THEN "draw" ELSE "unload"
    [] now = "draw"     -> "unload"
    [] now = "unload"   -> "report"
    [] now = "report"   -> "clean"
    [] now = "clean"    -> "finished"

After(now) ==
  CASE now = "generate" -> "unload"
    [] now = "unload"   -> IF debug THEN "draw" ELSE "report"
    [] now = "draw"     -> "report"
    [] now = "report"   -> "clean"
    [] now = "clean"    -> "finished"

\* The stage ends, or its exception goes to _clean.
Proceed(now) == stage = now /\ stage' = After(now)
GotoClean(now) == stage = now /\ stage' = "clean"

-----------------------------------------------------------------------------
Generate ==
  /\ \/ Proceed("generate") /\ definitions' = TRUE
     \/ GotoClean("generate") /\ UNCHANGED definitions
  /\ UNCHANGED <<execute, build, stored, singletons, report>>

Unload ==
  /\ Proceed("unload")
  /\ stored' = TRUE
  /\ UNCHANGED <<execute, build, definitions, singletons, report>>

\* graphviz::execute, one call at a time.
DrawGraphviz ==
  /\ stage = "draw"
  /\ format = "graphviz"
  /\ Parent
  /\ UNCHANGED <<stage, build, results>>

\* gdl::execute: a file that may not open.
DrawGdl ==
  /\ format = "gdl"
  /\ Proceed("draw") \/ GotoClean("draw")
  /\ UNCHANGED <<execute, build, results>>

\* Mutant: the handler of the drawing's exception lacks its goto.
DrawEndsAnyway ==
  /\ pc \in {"returned", "thrown"}
  /\ Proceed("draw")
  /\ UNCHANGED <<execute, build, results>>

DrawEnds ==
  /\ \/ pc = "returned" /\ Proceed("draw")
     \/ pc = "thrown" /\ GotoClean("draw")
  /\ UNCHANGED <<execute, build, results>>

\* new_plugin_report: null if VirtualAlloc fails.
Report ==
  /\ Proceed("report")
  /\ report' \in BOOLEAN
  /\ UNCHANGED <<execute, build, definitions, stored, singletons>>

Clean ==
  /\ Proceed("clean")
  /\ definitions' = FALSE
  /\ singletons' = FALSE
  /\ UNCHANGED <<execute, build, stored, report>>

Handler == Generate \/ Unload \/ DrawGraphviz \/ DrawGdl \/ DrawEnds \/ Report \/ Clean

\* The child may outlive the handler that started it.
ChildRuns == Child /\ UNCHANGED <<stage, build, results>>

FinishInit ==
  /\ ExecuteInit
  /\ stage = "generate"
  /\ debug \in BOOLEAN
  /\ format \in {"graphviz", "gdl"}
  /\ definitions = FALSE
  /\ stored = FALSE
  /\ singletons = TRUE
  /\ report = FALSE

FinishNext == Handler \/ ChildRuns

FinishSafety == FinishInit /\ [][FinishNext]_finish

\* The engine's thread and the child are scheduled, as in ExecuteSpec.
FinishSpec == FinishSafety /\ WF_finish(Handler) /\ WF_finish(ChildRuns)

-----------------------------------------------------------------------------
(* Properties *)

\* Nothing the drawing meets can cost the graph: it is stored before the first
\* call of the drawing, so that also a terminate() inside an exception's
\* constructor (error/win32.cpp:8) leaves what the next run starts from.
StoredBeforeDrawing == pc # "fstream" => stored

\* A report tells the engine that all of the run was done: the graph is stored
\* and, in the debug build, drawn by a dot that succeeded and was reaped.
ReportMeansDone ==
  report =>
    /\ stored
    /\ debug /\ format = "graphviz" => pc = "returned" /\ code = 0 /\ handles = {}

\* DBTFinish comes to its end with everything cleaned (goliath.h:90-93),
\* whichever stage fails and however much the child writes: a child blocked on
\* a full pipe is read from while it is waited for.  Only terminate() stops it.
FinishReturns ==
  <>(pc = "terminated" \/ (stage = "finished" /\ ~definitions /\ ~singletons))

=============================================================================
