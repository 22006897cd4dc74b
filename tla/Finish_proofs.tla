---------------------------- MODULE Finish_proofs ----------------------------
(***************************************************************************)
(* What holds of DBTFinish in every build, for every pipe, buffer and      *)
(* output: the runner's invariant is kept inside the handler, and the      *)
(* stages add what has been done when each of them begins.                 *)
(***************************************************************************)
EXTENDS Finish, Execute_proofs

\* What was stored and drawn when each stage begins.  The runner moves only in
\* the stage that draws, which the graph has been stored before.
StageInv ==
  /\ stage \in Stage
  /\ stage \in {"generate", "unload"} => pc = "fstream"
  /\ stage \in {"draw", "report"} \/ pc # "fstream" => stored
  /\ stage = "report" \/ report => stored /\ (debug /\ format = "graphviz" => pc = "returned")
  /\ stage \in {"generate", "unload", "draw", "report"} => ~report

FInv == IInv /\ StageInv

-----------------------------------------------------------------------------
LEMMA FinishInitInv == FinishInit => FInv
<1> SUFFICES ASSUME FinishInit PROVE FInv
  OBVIOUS
<1>1. IInv
  BY InitInv DEF FinishInit
<1>2. StageInv
  BY DEF FinishInit, ExecuteInit, StageInv, Stage
<1> QED
  BY <1>1, <1>2 DEF FInv

\* A step of the handler is a step of the runner, or leaves it alone.
LEMMA FinishStepsExecute == [FinishNext]_finish => [ExecuteNext]_execute
  BY DEF FinishNext, Handler, Generate, Unload, DrawGraphviz, DrawGdl, DrawEnds, Report, Clean,
         ChildRuns, ExecuteNext, finish

LEMMA StageStep ==
  ASSUME StageInv, FinishNext
  PROVE  StageInv'
<1>1. CASE Generate
  BY <1>1 DEF Generate, Proceed, GotoClean, After, StageInv, Stage, execute, parent, build
<1>2. CASE Unload
  BY <1>2 DEF Unload, Proceed, After, StageInv, Stage, execute, parent, build
<1>3. CASE DrawGraphviz
  <2>1. /\ stage = "draw" /\ stage' = stage /\ stored' = stored /\ report' = report
    BY <1>3 DEF DrawGraphviz, results
  <2> QED
    BY <2>1 DEF StageInv, Stage
<1>4. CASE DrawGdl
  BY <1>4 DEF DrawGdl, Proceed, GotoClean, After, StageInv, Stage, execute, parent, build, results
<1>5. CASE DrawEnds
  BY <1>5 DEF DrawEnds, Proceed, GotoClean, After, StageInv, Stage, execute, parent, build, results
<1>6. CASE Report
  BY <1>6 DEF Report, Proceed, After, StageInv, Stage, execute, parent, build
<1>7. CASE Clean
  BY <1>7 DEF Clean, Proceed, After, StageInv, Stage, execute, parent, build
<1>8. CASE ChildRuns
  <2>1. pc' = pc
    BY <1>8 DEF ChildRuns, Child, BeginWrite, FillPipe, Exit, parent
  <2> QED
    BY <1>8, <2>1 DEF ChildRuns, StageInv, Stage, build, results
<1> QED
  BY <1>1, <1>2, <1>3, <1>4, <1>5, <1>6, <1>7, <1>8 DEF FinishNext, Handler

LEMMA FinishNextInv == FInv /\ [FinishNext]_finish => FInv'
<1> SUFFICES ASSUME FInv, [FinishNext]_finish PROVE FInv'
  OBVIOUS
<1>1. IInv'
  BY FinishStepsExecute, NextInv DEF FInv
<1>2. StageInv'
  <2>1. CASE FinishNext
    BY <2>1, StageStep DEF FInv
  <2>2. CASE UNCHANGED finish
    BY <2>2 DEF FInv, StageInv, Stage, finish, execute, parent, build, results
  <2> QED
    BY <2>1, <2>2
<1> QED
  BY <1>1, <1>2 DEF FInv

LEMMA FinishInvariant == FinishSafety => []FInv
  BY FinishInitInv, FinishNextInv, PTL DEF FinishSafety

-----------------------------------------------------------------------------
\* Before the first call of the drawing the graph is in shared memory, so that
\* nothing the drawing meets can cost it (goliath.cpp:177-191).
THEOREM DrawingCostsNothing == FinishSafety => []StoredBeforeDrawing
<1>1. FInv => StoredBeforeDrawing
  BY DEF FInv, StageInv, StoredBeforeDrawing
<1> QED
  BY <1>1, FinishInvariant, PTL

\* A report is returned only for a run that was stored and, by graphviz in the
\* debug build, drawn (goliath.cpp:159-204, execute.cpp:86-99).
THEOREM ReportIsTrue == FinishSafety => []ReportMeansDone
<1>1. FInv => ReportMeansDone
  BY DEF FInv, IInv, StageInv, OpenHandles, CodeSeen, ReportMeansDone
<1> QED
  BY <1>1, FinishInvariant, PTL

=============================================================================
