---------------------------- MODULE SharedGraph ----------------------------
(***************************************************************************)
(* What the plugin promises about the shared memory (goliath.h:84-96): the *)
(* engine runs the analysed binary again and again, each DBTInit opens the *)
(* next run, and the graph left in shared memory changes only when a run   *)
(* is finished, once per run, to one that contains the graph before it.    *)
(* A run that dies while it stores its graph tears the region: what the    *)
(* runs after it commit need not contain anything, and the first of them   *)
(* makes the region whole again.                                           *)
(***************************************************************************)
EXTENDS Integers, Sequences, SequencesExt

VARIABLES iteration,   \* runs opened so far
          open,        \* a run is open: initialised and not finished
          region,      \* "whole", "partial" while a run stores over it, or "torn"
          blocks       \* the last graph committed: start address -> its instructions

shared == <<iteration, open, region, blocks>>

Keeps(larger, smaller) ==
  \A a \in DOMAIN smaller :
    a \in DOMAIN larger /\ IsPrefix(smaller[a], larger[a])

SharedInit ==
  /\ iteration = 0
  /\ open = FALSE
  /\ region = "whole"
  /\ DOMAIN blocks = {}

OpenRun ==
  /\ ~open
  /\ open' = TRUE
  /\ iteration' = iteration + 1
  /\ UNCHANGED <<region, blocks>>

\* The first bytes that a reader would follow.
TouchRegion ==
  /\ open
  /\ region = "whole"
  /\ region' = "partial"
  /\ UNCHANGED <<iteration, open, blocks>>

CommitRun ==
  /\ open
  /\ open' = FALSE
  /\ region' = "whole"
  /\ region # "torn" => Keeps(blocks', blocks)
  /\ UNCHANGED iteration

\* A generation that fails or a process that dies: the run leaves no trace
\* but its number, and the region torn if it was storing.
AbandonRun ==
  /\ open
  /\ open' = FALSE
  /\ region' = IF region = "whole" THEN "whole" ELSE "torn"
  /\ UNCHANGED <<iteration, blocks>>

SharedNext == OpenRun \/ TouchRegion \/ CommitRun \/ AbandonRun

SharedSpec == SharedInit /\ [][SharedNext]_shared

=============================================================================
