-------------------------- MODULE MCTracedProgram --------------------------
(***************************************************************************)
(* Small binaries for TracedProgram.  Every instruction is one byte long.  *)
(***************************************************************************)
EXTENDS TracedProgram

Way(eip, type, next, side, reported, successors) ==
  [params |-> [eip |-> eip, content |-> "text", branch_type |-> type, instrlen |-> 1,
               next_addr |-> next, side_addr |-> side],
   reported |-> reported, successors |-> successors]

Simple(eip)        == {Way(eip, "none", eip + 1, 0, FALSE, {eip + 1})}
Leave(eip)         == {[w EXCEPT !.params.content = "leave"] : w \in Simple(eip)}
ApiCall(eip)       == {Way(eip, "call", eip + 1, eip + 1, TRUE, {eip + 1})}
Call(eip, target)  == {Way(eip, "call", target, target, FALSE, {target})}
Jmp(eip, target)   == {Way(eip, "jmp", target, eip + 1, FALSE, {target})}
Jcc(eip, target)   == {Way(eip, "jcc", target, eip + 1, FALSE, {target, eip + 1})}
Ret(eip, sites)    == {Way(eip, "ret", site, site, FALSE, {site}) : site \in sites}
\* The last return: to an address outside the binary.
Exit(eip, outside) == {Way(eip, "ret", outside, 0, FALSE, {0})}

\* A loop over a called function that finds its own address by a call to the
\* next instruction, an API call in the middle of a block, and a conditional
\* jump into the middle of a block already drawn:
\*   1 mov   2 call 6   3 jcc 2    4 call [api]   5 ret
\*   6 xor   7 inc      8 call 9   9 pop   10 leave   11 ret
LoopProgram ==
  << Simple(1), Call(2, 6), Jcc(3, 2), ApiCall(4), Exit(5, 12),
     Simple(6), Simple(7), Call(8, 9), Simple(9), Leave(10), Ret(11, {3}) >>

\* A call through an import thunk, whose jmp is what enters the API:
\*   1 call 4   2 mov   3 ret   4 jmp [api]
ThunkProgram ==
  << Call(1, 4), Simple(2), Exit(3, 5), {Way(4, "jmp", 9, 9, TRUE, {2})} >>

\* A jmp through a table:
\*   1 mov   2 jmp [table]   3 ret   4 ret
TableProgram == << Simple(1), Jmp(2, 3) \cup Jmp(2, 4), Exit(3, 5), Exit(4, 5) >>

\* A jcc that is its own target: the smallest loop.
SpinProgram == << Simple(1), Jcc(2, 2), Exit(3, 4) >>

\* The hypothesis of DirectBinary_proofs holds of the first and the last, and
\* excludes the two in between.
ASSUME DirectPrograms == DirectBinary <=> Program \in {LoopProgram, SpinProgram}

=============================================================================
