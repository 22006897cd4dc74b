------------------------- MODULE DirectBinary_proofs -------------------------
(***************************************************************************)
(* What the graph says of the execution, for every binary without the      *)
(* constructs the graph is known to draw wrongly (DirectBinary): every     *)
(* transfer of control is drawn, counts are visits, calls lead behind      *)
(* themselves, done blocks are left alone, and the two callbacks append    *)
(* each instruction once.                                                  *)
(*                                                                         *)
(* The callbacks see one instruction at a time and the graph keeps a       *)
(* cursor; that the next instruction belongs behind the cursor is a fact   *)
(* about the binary.  The invariant says of a block that what it holds are *)
(* the instructions of a straight line, perhaps passed several times       *)
(* because a run was stopped in it and a later one began it again.         *)
(***************************************************************************)
EXTENDS TracedProgram_proofs

-----------------------------------------------------------------------------
(* The instructions of a binary *)

\* Only instructions that fall through have one behind them in their block.
FallsAt(x) == x \in DOMAIN Program /\ \E w \in Program[x] : Falls(w)

NextOf(x) == Behind(CHOOSE w \in Program[x] : Falls(w))

\* What the callbacks make of an instruction that executes by way w.
Describes(ins, w) ==
  /\ IsBranch(ins) <=> ~Falls(w)
  /\ IsRet(ins) <=> w.params.branch_type = "ret"
  /\ IsBranch(ins) /\ ~IsRet(ins) =>
       w.successors \subseteq {0, TrueBranchAddress(ins), FalseBranchAddress(ins)}
  /\ IsCall(ins) =>
       /\ FalseBranchAddress(ins) = (ins.eip + ins.len) % AddressSpace
       /\ FalseBranchAddress(ins) # 0

-----------------------------------------------------------------------------
(* Blocks of a binary *)

Eips(block) == {block[i].eip : i \in 1 .. Len(block)}

Adjacent(block, x, y) ==
  \E j \in 1 .. Len(block) - 1 : block[j].eip = x /\ block[j + 1].eip = y

\* A block begun at a: the passes through it, of this run and of earlier ones
\* that were stopped before its end, followed the same line of instructions.
\* The last pass went through everything up to where it is.
Line(block, a) ==
  /\ \A i \in 1 .. Len(block) :
       /\ block[i].eip \in DOMAIN Program
       /\ \E w \in Program[block[i].eip] : Describes(block[i], w)
       /\ IsBranch(block[i]) => i = Len(block)
       /\ a <= block[i].eip
  /\ \A x, y \in Eips(block) : x < y =>
       FallsAt(x) /\ NextOf(x) <= y /\ NextOf(x) \in Eips(block)
  /\ \A x \in Eips(block) : x < block[Len(block)].eip => Adjacent(block, x, NextOf(x))

\* The pass through the block of a node has come to x, and goes on behind it.
Passed(node, x) ==
  /\ x \in Eips(node.block)
  /\ FallsAt(x)
  /\ ~node.is_done => node.block[Len(node.block)].eip = x

Lines(map) == \A a \in DOMAIN map : Line(map[a].block, a)

-----------------------------------------------------------------------------
(* Transfers of control *)

\* A finished block ends at x, with a return or an edge to y.
EndsAt(map, x, y) ==
  \E a \in DOMAIN map :
    LET block == map[a].block IN
      /\ map[a].is_done
      /\ block # <<>>
      /\ block[Len(block)].eip = x
      /\ \/ IsRet(block[Len(block)])
         \/ y \in {map[a].true_branch_address, map[a].false_branch_address}

Recorded(map, x, y) ==
  \/ \E a \in DOMAIN map : Adjacent(map[a].block, x, y)
  \/ EndsAt(map, x, y) /\ y \in DOMAIN map /\ y # 0

AllRecorded(map, pairs) == \A t \in pairs : Recorded(map, t[1], t[2])

-----------------------------------------------------------------------------
(* The invariant *)

\* Between two instructions of an open run: the cursor's block goes on behind
\* the last instruction, or a finished block has led here.
Ready ==
  /\ starts <=> current_pointer = 0
  /\ current_pointer # 0 =>
       Passed(nodes[current_pointer], last) /\ pc \in {0, NextOf(last)}
  /\ current_pointer = 0 /\ last # 0 /\ pc # 0 => EndsAt(nodes, last, pc)

\* Between the two callbacks of a branch that the first has appended.
BranchDone(w) ==
  /\ current_pointer = 0
  /\ ~Falls(w) /\ w.params.branch_type # "call"
  /\ \A s \in w.successors \ {0} : EndsAt(nodes, pc, s)
  /\ last # 0 => Recorded(nodes, last, pc)
  /\ starts => pc \in DOMAIN nodes /\ nodes[pc].is_done

PositionInv ==
  phase = "running" =>
    /\ ~executing => Ready
    /\ executing =>
         /\ pc # 0
         /\ \E w \in Program[pc] :
              /\ way = Patched(w)
              /\ CallsBranching(w)
              /\ (LeftToSecond(w) /\ Ready) \/ BranchDone(w)

TransfersInv ==
  /\ phase = "running" => AllRecorded(nodes, transfers)
  /\ AllRecorded(stored.nodes, kept)
  /\ phase # "running" =>
       transfers = kept /\ last = 0 /\ entered = [a \in DOMAIN Program |-> 0]

Increasing(block) ==
  \A i, j \in 1 .. Len(block) : i < j => block[i].eip < block[j].eip

\* A block of this run is written in one pass, and counted from then on.
NodeCounts(node, a, open, entries) ==
  /\ Increasing(node.block)
  /\ node.block = <<>> =>
       node.occurrences = 1 /\ (a \in DOMAIN Program => entries[a] = 0)
  /\ node.block # <<>> /\ ~node.is_done =>
       open = a /\ node.occurrences = 1 /\ entries[a] = 1
  /\ node.is_done /\ Len(node.block) > 1 => node.occurrences = entries[a]

CountingInv ==
  /\ entered \in [DOMAIN Program -> Nat]
  /\ phase = "running" =>
       /\ \A a \in DOMAIN nodes :
            nodes[a].iteration = current_iteration =>
              NodeCounts(nodes[a], a, current_pointer, entered)
       /\ \A a \in DOMAIN Program \ DOMAIN nodes : entered[a] = 0

DirectInv ==
  /\ Lines(nodes) /\ Lines(stored.nodes)
  /\ PositionInv
  /\ TransfersInv
  /\ CountingInv
-----------------------------------------------------------------------------
(* The instructions a binary executes *)

LEMMA WayOf ==
  ASSUME DirectBinary, NEW a \in DOMAIN Program, NEW w \in Program[a]
  PROVE  /\ w \in Ways /\ w.params \in CustomParams /\ w.params.eip = a
         /\ DirectWay(w)
         /\ a \in Nat
BY ProgramAssumption DEF DirectBinary, Ways, CustomParams, Address

LEMMA FallsThrough ==
  ASSUME DirectBinary, NEW a \in DOMAIN Program, NEW w \in Program[a]
  PROVE  /\ Falls(w) <=> FallsAt(a)
         /\ Falls(w) => NextOf(a) = Behind(w)
<1>1. ASSUME NEW v \in Program[a], Falls(v)
      PROVE  v = w
  <2>1. v.params.branch_type # "ret"
    BY <1>1, WayOf DEF DirectWay, Falls, Branches
  <2> QED
    BY <2>1 DEF DirectBinary
<1>2. Falls(w) <=> FallsAt(a)
  BY <1>1 DEF FallsAt
<1>3. Falls(w) => w = (CHOOSE v \in Program[a] : Falls(v))
  BY <1>1
<1> QED
  BY <1>2, <1>3 DEF NextOf

\* The next instruction lies further on.
LEMMA NextIsLater ==
  ASSUME DirectBinary, NEW x, FallsAt(x)
  PROVE  x \in Nat /\ NextOf(x) \in Nat /\ NextOf(x) > x
<1>1. PICK w \in Program[x] : Falls(w)
  BY DEF FallsAt
<1>2. x \in DOMAIN Program
  BY DEF FallsAt
<1>3. /\ NextOf(x) = w.params.eip + w.params.instrlen
      /\ w.params.eip = x /\ x \in Nat
      /\ w.params \in CustomParams /\ w.params.instrlen # 0
  BY <1>1, <1>2, WayOf, FallsThrough DEF Behind, DirectWay, Validate, MakeInstruction
<1>4. w.params.instrlen \in Nat
  BY <1>3 DEF CustomParams, Address
<1> QED
  BY <1>3, <1>4

-----------------------------------------------------------------------------
(* A block that is appended to *)

LEMMA AppendedEips ==
  ASSUME NEW block \in Seq(InstructionRecord), NEW ins \in InstructionRecord
  PROVE  /\ Eips(Append(block, ins)) = Eips(block) \cup {ins.eip}
         /\ Eips(block) \subseteq Nat
         /\ block # <<>> => block[Len(block)].eip \in Eips(block)
<1>1. /\ Len(Append(block, ins)) = Len(block) + 1
      /\ \A i \in 1 .. Len(block) : Append(block, ins)[i] = block[i]
      /\ Append(block, ins)[Len(block) + 1] = ins
  BY AppendBlock
<1>2. Len(block) \in Nat /\ (block # <<>> => Len(block) \in 1 .. Len(block))
  OBVIOUS
<1>3. \A i \in 1 .. Len(block) : block[i].eip \in Nat
  <2>1. \A i \in 1 .. Len(block) : block[i] \in InstructionRecord
    OBVIOUS
  <2> QED
    BY <2>1 DEF InstructionRecord, Address
<1> QED
  BY <1>1, <1>2, <1>3 DEF Eips

LEMMA AppendedAdjacent ==
  ASSUME NEW block \in Seq(InstructionRecord), NEW ins \in InstructionRecord, NEW x, NEW y
  PROVE  /\ Adjacent(block, x, y) => Adjacent(Append(block, ins), x, y)
         /\ block # <<>> => Adjacent(Append(block, ins), block[Len(block)].eip, ins.eip)
<1> DEFINE new == Append(block, ins)
<1>1. /\ Len(new) = Len(block) + 1
      /\ \A i \in 1 .. Len(block) : new[i] = block[i]
      /\ new[Len(block) + 1] = ins
  BY AppendBlock
<1>2. Len(block) \in Nat /\ (block # <<>> => Len(block) \in 1 .. Len(block))
  OBVIOUS
<1> HIDE DEF new
<1>3. ASSUME Adjacent(block, x, y) PROVE Adjacent(new, x, y)
  <2>1. PICK j \in 1 .. Len(block) - 1 : block[j].eip = x /\ block[j + 1].eip = y
    BY <1>3 DEF Adjacent
  <2>2. j \in 1 .. Len(new) - 1 /\ new[j] = block[j] /\ new[j + 1] = block[j + 1]
    BY <1>1, <1>2
  <2> QED
    BY <2>1, <2>2 DEF Adjacent
<1>4. ASSUME block # <<>> PROVE Adjacent(new, block[Len(block)].eip, ins.eip)
  <2>1. Len(block) \in 1 .. Len(new) - 1 /\ new[Len(block)] = block[Len(block)]
    BY <1>1, <1>2, <1>4
  <2> QED
    BY <1>1, <2>1 DEF Adjacent
<1> QED
  BY <1>3, <1>4 DEF new

\* The line goes on with the instruction behind the last one, or starts again.
LEMMA LineGoesOn ==
  ASSUME DirectBinary, NEW a \in Nat, NEW block \in Seq(InstructionRecord), Line(block, a),
         \A i \in 1 .. Len(block) : ~IsBranch(block[i]),
         NEW ins \in InstructionRecord, ins.eip \in DOMAIN Program,
         NEW w \in Program[ins.eip], Describes(ins, w),
         \/ ins.eip = a /\ (block # <<>> => a \in Eips(block))
         \/ /\ block # <<>>
            /\ FallsAt(block[Len(block)].eip)
            /\ ins.eip = NextOf(block[Len(block)].eip)
  PROVE  Line(Append(block, ins), a)
<1> DEFINE new == Append(block, ins)
           p   == ins.eip
           l   == block[Len(block)].eip
<1>1. /\ Len(new) = Len(block) + 1
      /\ \A i \in 1 .. Len(block) : new[i] = block[i]
      /\ new[Len(block) + 1] = ins
      /\ new \in Seq(InstructionRecord)
  BY AppendBlock
<1>2. /\ Eips(new) = Eips(block) \cup {p}
      /\ Eips(block) \subseteq Nat /\ p \in Nat
      /\ block # <<>> => l \in Eips(block)
  <2>1. p \in Nat
    BY DEF InstructionRecord, Address
  <2> QED
    BY <2>1, AppendedEips
<1>3. Len(block) \in Nat /\ (block = <<>> => Eips(block) = {})
  BY DEF Eips
<1>4. \A x \in Eips(block) : a <= x
  BY DEF Line, Eips
<1>5. \A x \in Eips(block) : FallsAt(x)
  <2> SUFFICES ASSUME NEW i \in 1 .. Len(block) PROVE FallsAt(block[i].eip)
    BY DEF Eips
  <2>1. PICK v \in Program[block[i].eip] : Describes(block[i], v)
    BY DEF Line
  <2>2. Falls(v)
    BY <2>1 DEF Describes
  <2> QED
    BY <2>1, <2>2, FallsThrough DEF Line
<1>6. /\ \A x, y \in Eips(block) : x < y => NextOf(x) <= y /\ NextOf(x) \in Eips(block)
      /\ \A x \in Eips(block) : x < l => Adjacent(block, x, NextOf(x))
  BY DEF Line
<1>7. \A x \in Eips(block) : NextOf(x) \in Nat /\ NextOf(x) > x
  BY <1>5, NextIsLater
<1>8. \/ p = a /\ (block # <<>> => a \in Eips(block))
      \/ block # <<>> /\ p = NextOf(l)
  OBVIOUS
<1>9. a <= p
  BY <1>2, <1>4, <1>7, <1>8
<1>10. \A x \in Eips(block) : p < x => p \in Eips(block)
  <2> SUFFICES ASSUME NEW x \in Eips(block), p < x, block # <<>>, p = NextOf(l)
               PROVE  p \in Eips(block)
    BY <1>3, <1>8
  <2>1. l < x
    BY <1>2, <1>7
  <2> QED
    BY <1>2, <1>6, <2>1
<1>11. \A x \in Eips(block) : x < p => NextOf(x) <= p /\ NextOf(x) \in Eips(new)
  <2> SUFFICES ASSUME NEW x \in Eips(block), x < p
               PROVE  NextOf(x) <= p /\ NextOf(x) \in Eips(new)
    OBVIOUS
  <2>1. block # <<>> /\ p = NextOf(l)
    BY <1>2, <1>4, <1>8
  <2>2. l \in Eips(block)
    BY <1>2, <2>1
  <2>3. ~(l < x)
    BY <1>2, <1>6, <2>1, <2>2
  <2>4. x < l \/ x = l
    BY <1>2, <2>2, <2>3
  <2>5. CASE x = l
    BY <1>2, <2>1, <2>5
  <2>6. CASE x < l
    <3>1. NextOf(x) <= l /\ NextOf(x) \in Eips(block)
      BY <1>6, <2>2, <2>6
    <3> QED
      BY <1>2, <1>7, <2>1, <2>2, <3>1
  <2> QED
    BY <2>4, <2>5, <2>6
<1> HIDE DEF new, p, l
<1>12. \A x, y \in Eips(new) : x < y =>
         FallsAt(x) /\ NextOf(x) <= y /\ NextOf(x) \in Eips(new)
  <2> SUFFICES ASSUME NEW x \in Eips(new), NEW y \in Eips(new), x < y
               PROVE  FallsAt(x) /\ NextOf(x) <= y /\ NextOf(x) \in Eips(new)
    OBVIOUS
  <2>1. x \in Eips(block)
    BY <1>2, <1>10
  <2>2. CASE y = p
    BY <1>5, <1>11, <2>1, <2>2
  <2>3. CASE y \in Eips(block)
    BY <1>2, <1>5, <1>6, <2>1, <2>3
  <2> QED
    BY <1>2, <2>2, <2>3
<1>13. \A x \in Eips(new) : x < p => Adjacent(new, x, NextOf(x))
  <2> SUFFICES ASSUME NEW x \in Eips(block), x < p
               PROVE  Adjacent(new, x, NextOf(x))
    BY <1>2
  <2>1. block # <<>> /\ p = NextOf(l) /\ l \in Eips(block)
    BY <1>2, <1>4, <1>8
  <2>2. x < l \/ x = l
    BY <1>2, <1>6, <2>1
  <2> QED
    BY <1>6, <2>1, <2>2, AppendedAdjacent DEF new, p, l
<1>14. \A i \in 1 .. Len(new) :
         /\ new[i].eip \in DOMAIN Program
         /\ \E v \in Program[new[i].eip] : Describes(new[i], v)
         /\ IsBranch(new[i]) => i = Len(new)
         /\ a <= new[i].eip
  <2> SUFFICES ASSUME NEW i \in 1 .. Len(new)
               PROVE  /\ new[i].eip \in DOMAIN Program
                      /\ \E v \in Program[new[i].eip] : Describes(new[i], v)
                      /\ IsBranch(new[i]) => i = Len(new)
                      /\ a <= new[i].eip
    OBVIOUS
  <2>1. CASE i \in 1 .. Len(block)
    BY <1>1, <2>1 DEF Line
  <2>2. CASE i = Len(block) + 1
    BY <1>1, <1>9, <2>2 DEF p
  <2> QED
    BY <1>1, <1>3, <2>1, <2>2
<1>15. new[Len(new)].eip = p
  BY <1>1 DEF p
<1> QED
  BY <1>12, <1>13, <1>14, <1>15 DEF Line, new

\* An instruction that falls through stands before the one behind it in every
\* finished block it is in; the others are the last of theirs.
LEMMA LineOfFinished ==
  ASSUME DirectBinary, NEW a, NEW block \in Seq(InstructionRecord), Line(block, a),
         \E i \in 1 .. Len(block) : IsBranch(block[i])
  PROVE  /\ block # <<>> /\ IsBranch(block[Len(block)])
         /\ \A x \in Eips(block) :
              IF FallsAt(x) THEN NextOf(x) \in Eips(block) /\ Adjacent(block, x, NextOf(x))
                            ELSE x = block[Len(block)].eip
<1> DEFINE l == block[Len(block)].eip
<1>1. \A i \in 1 .. Len(block) : IsBranch(block[i]) <=> ~FallsAt(block[i].eip)
  <2> SUFFICES ASSUME NEW i \in 1 .. Len(block)
               PROVE  IsBranch(block[i]) <=> ~FallsAt(block[i].eip)
    OBVIOUS
  <2>1. PICK v \in Program[block[i].eip] : Describes(block[i], v)
    BY DEF Line
  <2>2. Falls(v) <=> FallsAt(block[i].eip)
    BY <2>1, FallsThrough DEF Line
  <2> QED
    BY <2>1, <2>2 DEF Describes
<1>2. PICK e \in 1 .. Len(block) : IsBranch(block[e]) /\ e = Len(block)
  BY DEF Line
<1>3. block # <<>> /\ IsBranch(block[Len(block)]) /\ ~FallsAt(l)
  BY <1>1, <1>2
<1>4. l \in Eips(block) /\ Eips(block) \subseteq Nat
  <2>1. \A i \in 1 .. Len(block) : block[i] \in InstructionRecord
    OBVIOUS
  <2> QED
    BY <1>2, <2>1 DEF Eips, InstructionRecord, Address
<1>5. ASSUME NEW x \in Eips(block)
      PROVE  IF FallsAt(x) THEN NextOf(x) \in Eips(block) /\ Adjacent(block, x, NextOf(x))
                           ELSE x = l
  <2>1. ~(l < x)
    BY <1>3, <1>4 DEF Line
  <2>2. CASE x = l
    BY <1>3, <2>2
  <2>3. CASE x < l
    BY <1>4, <2>3 DEF Line
  <2> QED
    BY <1>4, <2>1, <2>2, <2>3
<1> QED
  BY <1>3, <1>5

\* The instruction the line leads to stands in the block, if the block is done.
LEMMA FinishedHasNext ==
  ASSUME DirectBinary, NEW a, NEW node, NodeInv(node, a), Line(node.block, a), node.is_done,
         NEW l, NEW p, p = a \/ (Passed(node, l) /\ p = NextOf(l))
  PROVE  p \in Eips(node.block) /\ ContainsAddress(node, p)
<1>1. /\ node.block \in Seq(InstructionRecord)
      /\ \E i \in 1 .. Len(node.block) : IsBranch(node.block[i])
      /\ node.block # <<>> => node.block[1].eip = a
  BY DEF NodeInv, HasBranch, Node
<1>2. /\ node.block # <<>>
      /\ \A x \in Eips(node.block) : FallsAt(x) => NextOf(x) \in Eips(node.block)
  BY <1>1, LineOfFinished
<1>3. a \in Eips(node.block)
  BY <1>1, <1>2 DEF Eips
<1>4. p \in Eips(node.block)
  BY <1>2, <1>3 DEF Passed
<1> QED
  BY <1>4 DEF Eips, ContainsAddress

\* Node::append_instruction and append_branch_instruction, for the instruction
\* the line of the block leads to: a finished block already has it.
LEMMA NodeWritten ==
  ASSUME DirectBinary, NEW a, NEW node, NodeInv(node, a), Line(node.block, a),
         NEW ins \in InstructionRecord,
         NEW l, ins.eip = a \/ (Passed(node, l) /\ ins.eip = NextOf(l)),
         NEW iteration \in Nat
  PROVE  LET new == NodeAppend(node, ins, iteration)
         IN  /\ new.is_done <=> node.is_done \/ IsBranch(ins)
             /\ new.block = IF node.is_done THEN node.block ELSE Append(node.block, ins)
<1> DEFINE new == NodeAppend(node, ins, iteration)
<1>1. node \in Node /\ node.block \in Seq(InstructionRecord)
  BY DEF NodeInv, Node
<1>2. CASE node.is_done
  <2>1. ContainsAddress(node, ins.eip)
    BY <1>2, FinishedHasNext
  <2>2. new \in {node, [node EXCEPT !.occurrences = @ + 1]}
    BY <1>2, <2>1
       DEF NodeAppend, NodeAppendInstruction, NodeAppendBranchInstruction, AlreadyVisited
  <2> QED
    BY <1>1, <1>2, <2>2 DEF Node
<1>3. CASE ~node.is_done
  <2> DEFINE pushed == [node EXCEPT !.block = Append(@, ins)]
  <2>1. new = IF IsBranch(ins) THEN TakeBranch(pushed, ins) ELSE pushed
    BY <1>3 DEF NodeAppend, NodeAppendInstruction, NodeAppendBranchInstruction
  <2> QED
    BY <1>1, <1>3, <2>1 DEF TakeBranch, Node
<1> QED
  BY <1>2, <1>3

LEMMA NodeOnLine ==
  ASSUME DirectBinary, NEW a, NEW node, NodeInv(node, a), Line(node.block, a), a \in Nat,
         NEW ins \in InstructionRecord, ins.eip \in DOMAIN Program,
         NEW w \in Program[ins.eip], Describes(ins, w),
         NEW l, ins.eip = a \/ (Passed(node, l) /\ ins.eip = NextOf(l)),
         NEW iteration \in Nat
  PROVE  LET new == NodeAppend(node, ins, iteration)
         IN  /\ Line(new.block, a)
             /\ IF IsBranch(ins)
                THEN new.block # <<>> /\ new.block[Len(new.block)].eip = ins.eip
                ELSE Passed(new, ins.eip)
             /\ Passed(node, l) /\ ins.eip = NextOf(l) => Adjacent(new.block, l, ins.eip)
<1> DEFINE new == NodeAppend(node, ins, iteration)
           p   == ins.eip
<1>1. /\ node \in Node /\ node.block \in Seq(InstructionRecord)
      /\ node.is_done <=> \E i \in 1 .. Len(node.block) : IsBranch(node.block[i])
      /\ node.block # <<>> => node.block[1].eip = a
  BY DEF NodeInv, HasBranch, Node
<1>2. /\ new.is_done <=> node.is_done \/ IsBranch(ins)
      /\ new.block = IF node.is_done THEN node.block ELSE Append(node.block, ins)
  BY NodeWritten
<1>3. IsBranch(ins) <=> ~FallsAt(p)
  BY FallsThrough DEF Describes
<1> HIDE DEF new
<1>4. CASE node.is_done
  <2>1. /\ node.block # <<>>
        /\ \A x \in Eips(node.block) :
             IF FallsAt(x) THEN NextOf(x) \in Eips(node.block) /\ Adjacent(node.block, x, NextOf(x))
                           ELSE x = node.block[Len(node.block)].eip
    BY <1>1, <1>4, LineOfFinished
  <2>2. p \in Eips(node.block)
    BY <1>4, FinishedHasNext
  <2>3. new.block = node.block /\ new.is_done
    BY <1>2, <1>4
  <2>4. IsBranch(ins) => node.block[Len(node.block)].eip = p
    BY <1>3, <2>1, <2>2
  <2>5. Passed(node, l) => Adjacent(node.block, l, NextOf(l))
    BY <2>1 DEF Passed
  <2> QED
    BY <1>3, <2>1, <2>2, <2>3, <2>4, <2>5 DEF Passed, new
<1>5. CASE ~node.is_done
  <2>1. new.block = Append(node.block, ins) /\ (new.is_done <=> IsBranch(ins))
    BY <1>2, <1>5
  <2>2. Line(new.block, a)
    <3>1. \/ p = a /\ (node.block # <<>> => a \in Eips(node.block))
          \/ /\ node.block # <<>>
             /\ FallsAt(node.block[Len(node.block)].eip)
             /\ p = NextOf(node.block[Len(node.block)].eip)
      BY <1>1, <1>5 DEF Passed, Eips
    <3> QED
      BY <1>1, <1>5, <2>1, <3>1, LineGoesOn
  <2>3. new.block # <<>> /\ new.block[Len(new.block)].eip = p /\ p \in Eips(new.block)
    BY <1>1, <2>1, AppendBlock, AppendedEips
  <2>4. Passed(node, l) => Adjacent(new.block, l, p)
    BY <1>1, <1>5, <2>1, AppendedAdjacent DEF Passed, Eips
  <2> QED
    BY <1>3, <2>1, <2>2, <2>3, <2>4 DEF Passed, new
<1> QED
  BY <1>4, <1>5

-----------------------------------------------------------------------------
(* A map that is appended to *)

\* Blocks only grow, and those of done nodes no more.
Grows(old, new) ==
  \A a \in DOMAIN old :
    /\ a \in DOMAIN new
    /\ Keeps(old[a], new[a])
    /\ old[a].is_done => new[a].block = old[a].block

LEMMA PrefixAdjacent ==
  ASSUME NEW s \in Seq(InstructionRecord), NEW t \in Seq(InstructionRecord), IsPrefix(s, t),
         NEW x, NEW y, Adjacent(s, x, y)
  PROVE  Adjacent(t, x, y)
<1>1. Len(s) <= Len(t) /\ Len(s) \in Nat /\ Len(t) \in Nat
  BY DEF IsPrefix
<1>2. \A i \in 1 .. Len(s) : s[i] = t[i]
  <2>1. \A i \in 1 .. Len(s) : SubSeq(s, 1, Len(s))[i] = s[i] /\ SubSeq(t, 1, Len(s))[i] = t[i]
    BY <1>1
  <2> QED
    BY <2>1 DEF IsPrefix
<1>3. PICK j \in 1 .. Len(s) - 1 : s[j].eip = x /\ s[j + 1].eip = y
  BY DEF Adjacent
<1>4. j \in 1 .. Len(t) - 1 /\ s[j] = t[j] /\ s[j + 1] = t[j + 1]
  BY <1>1, <1>2
<1> QED
  BY <1>3, <1>4 DEF Adjacent

LEMMA RecordedStays ==
  ASSUME NEW old, MapInv(old), NEW new, MapInv(new), Grows(old, new), NEW x, NEW y
  PROVE  /\ EndsAt(old, x, y) => EndsAt(new, x, y)
         /\ Recorded(old, x, y) => Recorded(new, x, y)
<1>1. EndsAt(old, x, y) => EndsAt(new, x, y)
  BY DEF EndsAt, Grows, Keeps
<1>2. ASSUME NEW a \in DOMAIN old, Adjacent(old[a].block, x, y)
      PROVE  Recorded(new, x, y)
  <2>1. a \in DOMAIN new /\ IsPrefix(old[a].block, new[a].block)
    BY DEF Grows, Keeps
  <2>2. old[a].block \in Seq(InstructionRecord) /\ new[a].block \in Seq(InstructionRecord)
    BY <2>1, BlocksAreSequences
  <2>3. Adjacent(new[a].block, x, y)
    BY <1>2, <2>1, <2>2, PrefixAdjacent
  <2> QED
    BY <2>1, <2>3 DEF Recorded
<1>3. DOMAIN old \subseteq DOMAIN new
  BY DEF Grows
<1> QED
  BY <1>1, <1>2, <1>3 DEF Recorded

\* Where control goes from the end of a finished block.
LEMMA FinishedBlockLeads ==
  ASSUME DirectBinary, NEW a, NEW node, NodeInv(node, a), Line(node.block, a), node.is_done,
         NEW w \in Program[node.block[Len(node.block)].eip], NEW s \in w.successors \ {0}
  PROVE  \/ IsRet(node.block[Len(node.block)])
         \/ s \in {node.true_branch_address, node.false_branch_address}
<1> DEFINE r == node.block[Len(node.block)]
<1>1. node.block \in Seq(InstructionRecord) /\ \E i \in 1 .. Len(node.block) : IsBranch(node.block[i])
  BY DEF NodeInv, HasBranch, Node
<1>2. IsBranch(r) /\ Len(node.block) \in 1 .. Len(node.block)
  BY <1>1, LineOfFinished
<1>3. PICK v \in Program[r.eip] : Describes(r, v)
  BY <1>2 DEF Line
<1>4. r.eip \in DOMAIN Program
  BY <1>2 DEF Line
<1>5. CASE v = w
  BY <1>2, <1>3, <1>5 DEF Describes, NodeInv
<1>6. CASE v.params.branch_type = "ret"
  BY <1>3, <1>6 DEF Describes
<1> QED
  BY <1>3, <1>4, <1>5, <1>6 DEF DirectBinary

\* One append of the instruction the graph is ready for.
LEMMA AppendOnLine ==
  ASSUME DirectBinary, IInv, Lines(nodes), Ready,
         pc \in DOMAIN Program, NEW w \in Program[pc],
         NEW ins \in InstructionRecord, ins.eip = pc, Validate(ins), Describes(ins, w),
         NEW iteration \in Nat, AppendToGraph(ins, iteration)
  PROVE  /\ Lines(nodes')
         /\ Grows(nodes, nodes')
         /\ last # 0 => Recorded(nodes', last, pc)
         /\ IF IsBranch(ins)
            THEN /\ current_pointer' = 0
                 /\ \A s \in w.successors \ {0} : EndsAt(nodes', pc, s)
                 /\ starts => pc \in DOMAIN nodes' /\ nodes'[pc].is_done
            ELSE current_pointer' # 0 /\ Passed(nodes'[current_pointer'], pc)
<1> DEFINE c   == CurrentAddress(pc)
           old == GetCurrentNode(c, iteration)
           new == NodeAppend(old, ins, iteration)
<1>1. IInv' /\ NodesKept
  BY AppendToGraphStep
<1>2. /\ c \in Address \ {0}
      /\ NodeInv(old, c)
      /\ c \in DOMAIN nodes => old = nodes[c]
  BY CurrentNodeInv
<1>3. c = IF current_pointer = 0 THEN pc ELSE current_pointer
  BY DEF CurrentAddress
<1>4. pc # 0 /\ c \in Nat
  BY <1>2 DEF Validate, Address
<1>5. /\ c \in DOMAIN nodes' /\ nodes'[c] = new
      /\ DOMAIN nodes \subseteq DOMAIN nodes'
      /\ \A a \in DOMAIN nodes \ {c} : nodes'[a] = nodes[a]
      /\ \A a \in DOMAIN nodes' \ (DOMAIN nodes \cup {c}) : nodes'[a] = NewNode(a, iteration)
      /\ current_pointer' = IF IsBranch(ins) /\ new.is_done THEN 0 ELSE c
  BY AppendedTo
<1>6. \A a : Line(NewNode(a, iteration).block, a)
  <2>1. \A a : NewNode(a, iteration).block = <<>>
    BY DEF NewNode
  <2>2. Eips(<<>>) = {} /\ Len(<<>>) = 0
    BY DEF Eips
  <2> QED
    BY <2>1, <2>2 DEF Line
<1>7. Line(old.block, c)
  BY <1>2, <1>6 DEF GetCurrentNode, NodeExists, Lines
<1>8. /\ pc = c \/ (Passed(old, last) /\ pc = NextOf(last))
      /\ current_pointer # 0 => Passed(old, last) /\ pc = NextOf(last)
  BY <1>2, <1>3, <1>4 DEF Ready, IInv, CursorOnBlock
<1> HIDE DEF c, old
<1>9. /\ new.is_done <=> old.is_done \/ IsBranch(ins)
      /\ new.block = IF old.is_done THEN old.block ELSE Append(old.block, ins)
  BY <1>2, <1>7, <1>8, NodeWritten
<1>10. /\ Line(new.block, c)
       /\ IF IsBranch(ins)
          THEN new.block # <<>> /\ new.block[Len(new.block)].eip = pc
          ELSE Passed(new, pc)
       /\ Passed(old, last) /\ pc = NextOf(last) => Adjacent(new.block, last, pc)
  BY <1>2, <1>4, <1>7, <1>8, NodeOnLine
<1> HIDE DEF new
<1>11. Lines(nodes')
  BY <1>5, <1>6, <1>9, <1>10 DEF Lines
<1>12. Grows(nodes, nodes')
  BY <1>1, <1>2, <1>5, <1>9, <1>10 DEF Grows, NodesKept
<1>13. ASSUME last # 0 PROVE Recorded(nodes', last, pc)
  <2>1. CASE current_pointer # 0
    BY <1>5, <1>8, <1>9, <1>10, <2>1 DEF Recorded
  <2>2. CASE current_pointer = 0
    <3>1. EndsAt(nodes, last, pc) /\ MapInv(nodes) /\ MapInv(nodes')
      BY <1>1, <1>4, <1>13, <2>2 DEF Ready, IInv
    <3>2. EndsAt(nodes', last, pc)
      BY <1>12, <3>1, RecordedStays
    <3> QED
      BY <1>3, <1>4, <1>5, <2>2, <3>2 DEF Recorded
  <2> QED
    BY <2>1, <2>2
<1>14. ASSUME IsBranch(ins)
       PROVE  /\ current_pointer' = 0
              /\ \A s \in w.successors \ {0} : EndsAt(nodes', pc, s)
              /\ starts => pc \in DOMAIN nodes' /\ nodes'[pc].is_done
  <2>1. new.is_done /\ new.block # <<>> /\ new.block[Len(new.block)].eip = pc
    BY <1>9, <1>10, <1>14
  <2>2. NodeInv(new, c)
    BY <1>1, <1>5 DEF IInv, MapInv
  <2>3. \A s \in w.successors \ {0} : EndsAt(nodes', pc, s)
    BY <1>5, <1>9, <1>10, <2>1, <2>2, FinishedBlockLeads DEF EndsAt
  <2>4. starts => c = pc
    BY <1>3 DEF Ready
  <2> QED
    BY <1>5, <1>14, <2>1, <2>3, <2>4
<1>15. ASSUME ~IsBranch(ins)
       PROVE  current_pointer' # 0 /\ Passed(nodes'[current_pointer'], pc)
  BY <1>2, <1>5, <1>9, <1>10, <1>15
<1> QED
  BY <1>11, <1>12, <1>13, <1>14, <1>15

-----------------------------------------------------------------------------
(* The counts of an open run *)

\* The engine's history counts an instruction that starts a block in its second
\* callback; what the first appends is a branch.
EntryCounted(ins) ==
  \/ entered' = IF starts THEN [entered EXCEPT ![pc] = @ + 1] ELSE entered
  \/ IsBranch(ins) /\ entered' = entered

\* A node of this run that the line goes through.
LEMMA NodeCountsOn ==
  ASSUME DirectBinary, entered \in [DOMAIN Program -> Nat],
         NEW a \in Nat \ {0}, NEW node, NodeInv(node, a), Line(node.block, a), 
         NodeCounts(node, a, current_pointer, entered),
         pc \in DOMAIN Program, NEW w \in Program[pc],
         NEW ins \in InstructionRecord, ins.eip = pc, Describes(ins, w),
         IF starts THEN current_pointer = 0 /\ pc = a
                   ELSE current_pointer = a /\ Passed(node, last) /\ pc = NextOf(last),
         EntryCounted(ins),
         NEW new, new = NodeAppend(node, ins, node.iteration),
         new.is_done <=> node.is_done \/ IsBranch(ins),
         new.block = (IF node.is_done THEN node.block ELSE Append(node.block, ins)),
         current_pointer' = IF IsBranch(ins) /\ new.is_done THEN 0 ELSE a
  PROVE  NodeCounts(new, a, current_pointer', entered')
<1>1. /\ node \in Node /\ node.block \in Seq(InstructionRecord)
      /\ node.is_done <=> \E i \in 1 .. Len(node.block) : IsBranch(node.block[i])
      /\ node.block # <<>> => node.block[1].eip = a
  BY DEF NodeInv, HasBranch, Node
<1>2. IsBranch(ins) <=> ~FallsAt(pc)
  BY FallsThrough DEF Describes
<1>3. ~starts => pc \in Nat /\ last \in Nat /\ pc > last /\ last \in Eips(node.block)
  BY NextIsLater DEF Passed
<1>4. CASE node.is_done
  <2>1. /\ node.block # <<>> /\ IsBranch(node.block[Len(node.block)])
        /\ \A x \in Eips(node.block) :
             IF FallsAt(x) THEN NextOf(x) \in Eips(node.block) /\ Adjacent(node.block, x, NextOf(x))
                           ELSE x = node.block[Len(node.block)].eip
    BY <1>1, <1>4, LineOfFinished
  <2>2. new.block = node.block /\ new.is_done
    BY <1>4
  <2>3. Increasing(node.block)
    BY DEF NodeCounts
  <2>4. ASSUME Len(node.block) > 1
        PROVE  new.occurrences = entered'[a]
    <3>1. node.occurrences = entered[a] /\ node.occurrences \in Nat
      BY <1>1, <1>4, <2>4 DEF NodeCounts, Node
    <3>2. 1 \in 1 .. Len(node.block) /\ a \in DOMAIN Program
      BY <1>1, <2>1 DEF Line
    <3>3. CASE starts
      <4>1. ~IsBranch(ins)
        <5>1. PICK v \in Program[pc] : Describes(node.block[1], v)
          BY <1>1, <2>1, <3>2, <3>3 DEF Line
        <5>2. ~IsBranch(node.block[1])
          BY <2>4, <3>2 DEF Line
        <5> QED
          BY <1>2, <5>1, <5>2, FallsThrough DEF Describes
      <4>2. ContainsAddress(node, pc)
        BY <1>1, <2>1, <3>2, <3>3 DEF ContainsAddress
      <4>3. new = [node EXCEPT !.occurrences = @ + 1]
        BY <1>1, <1>4, <2>1, <3>3, <4>1, <4>2 DEF NodeAppend, NodeAppendInstruction, AlreadyVisited
      <4>4. entered' = [entered EXCEPT ![a] = @ + 1]
        BY <3>3, <4>1 DEF EntryCounted
      <4> QED
        BY <1>1, <3>1, <3>2, <4>3, <4>4 DEF Node
    <3>4. CASE ~starts
      <4>1. last \in Eips(node.block) /\ FallsAt(last) /\ pc = NextOf(last)
        BY <3>4 DEF Passed
      <4>2. pc \in Eips(node.block)
        BY <2>1, <4>1
      <4>3. ContainsAddress(node, pc)
        BY <4>2 DEF ContainsAddress, Eips
      <4>4. a <= last
        BY <4>1 DEF Line, Eips
      <4>5. node.block[1].eip # pc
        BY <1>1, <1>3, <2>1, <3>4, <4>4
      <4>6. new = node
        BY <1>4, <4>3, <4>5 DEF NodeAppend, NodeAppendInstruction, NodeAppendBranchInstruction,
             AlreadyVisited
      <4>7. entered' = entered
        BY <3>4 DEF EntryCounted
      <4> QED
        BY <3>1, <4>6, <4>7
    <3> QED
      BY <3>3, <3>4
  <2> QED
    BY <2>1, <2>2, <2>3, <2>4 DEF NodeCounts
<1>5. CASE ~node.is_done
  <2>1. /\ new.block = Append(node.block, ins) /\ new.block # <<>>
        /\ Len(new.block) = Len(node.block) + 1
        /\ \A i \in 1 .. Len(node.block) : new.block[i] = node.block[i]
        /\ new.block[Len(node.block) + 1] = ins
    BY <1>1, <1>5, AppendBlock
  <2>2. new.occurrences = node.occurrences
    <3> DEFINE pushed == [node EXCEPT !.block = Append(@, ins)]
    <3>1. new = IF IsBranch(ins) THEN TakeBranch(pushed, ins) ELSE pushed
      BY <1>5 DEF NodeAppend, NodeAppendInstruction, NodeAppendBranchInstruction
    <3> QED
      BY <1>1, <3>1 DEF TakeBranch, Node
  <2>3. new.is_done <=> IsBranch(ins)
    BY <1>5
  <2>4. CASE starts
    <3>1. node.block = <<>>
      BY <1>5, <2>4 DEF NodeCounts
    <3>2. Len(new.block) = 1
      BY <2>1, <3>1
    <3>3. Increasing(new.block)
      BY <3>2 DEF Increasing
    <3>4. node.occurrences = 1 /\ entered[a] = 0 /\ a \in DOMAIN Program
      BY <2>4, <3>1 DEF NodeCounts
    <3>5. ~IsBranch(ins) => entered'[a] = 1
      BY <2>4, <3>4 DEF EntryCounted
    <3> QED
      BY <2>1, <2>2, <2>3, <3>2, <3>3, <3>4, <3>5 DEF NodeCounts
  <2>5. CASE ~starts
    <3>1. node.block # <<>> /\ node.block[Len(node.block)].eip = last
      BY <1>1, <1>3, <1>5, <2>5 DEF Passed, Eips
    <3>2. node.occurrences = 1 /\ entered[a] = 1 /\ entered' = entered
      BY <1>5, <2>5, <3>1 DEF NodeCounts, EntryCounted
    <3>3. Increasing(new.block)
      <4> SUFFICES ASSUME NEW i \in 1 .. Len(new.block), NEW j \in 1 .. Len(new.block), i < j
                   PROVE  new.block[i].eip < new.block[j].eip
        BY DEF Increasing
      <4>1. Len(node.block) \in 1 .. Len(node.block) /\ Len(node.block) \in Nat
        BY <1>1, <3>1
      <4>2. /\ i \in 1 .. Len(node.block)
            /\ node.block[i] \in InstructionRecord
            /\ Increasing(node.block)
        BY <1>1, <2>1, <4>1 DEF NodeCounts
      <4>3. node.block[i].eip \in Nat
        BY <4>2 DEF InstructionRecord, Address
      <4>4. CASE j \in 1 .. Len(node.block)
        BY <2>1, <4>2, <4>4 DEF Increasing
      <4>5. CASE j = Len(node.block) + 1
        <5>1. i = Len(node.block) \/ i < Len(node.block)
          BY <4>1, <4>2
        <5>2. node.block[i].eip <= last
          BY <1>3, <2>5, <3>1, <4>1, <4>2, <4>3, <5>1 DEF Increasing
        <5> QED
          BY <1>3, <2>1, <2>5, <4>2, <4>3, <4>5, <5>2
      <4> QED
        BY <2>1, <4>1, <4>4, <4>5
    <3> QED
      BY <2>1, <2>2, <2>3, <3>2, <3>3 DEF NodeCounts
  <2> QED
    BY <2>4, <2>5
<1> QED
  BY <1>4, <1>5

\* The whole map.
LEMMA AppendCounted ==
  ASSUME DirectBinary, IInv, Lines(nodes), Ready, CountingInv, phase = "running",
         pc \in DOMAIN Program, NEW w \in Program[pc],
         NEW ins \in InstructionRecord, ins.eip = pc, Validate(ins), Describes(ins, w),
         current_iteration \in Nat, current_iteration' = current_iteration,
         AppendToGraph(ins, current_iteration), EntryCounted(ins)
  PROVE  CountingInv'
<1> DEFINE c   == CurrentAddress(pc)
           old == GetCurrentNode(c, current_iteration)
           new == NodeAppend(old, ins, current_iteration)
<1>1. IInv'
  BY AppendToGraphStep
<1>2. /\ c \in Address \ {0} /\ c \in Nat \ {0}
      /\ NodeInv(old, c)
      /\ c \in DOMAIN nodes => old = nodes[c]
  BY CurrentNodeInv DEF Address
<1>3. c = IF current_pointer = 0 THEN pc ELSE current_pointer
  BY DEF CurrentAddress
<1>4. /\ c \in DOMAIN nodes' /\ nodes'[c] = new
      /\ DOMAIN nodes \subseteq DOMAIN nodes'
      /\ \A a \in DOMAIN nodes \ {c} : nodes'[a] = nodes[a]
      /\ \A a \in DOMAIN nodes' \ (DOMAIN nodes \cup {c}) : nodes'[a] = NewNode(a, current_iteration)
      /\ current_pointer' = IF IsBranch(ins) /\ new.is_done THEN 0 ELSE c
  BY AppendedTo
<1>5. entered \in [DOMAIN Program -> Nat]
  BY DEF CountingInv
<1>6. /\ entered' \in [DOMAIN Program -> Nat]
      /\ \A a \in DOMAIN Program : a # c => entered'[a] = entered[a]
  BY <1>3, <1>5 DEF EntryCounted, Ready
<1>7. \A a : /\ a \notin DOMAIN nodes => Line(NewNode(a, current_iteration).block, a)
             /\ a \notin DOMAIN nodes => 
                  NodeCounts(NewNode(a, current_iteration), a, current_pointer, entered)
  <2>1. \A a : /\ NewNode(a, current_iteration).block = <<>>
               /\ ~NewNode(a, current_iteration).is_done
               /\ NewNode(a, current_iteration).occurrences = 1
    BY DEF NewNode
  <2>2. Eips(<<>>) = {} /\ Len(<<>>) = 0
    BY DEF Eips
  <2>3. \A a \in DOMAIN Program : a \notin DOMAIN nodes => entered[a] = 0
    BY DEF CountingInv
  <2> QED
    BY <2>1, <2>2, <2>3 DEF Line, NodeCounts, Increasing
<1>8. Line(old.block, c)
  BY <1>2, <1>7 DEF GetCurrentNode, NodeExists, Lines
<1>9. IF starts THEN current_pointer = 0 /\ pc = c
                ELSE current_pointer = c /\ Passed(old, last) /\ pc = NextOf(last)
  BY <1>2, <1>3 DEF Ready, IInv, CursorOnBlock, Validate
<1>10. /\ new.is_done <=> old.is_done \/ IsBranch(ins)
       /\ new.block = IF old.is_done THEN old.block ELSE Append(old.block, ins)
  <2>1. pc = c \/ (Passed(old, last) /\ pc = NextOf(last))
    BY <1>9
  <2> HIDE DEF c, old
  <2> QED
    BY <1>2, <1>8, <2>1, NodeWritten
<1>11. ASSUME new.iteration = current_iteration
       PROVE  NodeCounts(new, c, current_pointer', entered')
  <2>1. old.iteration = current_iteration
    BY <1>2, <1>11, NodeStamp DEF NodeAppend, NodeInv
  <2>2. NodeCounts(old, c, current_pointer, entered)
    <3>1. CASE c \in DOMAIN nodes
      BY <1>2, <2>1, <3>1 DEF CountingInv
    <3>2. CASE c \notin DOMAIN nodes
      BY <1>7, <3>2 DEF GetCurrentNode, NodeExists
    <3> QED
      BY <3>1, <3>2
  <2>3. new = NodeAppend(old, ins, old.iteration)
    BY <2>1
  <2> HIDE DEF c, old, new
  <2> QED
    BY <1>2, <1>4, <1>5, <1>8, <1>9, <1>10, <2>2, <2>3, NodeCountsOn
<1> HIDE DEF c, old, new
<1>12. ASSUME NEW a \in DOMAIN nodes', nodes'[a].iteration = current_iteration
       PROVE  NodeCounts(nodes'[a], a, current_pointer', entered')
  <2>1. CASE a = c
    BY <1>4, <1>11, <1>12, <2>1
  <2>2. CASE a # c /\ a \in DOMAIN nodes
    <3>1. nodes'[a] = nodes[a] /\ NodeCounts(nodes[a], a, current_pointer, entered)
      BY <1>4, <1>12, <2>2 DEF CountingInv
    <3>2. NodeInv(nodes[a], a) /\ Line(nodes[a].block, a)
      BY <2>2 DEF IInv, MapInv, Lines
    <3>3. current_pointer # a
      BY <1>1, <1>2, <1>3, <2>2 DEF IInv, MapInv
    <3>4. nodes[a].block # <<>> => a \in DOMAIN Program
      BY <3>2 DEF NodeInv, Line, Node
    <3>5. nodes[a].is_done => nodes[a].block # <<>>
      BY <3>2 DEF NodeInv, HasBranch
    <3> QED
      BY <1>6, <2>2, <3>1, <3>3, <3>4, <3>5 DEF NodeCounts
  <2>3. CASE a # c /\ a \notin DOMAIN nodes
    <3>1. nodes'[a] = NewNode(a, current_iteration)
      BY <1>4, <2>3
    <3>2. a \in DOMAIN Program => entered'[a] = 0
      BY <1>6, <2>3 DEF CountingInv
    <3> QED
      BY <3>1, <3>2 DEF NodeCounts, NewNode, Increasing
  <2> QED
    BY <2>1, <2>2, <2>3
<1>13. \A a \in DOMAIN Program \ DOMAIN nodes' : entered'[a] = 0
  BY <1>4, <1>6 DEF CountingInv
<1> QED
  BY <1>6, <1>12, <1>13 DEF CountingInv

-----------------------------------------------------------------------------
(* What the two callbacks make of an instruction *)

LEMMA PatchedFields ==
  ASSUME NEW cp \in CustomParams
  PROVE  LET once == PatchNextAndSideAddr(cp)
         IN  /\ once \in CustomParams
             /\ once.eip = cp.eip /\ once.content = cp.content
             /\ once.branch_type = cp.branch_type /\ once.instrlen = cp.instrlen
             /\ once.next_addr = cp.next_addr
             /\ cp.branch_type \notin {"jmp", "ret", "call"} => once.side_addr = cp.side_addr
BY PatchedParams DEF PatchNextAndSideAddr, ComputeSideAddr, CustomParams

\* DBTBranching leaves calls and LEAVE to DBTBeforeExecute; what it appends is a
\* branch.
LEMMA FirstCallback ==
  ASSUME DirectBinary, NEW a \in DOMAIN Program, NEW w \in Program[a], CallsBranching(w)
  PROVE  LET ins == MakeInstruction(PatchNextAndSideAddr(w.params))
         IN  /\ LeftToSecond(w) <=> IsCall(ins) \/ IsLeave(ins)
             /\ LeftToSecond(w) <=> w.params.branch_type = "call" \/ w.params.content = "leave"
             /\ ~LeftToSecond(w) =>
                  /\ ins \in InstructionRecord /\ ins.eip = a
                  /\ Validate(ins) /\ IsBranch(ins) /\ Describes(ins, w)
                  /\ ~Falls(w) /\ w.params.branch_type # "call"
<1> DEFINE once == PatchNextAndSideAddr(w.params)
           ins  == MakeInstruction(once)
<1>1. w.params \in CustomParams /\ w.params.eip = a /\ DirectWay(w)
  BY WayOf
<1>2. /\ once \in CustomParams
      /\ once.eip = a /\ once.content = w.params.content
      /\ once.branch_type = w.params.branch_type /\ once.instrlen = w.params.instrlen
      /\ once.next_addr = w.params.next_addr
      /\ w.params.branch_type = "jcc" => once.side_addr = w.params.side_addr
  BY <1>1, PatchedFields
<1>3. ins \in InstructionRecord
  BY <1>1, MadeInstructions
<1>4. LeftToSecond(w) <=> IsCall(ins) \/ IsLeave(ins)
  BY DEF LeftToSecond
<1>5. Validate(ins)
  BY <1>1, PatchValidates DEF DirectWay
<1> HIDE DEF once
<1>6. LeftToSecond(w) <=> w.params.branch_type = "call" \/ w.params.content = "leave"
  BY <1>2, <1>4 DEF MakeInstruction, IsCall, IsLeave
<1>7. /\ ins.eip = a /\ ins.branch_type = w.params.branch_type /\ ins.api_reporter = FALSE
      /\ ins.next_node_addr = w.params.next_addr /\ ins.side_node_addr = once.side_addr
  BY <1>2 DEF MakeInstruction
<1> HIDE DEF ins
<1>8. ASSUME ~LeftToSecond(w)
      PROVE  /\ Validate(ins) /\ IsBranch(ins) /\ Describes(ins, w)
             /\ ~Falls(w) /\ w.params.branch_type # "call"
  <2>1. w.params.branch_type \in {"jcc", "jmp", "ret"} /\ ~w.reported
    <3>1. Branches(w) /\ w.params.branch_type # "call"
      BY <1>6, <1>8 DEF CallsBranching
    <3>2. ~w.reported
      BY <1>1, <3>1 DEF DirectWay, Branches
    <3>3. IsBranch(ins)
      BY <1>5, <1>7, <3>1 DEF Branches, Validate, IsBranch
    <3> QED
      BY <1>7, <3>1, <3>2, <3>3 DEF IsBranch
  <2>2. ~Falls(w) /\ IsBranch(ins) /\ ~IsCall(ins) /\ Validate(ins)
    BY <1>5, <1>7, <2>1 DEF Falls, Branches, IsBranch, IsCall
  <2>3. IsBranch(ins) /\ ~IsRet(ins) =>
          w.successors \subseteq {0, TrueBranchAddress(ins), FalseBranchAddress(ins)}
    BY <1>1, <1>2, <1>7, <2>1, <2>2
       DEF IsRet, DirectWay, TrueBranchAddress, FalseBranchAddress
  <2>4. IsRet(ins) <=> w.params.branch_type = "ret"
    BY <1>7 DEF IsRet
  <2> QED
    BY <2>1, <2>2, <2>3, <2>4 DEF Describes
<1> QED
  BY <1>3, <1>4, <1>6, <1>7, <1>5, <1>8 DEF ins, once

\* The parameters the second callback is given.
SecondParams(w) == IF CallsBranching(w) THEN PatchNextAndSideAddr(w.params) ELSE w.params

SecondIns(w) ==
  LET made == MakeInstruction(PatchNextAndSideAddr(SecondParams(w)))
  IN  IF w.reported THEN WithApiReporter(made) ELSE made

LEMMA NoWrap ==
  ASSUME NEW m \in Nat, NEW n \in Nat, m < n
  PROVE  m % n = m
OBVIOUS

\* DBTBeforeExecute appends what DBTBranching has left, and nothing it has not.
LEMMA SecondCallback ==
  ASSUME DirectBinary, NEW a \in DOMAIN Program, NEW w \in Program[a]
  PROVE  LET ins == SecondIns(w)
         IN  /\ ins \in InstructionRecord
             /\ IsBranch(ins) /\ ~IsCall(ins) <=> CallsBranching(w) /\ ~LeftToSecond(w)
             /\ ~CallsBranching(w) \/ LeftToSecond(w) =>
                  ins.eip = a /\ Validate(ins) /\ Describes(ins, w)
<1> DEFINE p     == w.params
           q     == SecondParams(w)
           twice == PatchNextAndSideAddr(q)
           made  == MakeInstruction(twice)
           ins   == SecondIns(w)
<1>1. p \in CustomParams /\ p.eip = a /\ DirectWay(w) /\ w.reported \in BOOLEAN
  BY WayOf DEF Ways
<1>2. /\ q \in CustomParams
      /\ q.eip = a /\ q.content = p.content /\ q.branch_type = p.branch_type
      /\ q.instrlen = p.instrlen /\ q.next_addr = p.next_addr
  BY <1>1, PatchedFields DEF SecondParams
<1>3. /\ twice \in CustomParams
      /\ twice.eip = a /\ twice.content = p.content /\ twice.branch_type = p.branch_type
      /\ twice.instrlen = p.instrlen /\ twice.next_addr = p.next_addr
  BY <1>2, PatchedFields
<1>4. made \in InstructionRecord /\ WithApiReporter(made) \in InstructionRecord
  BY <1>2, MadeInstructions
<1>5. (p.eip + p.instrlen) % AddressSpace = Behind(w) /\ Behind(w) # 0
  <2>1. /\ p.eip \in Nat /\ p.instrlen \in Nat /\ p.eip # 0
        /\ Behind(w) = p.eip + p.instrlen /\ Behind(w) < AddressSpace
        /\ AddressSpace \in Nat
    BY <1>1, AddressSpaceAssumption
       DEF DirectWay, Behind, Validate, MakeInstruction, CustomParams, Address
  <2>2. Behind(w) \in Nat /\ Behind(w) # 0
    BY <2>1
  <2> QED
    BY <2>1, <2>2, NoWrap
<1>6. p.branch_type = "call" => twice.side_addr = Behind(w)
  <2> SUFFICES ASSUME p.branch_type = "call"
               PROVE  twice.side_addr = Behind(w)
    OBVIOUS
  <2>1. q = PatchNextAndSideAddr(p)
    BY DEF SecondParams, CallsBranching, Branches
  <2>2. p.next_addr = Behind(w) => p.side_addr = Behind(w)
    BY <1>1 DEF DirectWay
  <2> QED
    BY <1>1, <1>5, <2>1, <2>2, CallPatchedTwice
<1>7. /\ ins = IF w.reported THEN WithApiReporter(made) ELSE made
      /\ LeftToSecond(w) <=> p.branch_type = "call" \/ p.content = "leave"
  BY <1>1, <1>3, PatchedFields
     DEF SecondIns, LeftToSecond, MakeInstruction, IsCall, IsLeave
<1> HIDE DEF twice
<1>8. /\ made.eip = a /\ made.content = p.content /\ made.branch_type = p.branch_type
      /\ made.len = p.instrlen /\ made.next_node_addr = p.next_addr
      /\ made.side_node_addr = twice.side_addr /\ made.api_reporter = FALSE
  BY <1>3 DEF MakeInstruction
<1>9. Validate(made)
  BY <1>1, <1>8 DEF DirectWay, Validate, MakeInstruction, IsBranch
<1> HIDE DEF made, ins
<1>10. /\ ins.eip = a
       /\ ins.len = p.instrlen
       /\ w.reported => ins.branch_type = "none"
       /\ ~w.reported => ins = made
       /\ Validate(ins)
  BY <1>4, <1>7, <1>8, <1>9 DEF WithApiReporter, InstructionRecord, Validate, IsBranch
<1>11. IsBranch(ins) <=> ~Falls(w)
  BY <1>1, <1>9, <1>8, <1>10 DEF Falls, Branches, IsBranch, Validate
<1>12. IsBranch(ins) /\ ~IsCall(ins) <=> CallsBranching(w) /\ ~LeftToSecond(w)
  <2>1. p.branch_type = "none" \/ IsBranch(made)
    BY <1>8, <1>9 DEF Validate, IsBranch
  <2> QED
    BY <1>1, <1>7, <1>8, <1>10, <1>11
       DEF DirectWay, CallsBranching, Falls, Branches, IsCall
<1>13. ASSUME ~CallsBranching(w) \/ LeftToSecond(w)
       PROVE  Describes(ins, w)
  <2>1. IsBranch(ins) => IsCall(ins)
    BY <1>12, <1>13
  <2>2. ASSUME IsCall(ins)
        PROVE  /\ FalseBranchAddress(ins) = (ins.eip + ins.len) % AddressSpace
               /\ FalseBranchAddress(ins) # 0
               /\ w.successors \subseteq {0, TrueBranchAddress(ins)}
    <3>1. p.branch_type = "call" /\ ~w.reported /\ ins = made
      BY <1>8, <1>10, <2>2 DEF IsCall
    <3>2. ~Falls(w)
      BY <3>1 DEF Falls, Branches
    <3> QED
      BY <1>1, <1>5, <1>6, <1>8, <1>10, <3>1, <3>2
         DEF DirectWay, TrueBranchAddress, FalseBranchAddress
  <2>3. IsRet(ins) <=> p.branch_type = "ret"
    BY <1>1, <1>8, <1>10 DEF IsRet, DirectWay
  <2> QED
    BY <1>11, <2>1, <2>2, <2>3 DEF Describes
<1> QED
  BY <1>4, <1>7, <1>10, <1>12, <1>13 DEF ins

-----------------------------------------------------------------------------
(* The callbacks keep the invariant *)

\* What DoneBlocksFrozen says of a step of an open run.
Frozen == \A a \in DOMAIN nodes : nodes[a].is_done => nodes'[a].block = nodes[a].block

\* What is recorded stays recorded while the map grows.
LEMMA AllRecordedStays ==
  ASSUME NEW old, MapInv(old), NEW new, MapInv(new), Grows(old, new), NEW pairs,
         AllRecorded(old, pairs)
  PROVE  AllRecorded(new, pairs)
BY RecordedStays DEF AllRecorded

\* The instruction at pc has been executed and control moves on.
LEMMA MovedOn ==
  ASSUME DirectBinary, pc \in DOMAIN Program, NEW w \in Program[pc],
         pc' \in w.successors, last' = pc, starts' <=> ~Falls(w),
         IF Falls(w)
         THEN current_pointer' # 0 /\ Passed(nodes'[current_pointer'], pc)
         ELSE current_pointer' = 0 /\ \A s \in w.successors \ {0} : EndsAt(nodes', pc, s)
  PROVE  Ready'
<1>1. CASE Falls(w)
  <2>1. w.successors \subseteq {0, NextOf(pc)}
    BY <1>1, WayOf, FallsThrough DEF DirectWay
  <2> QED
    BY <1>1, <2>1 DEF Ready
<1>2. CASE ~Falls(w)
  BY <1>2 DEF Ready
<1> QED
  BY <1>1, <1>2

\* An instruction executes by way v: the way of the binary, or what the first
\* callback left of it.
LEMMA ExecutesWay ==
  ASSUME DirectBinary, pc \in DOMAIN Program, NEW w \in Program[pc],
         NEW v, v = (IF CallsBranching(w) THEN Patched(w) ELSE w), Executes(v)
  PROVE  /\ phase = "running" /\ phase' = "running" /\ executing' = FALSE
         /\ UNCHANGED <<current_iteration, stored, kept>>
         /\ IF IsBranch(SecondIns(w)) /\ ~IsCall(SecondIns(w))
            THEN UNCHANGED vars
            ELSE AppendToGraph(SecondIns(w), current_iteration)
         /\ pc' \in w.successors
         /\ last' = pc
         /\ starts' <=> ~Falls(w)
         /\ entered' = IF starts THEN [entered EXCEPT ![pc] = @ + 1] ELSE entered
         /\ transfers' = IF last = 0 THEN transfers ELSE transfers \cup {<<last, pc>>}
<1>1. w \in Ways /\ w.params \in CustomParams
  BY WayOf
<1>2. /\ v.params = SecondParams(w)
      /\ v.reported = w.reported /\ v.successors = w.successors
      /\ v.params.branch_type = w.params.branch_type
  BY <1>1, PatchedWay, PatchedFields DEF SecondParams
<1>3. DBTBeforeExecute(SecondParams(w), w.reported)
  BY <1>2 DEF Executes
<1>4. /\ phase = "running" /\ phase' = "running"
      /\ UNCHANGED <<current_iteration, stored>>
  BY <1>3 DEF DBTBeforeExecute, memory
<1>5. IF IsBranch(SecondIns(w)) /\ ~IsCall(SecondIns(w))
      THEN UNCHANGED vars
      ELSE AppendToGraph(SecondIns(w), current_iteration)
  BY <1>3 DEF DBTBeforeExecute, AppendCaught, SecondIns
<1>6. starts' <=> ~Falls(w)
  BY <1>2 DEF Executes, Falls, Branches
<1> QED
  BY <1>2, <1>4, <1>5, <1>6 DEF Executes

\* The second callback appends the instruction.
LEMMA SecondAppends ==
  ASSUME DirectBinary, TracedInv, DirectInv, pc \in DOMAIN Program, NEW w \in Program[pc],
         NEW v, v = (IF CallsBranching(w) THEN Patched(w) ELSE w), Executes(v),
         ~CallsBranching(w) \/ LeftToSecond(w), Ready
  PROVE  DirectInv' /\ Frozen
<1> DEFINE ins == SecondIns(w)
<1>1. /\ phase = "running" /\ phase' = "running" /\ executing' = FALSE
      /\ UNCHANGED <<current_iteration, stored, kept>>
      /\ pc' \in w.successors
      /\ last' = pc
      /\ starts' <=> ~Falls(w)
      /\ entered' = IF starts THEN [entered EXCEPT ![pc] = @ + 1] ELSE entered
      /\ transfers' = IF last = 0 THEN transfers ELSE transfers \cup {<<last, pc>>}
  BY ExecutesWay
<1>2. /\ ins \in InstructionRecord /\ ins.eip = pc /\ Validate(ins) /\ Describes(ins, w)
      /\ ~(IsBranch(ins) /\ ~IsCall(ins))
  BY SecondCallback
<1>3. AppendToGraph(ins, current_iteration)
  BY <1>2, ExecutesWay
<1>4. IInv /\ current_iteration \in Nat
  BY DEF TracedInv, PluginInv, Types
<1> HIDE DEF ins
<1>5. IInv'
  BY <1>2, <1>3, <1>4, AppendToGraphStep
<1>6. /\ Lines(nodes) /\ Lines(stored.nodes) /\ CountingInv
      /\ AllRecorded(nodes, transfers) /\ AllRecorded(stored.nodes, kept)
  BY <1>1 DEF DirectInv, TransfersInv
<1>7. /\ Lines(nodes')
      /\ Grows(nodes, nodes')
      /\ last # 0 => Recorded(nodes', last, pc)
      /\ IF IsBranch(ins)
         THEN /\ current_pointer' = 0
              /\ \A s \in w.successors \ {0} : EndsAt(nodes', pc, s)
         ELSE current_pointer' # 0 /\ Passed(nodes'[current_pointer'], pc)
  BY <1>2, <1>3, <1>4, <1>6, AppendOnLine
<1>8. CountingInv'
  BY <1>1, <1>2, <1>3, <1>4, <1>6, AppendCounted DEF EntryCounted
<1>9. Ready'
  BY <1>1, <1>2, <1>7, MovedOn DEF Describes
<1>10. AllRecorded(nodes', transfers')
  <2>1. AllRecorded(nodes', transfers)
    BY <1>4, <1>5, <1>6, <1>7, AllRecordedStays DEF IInv
  <2> QED
    BY <1>1, <1>7, <2>1 DEF AllRecorded
<1>11. PositionInv' /\ TransfersInv'
  BY <1>1, <1>6, <1>9, <1>10 DEF PositionInv, TransfersInv
<1> QED
  BY <1>1, <1>6, <1>7, <1>8, <1>11 DEF DirectInv, Frozen, Grows

\* A block that begins with a branch holds nothing else.
LEMMA BranchAlone ==
  ASSUME DirectBinary, NEW a, NEW node, NodeInv(node, a), Line(node.block, a), node.is_done,
         a \in DOMAIN Program, NEW w \in Program[a], ~Falls(w)
  PROVE  node.block # <<>> /\ Len(node.block) = 1
<1>1. node.block \in Seq(InstructionRecord) /\ \E i \in 1 .. Len(node.block) : IsBranch(node.block[i])
  BY DEF NodeInv, HasBranch, Node
<1>2. node.block # <<>> /\ 1 \in 1 .. Len(node.block) /\ node.block[1].eip = a
  BY <1>1 DEF NodeInv
<1>3. PICK v \in Program[a] : Describes(node.block[1], v)
  BY <1>2 DEF Line
<1>4. IsBranch(node.block[1])
  BY <1>3, FallsThrough DEF Describes
<1> QED
  BY <1>2, <1>4 DEF Line

\* The second callback for a branch that the first has appended.
LEMMA SecondSkips ==
  ASSUME DirectBinary, TracedInv, DirectInv, pc \in DOMAIN Program, NEW w \in Program[pc],
         NEW v, v = (IF CallsBranching(w) THEN Patched(w) ELSE w), Executes(v),
         CallsBranching(w), ~LeftToSecond(w), BranchDone(w)
  PROVE  DirectInv' /\ Frozen
<1>1. /\ phase = "running" /\ phase' = "running" /\ executing' = FALSE
      /\ UNCHANGED <<current_iteration, stored, kept>>
      /\ pc' \in w.successors
      /\ last' = pc
      /\ starts' <=> ~Falls(w)
      /\ entered' = IF starts THEN [entered EXCEPT ![pc] = @ + 1] ELSE entered
      /\ transfers' = IF last = 0 THEN transfers ELSE transfers \cup {<<last, pc>>}
  BY ExecutesWay
<1>2. IsBranch(SecondIns(w)) /\ ~IsCall(SecondIns(w))
  BY SecondCallback
<1>3. UNCHANGED <<nodes, current_pointer>>
  BY <1>2, ExecutesWay DEF vars, graph, cursor
<1>4. MapInv(nodes) /\ Lines(nodes) /\ CountingInv /\ AllRecorded(nodes, transfers)
  BY <1>1 DEF TracedInv, PluginInv, IInv, DirectInv, TransfersInv
<1>5. Ready'
  BY <1>1, <1>3, MovedOn DEF BranchDone
<1>6. AllRecorded(nodes', transfers')
  BY <1>1, <1>3, <1>4 DEF BranchDone, AllRecorded
<1>7. CountingInv'
  <2>1. starts => pc \in DOMAIN nodes /\ nodes[pc].is_done /\ nodes[pc].block # <<>>
                    /\ Len(nodes[pc].block) = 1
    BY <1>4, BranchAlone DEF BranchDone, MapInv, Lines
  <2>2. /\ entered \in [DOMAIN Program -> Nat]
        /\ entered' \in [DOMAIN Program -> Nat]
        /\ \A a \in DOMAIN Program : a # pc \/ ~starts => entered'[a] = entered[a]
    BY <1>1, <1>4 DEF CountingInv
  <2>3. ASSUME NEW a \in DOMAIN nodes, nodes[a].iteration = current_iteration
        PROVE  NodeCounts(nodes[a], a, current_pointer, entered')
    <3>1. NodeCounts(nodes[a], a, current_pointer, entered)
      BY <1>1, <1>4, <2>3 DEF CountingInv
    <3>2. CASE starts /\ a = pc
      <4>1. nodes[a].is_done /\ nodes[a].block # <<>> /\ Len(nodes[a].block) = 1
        BY <2>1, <3>2, Zenon
      <4>2. ~(Len(nodes[a].block) > 1)
        BY <4>1
      <4>3. Increasing(nodes[a].block)
        BY <3>1 DEF NodeCounts
      <4> QED
        BY <4>1, <4>2, <4>3 DEF NodeCounts
    <3>3. CASE ~starts \/ a # pc
      <4>1. NodeInv(nodes[a], a) /\ Line(nodes[a].block, a)
        BY <1>4, <2>3 DEF MapInv, Lines
      <4>2. nodes[a].block # <<>> => a \in DOMAIN Program
        BY <4>1 DEF NodeInv, Line, Node
      <4>3. nodes[a].is_done => nodes[a].block # <<>>
        BY <4>1 DEF NodeInv, HasBranch
      <4> QED
        BY <2>2, <3>1, <3>3, <4>2, <4>3 DEF NodeCounts
    <3> QED
      BY <3>2, <3>3
  <2>4. \A a \in DOMAIN Program \ DOMAIN nodes : entered'[a] = 0
    BY <1>1, <1>4, <2>1, <2>2 DEF CountingInv
  <2> QED
    BY <1>1, <1>3, <2>2, <2>3, <2>4 DEF CountingInv
<1>8. PositionInv' /\ TransfersInv'
  BY <1>1, <1>5, <1>6 DEF PositionInv, TransfersInv, DirectInv
<1> QED
  BY <1>1, <1>3, <1>4, <1>7, <1>8 DEF DirectInv, Frozen

-----------------------------------------------------------------------------
(* The steps *)

LEMMA StartRunDirect ==
  ASSUME DirectBinary, TracedInv, DirectInv, StartRun
  PROVE  DirectInv'
<1>1. DBTInit /\ phase \in {"idle", "failed"} /\ UNCHANGED <<executing, way, last, history>>
  BY DEF StartRun, DBTInit, InitEngineFails, InitEngineThrows, InitUndefined, InitLoggerFails,
         InitGraphFails, InitSucceeds, InitCalled
<1>2. /\ ~executing /\ nodes = NoNodes /\ current_pointer = 0
      /\ transfers = kept /\ last = 0 /\ entered = [a \in DOMAIN Program |-> 0]
      /\ Lines(nodes) /\ Lines(stored.nodes)
      /\ AllRecorded(stored.nodes, kept)
  BY <1>1 DEF TracedInv, PluginInv, RunInv, EngineInv, DirectInv, TransfersInv
<1>3. UNCHANGED <<executing, last, entered, transfers, kept>>
  BY <1>1 DEF history
<1>4. entered \in [DOMAIN Program -> Nat]
  BY <1>2
<1>5. CASE phase' # "running"
  <2>1. UNCHANGED <<nodes, stored>>
    BY <1>1, <1>5 DEF DBTInit, InitEngineFails, InitEngineThrows, InitUndefined,
         InitLoggerFails, InitGraphFails, InitSucceeds, memory, vars, graph
  <2> QED
    BY <1>2, <1>3, <1>4, <1>5, <2>1 DEF DirectInv, PositionInv, TransfersInv, CountingInv
<1>6. CASE phase' = "running"
  <2>1. InitSucceeds /\ pc' = EntryPoint /\ starts' = TRUE
    BY <1>1, <1>6 DEF StartRun, DBTInit, InitEngineFails, InitEngineThrows, InitUndefined,
         InitLoggerFails, InitGraphFails
  <2>2. /\ UNCHANGED <<stored, current_pointer>>
        /\ current_iteration' = cfg_iteration + 1
        /\ cfg_iteration \in Nat
    BY <2>1 DEF InitSucceeds, BeginIteration, cursor, TracedInv, PluginInv, Types
  <2>3. nodes' = stored.nodes
    <3>1. CASE cfg_iteration # 0
      BY <1>2, <2>1, <3>1, LoadIntoEmpty DEF InitSucceeds, LoadGraph, TracedInv, PluginInv
    <3>2. CASE cfg_iteration = 0
      <4>1. nodes' = NoNodes
        BY <1>2, <2>1, <3>2 DEF InitSucceeds, LoadGraph, graph
      <4>2. stored.nodes = NoNodes
        <5>1. DOMAIN stored.nodes = {}
          BY <3>2 DEF TracedInv, PluginInv, StoredInv, Stamped
        <5>2. stored.nodes = [a \in DOMAIN stored.nodes |-> stored.nodes[a]]
          BY DEF TracedInv, PluginInv, StoredInv, MapInv
        <5> QED
          BY <5>1, <5>2 DEF NoNodes
      <4> QED
        BY <4>1, <4>2
    <3> QED
      BY <3>1, <3>2
  <2>4. \A a \in DOMAIN nodes' : nodes'[a].iteration # current_iteration'
    BY <2>2, <2>3 DEF TracedInv, PluginInv, StoredInv, Stamped
  <2>5. CountingInv'
    BY <1>2, <1>3, <1>4, <2>4 DEF CountingInv
  <2>6. PositionInv'
    BY <1>2, <1>3, <2>1, <2>2 DEF PositionInv, Ready
  <2>7. TransfersInv'
    BY <1>2, <1>3, <1>6, <2>2, <2>3 DEF TransfersInv
  <2> QED
    BY <1>2, <2>2, <2>3, <2>5, <2>6, <2>7 DEF DirectInv
<1> QED
  BY <1>5, <1>6

LEMMA CallBranchingDirect ==
  ASSUME DirectBinary, TracedInv, DirectInv, CallBranching
  PROVE  DirectInv' /\ Frozen
<1>1. PICK w \in Program[pc] :
        CallsBranching(w) /\ DBTBranching(w.params) /\ way' = Patched(w)
  BY DEF CallBranching, Patched
<1>2. /\ pc \in DOMAIN Program /\ pc # 0 /\ ~executing /\ executing' = TRUE
      /\ UNCHANGED <<pc, last, starts, entered, transfers, kept>>
  BY DEF CallBranching, TracedInv, EngineInv, history
<1>3. /\ phase = "running" /\ phase' = "running"
      /\ UNCHANGED <<current_iteration, stored>>
  BY <1>1 DEF DBTBranching, memory
<1> DEFINE ins == MakeInstruction(PatchNextAndSideAddr(w.params))
<1>4. IF IsCall(ins) \/ IsLeave(ins) THEN UNCHANGED vars
                                     ELSE AppendToGraph(ins, current_iteration)
  BY <1>1 DEF DBTBranching, AppendCaught
<1>5. /\ LeftToSecond(w) <=> IsCall(ins) \/ IsLeave(ins)
      /\ ~LeftToSecond(w) =>
           /\ ins \in InstructionRecord /\ ins.eip = pc
           /\ Validate(ins) /\ IsBranch(ins) /\ Describes(ins, w)
           /\ ~Falls(w) /\ w.params.branch_type # "call"
  BY <1>1, <1>2, FirstCallback
<1>6. /\ Ready /\ CountingInv /\ AllRecorded(nodes, transfers)
      /\ Lines(nodes) /\ Lines(stored.nodes) /\ AllRecorded(stored.nodes, kept)
  BY <1>2, <1>3 DEF DirectInv, PositionInv, TransfersInv
<1> HIDE DEF ins
<1>7. CASE LeftToSecond(w)
  <2>1. UNCHANGED <<nodes, current_pointer>>
    BY <1>4, <1>5, <1>7 DEF vars, graph, cursor
  <2>2. Ready'
    BY <1>2, <1>6, <2>1 DEF Ready
  <2>3. PositionInv'
    BY <1>1, <1>2, <1>7, <2>2 DEF PositionInv
  <2>4. TransfersInv' /\ CountingInv'
    BY <1>2, <1>3, <1>6, <2>1 DEF TransfersInv, CountingInv
  <2> QED
    BY <1>3, <1>6, <2>1, <2>3, <2>4 DEF DirectInv, Frozen
<1>8. CASE ~LeftToSecond(w)
  <2>1. IInv /\ current_iteration \in Nat
    BY DEF TracedInv, PluginInv, Types
  <2>2. AppendToGraph(ins, current_iteration)
    BY <1>4, <1>5, <1>8
  <2>3. IInv'
    BY <1>5, <1>8, <2>1, <2>2, AppendToGraphStep
  <2>4. /\ Lines(nodes')
        /\ Grows(nodes, nodes')
        /\ last # 0 => Recorded(nodes', last, pc)
        /\ current_pointer' = 0
        /\ \A s \in w.successors \ {0} : EndsAt(nodes', pc, s)
        /\ starts => pc \in DOMAIN nodes' /\ nodes'[pc].is_done
    BY <1>2, <1>5, <1>6, <1>8, <2>1, <2>2, AppendOnLine
  <2>5. CountingInv'
    BY <1>2, <1>3, <1>5, <1>6, <1>8, <2>1, <2>2, AppendCounted DEF EntryCounted
  <2>6. BranchDone(w)'
    BY <1>2, <1>5, <1>8, <2>4 DEF BranchDone
  <2>7. PositionInv'
    BY <1>1, <1>2, <2>6 DEF PositionInv
  <2>8. AllRecorded(nodes', transfers)
    BY <1>6, <2>1, <2>3, <2>4, AllRecordedStays DEF IInv
  <2>9. TransfersInv'
    BY <1>2, <1>3, <1>6, <2>8 DEF TransfersInv
  <2> QED
    BY <1>3, <1>6, <2>4, <2>5, <2>7, <2>9 DEF DirectInv, Frozen, Grows
<1> QED
  BY <1>7, <1>8

LEMMA CallBeforeExecuteDirect ==
  ASSUME DirectBinary, TracedInv, DirectInv, CallBeforeExecute
  PROVE  DirectInv' /\ Frozen
<1>1. phase = "running"
  BY DEF CallBeforeExecute, Executes, DBTBeforeExecute
<1>2. CASE executing /\ Executes(way)
  <2>1. PICK w \in Program[pc] :
          /\ pc # 0 /\ way = Patched(w) /\ CallsBranching(w)
          /\ (LeftToSecond(w) /\ Ready) \/ BranchDone(w)
    BY <1>1, <1>2 DEF DirectInv, PositionInv
  <2>2. pc \in DOMAIN Program
    BY <2>1 DEF TracedInv, EngineInv
  <2>3. way = IF CallsBranching(w) THEN Patched(w) ELSE w
    BY <2>1
  <2>4. CASE LeftToSecond(w) /\ Ready
    BY <1>2, <2>2, <2>3, <2>4, SecondAppends
  <2>5. CASE BranchDone(w)
    <3>1. ~LeftToSecond(w)
      BY <2>1, <2>2, <2>5, FirstCallback, WayOf DEF BranchDone, DirectWay, Falls
    <3> QED
      BY <1>2, <2>1, <2>2, <2>3, <2>5, <3>1, SecondSkips
  <2> QED
    BY <2>1, <2>4, <2>5
<1>3. CASE ~executing /\ pc # 0 /\ \E w \in Program[pc] : ~CallsBranching(w) /\ Executes(w)
  <2>1. PICK w \in Program[pc] : ~CallsBranching(w) /\ Executes(w)
    BY <1>3
  <2>2. pc \in DOMAIN Program /\ Ready
    BY <1>1, <1>3 DEF TracedInv, EngineInv, DirectInv, PositionInv
  <2> QED
    BY <2>1, <2>2, SecondAppends
<1> QED
  BY <1>2, <1>3 DEF CallBeforeExecute

\* However a run ends, what was stored is what the next one is told.
LEMMA RunEndsDirect ==
  ASSUME FreshGraph, phase' = "idle", NEW remaining, Leaves(remaining),
         entered \in [DOMAIN Program -> Nat],
         Lines(stored'.nodes), AllRecorded(stored'.nodes, remaining)
  PROVE  DirectInv'
<1>1. Lines(nodes')
  BY NoNodesIsEmpty DEF FreshGraph, Lines
<1>2. entered' = [a \in DOMAIN Program |-> 0]
  BY DEF Leaves
<1>3. PositionInv' /\ TransfersInv' /\ CountingInv'
  BY <1>2 DEF PositionInv, TransfersInv, CountingInv, Leaves
<1> QED
  BY <1>1, <1>3 DEF DirectInv

\* What generate changes in the nodes is not part of their blocks.
LEMMA GeneratedRecords ==
  ASSUME NEW map, MapInv(map), NEW max \in LargestOccurrences(map)
  PROVE  LET new == WithMaxOccurrences(map, max)
         IN  /\ MapInv(new) /\ Grows(map, new)
             /\ Lines(map) => Lines(new)
<1> DEFINE new == WithMaxOccurrences(map, max)
<1>1. /\ MapInv(new)
      /\ DOMAIN new = DOMAIN map
      /\ \A a \in DOMAIN map : Keeps(map[a], new[a]) /\ new[a].block = map[a].block
  BY MaxOccurrencesInv
<1> HIDE DEF new
<1>2. Grows(map, new) /\ (Lines(map) => Lines(new))
  BY <1>1 DEF Grows, Lines
<1> QED
  BY <1>1, <1>2 DEF new

LEMMA FinishRunDirect ==
  ASSUME TracedInv, DirectInv, FinishRun
  PROVE  DirectInv'
<1>1. entered \in [DOMAIN Program -> Nat]
  BY DEF DirectInv, CountingInv
<1>2. CASE FinishStores /\ Leaves(transfers)
  <2>1. PICK max \in LargestOccurrences(nodes) :
          stored'.nodes = WithMaxOccurrences(nodes, max)
    BY <1>2 DEF FinishStores, Write
  <2>2. MapInv(nodes) /\ Lines(nodes) /\ AllRecorded(nodes, transfers)
    BY <1>2 DEF TracedInv, PluginInv, IInv, DirectInv, TransfersInv, FinishStores
  <2>3. Lines(stored'.nodes) /\ AllRecorded(stored'.nodes, transfers)
    BY <2>1, <2>2, GeneratedRecords, AllRecordedStays
  <2> QED
    BY <1>1, <1>2, <2>3, RunEndsDirect DEF FinishStores
<1>3. CASE FinishFails /\ Leaves(kept)
  <2>1. stored' = stored /\ FreshGraph /\ phase' = "idle"
    BY <1>3 DEF FinishFails, memory
  <2> QED
    BY <1>1, <1>3, <2>1, RunEndsDirect DEF DirectInv, TransfersInv
<1> QED
  BY <1>2, <1>3 DEF FinishRun

LEMMA KillRunDirect ==
  ASSUME DirectInv, KillRun
  PROVE  DirectInv'
<1>1. stored' = stored /\ FreshGraph /\ phase' = "idle" /\ Leaves(kept)
  BY DEF KillRun, ProcessEnds, memory
<1> QED
  BY <1>1, RunEndsDirect DEF DirectInv, TransfersInv, CountingInv

LEMMA DirectStep ==
  ASSUME DirectBinary, TracedInv, DirectInv, [TracedNext]_traced
  PROVE  DirectInv' /\ (phase = "running" /\ phase' = "running" => Frozen)
<1>1. CASE UNCHANGED traced
  <2>1. UNCHANGED <<nodes, current_pointer, current_iteration, stored, phase,
                    pc, executing, way, last, starts, entered, transfers, kept>>
    BY <1>1 DEF traced, plugin, vars, graph, cursor, memory, position, history
  <2> QED
    BY <2>1 DEF DirectInv, PositionInv, TransfersInv, CountingInv, Ready, BranchDone, Frozen
<1>2. CASE StartRun
  <2>1. phase # "running"
    BY <1>2 DEF StartRun, DBTInit, InitEngineFails, InitEngineThrows, InitUndefined,
         InitLoggerFails, InitGraphFails, InitSucceeds, InitCalled
  <2> QED
    BY <1>2, <2>1, StartRunDirect
<1>3. CASE FinishRun \/ KillRun
  <2>1. phase' = "idle"
    BY <1>3 DEF FinishRun, FinishStores, FinishFails, KillRun, ProcessEnds
  <2> QED
    BY <1>3, <2>1, FinishRunDirect, KillRunDirect
<1>4. CASE CallBranching \/ CallBeforeExecute
  BY <1>4, CallBranchingDirect, CallBeforeExecuteDirect
<1> QED
  BY <1>1, <1>2, <1>3, <1>4 DEF TracedNext

LEMMA DirectInit == TracedInit => DirectInv
<1> SUFFICES ASSUME TracedInit PROVE DirectInv
  OBVIOUS
<1>1. nodes = NoNodes /\ stored.nodes = NoNodes /\ phase = "idle"
  BY DEF TracedInit, PluginInit, Init, Write
<1>2. Lines(nodes) /\ Lines(stored.nodes)
  BY <1>1, NoNodesIsEmpty DEF Lines
<1>3. PositionInv /\ TransfersInv /\ CountingInv
  BY <1>1 DEF TracedInit, PositionInv, TransfersInv, CountingInv, AllRecorded
<1> QED
  BY <1>2, <1>3 DEF DirectInv

-----------------------------------------------------------------------------
(* The drawing *)

\* What is recorded in a well-formed map is in its drawing.
LEMMA RecordedIsDrawn ==
  ASSUME NEW map, MapInv(map), NEW t, Recorded(map, t[1], t[2])
  PROVE  IsDrawn(Draw(map), t)
<1> DEFINE drawing == Draw(map)
<1>1. ASSUME NEW a \in DOMAIN map
      PROVE  LET box == Definition(map[a])
             IN  /\ box \in drawing.boxes
                 /\ box.name = a
                 /\ map[a].block \in Seq(InstructionRecord)
                 /\ Len(box.label) = Len(map[a].block)
                 /\ \A i \in 1 .. Len(map[a].block) :
                      /\ box.label[i].text = map[a].block[i].eip
                      /\ box.label[i].ret = IsRet(map[a].block[i])
  <2>1. map[a].block \in Seq(InstructionRecord) /\ map[a].start_address = a
    BY DEF MapInv, NodeInv, Node
  <2>2. Definition(map[a]) \in drawing.boxes
    BY DEF Draw
  <2>3. /\ Definition(map[a]).name = a
        /\ Definition(map[a]).label = Label(map[a])
    BY <2>1 DEF Definition
  <2>4. /\ Len(Label(map[a])) = Len(map[a].block)
        /\ \A i \in 1 .. Len(map[a].block) :
             /\ Label(map[a])[i].text = map[a].block[i].eip
             /\ Label(map[a])[i].ret = IsRet(map[a].block[i])
    BY <2>1 DEF Label
  <2> QED
    BY <2>1, <2>2, <2>3, <2>4
<1>2. \A a \in DOMAIN map : \A y \in {map[a].true_branch_address, map[a].false_branch_address} \ {0} :
        \E e \in drawing.edges : e.from = a /\ e.to = y
  <2> SUFFICES ASSUME NEW a \in DOMAIN map,
                      NEW y \in {map[a].true_branch_address, map[a].false_branch_address} \ {0}
               PROVE  \E e \in drawing.edges : e.from = a /\ e.to = y
    OBVIOUS
  <2>1. map[a].start_address = a
    BY DEF MapInv, NodeInv
  <2>2. PICK color : Edge(a, y, color) \in Relation(map[a])
    BY <2>1 DEF Relation, Edge
  <2>3. Edge(a, y, color) \in drawing.edges
    BY <2>2 DEF Draw
  <2> QED
    BY <2>3 DEF Edge
<1> HIDE DEF drawing
<1>3. CASE \E a \in DOMAIN map : Adjacent(map[a].block, t[1], t[2])
  <2>1. PICK a \in DOMAIN map : Adjacent(map[a].block, t[1], t[2])
    BY <1>3
  <2>2. PICK i \in 1 .. Len(map[a].block) - 1 :
          map[a].block[i].eip = t[1] /\ map[a].block[i + 1].eip = t[2]
    BY <2>1 DEF Adjacent
  <2> DEFINE box == Definition(map[a])
  <2>3. /\ box \in drawing.boxes
        /\ i \in 1 .. Len(box.label) - 1
        /\ box.label[i].text = t[1] /\ box.label[i + 1].text = t[2]
    BY <1>1, <2>2
  <2> HIDE DEF box
  <2> QED
    BY <2>3 DEF IsDrawn, drawing
<1>4. CASE EndsAt(map, t[1], t[2]) /\ t[2] \in DOMAIN map /\ t[2] # 0
  <2>1. PICK a \in DOMAIN map :
          LET block == map[a].block IN
            /\ block # <<>>
            /\ block[Len(block)].eip = t[1]
            /\ \/ IsRet(block[Len(block)])
               \/ t[2] \in {map[a].true_branch_address, map[a].false_branch_address}
    BY <1>4 DEF EndsAt
  <2> DEFINE box == Definition(map[a])
             end == Len(box.label)
  <2>2. /\ box \in drawing.boxes /\ box.name = a
        /\ end # 0
        /\ box.label[end].text = t[1]
        /\ box.label[end].ret = IsRet(map[a].block[Len(map[a].block)])
    BY <1>1, <2>1
  <2>3. \E target \in drawing.boxes : target.name = t[2]
    BY <1>1, <1>4
  <2>4. \/ box.label[end].ret
        \/ \E e \in drawing.edges : e.from = box.name /\ e.to = t[2]
    <3>1. CASE IsRet(map[a].block[Len(map[a].block)])
      BY <2>2, <3>1
    <3>2. CASE t[2] \in {map[a].true_branch_address, map[a].false_branch_address} \ {0}
      <4>1. PICK e \in drawing.edges : e.from = a /\ e.to = t[2]
        BY <1>2, <3>2
      <4> QED
        BY <2>2, <4>1
    <3> QED
      BY <1>4, <2>1, <3>1, <3>2
  <2> HIDE DEF box
  <2> QED
    BY <2>2, <2>3, <2>4 DEF IsDrawn, drawing
<1> QED
  BY <1>3, <1>4 DEF Recorded

\* A block that ends with a call has an edge to the instruction behind it.
LEMMA CallsReturnOnLines ==
  ASSUME NEW map, MapInv(map), Lines(map)
  PROVE  CallsReturn(map)
<1> SUFFICES ASSUME NEW a \in DOMAIN map, map[a].block # <<>>,
                    IsCall(map[a].block[Len(map[a].block)])
             PROVE  LET call == map[a].block[Len(map[a].block)]
                    IN  Edge(a, (call.eip + call.len) % AddressSpace, "red") \in Relation(map[a])
  BY DEF CallsReturn
<1> DEFINE call == map[a].block[Len(map[a].block)]
<1>1. map[a].block \in Seq(InstructionRecord) /\ map[a].start_address = a
  BY DEF MapInv, NodeInv, Node
<1>2. Len(map[a].block) \in 1 .. Len(map[a].block)
  BY <1>1
<1>3. /\ FalseBranchAddress(call) = (call.eip + call.len) % AddressSpace
      /\ FalseBranchAddress(call) # 0
  BY <1>2 DEF Lines, Line, Describes
<1>4. map[a].false_branch_address = FalseBranchAddress(call)
  BY <1>2 DEF MapInv, NodeInv, IsBranch, IsCall, IsRet
<1> QED
  BY <1>1, <1>3, <1>4 DEF Relation, Edge

-----------------------------------------------------------------------------
(* The theorems *)

\* The graph follows the binary: DirectInv, over the invariants of the plugin.
THEOREM DirectInvariant ==
  ASSUME DirectBinary
  PROVE  TracedSpec => [](TracedInv /\ DirectInv)
<1>1. TracedInv /\ DirectInv /\ [TracedNext]_traced => TracedInv' /\ DirectInv'
  BY TracedStep, DirectStep
<1> QED
  BY <1>1, TracedInitInv, DirectInit, PTL DEF TracedSpec

\* Every transfer of control of every run is in the drawing.
THEOREM TransfersAreDrawn ==
  ASSUME DirectBinary
  PROVE  TracedSpec => []TransfersDrawn
<1>1. TracedInv /\ DirectInv => TransfersDrawn
  BY RecordedIsDrawn
     DEF TracedInv, PluginInv, IInv, StoredInv, DirectInv, TransfersInv, TransfersDrawn, AllDrawn,
         AllRecorded
<1> QED
  BY <1>1, DirectInvariant, PTL

\* A block of several instructions has been entered as often as it says.
THEOREM OccurrencesAreVisits ==
  ASSUME DirectBinary
  PROVE  TracedSpec => []VisitsCounted
<1>1. DirectInv => VisitsCounted
  BY DEF DirectInv, CountingInv, NodeCounts, VisitsCounted
<1> QED
  BY <1>1, DirectInvariant, PTL

\* The red edge of a call leads behind it, in a live graph and in a stored one.
THEOREM CallsLeadBehind ==
  ASSUME DirectBinary
  PROVE  TracedSpec => []ReturnSiteDrawn
<1>1. TracedInv /\ DirectInv => ReturnSiteDrawn
  BY CallsReturnOnLines DEF TracedInv, PluginInv, IInv, StoredInv, DirectInv, ReturnSiteDrawn
<1> QED
  BY <1>1, DirectInvariant, PTL

\* The two callbacks append each instruction of a block once.
THEOREM CallbacksDivideInstructions ==
  ASSUME DirectBinary
  PROVE  TracedSpec => []AppendedOnce
<1>1. TracedInv /\ DirectInv => AppendedOnce
  <2> SUFFICES ASSUME TracedInv, DirectInv, NEW a \in DOMAIN nodes,
                      nodes[a].iteration = current_iteration
               PROVE  WithoutRepeats(nodes[a].block)
    BY DEF AppendedOnce
  <2>1. phase = "running"
    BY NoNodesIsEmpty DEF TracedInv, PluginInv, RunInv
  <2>2. Increasing(nodes[a].block) /\ nodes[a].block \in Seq(InstructionRecord)
    BY <2>1, BlocksAreSequences
       DEF DirectInv, CountingInv, NodeCounts, TracedInv, PluginInv, IInv
  <2>3. \A i \in 1 .. Len(nodes[a].block) : nodes[a].block[i].eip \in Nat
    <3>1. \A ins \in InstructionRecord : ins.eip \in Nat
      BY DEF InstructionRecord, Address
    <3> QED
      BY <2>2, <3>1
  <2>4. \A i, j \in 1 .. Len(nodes[a].block) : i = j \/ i < j \/ j < i
    BY <2>2
  <2> QED
    BY <2>2, <2>3, <2>4 DEF Increasing, WithoutRepeats
<1> QED
  BY <1>1, DirectInvariant, PTL

\* A finished block gets no further instruction.
THEOREM DoneBlocksStay ==
  ASSUME DirectBinary
  PROVE  TracedSpec => DoneBlocksFrozen
<1>1. TracedInv /\ DirectInv /\ [TracedNext]_traced
        => [phase = "running" /\ phase' = "running" =>
              \A a \in DOMAIN nodes :
                nodes[a].is_done => nodes'[a].block = nodes[a].block]_traced
  BY DirectStep DEF Frozen
<1> QED
  BY <1>1, DirectInvariant, PTL DEF TracedSpec, DoneBlocksFrozen

=============================================================================
