------------------------------ MODULE Drawing ------------------------------
(***************************************************************************)
(* The drawing control_flow::graphviz and control_flow::gdl print of a map *)
(* of nodes (goliath/graph/node.cpp, control_flow.cpp:16-88): a coloured   *)
(* box per node and a coloured edge per branch target.  The two formats    *)
(* print the same things in the same order.  A line of a label is told     *)
(* apart by the address of its instruction and by whether it reads `ret`.  *)
(***************************************************************************)
EXTENDS ControlFlow

-----------------------------------------------------------------------------
(* pick_color.  The pallet splits 100% in nine; percentages are in ninths   *)
(* and multiplied by max here, so that they are whole numbers.              *)

\* interval[i - 1]: the last one, 100.0, is decremented.
Interval(i) == IF i = 9 THEN 9 * 99 ELSE 100 * i

Percent(value) == 900 * value

Within(i, max, p) == Interval(i) * max <= p /\ p <= Interval(i + 1) * max

\* The loop's first hit, and the half of it that p is in.
FirstWithin(max, p) ==
  CHOOSE i \in 1 .. 8 : Within(i, max, p) /\ \A j \in 1 .. i - 1 : ~Within(j, max, p)

PickHalf(i, max, p) ==
  IF 4 * p > (Interval(i) + Interval(i + 1)) * max THEN i + 1 ELSE i

PickInterval(max, p) == PickHalf(FirstWithin(max, p), max, p)

\* Mutant: there is no test for the top of the pallet; the loop finds nothing.
PickColorNoTop(max, value) ==
  IF Percent(value) <= Interval(1) * max \/ Percent(value) > Interval(9) * max
  THEN 1
  ELSE PickInterval(max, Percent(value))

PickColor(max, value) ==
  IF (max = 1 /\ value = 1) \/ Percent(value) <= Interval(1) * max THEN 1
  ELSE IF Percent(value) >= Interval(9) * max THEN 9
  ELSE PickInterval(max, Percent(value))

-----------------------------------------------------------------------------
(* What a node prints *)

NoBranching(node) ==
  node.true_branch_address = 0 /\ node.false_branch_address = 0 /\ node.block # <<>>

\* plum1 in graphviz, colorentry 12 in gdl.
Pink == 12

Color(node) ==
  IF NoBranching(node) THEN Pink ELSE PickColor(node.max_occurrences, node.occurrences)

Label(node) ==
  [i \in 1 .. Len(node.block) |-> [text |-> node.block[i].eip, ret |-> IsRet(node.block[i])]]

Definition(node) ==
  [name |-> node.start_address, color |-> Color(node), label |-> Label(node)]

Edge(from, to, color) == [from |-> from, to |-> to, color |-> color]

Relation(node) ==
  {e \in {Edge(node.start_address, node.true_branch_address, "green"),
          Edge(node.start_address, node.false_branch_address, "red")} : e.to # 0}

Draw(map) ==
  [boxes |-> {Definition(map[a]) : a \in DOMAIN map},
   edges |-> UNION {Relation(map[a]) : a \in DOMAIN map}]

-----------------------------------------------------------------------------
(* Properties, as operators of a drawing or of a map.                       *)

\* A transfer of control is drawn if the two instructions are neighbours in a
\* box, or the first ends a box that has an edge to the box named by the
\* second; a return has no edges, its target only has to have a box.
IsDrawn(drawing, transfer) ==
  \E box \in drawing.boxes :
    LET end == Len(box.label) IN
      \/ \E i \in 1 .. end - 1 :
           box.label[i].text = transfer[1] /\ box.label[i + 1].text = transfer[2]
      \/ /\ end # 0
         /\ box.label[end].text = transfer[1]
         /\ \E target \in drawing.boxes : target.name = transfer[2]
         /\ \/ box.label[end].ret
            \/ \E e \in drawing.edges : e.from = box.name /\ e.to = transfer[2]

\* Of two nodes that branch, the one that ran more often is never lighter, and
\* one that ran as often as any is the darkest.
DarkerIfHotter(map) ==
  \A a, b \in {c \in DOMAIN map : ~NoBranching(map[c])} :
    /\ map[a].occurrences <= map[b].occurrences => Color(map[a]) <= Color(map[b])
    /\ map[b].occurrences = map[b].max_occurrences /\ map[b].max_occurrences # 1 =>
         Color(map[b]) = 9

\* A call that is followed has a red edge to the instruction behind it.
CallsReturn(map) ==
  \A a \in DOMAIN map :
    LET block == map[a].block
        last  == block[Len(block)] IN
      block # <<>> /\ IsCall(last) =>
        Edge(a, (last.eip + last.len) % AddressSpace, "red") \in Relation(map[a])

=============================================================================
