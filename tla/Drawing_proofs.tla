--------------------------- MODULE Drawing_proofs ---------------------------
(***************************************************************************)
(* What pick_color returns for every count of every graph: the shade is    *)
(* the number of the pallet's interval the share of the maximum lies in,   *)
(* so that it never falls when the count rises.                            *)
(***************************************************************************)
EXTENDS Drawing, TLAPS

-----------------------------------------------------------------------------
(* The loop over the intervals *)

LEMMA IntervalValues ==
  /\ Interval(1) = 100 /\ Interval(2) = 200 /\ Interval(3) = 300
  /\ Interval(4) = 400 /\ Interval(5) = 500 /\ Interval(6) = 600
  /\ Interval(7) = 700 /\ Interval(8) = 800 /\ Interval(9) = 891
  BY DEF Interval

\* Between the first and the last bound some interval holds p, and the first
\* that does has its lower end strictly below p.
LEMMA FirstWithinExists ==
  ASSUME NEW max \in Nat \ {0}, NEW p \in Nat,
         Interval(1) * max < p, p < Interval(9) * max
  PROVE  /\ FirstWithin(max, p) \in 1 .. 8
         /\ Interval(FirstWithin(max, p)) * max < p
         /\ p <= Interval(FirstWithin(max, p) + 1) * max
<1> DEFINE First(i) == Within(i, max, p) /\ \A j \in 1 .. i - 1 : ~Within(j, max, p)
<1>1. \E i \in 1 .. 8 : First(i)
  <2>1. CASE p <= 200 * max
    <3>1. First(1)
      BY <2>1, IntervalValues DEF Within
    <3> QED
      BY <3>1
  <2>2. CASE 200 * max < p /\ p <= 300 * max
    <3>1. First(2)
      BY <2>2, IntervalValues DEF Within
    <3> QED
      BY <3>1
  <2>3. CASE 300 * max < p /\ p <= 400 * max
    <3>1. First(3)
      BY <2>3, IntervalValues DEF Within
    <3> QED
      BY <3>1
  <2>4. CASE 400 * max < p /\ p <= 500 * max
    <3>1. First(4)
      BY <2>4, IntervalValues DEF Within
    <3> QED
      BY <3>1
  <2>5. CASE 500 * max < p /\ p <= 600 * max
    <3>1. First(5)
      BY <2>5, IntervalValues DEF Within
    <3> QED
      BY <3>1
  <2>6. CASE 600 * max < p /\ p <= 700 * max
    <3>1. First(6)
      BY <2>6, IntervalValues DEF Within
    <3> QED
      BY <3>1
  <2>7. CASE 700 * max < p /\ p <= 800 * max
    <3>1. First(7)
      BY <2>7, IntervalValues DEF Within
    <3> QED
      BY <3>1
  <2>8. CASE 800 * max < p
    <3>1. First(8)
      BY <2>8, IntervalValues DEF Within
    <3> QED
      BY <3>1
  <2> QED
    BY <2>1, <2>2, <2>3, <2>4, <2>5, <2>6, <2>7, <2>8
<1> DEFINE i == FirstWithin(max, p)
<1>2. i \in 1 .. 8 /\ First(i)
  BY <1>1 DEF FirstWithin
<1>3. Within(i, max, p)
  BY <1>2
<1>4. Interval(i) * max < p
  <2>1. CASE i = 1
    BY <2>1
  <2>2. CASE i # 1
    <3>1. i - 1 \in 1 .. i - 1 /\ i - 1 \in 1 .. 7
      BY <1>2, <2>2
    <3>2. ~Within(i - 1, max, p)
      BY <1>2, <3>1
    <3>3. Interval(i - 1) * max < Interval(i) * max
      <4> HIDE DEF i
      <4> QED
        BY <1>2, <2>2, IntervalValues
    <3>4. Interval(i - 1) * max <= p
      BY <1>3, <3>3, <1>2, <3>1 DEF Within, Interval
    <3>5. (i - 1) + 1 = i
      BY <1>2
    <3> QED
      BY <3>2, <3>4, <3>5, <1>2 DEF Within, Interval
  <2> QED
    BY <2>1, <2>2
<1> QED
  BY <1>2, <1>3, <1>4 DEF Within

\* The test for the lower half never succeeds: even the least p of an interval
\* is more than half of the interval's middle.
LEMMA UpperHalf ==
  ASSUME NEW max \in Nat \ {0}, NEW p \in Nat, NEW i \in 1 .. 8, Interval(i) * max < p
  PROVE  PickHalf(i, max, p) = i + 1
<1>1. (Interval(i) + Interval(i + 1)) * max < 4 * (Interval(i) * max)
  BY DEF Interval
<1> QED
  BY <1>1 DEF PickHalf, Interval

-----------------------------------------------------------------------------
(* The shade *)

\* The shade is darker than the first k exactly when the share of the maximum
\* lies above the first k ninths.
LEMMA ShadeOfShare ==
  ASSUME NEW max \in Nat \ {0}, NEW value \in 1 .. max, max # 1
  PROVE  /\ PickColor(max, value) \in 1 .. 9
         /\ \A k \in 1 .. 8 :
              PickColor(max, value) > k <=> Percent(value) > Interval(k) * max
<1> DEFINE p == Percent(value)
<1>0. p \in Nat
  BY DEF Percent
<1>1. CASE p <= Interval(1) * max
  <2>1. PickColor(max, value) = 1
    BY <1>1 DEF PickColor
  <2>2. \A k \in 1 .. 8 : p <= Interval(k) * max
    BY <1>0, <1>1 DEF Interval
  <2> QED
    BY <1>0, <2>1, <2>2 DEF Interval
<1>2. CASE p >= Interval(9) * max
  <2>1. ~(p <= Interval(1) * max)
    BY <1>0, <1>2 DEF Interval
  <2>2. PickColor(max, value) = 9
    BY <1>2, <2>1 DEF PickColor
  <2>3. \A k \in 1 .. 8 : p > Interval(k) * max
    BY <1>0, <1>2 DEF Interval
  <2> QED
    BY <1>0, <2>2, <2>3 DEF Interval
<1>3. CASE Interval(1) * max < p /\ p < Interval(9) * max
  <2> DEFINE i == FirstWithin(max, p)
  <2>1. /\ i \in 1 .. 8
        /\ Interval(i) * max < p
        /\ p <= Interval(i + 1) * max
    BY <1>0, <1>3, FirstWithinExists
  <2>2. PickColor(max, value) = PickHalf(i, max, p)
    BY <1>0, <1>3 DEF PickColor, PickInterval, Interval
  <2> HIDE DEF i
  <2>3. PickColor(max, value) = i + 1
    BY <1>0, <2>1, <2>2, UpperHalf
  <2>4. ASSUME NEW k \in 1 .. 8
        PROVE  i + 1 > k <=> p > Interval(k) * max
    <3>1. CASE k <= i
      <4>1. Interval(k) * max <= Interval(i) * max
        BY <2>1, <3>1 DEF Interval
      <4> QED
        BY <1>0, <2>1, <3>1, <4>1 DEF Interval
    <3>2. CASE k > i
      <4>1. Interval(i + 1) * max <= Interval(k) * max
        BY <2>1, <3>2 DEF Interval
      <4> QED
        BY <1>0, <2>1, <3>2, <4>1 DEF Interval
    <3> QED
      BY <2>1, <3>1, <3>2
  <2> QED
    BY <2>1, <2>3, <2>4
<1> QED
  BY <1>0, <1>1, <1>2, <1>3 DEF Interval

\* pick_color never gives the lighter shade to the larger count, and gives the
\* darkest to the largest (node.cpp:101-139), whatever the counts are.
THEOREM ShadeFollowsCount ==
  ASSUME NEW max \in Nat \ {0}, NEW low \in 1 .. max, NEW high \in low .. max
  PROVE  /\ PickColor(max, low) <= PickColor(max, high)
         /\ max # 1 => PickColor(max, max) = 9
<1>1. CASE max = 1
  <2>1. low = 1 /\ high = 1
    BY <1>1
  <2>2. PickColor(1, 1) = 1
    BY DEF PickColor
  <2> QED
    BY <1>1, <2>1, <2>2
<1>2. CASE max # 1
  <2> DEFINE c == PickColor(max, low)
             d == PickColor(max, high)
  <2>1. /\ c \in 1 .. 9 /\ d \in 1 .. 9
        /\ \A k \in 1 .. 8 : c > k <=> Percent(low) > Interval(k) * max
        /\ \A k \in 1 .. 8 : d > k <=> Percent(high) > Interval(k) * max
    BY <1>2, ShadeOfShare
  <2> HIDE DEF c, d
  <2>2. c <= d
    <3>1. CASE c = 1
      BY <2>1, <3>1
    <3>2. CASE c # 1
      <4>1. c - 1 \in 1 .. 8 /\ c > c - 1
        BY <2>1, <3>2
      <4>2. Percent(low) > Interval(c - 1) * max
        BY <2>1, <4>1
      <4>3. Percent(low) \in Nat /\ Percent(high) \in Nat /\ Percent(low) <= Percent(high)
        BY DEF Percent
      <4>4. Percent(high) > Interval(c - 1) * max
        BY <4>1, <4>2, <4>3 DEF Interval
      <4> QED
        BY <2>1, <4>1, <4>4
    <3> QED
      BY <3>1, <3>2
  <2>3. PickColor(max, max) = 9
    <3>1. /\ PickColor(max, max) \in 1 .. 9
          /\ PickColor(max, max) > 8 <=> Percent(max) > Interval(8) * max
      BY <1>2, ShadeOfShare
    <3>2. Percent(max) > Interval(8) * max
      BY DEF Percent, Interval
    <3> QED
      BY <3>1, <3>2
  <2> QED
    BY <2>2, <2>3 DEF c, d
<1> QED
  BY <1>1, <1>2

\* set_nodes_max_occurrences leaves a map whose colours follow its counts, if
\* every node has been counted once: `max` is one of the counts and no smaller
\* than any (control_flow.cpp:90-99).
THEOREM GeneratedIsShaded ==
  ASSUME NEW map, map = [a \in DOMAIN map |-> map[a]],
         \A a \in DOMAIN map : map[a] \in Node /\ map[a].occurrences # 0,
         NEW max \in LargestOccurrences(map)
  PROVE  DarkerIfHotter(WithMaxOccurrences(map, max))
<1> DEFINE new == WithMaxOccurrences(map, max)
<1>1. /\ max \in {0} \cup {map[a].occurrences : a \in DOMAIN map}
      /\ \A a \in DOMAIN map : map[a].occurrences <= max
  BY DEF LargestOccurrences
<1>2. DOMAIN new = DOMAIN map
  BY DEF WithMaxOccurrences
<1>3. ASSUME NEW a \in DOMAIN map
      PROVE  /\ max \in Nat \ {0}
             /\ new[a].occurrences \in 1 .. max
             /\ new[a].max_occurrences = max
  <2>1. map[a] \in Node /\ map[a].occurrences # 0 /\ map[a].occurrences <= max
    BY <1>1
  <2>2. max \in Nat
    BY <1>1 DEF Node
  <2>3. new[a] = [map[a] EXCEPT !.max_occurrences = max]
    BY DEF WithMaxOccurrences
  <2> QED
    BY <2>1, <2>2, <2>3 DEF Node
<1> HIDE DEF new
<1>4. SUFFICES ASSUME NEW a \in DOMAIN map, NEW b \in DOMAIN map,
                      ~NoBranching(new[a]), ~NoBranching(new[b])
               PROVE  /\ new[a].occurrences <= new[b].occurrences => Color(new[a]) <= Color(new[b])
                      /\ new[b].occurrences = new[b].max_occurrences
                           /\ new[b].max_occurrences # 1 => Color(new[b]) = 9
  BY <1>2 DEF DarkerIfHotter, new
<1>5. /\ Color(new[a]) = PickColor(max, new[a].occurrences)
      /\ Color(new[b]) = PickColor(max, new[b].occurrences)
  BY <1>3, <1>4 DEF Color
<1>6. new[a].occurrences <= new[b].occurrences => Color(new[a]) <= Color(new[b])
  BY <1>3, <1>5, ShadeFollowsCount
<1>7. new[b].occurrences = max /\ max # 1 => Color(new[b]) = 9
  BY <1>3, <1>5, ShadeFollowsCount
<1> QED
  BY <1>3, <1>6, <1>7

=============================================================================
