--------------------------- MODULE Serial_proofs ---------------------------
(***************************************************************************)
(* Proofs about Serial, for every size of the texts and of the region, any *)
(* instructions traced and any deaths between two memcpys: what read()     *)
(* makes of what write() left.  The module goes from the bytes up: offsets,*)
(* then what is laid out where (Laid) and what a memory holds (Holds), then*)
(* the readers, each given back what its writer placed, and last the runs. *)
(* write() and read() are loops, so their facts are proved by induction    *)
(* over how far the loop has come, as membership in a set of numbers.      *)
(***************************************************************************)
EXTENDS Serial, ControlFlow_proofs, FiniteSetTheorems, WellFoundedInduction

-----------------------------------------------------------------------------
(* Induction over the natural numbers, for sets *)

\* From the well-founded order of finite sets by inclusion.
LEMMA NatLeast ==
  ASSUME NEW S \in SUBSET Nat, S # {}
  PROVE  \E n \in S : \A m \in S : n <= m
<1> DEFINE T == {0 .. k : k \in S}
<1>1. T \subseteq FiniteSubsetsOf(Nat) /\ T # {}
  <2>1. \A k \in S : 0 .. k \in SUBSET Nat /\ IsFiniteSet(0 .. k)
    BY FS_Interval
  <2> QED
    BY <2>1 DEF FiniteSubsetsOf
<1>2. PICK x \in T : \A y \in T : ~ (<<y, x>> \in StrictSubsetOrdering(Nat))
  BY <1>1, FS_StrictSubsetOrderingWellFounded, WFMin
<1>3. PICK n \in S : x = 0 .. n
  BY <1>2
<1>4. ASSUME NEW m \in S, m < n
      PROVE  FALSE
  <2>1. 0 .. m \in T /\ 0 .. m \subseteq 0 .. n /\ 0 .. m # 0 .. n
    BY <1>4
  <2>2. 0 .. m \in SUBSET Nat /\ 0 .. n \in SUBSET Nat
    OBVIOUS
  <2> QED
    BY <2>1, <2>2, <1>2, <1>3 DEF StrictSubsetOrdering
<1> QED
  BY <1>4

LEMMA Induction ==
  ASSUME NEW S, 0 \in S, \A n \in Nat : n \in S => n + 1 \in S
  PROVE  \A n \in Nat : n \in S
<1> DEFINE R == {n \in Nat : n \notin S}
<1> SUFFICES ASSUME R # {}
             PROVE  FALSE
  OBVIOUS
<1>1. PICK n \in R : \A m \in R : n <= m
  BY NatLeast
<1>2. n # 0 /\ n - 1 \in Nat /\ n - 1 \notin R
  BY <1>1
<1> QED
  BY <1>1, <1>2

\* What a recursive definition over 0 .. n asks of f; step[i] makes the i-th
\* value of the one before it.
Steps(f, base, step, n) ==
  f[0] = base /\ \A i \in 1 .. n : f[i] = step[i][f[i - 1]]

\* Every such definition has a solution.
LEMMA Recursion ==
  ASSUME NEW V, NEW base \in V, NEW n \in Nat, NEW step,
         \A i \in 1 .. n : step[i] \in [V -> V]
  PROVE  \E f \in [0 .. n -> V] : Steps(f, base, step, n)
<1> DEFINE S == {k \in Nat : k <= n => \E f \in [0 .. k -> V] : Steps(f, base, step, k)}
<1>1. 0 \in S
  <2>1. PICK f \in [0 .. 0 -> V] : f = [i \in 0 .. 0 |-> base]
    OBVIOUS
  <2> QED
    BY <2>1 DEF Steps
<1>2. ASSUME NEW k \in Nat, k \in S
      PROVE  k + 1 \in S
  <2> SUFFICES ASSUME k + 1 <= n
               PROVE  \E f \in [0 .. k + 1 -> V] : Steps(f, base, step, k + 1)
    OBVIOUS
  <2>1. PICK f \in [0 .. k -> V] : Steps(f, base, step, k)
    BY <1>2
  <2> DEFINE g == [i \in 0 .. k + 1 |-> IF i = k + 1 THEN step[k + 1][f[k]] ELSE f[i]]
  <2>2. step[k + 1][f[k]] \in V
    <3>1. k + 1 \in 1 .. n /\ f[k] \in V
      OBVIOUS
    <3>2. step[k + 1] \in [V -> V]
      BY <3>1
    <3> QED
      BY <3>1, <3>2
  <2>3. g \in [0 .. k + 1 -> V]
    BY <2>2
  <2>4. Steps(g, base, step, k + 1)
    BY <2>1 DEF Steps
  <2> QED
    BY <2>3, <2>4
<1>3. n \in S
  <2> HIDE DEF S
  <2> QED
    BY <1>1, <1>2, Induction
<1> QED
  BY <1>3

-----------------------------------------------------------------------------
(* Sequences *)

LEMMA EmptySequence ==
  ASSUME NEW S, NEW s \in Seq(S), Len(s) = 0
  PROVE  s = <<>>
OBVIOUS

LEMMA SequenceOf ==
  ASSUME NEW S, NEW n \in Nat, NEW f, f = [i \in 1 .. n |-> f[i]],
         \A i \in 1 .. n : f[i] \in S
  PROVE  f \in Seq(S) /\ Len(f) = n
OBVIOUS

-----------------------------------------------------------------------------
(* Offsets *)

\* The recursive function is one: each offset is the end of the thing before.
LEMMA OffsetsStep ==
  ASSUME NEW sizes \in Seq(Nat)
  PROVE  /\ Offsets(sizes) \in [0 .. Len(sizes) -> Nat]
         /\ Offsets(sizes)[0] = 0
         /\ \A i \in 1 .. Len(sizes) : Offsets(sizes)[i] = Offsets(sizes)[i - 1] + sizes[i]
<1>0. PICK n \in Nat : n = Len(sizes)
  OBVIOUS
<1> DEFINE step == [i \in 1 .. n |-> [size \in Nat |-> size + sizes[i]]]
<1>1. \A i \in 1 .. n : step[i] \in [Nat -> Nat]
  <2>1. \A i \in 1 .. n : \A size \in Nat : size + sizes[i] \in Nat
    BY <1>0
  <2> QED
    BY <2>1
<1>2. PICK f \in [0 .. n -> Nat] : Steps(f, 0, step, n)
  <2> HIDE DEF step
  <2> QED
    BY <1>1, Recursion
<1>3. ASSUME NEW i \in 1 .. n
      PROVE  f[i] = f[i - 1] + sizes[i]
  <2>1. f[i - 1] \in Nat
    OBVIOUS
  <2> QED
    BY <1>2, <2>1 DEF Steps
<1>4. f = [i \in 0 .. n |-> IF i = 0 THEN 0 ELSE f[i - 1] + sizes[i]]
  BY <1>2, <1>3 DEF Steps
<1> DEFINE to == Offsets(sizes)
<1>5. to = [i \in 0 .. n |-> IF i = 0 THEN 0 ELSE to[i - 1] + sizes[i]]
  BY <1>0, <1>4 DEF Offsets
<1> HIDE DEF to
<1>6. /\ to[0] = 0
      /\ \A i \in 1 .. n : to[i] = to[i - 1] + sizes[i]
  <2>1. \A i \in 0 .. n : to[i] = IF i = 0 THEN 0 ELSE to[i - 1] + sizes[i]
    BY <1>5
  <2> QED
    BY <2>1
<1> DEFINE S == {i \in Nat : i <= n => to[i] \in Nat}
<1>7. 0 \in S
  BY <1>6
<1>8. ASSUME NEW i \in Nat, i \in S
      PROVE  i + 1 \in S
  <2> SUFFICES ASSUME i + 1 <= n
               PROVE  to[i + 1] \in Nat
    OBVIOUS
  <2>1. i + 1 \in 1 .. n /\ (i + 1) - 1 = i /\ to[i] \in Nat /\ sizes[i + 1] \in Nat
    BY <1>0, <1>8
  <2>2. to[i + 1] = to[(i + 1) - 1] + sizes[i + 1]
    BY <1>6, <2>1
  <2> QED
    BY <2>1, <2>2
<1>9. \A i \in Nat : i \in S
  <2> HIDE DEF S
  <2> QED
    BY <1>7, <1>8, Induction
<1>10. to \in [0 .. n -> Nat]
  <2>1. \A i \in 0 .. n : to[i] \in Nat
    BY <1>9
  <2> QED
    BY <1>5, <2>1
<1> QED
  BY <1>0, <1>6, <1>10 DEF to

\* Nothing begins before the end of what lies in front of it.
LEMMA OffsetsGrow ==
  ASSUME NEW sizes \in Seq(Nat), NEW i \in 0 .. Len(sizes), NEW j \in i .. Len(sizes)
  PROVE  Offsets(sizes)[i] <= Offsets(sizes)[j]
<1> DEFINE to == Offsets(sizes)
<1> DEFINE S == {k \in Nat : i + k <= Len(sizes) => to[i] <= to[i + k]}
<1>1. /\ \A k \in 0 .. Len(sizes) : to[k] \in Nat
      /\ \A k \in 1 .. Len(sizes) : to[k] = to[k - 1] + sizes[k]
  BY OffsetsStep
<1> HIDE DEF to
<1>2. 0 \in S
  BY <1>1
<1>3. ASSUME NEW k \in Nat, k \in S
      PROVE  k + 1 \in S
  <2> SUFFICES ASSUME i + (k + 1) <= Len(sizes)
               PROVE  to[i] <= to[i + (k + 1)]
    OBVIOUS
  <2>1. i + (k + 1) \in 1 .. Len(sizes) /\ (i + (k + 1)) - 1 = i + k /\ i + k \in 0 .. Len(sizes)
    OBVIOUS
  <2>2. to[i + (k + 1)] = to[i + k] + sizes[i + (k + 1)]
    BY <1>1, <2>1
  <2>3. to[i] <= to[i + k] /\ sizes[i + (k + 1)] \in Nat /\ to[i] \in Nat /\ to[i + k] \in Nat
    BY <1>1, <1>3, <2>1
  <2> QED
    BY <2>2, <2>3
<1>4. \A k \in Nat : k \in S
  <2> HIDE DEF S
  <2> QED
    BY <1>2, <1>3, Induction
<1>5. PICK k \in Nat : i + k = j
  <2>1. j - i \in Nat /\ i + (j - i) = j
    OBVIOUS
  <2> QED
    BY <2>1
<1>6. to[i] <= to[i + k]
  <2>1. k \in S /\ i + k <= Len(sizes)
    BY <1>4, <1>5
  <2> QED
    BY <2>1
<1> QED
  BY <1>5, <1>6 DEF to

LEMMA TotalIsNat ==
  ASSUME NEW sizes \in Seq(Nat)
  PROVE  Total(sizes) \in Nat
<1>1. Len(sizes) \in 0 .. Len(sizes)
  OBVIOUS
<1> QED
  BY <1>1, OffsetsStep DEF Total

-----------------------------------------------------------------------------
(* Fields, and copies of them *)

\* No field is empty, so that no two begin at one place.
LEMMA FieldSizeIsPositive ==
  ASSUME NEW field \in AnyField
  PROVE  FieldSize(field) \in Nat /\ FieldSize(field) # 0
BY SerialAssumption DEF AnyField, FieldSize, ContentSize, ApiReporterSize, Content

Copies == [at : Nat, field : AnyField]

\* Copies from lo up to hi, each behind those before it.
Laid(cs, lo, hi) ==
  /\ cs \in Seq(Copies)
  /\ lo \in Nat /\ hi \in Nat /\ lo <= hi
  /\ \A i \in 1 .. Len(cs) :
       lo <= cs[i].at /\ cs[i].at + FieldSize(cs[i].field) <= hi
  /\ \A i, j \in 1 .. Len(cs) :
       i < j => cs[i].at + FieldSize(cs[i].field) <= cs[j].at

\* The memory m holds what the copies put there.
Holds(m, cs) ==
  \A i \in 1 .. Len(cs) : cs[i].at \in DOMAIN m /\ m[cs[i].at] = cs[i].field

\* Copies laid behind copies.
LEMMA LaidBehind ==
  ASSUME NEW cs, NEW ds, NEW lo, NEW mid, NEW hi, Laid(cs, lo, mid), Laid(ds, mid, hi)
  PROVE  Laid(cs \o ds, lo, hi)
<1>1. cs \in Seq(Copies) /\ ds \in Seq(Copies) /\ cs \o ds \in Seq(Copies)
  BY DEF Laid
<1> DEFINE all == cs \o ds
           End(c) == c.at + FieldSize(c.field)
<1>2. /\ \A c \in Copies : c.at \in Nat /\ End(c) \in Nat
      /\ lo \in Nat /\ mid \in Nat /\ hi \in Nat /\ lo <= mid /\ mid <= hi
  BY FieldSizeIsPositive DEF Copies, Laid
<1>3. /\ \A i \in 1 .. Len(cs) : cs[i] \in Copies /\ lo <= cs[i].at /\ End(cs[i]) <= mid
      /\ \A i \in 1 .. Len(ds) : ds[i] \in Copies /\ mid <= ds[i].at /\ End(ds[i]) <= hi
      /\ \A i, j \in 1 .. Len(cs) : i < j => End(cs[i]) <= cs[j].at
      /\ \A i, j \in 1 .. Len(ds) : i < j => End(ds[i]) <= ds[j].at
  BY DEF Laid
<1>4. \A i \in 1 .. Len(all) :
        \/ i \in 1 .. Len(cs) /\ all[i] = cs[i]
        \/ i > Len(cs) /\ i - Len(cs) \in 1 .. Len(ds) /\ all[i] = ds[i - Len(cs)]
  BY <1>1
<1>5. Len(cs) \in Nat
  BY <1>1
<1> HIDE DEF all, End
<1>6. ASSUME NEW i \in 1 .. Len(all)
      PROVE  lo <= all[i].at /\ End(all[i]) <= hi
  <2>1. CASE i \in 1 .. Len(cs) /\ all[i] = cs[i]
    BY <1>2, <1>3, <2>1
  <2>2. CASE i - Len(cs) \in 1 .. Len(ds) /\ all[i] = ds[i - Len(cs)]
    BY <1>2, <1>3, <2>2
  <2> QED
    BY <1>4, <2>1, <2>2
<1>7. ASSUME NEW i \in 1 .. Len(all), NEW j \in 1 .. Len(all), i < j
      PROVE  End(all[i]) <= all[j].at
  <2>1. CASE i \in 1 .. Len(cs) /\ all[i] = cs[i]
    <3>1. CASE j \in 1 .. Len(cs) /\ all[j] = cs[j]
      BY <1>3, <1>7, <2>1, <3>1
    <3>2. CASE j - Len(cs) \in 1 .. Len(ds) /\ all[j] = ds[j - Len(cs)]
      <4>1. End(cs[i]) <= mid /\ mid <= ds[j - Len(cs)].at
        BY <1>3, <2>1, <3>2
      <4>2. End(cs[i]) \in Nat /\ ds[j - Len(cs)].at \in Nat
        BY <1>2, <1>3, <2>1, <3>2
      <4> QED
        BY <1>2, <2>1, <3>2, <4>1, <4>2
    <3> QED
      BY <1>4, <3>1, <3>2
  <2>2. CASE i > Len(cs) /\ i - Len(cs) \in 1 .. Len(ds) /\ all[i] = ds[i - Len(cs)]
    <3>1. /\ j - Len(cs) \in 1 .. Len(ds) /\ all[j] = ds[j - Len(cs)]
          /\ i - Len(cs) < j - Len(cs)
      BY <1>4, <1>5, <1>7, <2>2
    <3> QED
      BY <1>3, <2>2, <3>1
  <2> QED
    BY <1>4, <2>1, <2>2
<1>8. lo <= hi
  BY <1>2
<1> QED
  BY <1>1, <1>2, <1>6, <1>7, <1>8 DEF Laid, all, End

LEMMA LaidWithin ==
  ASSUME NEW cs, NEW lo, NEW hi, NEW end \in Nat, Laid(cs, lo, hi), hi <= end
  PROVE  Laid(cs, lo, end)
<1>1. \A c \in Copies : c.at + FieldSize(c.field) \in Nat
  BY FieldSizeIsPositive DEF Copies
<1>2. \A i \in 1 .. Len(cs) :
        cs[i].at + FieldSize(cs[i].field) \in Nat /\ cs[i].at + FieldSize(cs[i].field) <= hi
  BY <1>1 DEF Laid
<1>3. hi \in Nat /\ lo \in Nat /\ lo <= hi
  BY DEF Laid
<1>4. \A i \in 1 .. Len(cs) : cs[i].at + FieldSize(cs[i].field) <= end
  <2>1. \A e \in Nat : e <= hi => e <= end
    BY <1>3
  <2> QED
    BY <1>2, <2>1
<1>5. lo <= end
  BY <1>3
<1> QED
  BY <1>4, <1>5 DEF Laid

\* A memory holds two runs of copies exactly when it holds each.
LEMMA HoldsBehind ==
  ASSUME NEW m, NEW cs \in Seq(Copies), NEW ds \in Seq(Copies)
  PROVE  Holds(m, cs \o ds) <=> Holds(m, cs) /\ Holds(m, ds)
<1> DEFINE all == cs \o ds
           At(c) == c.at \in DOMAIN m /\ m[c.at] = c.field
<1>1. \A i \in 1 .. Len(cs) : i \in 1 .. Len(all) /\ all[i] = cs[i]
  OBVIOUS
<1>2. \A i \in 1 .. Len(ds) : Len(cs) + i \in 1 .. Len(all) /\ all[Len(cs) + i] = ds[i]
  OBVIOUS
<1>3. \A i \in 1 .. Len(all) :
        \/ i \in 1 .. Len(cs) /\ all[i] = cs[i]
        \/ i - Len(cs) \in 1 .. Len(ds) /\ all[i] = ds[i - Len(cs)]
  OBVIOUS
<1> HIDE DEF all
<1>4. (\A i \in 1 .. Len(all) : At(all[i])) <=>
        (\A i \in 1 .. Len(cs) : At(cs[i])) /\ (\A i \in 1 .. Len(ds) : At(ds[i]))
  <2> HIDE DEF At
  <2> QED
    BY <1>1, <1>2, <1>3
<1> QED
  BY <1>4 DEF Holds, all

\* FlattenSeq, one sequence after the other.
LEMMA FlattenStep ==
  ASSUME NEW css \in Seq(Seq(Copies))
  PROVE  \E flat \in [0 .. Len(css) -> Seq(Copies)] :
           /\ flat[0] = <<>>
           /\ \A i \in 1 .. Len(css) : flat[i] = flat[i - 1] \o css[i]
           /\ FlattenSeq(css) = flat[Len(css)]
<1>0. PICK n \in Nat : n = Len(css)
  OBVIOUS
<1> DEFINE step == [i \in 1 .. n |-> [cs \in Seq(Copies) |-> cs \o css[i]]]
<1>1. \A i \in 1 .. n : step[i] \in [Seq(Copies) -> Seq(Copies)]
  <2>1. \A i \in 1 .. n : \A cs \in Seq(Copies) : cs \o css[i] \in Seq(Copies)
    BY <1>0
  <2> QED
    BY <2>1
<1>2. PICK f \in [0 .. n -> Seq(Copies)] : Steps(f, <<>>, step, n)
  <2>1. <<>> \in Seq(Copies)
    OBVIOUS
  <2> HIDE DEF step
  <2> QED
    BY <1>1, <2>1, Recursion
<1>3. f[0] = <<>> /\ \A i \in 1 .. n : f[i] = f[i - 1] \o css[i]
  <2>1. \A i \in 1 .. n : f[i - 1] \in Seq(Copies)
    OBVIOUS
  <2> QED
    BY <1>2, <2>1 DEF Steps
<1>4. CASE n = 0
  <2>1. FlattenSeq(css) = css
    BY <1>0, <1>4, Zenon DEF FlattenSeq
  <2>2. css = <<>>
    BY <1>0, <1>4, EmptySequence
  <2> QED
    BY <1>0, <1>3, <1>4, <2>1, <2>2
<1>5. CASE n # 0
  <2> DEFINE g == [i \in 1 .. n |-> f[i]]
  <2>1. f[1] = css[1]
    <3>1. 1 \in 1 .. n /\ css[1] \in Seq(Copies) /\ f[1 - 1] = <<>>
      BY <1>0, <1>3, <1>5
    <3>2. f[1] = <<>> \o css[1]
      BY <1>3, <3>1
    <3> QED
      BY <3>1, <3>2
  <2>2. g = [i \in 1 .. n |-> IF i = 1 THEN css[i] ELSE g[i - 1] \o css[i]]
    <3>1. \A i \in 1 .. n : i # 1 => i - 1 \in 1 .. n
      OBVIOUS
    <3>2. \A i \in 1 .. n : g[i] = IF i = 1 THEN css[i] ELSE g[i - 1] \o css[i]
      BY <1>3, <2>1, <3>1
    <3> QED
      BY <3>2
  <2> HIDE DEF g
  <2>3. PICK h : /\ h = [i \in 1 .. n |-> IF i = 1 THEN css[i] ELSE h[i - 1] \o css[i]]
                 /\ FlattenSeq(css) = h[n]
    <3> DEFINE h == CHOOSE h : h = [i \in 1 .. n |-> IF i = 1 THEN css[i] ELSE h[i - 1] \o css[i]]
    <3>1. h = [i \in 1 .. n |-> IF i = 1 THEN css[i] ELSE h[i - 1] \o css[i]]
      BY <2>2
    <3>2. FlattenSeq(css) = h[n]
      BY <1>0, <1>5 DEF FlattenSeq
    <3> QED
      BY <3>1, <3>2
  <2>4. \A i \in 1 .. n : h[i] = IF i = 1 THEN css[i] ELSE h[i - 1] \o css[i]
    BY <2>3
  <2> DEFINE S == {i \in Nat : i + 1 <= n => h[i + 1] = f[i + 1]}
  <2>5. 0 \in S
    BY <1>5, <2>1, <2>4
  <2>6. ASSUME NEW i \in Nat, i \in S
        PROVE  i + 1 \in S
    <3> SUFFICES ASSUME (i + 1) + 1 <= n
                 PROVE  h[(i + 1) + 1] = f[(i + 1) + 1]
      OBVIOUS
    <3>1. /\ (i + 1) + 1 \in 1 .. n /\ (i + 1) + 1 # 1
          /\ ((i + 1) + 1) - 1 = i + 1 /\ h[i + 1] = f[i + 1]
      BY <2>6
    <3>2. /\ h[(i + 1) + 1] = h[((i + 1) + 1) - 1] \o css[(i + 1) + 1]
          /\ f[(i + 1) + 1] = f[((i + 1) + 1) - 1] \o css[(i + 1) + 1]
      BY <1>3, <2>4, <3>1
    <3> QED
      BY <3>1, <3>2
  <2>7. PICK k \in Nat : k + 1 = n
    <3>1. n - 1 \in Nat /\ (n - 1) + 1 = n
      BY <1>5
    <3> QED
      BY <3>1
  <2>8. k \in S
    <3> HIDE DEF S
    <3> QED
      BY <2>5, <2>6, Induction
  <2> QED
    BY <1>0, <1>3, <2>3, <2>7, <2>8
<1> QED
  BY <1>4, <1>5

\* Many runs of copies, the i-th from at[i - 1] to at[i].
LEMMA FlattenLaid ==
  ASSUME NEW css \in Seq(Seq(Copies)), NEW at \in [0 .. Len(css) -> Nat],
         \A i \in 1 .. Len(css) : Laid(css[i], at[i - 1], at[i])
  PROVE  Laid(FlattenSeq(css), at[0], at[Len(css)])
<1>0. PICK n \in Nat : n = Len(css)
  OBVIOUS
<1>1. PICK flat \in [0 .. n -> Seq(Copies)] :
        /\ flat[0] = <<>>
        /\ \A i \in 1 .. n : flat[i] = flat[i - 1] \o css[i]
        /\ FlattenSeq(css) = flat[n]
  BY <1>0, FlattenStep
<1> DEFINE S == {i \in Nat : i <= n => Laid(flat[i], at[0], at[i])}
<1>2. 0 \in S
  <2>1. at[0] \in Nat /\ <<>> \in Seq(Copies) /\ Len(<<>>) = 0
    BY <1>0
  <2> QED
    BY <1>1, <2>1 DEF Laid
<1>3. ASSUME NEW i \in Nat, i \in S
      PROVE  i + 1 \in S
  <2> SUFFICES ASSUME i + 1 <= n
               PROVE  Laid(flat[i + 1], at[0], at[i + 1])
    OBVIOUS
  <2>1. i + 1 \in 1 .. n /\ (i + 1) - 1 = i /\ Laid(flat[i], at[0], at[i])
    BY <1>3
  <2>2. flat[i + 1] = flat[i] \o css[i + 1] /\ Laid(css[i + 1], at[i], at[i + 1])
    BY <1>0, <1>1, <2>1
  <2> QED
    BY <2>1, <2>2, LaidBehind
<1>4. n \in S
  <2> HIDE DEF S
  <2> QED
    BY <1>2, <1>3, Induction
<1> QED
  BY <1>0, <1>1, <1>4

\* A memory holds many runs of copies exactly when it holds each.
LEMMA FlattenHolds ==
  ASSUME NEW m, NEW css \in Seq(Seq(Copies))
  PROVE  Holds(m, FlattenSeq(css)) <=> \A i \in 1 .. Len(css) : Holds(m, css[i])
<1>0. PICK n \in Nat : n = Len(css)
  OBVIOUS
<1>1. PICK flat \in [0 .. n -> Seq(Copies)] :
        /\ flat[0] = <<>>
        /\ \A i \in 1 .. n : flat[i] = flat[i - 1] \o css[i]
        /\ FlattenSeq(css) = flat[n]
  BY <1>0, FlattenStep
<1> DEFINE S == {i \in Nat : i <= n => (Holds(m, flat[i]) <=> \A j \in 1 .. i : Holds(m, css[j]))}
<1>2. 0 \in S
  BY <1>1 DEF Holds
<1>3. ASSUME NEW i \in Nat, i \in S
      PROVE  i + 1 \in S
  <2> SUFFICES ASSUME i + 1 <= n
               PROVE  Holds(m, flat[i + 1]) <=> \A j \in 1 .. i + 1 : Holds(m, css[j])
    OBVIOUS
  <2>1. /\ i + 1 \in 1 .. n /\ (i + 1) - 1 = i
        /\ Holds(m, flat[i]) <=> \A j \in 1 .. i : Holds(m, css[j])
    BY <1>3
  <2>2. flat[i + 1] = flat[i] \o css[i + 1] /\ flat[i] \in Seq(Copies) /\ css[i + 1] \in Seq(Copies)
    <3>1. flat[i + 1] = flat[(i + 1) - 1] \o css[i + 1]
      BY <1>1, <2>1
    <3>2. flat[i] \in Seq(Copies)
      <4>1. i \in 0 .. n
        BY <2>1
      <4> QED
        BY <4>1
    <3>3. css[i + 1] \in Seq(Copies)
      BY <1>0, <2>1
    <3> QED
      BY <2>1, <3>1, <3>2, <3>3
  <2>3. Holds(m, flat[i + 1]) <=> Holds(m, flat[i]) /\ Holds(m, css[i + 1])
    BY <2>2, HoldsBehind
  <2>4. \A j \in 1 .. i + 1 : j \in 1 .. i \/ j = i + 1
    OBVIOUS
  <2>5. i + 1 \in 1 .. i + 1 /\ \A j \in 1 .. i : j \in 1 .. i + 1
    OBVIOUS
  <2> QED
    BY <2>1, <2>3, <2>4, <2>5
<1>4. n \in S
  <2> HIDE DEF S
  <2> QED
    BY <1>2, <1>3, Induction
<1> QED
  BY <1>0, <1>1, <1>4

\* Fields placed one behind the other take the sum of their sizes.
LEMMA PlaceAllLaid ==
  ASSUME NEW at \in Nat, NEW fields \in Seq(AnyField)
  PROVE  /\ FieldSizes(fields) \in Seq(Nat) /\ Len(FieldSizes(fields)) = Len(fields)
         /\ Laid(PlaceAll(at, fields), at, at + Total(FieldSizes(fields)))
<1> DEFINE sizes == FieldSizes(fields)
           to == Offsets(sizes)
           cs == PlaceAll(at, fields)
<1>1. sizes \in Seq(Nat) /\ Len(sizes) = Len(fields)
  <2>1. \A i \in 1 .. Len(fields) : FieldSize(fields[i]) \in Nat
    BY FieldSizeIsPositive
  <2> QED
    BY <2>1 DEF FieldSizes
<1>2. \A i \in 1 .. Len(fields) : sizes[i] = FieldSize(fields[i])
  BY DEF FieldSizes
<1>3. /\ to \in [0 .. Len(fields) -> Nat]
      /\ to[0] = 0
      /\ \A i \in 1 .. Len(fields) : to[i] = to[i - 1] + FieldSize(fields[i])
      /\ Total(sizes) = to[Len(fields)]
  <2> HIDE DEF sizes
  <2> QED
    BY <1>1, <1>2, OffsetsStep DEF Total
<1>4. \A i, j \in 0 .. Len(fields) : i <= j => to[i] <= to[j]
  <2> SUFFICES ASSUME NEW i \in 0 .. Len(fields), NEW j \in 0 .. Len(fields), i <= j
               PROVE  to[i] <= to[j]
    OBVIOUS
  <2>1. j \in i .. Len(sizes) /\ i \in 0 .. Len(sizes)
    BY <1>1
  <2> HIDE DEF sizes
  <2> QED
    BY <1>1, <2>1, OffsetsGrow
<1> HIDE DEF to
<1>5. \A i \in 1 .. Len(fields) :
        /\ i - 1 \in 0 .. Len(fields)
        /\ at + to[i - 1] \in Nat /\ to[i - 1] \in Nat /\ to[i] \in Nat
  BY <1>3
<1>6. cs = [i \in 1 .. Len(fields) |-> [at |-> at + to[i - 1], field |-> fields[i]]]
  BY DEF PlaceAll, to
<1>7. cs \in Seq(Copies) /\ Len(cs) = Len(fields)
  BY <1>5, <1>6 DEF Copies
<1>8. \A i \in 1 .. Len(cs) :
        /\ cs[i].at = at + to[i - 1] /\ cs[i].field = fields[i]
        /\ cs[i].at + FieldSize(cs[i].field) = at + to[i]
  <2>1. \A i \in 1 .. Len(fields) : cs[i].at = at + to[i - 1] /\ cs[i].field = fields[i]
    BY <1>6
  <2>2. \A i \in 1 .. Len(fields) : FieldSize(fields[i]) \in Nat
    BY FieldSizeIsPositive
  <2>3. \A i \in 1 .. Len(fields) : (at + to[i - 1]) + FieldSize(fields[i]) = at + to[i]
    BY <1>3, <1>5, <2>2
  <2> QED
    BY <1>7, <2>1, <2>3
<1> HIDE DEF cs
<1>9. Total(sizes) \in Nat /\ 0 \in 0 .. Len(fields) /\ Len(fields) \in 0 .. Len(fields)
  BY <1>3
<1>10. ASSUME NEW i \in 1 .. Len(cs)
       PROVE  at <= cs[i].at /\ cs[i].at + FieldSize(cs[i].field) <= at + Total(sizes)
  <2>1. i \in 0 .. Len(fields) /\ to[i] <= to[Len(fields)]
    BY <1>4, <1>7, <1>9
  <2>2. to[i] \in Nat /\ to[i - 1] \in Nat /\ to[Len(fields)] \in Nat
    BY <1>3, <1>5, <1>7, <1>9
  <2> QED
    BY <1>3, <1>8, <2>1, <2>2
<1>11. ASSUME NEW i \in 1 .. Len(cs), NEW j \in 1 .. Len(cs), i < j
       PROVE  cs[i].at + FieldSize(cs[i].field) <= cs[j].at
  <2>1. i \in 0 .. Len(fields) /\ j - 1 \in 0 .. Len(fields) /\ i <= j - 1
    BY <1>7, <1>11
  <2>2. to[i] <= to[j - 1] /\ to[i] \in Nat /\ to[j - 1] \in Nat
    BY <1>3, <1>4, <2>1
  <2> QED
    BY <1>8, <2>2
<1>12. at <= at + Total(sizes) /\ at + Total(sizes) \in Nat
  BY <1>9
<1> QED
  BY <1>1, <1>7, <1>10, <1>11, <1>12 DEF Laid, cs

-----------------------------------------------------------------------------
(* What write() lays out *)

\* The sums that fixed lists of fields come to.
LEMMA TotalOfFew ==
  ASSUME NEW s \in Seq(Nat)
  PROVE  /\ Len(s) = 2 => Total(s) = s[1] + s[2]
         /\ Len(s) = 4 => Total(s) = s[1] + s[2] + s[3] + s[4]
         /\ Len(s) = 5 => Total(s) = s[1] + s[2] + s[3] + s[4] + s[5]
         /\ Len(s) = 7 => Total(s) = s[1] + s[2] + s[3] + s[4] + s[5] + s[6] + s[7]
<1> DEFINE to == Offsets(s)
<1>1. /\ to[0] = 0 /\ Total(s) = to[Len(s)] /\ Len(s) \in Nat
      /\ \A i \in 1 .. Len(s) : to[i] = to[i - 1] + s[i] /\ s[i] \in Nat
  BY OffsetsStep DEF Total
<1> HIDE DEF to
<1>2. Len(s) >= 2 => to[2] = s[1] + s[2]
  <2> SUFFICES ASSUME Len(s) >= 2
               PROVE  to[2] = s[1] + s[2]
    OBVIOUS
  <2>1. to[1] = to[0] + s[1] /\ to[2] = to[1] + s[2] /\ s[1] \in Nat
    BY <1>1
  <2> QED
    BY <1>1, <2>1
<1>3. Len(s) >= 4 => to[4] = s[1] + s[2] + s[3] + s[4]
  <2> SUFFICES ASSUME Len(s) >= 4
               PROVE  to[4] = s[1] + s[2] + s[3] + s[4]
    OBVIOUS
  <2>1. to[3] = to[2] + s[3] /\ to[4] = to[3] + s[4]
    BY <1>1
  <2> QED
    BY <1>1, <1>2, <2>1
<1>4. Len(s) >= 5 => to[5] = s[1] + s[2] + s[3] + s[4] + s[5]
  <2> SUFFICES ASSUME Len(s) >= 5
               PROVE  to[5] = s[1] + s[2] + s[3] + s[4] + s[5]
    OBVIOUS
  <2>1. to[5] = to[4] + s[5]
    BY <1>1
  <2> QED
    BY <1>1, <1>3, <2>1
<1>5. Len(s) >= 7 => to[7] = s[1] + s[2] + s[3] + s[4] + s[5] + s[6] + s[7]
  <2> SUFFICES ASSUME Len(s) >= 7
               PROVE  to[7] = s[1] + s[2] + s[3] + s[4] + s[5] + s[6] + s[7]
    OBVIOUS
  <2>1. to[6] = to[5] + s[6] /\ to[7] = to[6] + s[7]
    BY <1>1
  <2> QED
    BY <1>1, <1>4, <2>1
<1>6. /\ Len(s) = 2 => Total(s) = to[2]
      /\ Len(s) = 4 => Total(s) = to[4]
      /\ Len(s) = 5 => Total(s) = to[5]
      /\ Len(s) = 7 => Total(s) = to[7]
  BY <1>1
<1>7. Len(s) = 5 => Total(s) = s[1] + s[2] + s[3] + s[4] + s[5]
  BY <1>4, <1>6
<1>8. Len(s) = 7 => Total(s) = s[1] + s[2] + s[3] + s[4] + s[5] + s[6] + s[7]
  BY <1>5, <1>6
<1> QED
  BY <1>2, <1>3, <1>6, <1>7, <1>8

\* An instruction takes what its mem_size() says, terminators included.
LEMMA InstructionLaid ==
  ASSUME NEW ins \in StoredInstruction, NEW at \in Nat
  PROVE  /\ InstructionMemSize(ins) \in Nat
         /\ InstructionFields(ins) \in Seq(AnyField)
         /\ Laid(PlaceAll(at, InstructionFields(ins)), at, at + InstructionMemSize(ins))
<1> DEFINE fields == InstructionFields(ins)
<1>1. fields \in Seq(AnyField) /\ Len(fields) = 7
  BY DEF InstructionFields, Number, Field, AnyField, StoredInstruction
<1>2. /\ Word \in Nat
      /\ ContentSize(ins.content) \in Nat /\ ApiReporterSize(ins.api_reporter) \in Nat
  BY SerialAssumption DEF ContentSize, ApiReporterSize, StoredInstruction, Content
<1>3. /\ FieldSize(fields[1]) = Word /\ FieldSize(fields[2]) = Word
      /\ FieldSize(fields[3]) = Word /\ FieldSize(fields[4]) = Word
      /\ FieldSize(fields[5]) = ContentSize(ins.content)
      /\ FieldSize(fields[6]) = ApiReporterSize(ins.api_reporter)
      /\ FieldSize(fields[7]) = Word
  BY DEF InstructionFields, Number, Field, FieldSize
<1>4. \A i \in 1 .. 7 : FieldSizes(fields)[i] = FieldSize(fields[i])
  BY <1>1 DEF FieldSizes
<1> HIDE DEF fields
<1>5. FieldSizes(fields) \in Seq(Nat) /\ Len(FieldSizes(fields)) = 7
  BY <1>1, PlaceAllLaid
<1>6. Total(FieldSizes(fields)) = InstructionMemSize(ins)
  <2>1. Total(FieldSizes(fields)) =
          Word + Word + Word + Word + ContentSize(ins.content)
            + ApiReporterSize(ins.api_reporter) + Word
    BY <1>3, <1>4, <1>5, TotalOfFew
  <2> QED
    BY <1>2, <2>1 DEF InstructionMemSize
<1>7. InstructionMemSize(ins) \in Nat
  BY <1>2 DEF InstructionMemSize
<1> QED
  BY <1>1, <1>6, <1>7, PlaceAllLaid DEF fields

\* A block takes the sum over its instructions.
LEMMA BlockLaid ==
  ASSUME NEW block \in Seq(StoredInstruction), NEW at \in Nat
  PROVE  /\ BlockSizes(block) \in Seq(Nat) /\ Len(BlockSizes(block)) = Len(block)
         /\ \A i \in 1 .. Len(block) : BlockSizes(block)[i] = InstructionMemSize(block[i])
         /\ [i \in DOMAIN block |->
               PlaceAll(at + Offsets(BlockSizes(block))[i - 1], InstructionFields(block[i]))]
              \in Seq(Seq(Copies))
         /\ Laid(WriteBlock(at, block), at, at + Total(BlockSizes(block)))
<1> DEFINE n     == Len(block)
           sizes == BlockSizes(block)
           to    == Offsets(sizes)
           ends  == [i \in 0 .. n |-> at + to[i]]
           css   == [i \in DOMAIN block |->
                       PlaceAll(at + to[i - 1], InstructionFields(block[i]))]
<1>0. n \in Nat /\ DOMAIN block = 1 .. n /\ \A i \in 1 .. n : block[i] \in StoredInstruction
  OBVIOUS
<1>1. /\ sizes \in Seq(Nat) /\ Len(sizes) = n
      /\ \A i \in 1 .. n : sizes[i] = InstructionMemSize(block[i])
  <2>1. \A i \in 1 .. n : InstructionMemSize(block[i]) \in Nat
    BY InstructionLaid, <1>0
  <2> QED
    BY <1>0, <2>1 DEF BlockSizes
<1>2. /\ to \in [0 .. n -> Nat] /\ to[0] = 0 /\ Total(sizes) = to[n]
      /\ \A i \in 1 .. n : to[i] = to[i - 1] + sizes[i]
  <2> HIDE DEF sizes
  <2> QED
    BY <1>1, OffsetsStep DEF Total
<1> HIDE DEF n, sizes, to
<1>3. ASSUME NEW i \in 1 .. n
      PROVE  Laid(css[i], ends[i - 1], ends[i])
  <2>1. /\ to[i - 1] \in Nat /\ to[i] = to[i - 1] + InstructionMemSize(block[i])
        /\ block[i] \in StoredInstruction /\ i - 1 \in 0 .. n /\ i \in 0 .. n
    BY <1>0, <1>1, <1>2
  <2>2. InstructionMemSize(block[i]) \in Nat
    BY <2>1, InstructionLaid
  <2>3. /\ at + to[i - 1] \in Nat
        /\ (at + to[i - 1]) + InstructionMemSize(block[i]) = at + to[i]
    BY <2>1, <2>2
  <2>4. Laid(PlaceAll(at + to[i - 1], InstructionFields(block[i])),
             at + to[i - 1], (at + to[i - 1]) + InstructionMemSize(block[i]))
    BY <2>1, <2>3, InstructionLaid
  <2>5. /\ css[i] = PlaceAll(at + to[i - 1], InstructionFields(block[i]))
        /\ ends[i - 1] = at + to[i - 1] /\ ends[i] = at + to[i]
    BY <1>0, <2>1
  <2> QED
    BY <2>3, <2>4, <2>5
<1>4. ends \in [0 .. n -> Nat]
  BY <1>2
<1>5. css \in Seq(Seq(Copies)) /\ Len(css) = n
  <2>1. \A i \in 1 .. n : css[i] \in Seq(Copies)
    BY <1>3 DEF Laid
  <2>2. css = [i \in 1 .. n |-> css[i]]
    BY <1>0
  <2> HIDE DEF css
  <2> QED
    BY <1>0, <2>1, <2>2, SequenceOf
<1>6. ends[0] = at /\ ends[n] = at + Total(sizes)
  BY <1>0, <1>2
<1>7. WriteBlock(at, block) = FlattenSeq(css)
  BY DEF WriteBlock, to, sizes
<1>8. Laid(FlattenSeq(css), ends[0], ends[n])
  <2> HIDE DEF css, ends
  <2> QED
    BY <1>3, <1>4, <1>5, FlattenLaid
<1> QED
  BY <1>1, <1>5, <1>6, <1>7, <1>8 DEF n, sizes, to

\* A node takes no more than its mem_size() says: a word for each instruction is
\* never written.
LEMMA NodeLaid ==
  ASSUME NEW key \in Nat, NEW node \in StoredNode, NEW at \in Nat
  PROVE  /\ NodeMemSize(node) \in Nat
         /\ HeadFields(key, node) \in Seq(AnyField) /\ Len(HeadFields(key, node)) = 4
         /\ TailFields(node) \in Seq(AnyField) /\ Len(TailFields(node)) = 5
         /\ Total(FieldSizes(HeadFields(key, node))) = 4 * Word
         /\ Laid(WriteNode(at, key, node), at, at + (Word + NodeMemSize(node)))
<1> DEFINE head  == HeadFields(key, node)
           tail  == TailFields(node)
           block == node.block
           total == Total(BlockSizes(block))
           body  == at + 4 * Word
<1>0. block \in Seq(StoredInstruction) /\ Len(block) \in Nat
  BY DEF StoredNode
<1>1. /\ head \in Seq(AnyField) /\ Len(head) = 4 /\ tail \in Seq(AnyField) /\ Len(tail) = 5
  BY <1>0 DEF HeadFields, TailFields, Number, Field, AnyField, StoredNode
<1>2. /\ FieldSize(head[1]) = Word /\ FieldSize(head[2]) = Word
      /\ FieldSize(head[3]) = Word /\ FieldSize(head[4]) = Word
      /\ FieldSize(tail[1]) = 1 /\ FieldSize(tail[2]) = Word /\ FieldSize(tail[3]) = Word
      /\ FieldSize(tail[4]) = Word /\ FieldSize(tail[5]) = Word
  BY DEF HeadFields, TailFields, Number, Field, FieldSize
<1>3. /\ \A i \in 1 .. 4 : FieldSizes(head)[i] = FieldSize(head[i])
      /\ \A i \in 1 .. 5 : FieldSizes(tail)[i] = FieldSize(tail[i])
  BY <1>1 DEF FieldSizes
<1>4. Word \in Nat /\ body \in Nat
  BY SerialAssumption
<1> HIDE DEF head, tail
<1>5. /\ FieldSizes(head) \in Seq(Nat) /\ Len(FieldSizes(head)) = 4
      /\ FieldSizes(tail) \in Seq(Nat) /\ Len(FieldSizes(tail)) = 5
  BY <1>1, PlaceAllLaid
<1>6. Total(FieldSizes(head)) = 4 * Word /\ Total(FieldSizes(tail)) = 1 + 4 * Word
  <2>1. Total(FieldSizes(head)) = Word + Word + Word + Word
    BY <1>2, <1>3, <1>5, TotalOfFew
  <2>2. Total(FieldSizes(tail)) = 1 + Word + Word + Word + Word
    BY <1>2, <1>3, <1>5, TotalOfFew
  <2> QED
    BY <1>4, <2>1, <2>2
<1>7. total \in Nat /\ Laid(WriteBlock(body, block), body, body + total)
  <2>1. BlockSizes(block) \in Seq(Nat)
    BY <1>0, <1>4, BlockLaid
  <2> QED
    BY <1>0, <1>4, <2>1, BlockLaid, TotalIsNat
<1>8. Laid(PlaceAll(at, head), at, body)
  BY <1>1, <1>6, PlaceAllLaid
<1>9. Laid(PlaceAll(body + total, tail), body + total, body + total + (1 + 4 * Word))
  <2>1. body + total \in Nat
    BY <1>4, <1>7
  <2> QED
    BY <1>1, <1>6, <2>1, PlaceAllLaid
<1> DEFINE cs == PlaceAll(at, head) \o WriteBlock(body, block) \o PlaceAll(body + total, tail)
<1>10. Laid(cs, at, body + total + (1 + 4 * Word))
  <2> HIDE DEF body, total
  <2>1. Laid(PlaceAll(at, head) \o WriteBlock(body, block), at, body + total)
    BY <1>7, <1>8, LaidBehind
  <2> QED
    BY <1>9, <2>1, LaidBehind
<1>11. cs = WriteNode(at, key, node)
  BY DEF WriteNode, head, tail
<1>12. Word * Len(block) \in Nat /\ NodeMemSize(node) = 7 * Word + 1 + Word * Len(block) + total
  BY <1>0, <1>4 DEF NodeMemSize
<1>13. /\ NodeMemSize(node) \in Nat
       /\ at + (Word + NodeMemSize(node)) \in Nat
       /\ body + total + (1 + 4 * Word) <= at + (Word + NodeMemSize(node))
  <2> DEFINE gap == Word * Len(block)
  <2>1. gap \in Nat /\ NodeMemSize(node) = 7 * Word + 1 + gap + total
    BY <1>12
  <2> HIDE DEF gap, total
  <2> QED
    BY <1>4, <1>7, <2>1
<1>14. Laid(cs, at, at + (Word + NodeMemSize(node)))
  <2> HIDE DEF cs, total, body
  <2> QED
    BY <1>10, <1>13, LaidWithin
<1> QED
  BY <1>1, <1>6, <1>11, <1>13, <1>14 DEF head, tail

\* The nodes of a map one behind the other, in any order of the keys.
LEMMA NodesLaid ==
  ASSUME NEW map, map \in [DOMAIN map -> StoredNode], DOMAIN map \subseteq Nat,
         NEW keys \in Seq(DOMAIN map), NEW at \in Nat
  PROVE  /\ NodeSizes(map, keys) \in Seq(Nat) /\ Len(NodeSizes(map, keys)) = Len(keys)
         /\ \A i \in 1 .. Len(keys) :
              NodeSizes(map, keys)[i] = Word + NodeMemSize(map[keys[i]])
         /\ [i \in DOMAIN keys |->
               WriteNode(at + Offsets(NodeSizes(map, keys))[i - 1], keys[i], map[keys[i]])]
              \in Seq(Seq(Copies))
         /\ Laid(WriteNodes(at, map, keys), at, at + Total(NodeSizes(map, keys)))
<1> DEFINE n     == Len(keys)
           sizes == NodeSizes(map, keys)
           to    == Offsets(sizes)
           ends  == [i \in 0 .. n |-> at + to[i]]
           css   == [i \in DOMAIN keys |-> WriteNode(at + to[i - 1], keys[i], map[keys[i]])]
<1>0. /\ n \in Nat /\ DOMAIN keys = 1 .. n
      /\ \A i \in 1 .. n : keys[i] \in Nat /\ map[keys[i]] \in StoredNode
  OBVIOUS
<1>1. /\ sizes \in Seq(Nat) /\ Len(sizes) = n
      /\ \A i \in 1 .. n : sizes[i] = Word + NodeMemSize(map[keys[i]])
  <2>1. \A i \in 1 .. n : Word + NodeMemSize(map[keys[i]]) \in Nat
    <3>1. \A i \in 1 .. n : NodeMemSize(map[keys[i]]) \in Nat
      BY NodeLaid, <1>0
    <3> QED
      BY <3>1, SerialAssumption
  <2> QED
    BY <1>0, <2>1 DEF NodeSizes
<1>2. /\ to \in [0 .. n -> Nat] /\ to[0] = 0 /\ Total(sizes) = to[n]
      /\ \A i \in 1 .. n : to[i] = to[i - 1] + sizes[i]
  <2> HIDE DEF sizes
  <2> QED
    BY <1>1, OffsetsStep DEF Total
<1> HIDE DEF n, sizes, to
<1>3. ASSUME NEW i \in 1 .. n
      PROVE  Laid(css[i], ends[i - 1], ends[i])
  <2>1. /\ to[i - 1] \in Nat /\ to[i] = to[i - 1] + (Word + NodeMemSize(map[keys[i]]))
        /\ keys[i] \in Nat /\ map[keys[i]] \in StoredNode /\ i - 1 \in 0 .. n /\ i \in 0 .. n
    BY <1>0, <1>1, <1>2
  <2>2. Word + NodeMemSize(map[keys[i]]) \in Nat
    <3>1. NodeMemSize(map[keys[i]]) \in Nat
      BY <2>1, NodeLaid
    <3> QED
      BY <3>1, SerialAssumption
  <2>3. /\ at + to[i - 1] \in Nat
        /\ (at + to[i - 1]) + (Word + NodeMemSize(map[keys[i]])) = at + to[i]
    BY <2>1, <2>2
  <2>4. Laid(WriteNode(at + to[i - 1], keys[i], map[keys[i]]), at + to[i - 1],
             (at + to[i - 1]) + (Word + NodeMemSize(map[keys[i]])))
    BY <2>1, <2>3, NodeLaid
  <2>5. /\ css[i] = WriteNode(at + to[i - 1], keys[i], map[keys[i]])
        /\ ends[i - 1] = at + to[i - 1] /\ ends[i] = at + to[i]
    BY <1>0, <2>1
  <2> QED
    BY <2>3, <2>4, <2>5
<1>4. ends \in [0 .. n -> Nat]
  BY <1>2
<1>5. css \in Seq(Seq(Copies)) /\ Len(css) = n
  <2>1. \A i \in 1 .. n : css[i] \in Seq(Copies)
    BY <1>3 DEF Laid
  <2>2. css = [i \in 1 .. n |-> css[i]]
    BY <1>0
  <2> HIDE DEF css
  <2> QED
    BY <1>0, <2>1, <2>2, SequenceOf
<1>6. ends[0] = at /\ ends[n] = at + Total(sizes)
  BY <1>0, <1>2
<1>7. WriteNodes(at, map, keys) = FlattenSeq(css)
  BY DEF WriteNodes, to, sizes
<1>8. Laid(FlattenSeq(css), ends[0], ends[n])
  <2> HIDE DEF css, ends
  <2> QED
    BY <1>3, <1>4, <1>5, FlattenLaid
<1> QED
  BY <1>1, <1>5, <1>6, <1>7, <1>8 DEF n, sizes, to

-----------------------------------------------------------------------------
(* The order of the keys, and the whole graph *)

Increasing(f) == \A i, j \in DOMAIN f : i < j => f[i] < f[j]

\* A finite set of numbers has an order, so Keys chooses something.
LEMMA SortedExists ==
  ASSUME NEW n \in Nat
  PROVE  \A T \in SUBSET Nat : IsFiniteSet(T) /\ Cardinality(T) = n =>
           \E f \in [1 .. n -> T] : Increasing(f)
<1> DEFINE Sorted(k) == \A T \in SUBSET Nat : IsFiniteSet(T) /\ Cardinality(T) = k =>
                          \E f \in [1 .. k -> T] : Increasing(f)
           S == {k \in Nat : Sorted(k)}
<1>1. 0 \in S
  <2> SUFFICES ASSUME NEW T \in SUBSET Nat
               PROVE  \E f \in [1 .. 0 -> T] : Increasing(f)
    OBVIOUS
  <2>1. \E f \in [1 .. 0 -> T] : DOMAIN f = {}
    <3>1. [i \in 1 .. 0 |-> 0] \in [1 .. 0 -> T] /\ DOMAIN [i \in 1 .. 0 |-> 0] = {}
      OBVIOUS
    <3> QED
      BY <3>1
  <2> QED
    BY <2>1 DEF Increasing
<1>2. ASSUME NEW k \in Nat, k \in S
      PROVE  k + 1 \in S
  <2> SUFFICES ASSUME NEW T \in SUBSET Nat, IsFiniteSet(T), Cardinality(T) = k + 1
               PROVE  \E f \in [1 .. k + 1 -> T] : Increasing(f)
    OBVIOUS
  <2>1. T # {}
    BY FS_EmptySet
  <2>2. PICK least \in T : \A m \in T : least <= m
    BY <2>1, NatLeast
  <2> DEFINE U == T \ {least}
  <2>3. IsFiniteSet(U) /\ Cardinality(U) = k /\ U \in SUBSET Nat
    BY FS_RemoveElement
  <2>4. PICK g \in [1 .. k -> U] : Increasing(g)
    BY <1>2, <2>3
  <2> DEFINE f == [i \in 1 .. k + 1 |-> IF i = 1 THEN least ELSE g[i - 1]]
  <2>5. \A i \in 1 .. k + 1 : i # 1 => i - 1 \in 1 .. k /\ g[i - 1] \in U
    OBVIOUS
  <2>6. f \in [1 .. k + 1 -> T]
    BY <2>5
  <2>7. ASSUME NEW i \in 1 .. k + 1, NEW j \in 1 .. k + 1, i < j
        PROVE  f[i] < f[j]
    <3>1. j # 1 /\ f[j] = g[j - 1] /\ j - 1 \in 1 .. k /\ g[j - 1] \in U
      BY <2>5, <2>7
    <3>2. CASE i = 1
      <4>1. f[i] = least /\ least <= f[j] /\ f[j] # least
        BY <2>2, <3>1, <3>2
      <4>2. f[j] \in Nat /\ least \in Nat
        BY <3>1
      <4> HIDE DEF f
      <4> QED
        BY <4>1, <4>2
    <3>3. CASE i # 1
      <4>1. i - 1 \in 1 .. k /\ i - 1 < j - 1 /\ f[i] = g[i - 1]
        BY <2>5, <2>7, <3>3
      <4> QED
        BY <2>4, <3>1, <4>1 DEF Increasing
    <3> QED
      BY <3>2, <3>3
  <2>8. Increasing(f)
    BY <2>7 DEF Increasing
  <2> QED
    BY <2>6, <2>8
<1>3. n \in S
  <2> HIDE DEF S
  <2> QED
    BY <1>1, <1>2, Induction
<1> QED
  BY <1>3

\* Keys misses no address of the map.
LEMMA KeysOf ==
  ASSUME NEW map, StoredGraph(map)
  PROVE  /\ Keys(map) \in Seq(DOMAIN map)
         /\ \A a \in DOMAIN map : \E i \in 1 .. Len(Keys(map)) : Keys(map)[i] = a
<1> DEFINE T == DOMAIN map
           keys == Keys(map)
<1>0. PICK n \in Nat : n = Cardinality(T)
  BY FS_CardinalityType DEF StoredGraph
<1>1. T \in SUBSET Nat /\ IsFiniteSet(T)
  BY DEF StoredGraph
<1>2. \E f \in [1 .. n -> T] : Increasing(f)
  BY <1>0, <1>1, SortedExists
<1>3. keys \in [1 .. n -> T] /\ Increasing(keys)
  BY <1>0, <1>2 DEF Keys, Increasing
<1> HIDE DEF keys
<1>4. keys \in Seq(T) /\ Len(keys) = n
  BY <1>3, SequenceOf
<1>5. ASSUME NEW a \in T, \A i \in 1 .. n : keys[i] # a
      PROVE  FALSE
  <2>1. keys \in [1 .. n -> T \ {a}]
    BY <1>3, <1>5
  <2>2. IsFiniteSet(T \ {a}) /\ Cardinality(T \ {a}) = n - 1
    BY <1>0, <1>1, FS_RemoveElement
  <2>3. IsFiniteSet(1 .. n) /\ Cardinality(1 .. n) = n
    BY FS_Interval
  <2>4. Cardinality(T \ {a}) < Cardinality(1 .. n)
    BY <2>2, <2>3
  <2>5. PICK x \in 1 .. n, y \in 1 .. n : x # y /\ keys[x] = keys[y]
    BY <2>1, <2>2, <2>3, <2>4, FS_PigeonHole
  <2>6. /\ keys[x] \in Nat /\ keys[y] \in Nat
        /\ x < y => keys[x] < keys[y]
        /\ y < x => keys[y] < keys[x]
    BY <1>1, <1>3 DEF Increasing
  <2> QED
    BY <2>5, <2>6
<1> QED
  BY <1>4, <1>5 DEF keys

\* The two numbers in front of the nodes.
LEMMA HeadLaid ==
  ASSUME NEW start \in Nat, NEW n \in Nat
  PROVE  LET fields == <<Number(start), Number(n)>>
             cs     == PlaceAll(0, fields)
         IN  /\ fields \in Seq(AnyField)
             /\ Total(FieldSizes(fields)) = 2 * Word
             /\ Laid(cs, 0, 2 * Word)
             /\ cs = <<[at |-> 0, field |-> Number(start)], [at |-> Word, field |-> Number(n)]>>
<1> DEFINE fields == <<Number(start), Number(n)>>
           cs     == PlaceAll(0, fields)
           to     == Offsets(FieldSizes(fields))
<1>1. fields \in Seq(AnyField) /\ Len(fields) = 2
  BY DEF Number, Field, AnyField
<1>2. FieldSize(fields[1]) = Word /\ FieldSize(fields[2]) = Word /\ Word \in Nat
  BY SerialAssumption DEF Number, Field, FieldSize
<1>3. FieldSizes(fields)[1] = Word /\ FieldSizes(fields)[2] = Word
  BY <1>1, <1>2 DEF FieldSizes
<1>4. FieldSizes(fields) \in Seq(Nat) /\ Len(FieldSizes(fields)) = 2
  <2> HIDE DEF fields
  <2> QED
    BY <1>1, PlaceAllLaid
<1>5. Total(FieldSizes(fields)) = 2 * Word
  <2> HIDE DEF fields
  <2> QED
    BY <1>2, <1>3, <1>4, TotalOfFew
<1>6. Laid(cs, 0, 2 * Word)
  <2> HIDE DEF fields
  <2>1. Laid(cs, 0, 0 + Total(FieldSizes(fields)))
    BY <1>1, PlaceAllLaid
  <2> QED
    BY <1>2, <1>5, <2>1
<1>7. to[0] = 0 /\ to[1] = Word
  <2> HIDE DEF fields
  <2>1. to[0] = 0 /\ to[1] = to[1 - 1] + FieldSizes(fields)[1]
    BY <1>4, OffsetsStep
  <2> QED
    BY <1>2, <1>3, <2>1
<1>8. cs = <<[at |-> 0, field |-> Number(start)], [at |-> Word, field |-> Number(n)]>>
  <2> HIDE DEF to
  <2>1. cs = [i \in 1 .. 2 |-> [at |-> 0 + to[i - 1], field |-> fields[i]]]
    BY DEF PlaceAll, to
  <2>2. 0 + to[1 - 1] = 0 /\ 0 + to[2 - 1] = Word
    BY <1>2, <1>7
  <2> QED
    BY <2>1, <2>2
<1> QED
  BY <1>1, <1>5, <1>6, <1>8

\* write() stays below mem_size(), for every graph.
LEMMA GraphLaid ==
  ASSUME NEW map, StoredGraph(map), NEW start \in Nat
  PROVE  /\ MemSize(map) \in Nat
         /\ Laid(WriteGraph(map, start), 0, MemSize(map))
         /\ Laid(WriteNodes(2 * Word, map, Keys(map)), 2 * Word, MemSize(map))
         /\ WriteGraph(map, start) =
              <<[at |-> 0, field |-> Number(start)],
                [at |-> Word, field |-> Number(Len(Keys(map)))]>>
                \o WriteNodes(2 * Word, map, Keys(map))
<1> DEFINE keys == Keys(map)
<1>1. /\ map \in [DOMAIN map -> StoredNode] /\ DOMAIN map \subseteq Nat
      /\ keys \in Seq(DOMAIN map) /\ 2 * Word \in Nat /\ Len(keys) \in Nat
  BY KeysOf, SerialAssumption DEF StoredGraph
<1> HIDE DEF keys
<1>2. /\ NodeSizes(map, keys) \in Seq(Nat)
      /\ Laid(WriteNodes(2 * Word, map, keys), 2 * Word, 2 * Word + Total(NodeSizes(map, keys)))
  BY <1>1, NodesLaid
<1>3. MemSize(map) = 2 * Word + Total(NodeSizes(map, keys)) /\ MemSize(map) \in Nat
  BY <1>1, <1>2, TotalIsNat DEF MemSize, keys
<1> DEFINE head == <<Number(start), Number(Len(keys))>>
<1>4. /\ Laid(PlaceAll(0, head), 0, 2 * Word)
      /\ PlaceAll(0, head) = <<[at |-> 0, field |-> Number(start)],
                               [at |-> Word, field |-> Number(Len(keys))]>>
  BY <1>1, HeadLaid
<1>5. WriteGraph(map, start) = PlaceAll(0, head) \o WriteNodes(2 * Word, map, keys)
  BY DEF WriteGraph, keys
<1> HIDE DEF head
<1>6. Laid(WriteGraph(map, start), 0, MemSize(map))
  BY <1>2, <1>3, <1>4, <1>5, LaidBehind
<1> QED
  BY <1>2, <1>3, <1>4, <1>5, <1>6 DEF keys

-----------------------------------------------------------------------------
(* What read() takes *)

Memory(m) == DOMAIN m \subseteq Nat /\ \A o \in DOMAIN m : m[o] \in AnyField

Values == Nat \cup BOOLEAN \cup Content \cup BranchType

Taken == [from : Nat, ok : BOOLEAN, values : Seq(Values)]

\* One field, looked for in any memory.
LEMMA TakeIsTaken ==
  ASSUME NEW m, Memory(m), NEW r \in Taken, NEW kind
  PROVE  /\ Take(m, r, kind) \in Taken
         /\ Take(m, r, kind).ok <=> r.ok /\ r.from \in DOMAIN m /\ m[r.from].kind = kind
         /\ Take(m, r, kind).ok =>
              Take(m, r, kind) = [from |-> r.from + FieldSize(m[r.from]), ok |-> TRUE,
                                  values |-> Append(r.values, m[r.from].value)]
<1>1. CASE r.ok /\ r.from \in DOMAIN m /\ m[r.from].kind = kind
  <2>1. m[r.from] \in AnyField
    BY <1>1 DEF Memory
  <2>2. m[r.from].value \in Values /\ FieldSize(m[r.from]) \in Nat
    BY <2>1, FieldSizeIsPositive DEF AnyField, Values
  <2>3. Take(m, r, kind) = [from |-> r.from + FieldSize(m[r.from]), ok |-> TRUE,
                            values |-> Append(r.values, m[r.from].value)]
    BY <1>1 DEF Take, Taken
  <2> QED
    BY <1>1, <2>2, <2>3 DEF Taken
<1>2. CASE ~ (r.ok /\ r.from \in DOMAIN m /\ m[r.from].kind = kind)
  BY <1>2 DEF Take, Taken
<1> QED
  BY <1>1, <1>2

LEMMA TakeFound ==
  ASSUME NEW m, NEW at \in DOMAIN m, NEW values
  PROVE  Take(m, [from |-> at, ok |-> TRUE, values |-> values], m[at].kind) =
           [from |-> at + FieldSize(m[at]), ok |-> TRUE, values |-> Append(values, m[at].value)]
BY DEF Take

\* Two functions that start alike and go on alike.
Alike(f, g, n) ==
  f[0] = g[0] /\ \A i \in 1 .. n : f[i - 1] = g[i - 1] => f[i] = g[i]

LEMMA StepsAgree ==
  ASSUME NEW n \in Nat, NEW f, NEW g, Alike(f, g, n)
  PROVE  \A i \in 0 .. n : f[i] = g[i]
<1> DEFINE S == {i \in Nat : i <= n => f[i] = g[i]}
<1>1. 0 \in S
  BY DEF Alike
<1>2. ASSUME NEW i \in Nat, i \in S
      PROVE  i + 1 \in S
  <2> SUFFICES ASSUME i + 1 <= n
               PROVE  f[i + 1] = g[i + 1]
    OBVIOUS
  <2>1. i + 1 \in 1 .. n /\ (i + 1) - 1 = i /\ f[i] = g[i]
    BY <1>2
  <2>2. f[(i + 1) - 1] = g[(i + 1) - 1]
    BY <2>1
  <2> QED
    BY <2>1, <2>2 DEF Alike
<1>3. \A i \in Nat : i \in S
  <2> HIDE DEF S
  <2> QED
    BY <1>1, <1>2, Induction
<1> QED
  BY <1>3

\* The recursive function of TakeAll is one.
LEMMA TakeAllSteps ==
  ASSUME NEW m, Memory(m), NEW from \in Nat, NEW kinds, NEW n \in Nat, Len(kinds) = n
  PROVE  \E taken \in [0 .. n -> Taken] :
           /\ taken[0] = [from |-> from, ok |-> TRUE, values |-> <<>>]
           /\ \A i \in 1 .. n : taken[i] = Take(m, taken[i - 1], kinds[i])
           /\ TakeAll(m, from, kinds) = taken[n]
<1> DEFINE step == [i \in 1 .. n |-> [r \in Taken |-> Take(m, r, kinds[i])]]
           base == [from |-> from, ok |-> TRUE, values |-> <<>>]
<1>1. \A i \in 1 .. n : step[i] \in [Taken -> Taken]
  <2>1. \A i \in 1 .. n : \A r \in Taken : Take(m, r, kinds[i]) \in Taken
    BY TakeIsTaken
  <2> QED
    BY <2>1
<1>2. base \in Taken
  BY DEF Taken
<1> HIDE DEF base
<1>3. PICK f \in [0 .. n -> Taken] : Steps(f, base, step, n)
  <2> HIDE DEF step
  <2> QED
    BY <1>1, <1>2, Recursion
<1>4. f[0] = base /\ \A i \in 1 .. n : f[i] = Take(m, f[i - 1], kinds[i])
  <2>1. \A i \in 1 .. n : f[i - 1] \in Taken
    OBVIOUS
  <2> QED
    BY <1>3, <2>1 DEF Steps
<1>5. f = [i \in 0 .. n |-> IF i = 0 THEN base ELSE Take(m, f[i - 1], kinds[i])]
  BY <1>4
<1> DEFINE g == CHOOSE g : g = [i \in 0 .. n |-> IF i = 0 THEN base ELSE Take(m, g[i - 1], kinds[i])]
<1>6. g = [i \in 0 .. n |-> IF i = 0 THEN base ELSE Take(m, g[i - 1], kinds[i])]
  BY <1>5
<1>7. TakeAll(m, from, kinds) = g[n]
  BY DEF TakeAll, base
<1> HIDE DEF g
<1>8. g[0] = base /\ \A i \in 1 .. n : g[i] = Take(m, g[i - 1], kinds[i])
  BY <1>6
<1>9. \A i \in 0 .. n : f[i] = g[i]
  <2>1. Alike(f, g, n)
    BY <1>4, <1>8 DEF Alike
  <2>2. \A h, k : Alike(h, k, n) => \A i \in 0 .. n : h[i] = k[i]
    BY StepsAgree
  <2> QED
    BY <2>1, <2>2
<1>10. TakeAll(m, from, kinds) = f[n]
  BY <1>7, <1>9
<1> QED
  BY <1>4, <1>10 DEF base

\* Whatever the memory holds, values are taken as the kinds say.
LEMMA TakeAllTyped ==
  ASSUME NEW m, Memory(m), NEW from \in Nat, NEW kinds, NEW n \in Nat, Len(kinds) = n
  PROVE  LET t == TakeAll(m, from, kinds) IN
           /\ t \in Taken
           /\ t.ok => /\ Len(t.values) = n
                      /\ \A j \in 1 .. n : Field(kinds[j], t.values[j]) \in AnyField
<1>1. PICK taken \in [0 .. n -> Taken] :
        /\ taken[0] = [from |-> from, ok |-> TRUE, values |-> <<>>]
        /\ \A i \in 1 .. n : taken[i] = Take(m, taken[i - 1], kinds[i])
        /\ TakeAll(m, from, kinds) = taken[n]
  BY TakeAllSteps
<1> DEFINE Good(t, i) == t.ok => /\ Len(t.values) = i
                                 /\ \A j \in 1 .. i : Field(kinds[j], t.values[j]) \in AnyField
           S == {i \in Nat : i <= n => Good(taken[i], i)}
<1>2. 0 \in S
  BY <1>1
<1>3. ASSUME NEW i \in Nat, i \in S
      PROVE  i + 1 \in S
  <2> SUFFICES ASSUME i + 1 <= n, taken[i + 1].ok
               PROVE  Good(taken[i + 1], i + 1)
    OBVIOUS
  <2> DEFINE r == taken[i]
  <2>1. r \in Taken /\ i + 1 \in 1 .. n /\ Good(r, i)
    BY <1>3
  <2>2. taken[i + 1] = Take(m, r, kinds[i + 1])
    <3>1. taken[i + 1] = Take(m, taken[(i + 1) - 1], kinds[i + 1])
      BY <1>1, <2>1
    <3> QED
      BY <3>1
  <2> HIDE DEF r
  <2>3. /\ r.ok /\ r.from \in DOMAIN m /\ m[r.from].kind = kinds[i + 1]
        /\ taken[i + 1].values = Append(r.values, m[r.from].value)
    BY <2>1, <2>2, TakeIsTaken
  <2>4. Field(kinds[i + 1], m[r.from].value) \in AnyField
    BY <2>3 DEF Memory, AnyField, Field
  <2>5. /\ r.values \in Seq(Values) /\ Len(r.values) = i
        /\ \A j \in 1 .. i : Field(kinds[j], r.values[j]) \in AnyField
    BY <2>1, <2>3 DEF Taken
  <2>6. /\ Len(taken[i + 1].values) = i + 1
        /\ \A j \in 1 .. i : taken[i + 1].values[j] = r.values[j]
        /\ taken[i + 1].values[i + 1] = m[r.from].value
    BY <2>3, <2>5
  <2>7. \A j \in 1 .. i + 1 : j \in 1 .. i \/ j = i + 1
    OBVIOUS
  <2> QED
    BY <2>4, <2>5, <2>6, <2>7
<1>4. n \in S
  <2> HIDE DEF S
  <2> QED
    BY <1>2, <1>3, Induction
<1>5. n \in 0 .. n
  OBVIOUS
<1> QED
  BY <1>1, <1>4, <1>5

OfKinds(fields, kinds) ==
  /\ Len(kinds) = Len(fields)
  /\ \A i \in 1 .. Len(fields) : kinds[i] = fields[i].kind

\* What PlaceAll placed is taken as it was.
LEMMA TakePlaced ==
  ASSUME NEW m, Memory(m), NEW at \in Nat, NEW fields \in Seq(AnyField),
         Holds(m, PlaceAll(at, fields)),
         NEW kinds, OfKinds(fields, kinds)
  PROVE  TakeAll(m, at, kinds) =
           [from |-> at + Total(FieldSizes(fields)), ok |-> TRUE,
            values |-> [i \in 1 .. Len(fields) |-> fields[i].value]]
<1>0. PICK n \in Nat : n = Len(fields)
  OBVIOUS
<1> DEFINE to == Offsets(FieldSizes(fields))
<1>1. PICK taken \in [0 .. n -> Taken] :
        /\ taken[0] = [from |-> at, ok |-> TRUE, values |-> <<>>]
        /\ \A i \in 1 .. n : taken[i] = Take(m, taken[i - 1], kinds[i])
        /\ TakeAll(m, at, kinds) = taken[n]
  BY <1>0, TakeAllSteps DEF OfKinds
<1>2. /\ to \in [0 .. n -> Nat] /\ to[0] = 0 /\ Total(FieldSizes(fields)) = to[n]
      /\ \A i \in 1 .. n : to[i] = to[i - 1] + FieldSize(fields[i])
  <2>1. FieldSizes(fields) \in Seq(Nat) /\ Len(FieldSizes(fields)) = n
    BY <1>0, PlaceAllLaid
  <2>2. \A i \in 1 .. n : FieldSizes(fields)[i] = FieldSize(fields[i])
    BY <1>0 DEF FieldSizes
  <2> QED
    BY <2>1, <2>2, OffsetsStep DEF Total
<1>3. \A i \in 1 .. n : at + to[i - 1] \in DOMAIN m /\ m[at + to[i - 1]] = fields[i]
  <2>1. PlaceAll(at, fields) = [i \in 1 .. n |-> [at |-> at + to[i - 1], field |-> fields[i]]]
    BY <1>0 DEF PlaceAll
  <2>2. Len(PlaceAll(at, fields)) = n
    BY <2>1
  <2> QED
    BY <2>1, <2>2 DEF Holds
<1> HIDE DEF to
<1> DEFINE Read(i) == [from |-> at + to[i], ok |-> TRUE,
                       values |-> [j \in 1 .. i |-> fields[j].value]]
           S == {i \in Nat : i <= n => taken[i] = Read(i)}
<1>4. 0 \in S
  <2>1. [j \in 1 .. 0 |-> fields[j].value] = <<>>
    OBVIOUS
  <2> QED
    BY <1>1, <1>2, <2>1
<1>5. ASSUME NEW i \in Nat, i \in S
      PROVE  i + 1 \in S
  <2> SUFFICES ASSUME i + 1 <= n
               PROVE  taken[i + 1] = Read(i + 1)
    OBVIOUS
  <2>1. /\ i + 1 \in 1 .. n /\ (i + 1) - 1 = i /\ i \in 0 .. n
        /\ taken[i] = Read(i) /\ taken[i] \in Taken
    BY <1>5
  <2>2. taken[i + 1] = Take(m, taken[i], kinds[i + 1])
    <3>1. taken[i + 1] = Take(m, taken[(i + 1) - 1], kinds[i + 1])
      BY <1>1, <2>1
    <3> QED
      BY <2>1, <3>1
  <2>3. /\ at + to[i] \in DOMAIN m /\ m[at + to[i]] = fields[i + 1]
        /\ kinds[i + 1] = fields[i + 1].kind /\ to[i + 1] = to[i] + FieldSize(fields[i + 1])
    <3>1. at + to[(i + 1) - 1] \in DOMAIN m /\ m[at + to[(i + 1) - 1]] = fields[i + 1]
      BY <1>3, <2>1
    <3>2. to[i + 1] = to[(i + 1) - 1] + FieldSize(fields[i + 1])
      BY <1>2, <2>1
    <3> QED
      BY <1>0, <2>1, <3>1, <3>2 DEF OfKinds
  <2>4. taken[i + 1] = [from |-> (at + to[i]) + FieldSize(fields[i + 1]), ok |-> TRUE,
                        values |-> Append([j \in 1 .. i |-> fields[j].value],
                                          fields[i + 1].value)]
    <3> DEFINE values == [j \in 1 .. i |-> fields[j].value]
    <3>1. taken[i] = [from |-> at + to[i], ok |-> TRUE, values |-> values]
      BY <2>1
    <3> HIDE DEF values
    <3>2. Take(m, [from |-> at + to[i], ok |-> TRUE, values |-> values], fields[i + 1].kind) =
            [from |-> (at + to[i]) + FieldSize(fields[i + 1]), ok |-> TRUE,
             values |-> Append(values, fields[i + 1].value)]
      <4>1. PICK o \in DOMAIN m : o = at + to[i]
        BY <2>3
      <4>2. Take(m, [from |-> o, ok |-> TRUE, values |-> values], m[o].kind) =
              [from |-> o + FieldSize(m[o]), ok |-> TRUE, values |-> Append(values, m[o].value)]
        BY TakeFound
      <4> QED
        BY <2>3, <4>1, <4>2
    <3> QED
      BY <2>2, <2>3, <3>1, <3>2 DEF values
  <2>5. (at + to[i]) + FieldSize(fields[i + 1]) = at + to[i + 1]
    <3>1. fields[i + 1] \in AnyField
      BY <1>0, <2>1
    <3>2. FieldSize(fields[i + 1]) \in Nat /\ to[i] \in Nat
      BY <1>2, <2>1, <3>1, FieldSizeIsPositive
    <3> QED
      BY <2>3, <3>2
  <2>6. Append([j \in 1 .. i |-> fields[j].value], fields[i + 1].value) =
          [j \in 1 .. i + 1 |-> fields[j].value]
    <3> DEFINE s == [j \in 1 .. i |-> fields[j].value]
    <3>1. \A j \in 1 .. i : s[j] \in Values
      <4>1. \A j \in 1 .. i : fields[j] \in AnyField
        BY <1>0, <2>1
      <4> QED
        BY <4>1 DEF AnyField, Values
    <3>2. s \in Seq(Values) /\ Len(s) = i
      BY <3>1
    <3> QED
      BY <3>2
  <2> QED
    BY <2>4, <2>5, <2>6
<1>6. n \in S
  <2> HIDE DEF S
  <2> QED
    BY <1>4, <1>5, Induction
<1> QED
  BY <1>0, <1>1, <1>2, <1>6

-----------------------------------------------------------------------------
(* The block *)

InstructionKinds == <<"word", "word", "word", "word", "content", "api", "branch">>

BlockRead == [from : Nat, ok : BOOLEAN, block : Seq(StoredInstruction)]

\* The kind of a field says what its value is.
LEMMA ValueOfKind ==
  ASSUME NEW kind, NEW value, Field(kind, value) \in AnyField
  PROVE  /\ kind = "word" => value \in Nat
         /\ kind \in {"bool", "api"} => value \in BOOLEAN
         /\ kind = "content" => value \in Content
         /\ kind = "branch" => value \in BranchType
<1>1. Field(kind, value).kind = kind /\ Field(kind, value).value = value
  BY DEF Field
<1> QED
  BY <1>1 DEF AnyField

\* An instruction read from any memory is one that could have been stored.
LEMMA ReadInstructionTyped ==
  ASSUME NEW m, Memory(m), NEW r \in BlockRead
  PROVE  ReadInstruction(m, r) \in BlockRead
<1> DEFINE taken == TakeAll(m, r.from, InstructionKinds)
           ins   == InstructionOf(taken.values)
<1>1. ReadInstruction(m, r) = PushInstruction(r, taken)
  BY DEF ReadInstruction, InstructionKinds
<1>2. r.from \in Nat /\ Len(InstructionKinds) = 7
  BY DEF BlockRead, InstructionKinds
<1>3. taken.ok => \A j \in 1 .. 7 : Field(InstructionKinds[j], taken.values[j]) \in AnyField
  <2>1. PICK n \in Nat : n = 7
    OBVIOUS
  <2>2. PICK from \in Nat : from = r.from
    BY <1>2
  <2>3. PICK kinds : kinds = InstructionKinds /\ Len(kinds) = n
    BY <1>2, <2>1
  <2>4. PICK t : t = TakeAll(m, from, kinds)
    OBVIOUS
  <2>5. t.ok => \A j \in 1 .. n : Field(kinds[j], t.values[j]) \in AnyField
    BY <2>3, <2>4, TakeAllTyped
  <2> QED
    BY <2>1, <2>2, <2>3, <2>4, <2>5
<1> HIDE DEF taken
<1>4. CASE ~ (r.ok /\ taken.ok)
  BY <1>1, <1>4 DEF PushInstruction, BlockRead
<1>5. CASE r.ok /\ taken.ok
  <2>1. /\ taken.values[1] \in Nat /\ taken.values[2] \in Nat /\ taken.values[3] \in Nat
        /\ taken.values[4] \in Nat /\ taken.values[5] \in Content
        /\ taken.values[6] \in BOOLEAN /\ taken.values[7] \in BranchType
    <3>1. \A j \in 1 .. 7 :
            /\ InstructionKinds[j] = "word" => taken.values[j] \in Nat
            /\ InstructionKinds[j] \in {"bool", "api"} => taken.values[j] \in BOOLEAN
            /\ InstructionKinds[j] = "content" => taken.values[j] \in Content
            /\ InstructionKinds[j] = "branch" => taken.values[j] \in BranchType
      BY <1>3, <1>5, ValueOfKind
    <3> QED
      BY <3>1 DEF InstructionKinds
  <2>2. ins \in StoredInstruction
    BY <2>1 DEF InstructionOf, StoredInstruction
  <2>3. InstructionMemSize(ins) \in Nat
    BY <1>2, <2>2, InstructionLaid
  <2>4. ReadInstruction(m, r) = [from |-> r.from + InstructionMemSize(ins), ok |-> TRUE,
                                 block |-> Append(r.block, ins)]
    BY <1>1, <1>5 DEF PushInstruction
  <2> HIDE DEF ins
  <2> QED
    BY <2>2, <2>3, <2>4 DEF BlockRead
<1> QED
  BY <1>4, <1>5

\* An instruction that was placed is read as it was, and the reader comes to
\* where the next one was placed.
LEMMA InstructionBack ==
  ASSUME NEW m, Memory(m), NEW at \in Nat, NEW ins \in StoredInstruction,
         Holds(m, PlaceAll(at, InstructionFields(ins))), NEW block
  PROVE  ReadInstruction(m, [from |-> at, ok |-> TRUE, block |-> block]) =
           [from |-> at + InstructionMemSize(ins), ok |-> TRUE, block |-> Append(block, ins)]
<1> DEFINE fields == InstructionFields(ins)
           taken  == TakeAll(m, at, InstructionKinds)
           r      == [from |-> at, ok |-> TRUE, block |-> block]
<1>1. fields \in Seq(AnyField)
  BY InstructionLaid
<1>2. OfKinds(fields, InstructionKinds) /\ Len(fields) = 7
  BY DEF OfKinds, InstructionKinds, InstructionFields, Number, Field
<1>3. taken.ok = TRUE /\ taken.values = [i \in 1 .. 7 |-> fields[i].value]
  <2>0. Holds(m, PlaceAll(at, fields))
    OBVIOUS
  <2> HIDE DEF fields
  <2>1. taken = [from |-> at + Total(FieldSizes(fields)), ok |-> TRUE,
                 values |-> [i \in 1 .. Len(fields) |-> fields[i].value]]
    BY <1>1, <1>2, <2>0, TakePlaced
  <2> QED
    BY <1>2, <2>1
<1> HIDE DEF taken
<1>4. InstructionOf(taken.values) = ins
  <2>1. /\ taken.values[1] = ins.len /\ taken.values[2] = ins.next_node_addr
        /\ taken.values[3] = ins.side_node_addr /\ taken.values[4] = ins.eip
        /\ taken.values[5] = ins.content /\ taken.values[6] = ins.api_reporter
        /\ taken.values[7] = ins.branch_type
    BY <1>3 DEF InstructionFields, Number, Field
  <2> QED
    BY <2>1 DEF InstructionOf, StoredInstruction
<1>5. ReadInstruction(m, r) = PushInstruction(r, taken)
  BY DEF ReadInstruction, taken, InstructionKinds
<1> QED
  BY <1>3, <1>4, <1>5 DEF PushInstruction

\* The recursive function of ReadBlock is one.
LEMMA ReadBlockSteps ==
  ASSUME NEW m, Memory(m), NEW from \in Nat, NEW n \in Nat
  PROVE  \E read \in [0 .. n -> BlockRead] :
           /\ read[0] = [from |-> from, ok |-> TRUE, block |-> <<>>]
           /\ \A i \in 1 .. n : read[i] = ReadInstruction(m, read[i - 1])
           /\ ReadBlock(m, from, n) = read[n]
<1> DEFINE step == [i \in 1 .. n |-> [r \in BlockRead |-> ReadInstruction(m, r)]]
           base == [from |-> from, ok |-> TRUE, block |-> <<>>]
<1>1. \A i \in 1 .. n : step[i] \in [BlockRead -> BlockRead]
  <2>1. \A r \in BlockRead : ReadInstruction(m, r) \in BlockRead
    BY ReadInstructionTyped
  <2> QED
    BY <2>1
<1>2. base \in BlockRead
  BY DEF BlockRead
<1> HIDE DEF base
<1>3. PICK f \in [0 .. n -> BlockRead] : Steps(f, base, step, n)
  <2> HIDE DEF step
  <2> QED
    BY <1>1, <1>2, Recursion
<1>4. f[0] = base /\ \A i \in 1 .. n : f[i] = ReadInstruction(m, f[i - 1])
  <2>1. \A i \in 1 .. n : f[i - 1] \in BlockRead
    OBVIOUS
  <2> QED
    BY <1>3, <2>1 DEF Steps
<1>5. f = [i \in 0 .. n |-> IF i = 0 THEN base ELSE ReadInstruction(m, f[i - 1])]
  BY <1>4
<1> DEFINE g == CHOOSE g : g = [i \in 0 .. n |-> IF i = 0 THEN base
                                                  ELSE ReadInstruction(m, g[i - 1])]
<1>6. g = [i \in 0 .. n |-> IF i = 0 THEN base ELSE ReadInstruction(m, g[i - 1])]
  BY <1>5
<1>7. ReadBlock(m, from, n) = g[n]
  BY DEF ReadBlock, base
<1> HIDE DEF g
<1>8. g[0] = base /\ \A i \in 1 .. n : g[i] = ReadInstruction(m, g[i - 1])
  BY <1>6
<1>9. \A i \in 0 .. n : f[i] = g[i]
  <2>1. Alike(f, g, n)
    BY <1>4, <1>8 DEF Alike
  <2>2. \A h, k : Alike(h, k, n) => \A i \in 0 .. n : h[i] = k[i]
    BY StepsAgree
  <2> QED
    BY <2>1, <2>2
<1>10. ReadBlock(m, from, n) = f[n]
  BY <1>7, <1>9
<1> QED
  BY <1>4, <1>10 DEF base

LEMMA ReadBlockTyped ==
  ASSUME NEW m, Memory(m), NEW from \in Nat, NEW n \in Nat
  PROVE  ReadBlock(m, from, n) \in BlockRead
<1>1. PICK read \in [0 .. n -> BlockRead] : ReadBlock(m, from, n) = read[n]
  BY ReadBlockSteps
<1> QED
  BY <1>1

\* A block that was written is read as it was.
LEMMA BlockBack ==
  ASSUME NEW m, Memory(m), NEW at \in Nat, NEW block \in Seq(StoredInstruction),
         Holds(m, WriteBlock(at, block))
  PROVE  ReadBlock(m, at, Len(block)) =
           [from |-> at + Total(BlockSizes(block)), ok |-> TRUE, block |-> block]
<1>0. PICK n \in Nat : n = Len(block)
  OBVIOUS
<1> DEFINE to == Offsets(BlockSizes(block))
           css == [i \in DOMAIN block |-> PlaceAll(at + to[i - 1], InstructionFields(block[i]))]
<1>1. PICK read \in [0 .. n -> BlockRead] :
        /\ read[0] = [from |-> at, ok |-> TRUE, block |-> <<>>]
        /\ \A i \in 1 .. n : read[i] = ReadInstruction(m, read[i - 1])
        /\ ReadBlock(m, at, n) = read[n]
  BY ReadBlockSteps
<1>2. /\ to \in [0 .. n -> Nat] /\ to[0] = 0 /\ Total(BlockSizes(block)) = to[n]
      /\ \A i \in 1 .. n : to[i] = to[i - 1] + InstructionMemSize(block[i])
  <2>1. /\ BlockSizes(block) \in Seq(Nat) /\ Len(BlockSizes(block)) = n
        /\ \A i \in 1 .. n : BlockSizes(block)[i] = InstructionMemSize(block[i])
    BY <1>0, BlockLaid
  <2> QED
    BY <2>1, OffsetsStep DEF Total
<1>3. \A i \in 1 .. n : Holds(m, PlaceAll(at + to[i - 1], InstructionFields(block[i])))
  <2>1. css \in Seq(Seq(Copies))
    BY BlockLaid
  <2>2. WriteBlock(at, block) = FlattenSeq(css)
    BY DEF WriteBlock
  <2>3. /\ Len(css) = n
        /\ \A i \in 1 .. n : css[i] = PlaceAll(at + to[i - 1], InstructionFields(block[i]))
    BY <1>0
  <2> HIDE DEF css
  <2>4. \A i \in 1 .. n : Holds(m, css[i])
    BY <2>1, <2>2, <2>3, FlattenHolds
  <2> QED
    BY <2>3, <2>4
<1> HIDE DEF to
<1> DEFINE Read(i) == [from |-> at + to[i], ok |-> TRUE, block |-> SubSeq(block, 1, i)]
           S == {i \in Nat : i <= n => read[i] = Read(i)}
<1>4. 0 \in S
  <2>1. SubSeq(block, 1, 0) = <<>> /\ at + to[0] = at
    BY <1>2
  <2>2. read[0] = Read(0)
    BY <1>1, <2>1
  <2> HIDE DEF Read
  <2> QED
    BY <2>2
<1>5. ASSUME NEW i \in Nat, i \in S
      PROVE  i + 1 \in S
  <2> SUFFICES ASSUME i + 1 <= n
               PROVE  read[i + 1] = Read(i + 1)
    OBVIOUS
  <2>1. i + 1 \in 1 .. n /\ (i + 1) - 1 = i /\ i \in 0 .. n /\ read[i] = Read(i)
    BY <1>5
  <2>2. read[i + 1] = ReadInstruction(m, read[i])
    <3>1. read[i + 1] = ReadInstruction(m, read[(i + 1) - 1])
      BY <1>1, <2>1
    <3> QED
      BY <2>1, <3>1
  <2>3. PICK ins \in StoredInstruction : ins = block[i + 1]
    BY <1>0, <2>1
  <2>4. PICK o \in Nat : o = at + to[i]
    BY <1>2, <2>1
  <2>5. Holds(m, PlaceAll(o, InstructionFields(ins)))
    <3>1. Holds(m, PlaceAll(at + to[(i + 1) - 1], InstructionFields(block[i + 1])))
      BY <1>3, <2>1
    <3> QED
      BY <2>1, <2>3, <2>4, <3>1
  <2>6. to[i + 1] = to[i] + InstructionMemSize(ins)
    <3>1. to[i + 1] = to[(i + 1) - 1] + InstructionMemSize(block[i + 1])
      BY <1>2, <2>1
    <3> QED
      BY <2>1, <2>3, <3>1
  <2>7. o + InstructionMemSize(ins) = at + to[i + 1]
    <3>1. InstructionMemSize(ins) \in Nat /\ to[i] \in Nat
      BY <1>2, <2>1, <2>4, InstructionLaid
    <3> QED
      BY <2>4, <2>6, <3>1
  <2>8. Append(SubSeq(block, 1, i), ins) = SubSeq(block, 1, i + 1)
    BY <1>0, <2>1, <2>3
  <2> DEFINE before == SubSeq(block, 1, i)
  <2>9. read[i] = [from |-> o, ok |-> TRUE, block |-> before]
    BY <2>1, <2>4
  <2> HIDE DEF before
  <2>10. read[i + 1] = [from |-> o + InstructionMemSize(ins), ok |-> TRUE,
                        block |-> Append(before, ins)]
    BY <2>2, <2>5, <2>9, InstructionBack
  <2> QED
    BY <2>7, <2>8, <2>10 DEF before
<1>6. n \in S
  <2> HIDE DEF S
  <2> QED
    BY <1>4, <1>5, Induction
<1>7. SubSeq(block, 1, n) = block
  BY <1>0
<1> QED
  BY <1>0, <1>1, <1>2, <1>6, <1>7

-----------------------------------------------------------------------------
(* The nodes *)

StoredGraphs ==
  UNION {[addresses -> StoredNode] : addresses \in {d \in SUBSET Nat : IsFiniteSet(d)}}

\* The graphs that can be stored are a set.
LEMMA StoredGraphsAre ==
  ASSUME NEW map
  PROVE  map \in StoredGraphs <=> StoredGraph(map)
<1>1. ASSUME map \in StoredGraphs
      PROVE  StoredGraph(map)
  <2>1. PICK d \in SUBSET Nat : IsFiniteSet(d) /\ map \in [d -> StoredNode]
    BY <1>1 DEF StoredGraphs
  <2> QED
    BY <2>1 DEF StoredGraph
<1>2. ASSUME StoredGraph(map)
      PROVE  map \in StoredGraphs
  <2>1. DOMAIN map \in {d \in SUBSET Nat : IsFiniteSet(d)} /\ map \in [DOMAIN map -> StoredNode]
    BY <1>2 DEF StoredGraph
  <2> QED
    BY <2>1 DEF StoredGraphs
<1> QED
  BY <1>1, <1>2

LEMMA EmptyStored == StoredGraph(NoNodes) /\ DOMAIN NoNodes = {}
<1>1. DOMAIN NoNodes = {} /\ NoNodes = [a \in DOMAIN NoNodes |-> NoNodes[a]]
  BY DEF NoNodes
<1> HIDE DEF NoNodes
<1>2. IsFiniteSet(DOMAIN NoNodes)
  BY <1>1, FS_EmptySet
<1> QED
  BY <1>1, <1>2 DEF StoredGraph

\* One node more.
LEMMA PutStored ==
  ASSUME NEW map, StoredGraph(map), NEW key \in Nat, NEW node \in StoredNode
  PROVE  StoredGraph(Put(map, key, node)) /\ DOMAIN Put(map, key, node) = DOMAIN map \cup {key}
<1>1. IsFiniteSet(DOMAIN map \cup {key})
  BY FS_AddElement DEF StoredGraph
<1>2. /\ DOMAIN Put(map, key, node) = DOMAIN map \cup {key}
      /\ Put(map, key, node) \in [DOMAIN map \cup {key} -> StoredNode]
  BY DEF Put, StoredGraph
<1> QED
  BY <1>1, <1>2 DEF StoredGraph

HeadKinds == <<"word", "word", "word", "word">>
TailKinds == <<"bool", "word", "word", "word", "word">>

NodesRead == [from : Nat, ok : BOOLEAN, nodes : StoredGraphs]

\* What the kinds say of the values, for a few kinds.
LEMMA TakenValues ==
  ASSUME NEW m, Memory(m), NEW from \in Nat, NEW kinds, NEW n \in Nat, Len(kinds) = n,
         TakeAll(m, from, kinds).ok, NEW j \in 1 .. n
  PROVE  LET value == TakeAll(m, from, kinds).values[j] IN
           /\ kinds[j] = "word" => value \in Nat
           /\ kinds[j] = "bool" => value \in BOOLEAN
<1>1. PICK t : t = TakeAll(m, from, kinds)
  OBVIOUS
<1>2. Field(kinds[j], t.values[j]) \in AnyField
  BY <1>1, TakeAllTyped
<1> QED
  BY <1>1, <1>2, ValueOfKind

\* The key and the numbers in front of a block.
LEMMA HeadTyped ==
  ASSUME NEW m, Memory(m), NEW from \in Nat
  PROVE  LET t == TakeAll(m, from, HeadKinds) IN
           /\ t.from \in Nat /\ t.ok \in BOOLEAN
           /\ t.ok => /\ t.values[1] \in Nat /\ t.values[2] \in Nat
                      /\ t.values[3] \in Nat /\ t.values[4] \in Nat
<1>1. PICK t : t = TakeAll(m, from, HeadKinds)
  OBVIOUS
<1>2. PICK n \in Nat : n = 4
  OBVIOUS
<1>3. Len(HeadKinds) = n /\ \A j \in 1 .. n : HeadKinds[j] = "word"
  BY <1>2 DEF HeadKinds
<1>4. t \in Taken
  BY <1>1, <1>3, TakeAllTyped
<1>5. t.ok => \A j \in 1 .. n : t.values[j] \in Nat
  BY <1>1, <1>3, TakenValues
<1> QED
  BY <1>1, <1>2, <1>4, <1>5 DEF Taken

\* The fields behind a block.
LEMMA TailTyped ==
  ASSUME NEW m, Memory(m), NEW from \in Nat
  PROVE  LET t == TakeAll(m, from, TailKinds) IN
           /\ t.ok \in BOOLEAN
           /\ t.ok => /\ t.values[1] \in BOOLEAN /\ t.values[2] \in Nat
                      /\ t.values[3] \in Nat /\ t.values[4] \in Nat /\ t.values[5] \in Nat
<1>1. PICK t : t = TakeAll(m, from, TailKinds)
  OBVIOUS
<1>2. PICK n \in Nat : n = 5
  OBVIOUS
<1>3. /\ Len(TailKinds) = n
      /\ \A j \in 1 .. n : TailKinds[j] = IF j = 1 THEN "bool" ELSE "word"
  BY <1>2 DEF TailKinds
<1>4. t \in Taken
  BY <1>1, <1>3, TakeAllTyped
<1>5. t.ok => \A j \in 1 .. n : IF j = 1 THEN t.values[j] \in BOOLEAN ELSE t.values[j] \in Nat
  BY <1>1, <1>3, TakenValues
<1> QED
  BY <1>1, <1>2, <1>4, <1>5 DEF Taken

\* A node read from any memory, a torn one's too, is one that could have been
\* stored.
LEMMA ReadNodeTyped ==
  ASSUME NEW m, Memory(m), NEW r \in NodesRead
  PROVE  ReadNode(m, r) \in NodesRead
<1> DEFINE head == TakeAll(m, r.from, HeadKinds)
           n    == IF head.ok THEN head.values[4] ELSE 0
           body == ReadBlock(m, head.from, n)
           tail == TakeAll(m, body.from, TailKinds)
           node == NodeOf(head.values, body.block, tail.values)
<1>1. ReadNode(m, r) = PushNode(r, head, body, tail)
  BY DEF ReadNode, HeadKinds, TailKinds
<1>2. /\ head.from \in Nat /\ head.ok \in BOOLEAN
      /\ head.ok => /\ head.values[1] \in Nat /\ head.values[2] \in Nat
                    /\ head.values[3] \in Nat /\ head.values[4] \in Nat
  BY HeadTyped DEF NodesRead
<1> HIDE DEF head
<1>3. n \in Nat
  BY <1>2
<1> HIDE DEF n
<1>4. body \in BlockRead
  BY <1>2, <1>3, ReadBlockTyped
<1> HIDE DEF body
<1>5. body.from \in Nat /\ body.block \in Seq(StoredInstruction)
  BY <1>4 DEF BlockRead
<1>6. tail.ok => /\ tail.values[1] \in BOOLEAN /\ tail.values[2] \in Nat
                 /\ tail.values[3] \in Nat /\ tail.values[4] \in Nat /\ tail.values[5] \in Nat
  BY <1>5, TailTyped
<1> HIDE DEF tail
<1>7. CASE ~ (r.ok /\ head.ok /\ body.ok /\ tail.ok)
  BY <1>1, <1>7 DEF PushNode, NodesRead
<1>8. CASE r.ok /\ head.ok /\ body.ok /\ tail.ok
  <2>1. node \in StoredNode
    BY <1>2, <1>5, <1>6, <1>8 DEF NodeOf, StoredNode
  <2>2. ReadNode(m, r) = [from |-> r.from + Word + NodeMemSize(node), ok |-> TRUE,
                          nodes |-> Put(r.nodes, head.values[1], node)]
    BY <1>1, <1>8 DEF PushNode
  <2> HIDE DEF node
  <2>3. NodeMemSize(node) \in Nat
    BY <2>1, <1>2, <1>8, NodeLaid
  <2>4. r.from + Word + NodeMemSize(node) \in Nat
    BY <2>3, SerialAssumption DEF NodesRead
  <2>5. Put(r.nodes, head.values[1], node) \in StoredGraphs
    <3>1. StoredGraph(r.nodes)
      BY StoredGraphsAre DEF NodesRead
    <3> QED
      BY <1>2, <1>8, <2>1, <3>1, PutStored, StoredGraphsAre
  <2> QED
    BY <2>2, <2>4, <2>5 DEF NodesRead
<1> QED
  BY <1>7, <1>8

\* A node that was written is read as it was, and the reader comes to where the
\* next key was written.
LEMMA NodeBack ==
  ASSUME NEW m, Memory(m), NEW at \in Nat, NEW key \in Nat, NEW node \in StoredNode,
         Holds(m, WriteNode(at, key, node)), NEW map
  PROVE  ReadNode(m, [from |-> at, ok |-> TRUE, nodes |-> map]) =
           [from |-> at + (Word + NodeMemSize(node)), ok |-> TRUE, nodes |-> Put(map, key, node)]
<1> DEFINE fields == HeadFields(key, node)
           last   == TailFields(node)
           block  == node.block
           total  == Total(BlockSizes(block))
           from   == at + 4 * Word
           head   == TakeAll(m, at, HeadKinds)
           body   == ReadBlock(m, from, Len(block))
           tail   == TakeAll(m, from + total, TailKinds)
           r      == [from |-> at, ok |-> TRUE, nodes |-> map]
<1>0. block \in Seq(StoredInstruction) /\ Len(block) \in Nat /\ from \in Nat
  BY SerialAssumption DEF StoredNode
<1>1. /\ fields \in Seq(AnyField) /\ Len(fields) = 4 /\ Total(FieldSizes(fields)) = 4 * Word
      /\ last \in Seq(AnyField) /\ Len(last) = 5 /\ NodeMemSize(node) \in Nat
  BY NodeLaid
<1>2. total \in Nat /\ Laid(WriteBlock(from, block), from, from + total)
  <2>1. BlockSizes(block) \in Seq(Nat)
    BY <1>0, BlockLaid
  <2> HIDE DEF from
  <2> QED
    BY <1>0, <2>1, BlockLaid, TotalIsNat
<1>3. /\ Holds(m, PlaceAll(at, fields)) /\ Holds(m, WriteBlock(from, block))
      /\ Holds(m, PlaceAll(from + total, last))
  <2>1. WriteNode(at, key, node) =
          PlaceAll(at, fields) \o WriteBlock(from, block) \o PlaceAll(from + total, last)
    BY DEF WriteNode
  <2>2. PlaceAll(at, fields) \in Seq(Copies)
    <3> HIDE DEF fields
    <3> QED
      BY <1>1, PlaceAllLaid DEF Laid
  <2>3. PlaceAll(from + total, last) \in Seq(Copies)
    <3>1. from + total \in Nat
      BY <1>0, <1>2
    <3> HIDE DEF last, from, total
    <3> QED
      BY <1>1, <3>1, PlaceAllLaid DEF Laid
  <2>4. WriteBlock(from, block) \in Seq(Copies)
    BY <1>2 DEF Laid
  <2> HIDE DEF fields, from, total, last
  <2>5. PlaceAll(at, fields) \o WriteBlock(from, block) \in Seq(Copies)
    BY <2>2, <2>4
  <2> QED
    BY <2>1, <2>2, <2>3, <2>4, <2>5, HoldsBehind
<1>4. /\ OfKinds(fields, HeadKinds) /\ OfKinds(last, TailKinds)
  BY DEF OfKinds, HeadKinds, TailKinds, HeadFields, TailFields, Number, Field
<1>5. /\ fields[1].value = key /\ fields[2].value = node.start_address
      /\ fields[3].value = node.iteration /\ fields[4].value = Len(block)
      /\ last[1].value = node.is_done /\ last[2].value = node.max_occurrences
      /\ last[3].value = node.true_branch_address /\ last[4].value = node.false_branch_address
      /\ last[5].value = node.occurrences
  BY DEF HeadFields, TailFields, Number, Field
<1> HIDE DEF fields, last
<1>6. head = [from |-> from, ok |-> TRUE, values |-> [i \in 1 .. 4 |-> fields[i].value]]
  <2>1. head = [from |-> at + Total(FieldSizes(fields)), ok |-> TRUE,
                values |-> [i \in 1 .. Len(fields) |-> fields[i].value]]
    BY <1>1, <1>3, <1>4, TakePlaced
  <2> QED
    BY <1>1, <2>1
<1>7. body = [from |-> from + total, ok |-> TRUE, block |-> block]
  <2> HIDE DEF from
  <2> QED
    BY <1>0, <1>3, BlockBack
<1>8. tail.ok = TRUE /\ tail.values = [i \in 1 .. 5 |-> last[i].value]
  <2>1. PICK end \in Nat : end = from + total
    BY <1>0, <1>2
  <2>2. tail = TakeAll(m, end, TailKinds)
    BY <2>1
  <2> HIDE DEF tail
  <2>3. TakeAll(m, end, TailKinds) = [from |-> end + Total(FieldSizes(last)), ok |-> TRUE,
                                      values |-> [i \in 1 .. Len(last) |-> last[i].value]]
    BY <1>1, <1>3, <1>4, <2>1, TakePlaced
  <2> QED
    BY <1>1, <2>2, <2>3
<1>9. ReadNode(m, r) = PushNode(r, head, body, tail)
  <2>1. head.from = from /\ head.ok = TRUE /\ head.values[4] = Len(block)
    BY <1>5, <1>6
  <2>2. body.from = from + total
    BY <1>7
  <2>3. ReadNode(m, r) =
          PushNode(r, head, ReadBlock(m, head.from, IF head.ok THEN head.values[4] ELSE 0),
                   TakeAll(m, ReadBlock(m, head.from, IF head.ok THEN head.values[4] ELSE 0).from,
                           TailKinds))
    BY DEF ReadNode, HeadKinds, TailKinds
  <2> HIDE DEF head
  <2> QED
    BY <2>1, <2>2, <2>3
<1> HIDE DEF tail
<1>10. NodeOf(head.values, block, tail.values) = node
  <2>1. /\ head.values[2] = node.start_address /\ head.values[3] = node.iteration
        /\ tail.values[1] = node.is_done /\ tail.values[2] = node.max_occurrences
        /\ tail.values[3] = node.true_branch_address
        /\ tail.values[4] = node.false_branch_address /\ tail.values[5] = node.occurrences
    BY <1>5, <1>6, <1>8
  <2> HIDE DEF head
  <2> QED
    BY <2>1 DEF NodeOf, StoredNode
<1>11. head.ok = TRUE /\ head.values[1] = key /\ body.ok = TRUE /\ body.block = block
  BY <1>5, <1>6, <1>7
<1> HIDE DEF head, body
<1>12. ReadNode(m, r) = [from |-> at + Word + NodeMemSize(node), ok |-> TRUE,
                         nodes |-> Put(map, key, node)]
  BY <1>8, <1>9, <1>10, <1>11 DEF PushNode
<1>13. at + Word + NodeMemSize(node) = at + (Word + NodeMemSize(node))
  BY <1>1, SerialAssumption
<1> QED
  BY <1>12, <1>13

\* The recursive function of ReadNodes is one.
LEMMA ReadNodesSteps ==
  ASSUME NEW m, Memory(m), NEW from \in Nat, NEW n \in Nat
  PROVE  \E read \in [0 .. n -> NodesRead] :
           /\ read[0] = [from |-> from, ok |-> TRUE, nodes |-> NoNodes]
           /\ \A i \in 1 .. n : read[i] = ReadNode(m, read[i - 1])
           /\ ReadNodes(m, from, n) = read[n]
<1> DEFINE step == [i \in 1 .. n |-> [r \in NodesRead |-> ReadNode(m, r)]]
           base == [from |-> from, ok |-> TRUE, nodes |-> NoNodes]
<1>1. \A i \in 1 .. n : step[i] \in [NodesRead -> NodesRead]
  <2>1. \A r \in NodesRead : ReadNode(m, r) \in NodesRead
    BY ReadNodeTyped
  <2> QED
    BY <2>1
<1>2. base \in NodesRead
  BY EmptyStored, StoredGraphsAre DEF NodesRead
<1> HIDE DEF base
<1>3. PICK f \in [0 .. n -> NodesRead] : Steps(f, base, step, n)
  <2> HIDE DEF step
  <2> QED
    BY <1>1, <1>2, Recursion
<1>4. f[0] = base /\ \A i \in 1 .. n : f[i] = ReadNode(m, f[i - 1])
  <2>1. \A i \in 1 .. n : f[i - 1] \in NodesRead
    OBVIOUS
  <2> QED
    BY <1>3, <2>1 DEF Steps
<1>5. f = [i \in 0 .. n |-> IF i = 0 THEN base ELSE ReadNode(m, f[i - 1])]
  BY <1>4
<1> DEFINE g == CHOOSE g : g = [i \in 0 .. n |-> IF i = 0 THEN base ELSE ReadNode(m, g[i - 1])]
<1>6. g = [i \in 0 .. n |-> IF i = 0 THEN base ELSE ReadNode(m, g[i - 1])]
  BY <1>5
<1>7. ReadNodes(m, from, n) = g[n]
  BY DEF ReadNodes, base
<1> HIDE DEF g
<1>8. g[0] = base /\ \A i \in 1 .. n : g[i] = ReadNode(m, g[i - 1])
  BY <1>6
<1>9. \A i \in 0 .. n : f[i] = g[i]
  <2>1. Alike(f, g, n)
    BY <1>4, <1>8 DEF Alike
  <2>2. \A h, k : Alike(h, k, n) => \A i \in 0 .. n : h[i] = k[i]
    BY StepsAgree
  <2> QED
    BY <2>1, <2>2
<1>10. ReadNodes(m, from, n) = f[n]
  BY <1>7, <1>9
<1> QED
  BY <1>4, <1>10 DEF base

LEMMA ReadNodesTyped ==
  ASSUME NEW m, Memory(m), NEW from \in Nat, NEW n \in Nat
  PROVE  ReadNodes(m, from, n) \in NodesRead
<1>1. PICK read \in [0 .. n -> NodesRead] : ReadNodes(m, from, n) = read[n]
  BY ReadNodesSteps
<1> QED
  BY <1>1

\* The nodes of the first i keys.
Those(map, keys, i) == [a \in {keys[j] : j \in 1 .. i} |-> map[a]]

\* All nodes that were written are read as they were.
LEMMA NodesBack ==
  ASSUME NEW m, Memory(m), NEW map, map \in [DOMAIN map -> StoredNode], DOMAIN map \subseteq Nat,
         NEW keys \in Seq(DOMAIN map), NEW at \in Nat, Holds(m, WriteNodes(at, map, keys))
  PROVE  LET read == ReadNodes(m, at, Len(keys)) IN
           read.ok = TRUE /\ read.nodes = Those(map, keys, Len(keys))
<1>0. PICK n \in Nat : n = Len(keys)
  OBVIOUS
<1> DEFINE to == Offsets(NodeSizes(map, keys))
           css == [i \in DOMAIN keys |-> WriteNode(at + to[i - 1], keys[i], map[keys[i]])]
<1>1. PICK read \in [0 .. n -> NodesRead] :
        /\ read[0] = [from |-> at, ok |-> TRUE, nodes |-> NoNodes]
        /\ \A i \in 1 .. n : read[i] = ReadNode(m, read[i - 1])
        /\ ReadNodes(m, at, n) = read[n]
  BY ReadNodesSteps
<1>2. /\ to \in [0 .. n -> Nat] /\ to[0] = 0
      /\ \A i \in 1 .. n : to[i] = to[i - 1] + (Word + NodeMemSize(map[keys[i]]))
  <2>1. /\ NodeSizes(map, keys) \in Seq(Nat) /\ Len(NodeSizes(map, keys)) = n
        /\ \A i \in 1 .. n : NodeSizes(map, keys)[i] = Word + NodeMemSize(map[keys[i]])
    BY <1>0, NodesLaid
  <2> QED
    BY <2>1, OffsetsStep
<1>3. \A i \in 1 .. n : Holds(m, WriteNode(at + to[i - 1], keys[i], map[keys[i]]))
  <2>1. css \in Seq(Seq(Copies))
    BY NodesLaid
  <2>2. WriteNodes(at, map, keys) = FlattenSeq(css)
    BY DEF WriteNodes
  <2>3. /\ Len(css) = n
        /\ \A i \in 1 .. n : css[i] = WriteNode(at + to[i - 1], keys[i], map[keys[i]])
    BY <1>0
  <2> HIDE DEF css
  <2>4. \A i \in 1 .. n : Holds(m, css[i])
    BY <2>1, <2>2, <2>3, FlattenHolds
  <2> QED
    BY <2>3, <2>4
<1> HIDE DEF to
<1> DEFINE Read(i) == [from |-> at + to[i], ok |-> TRUE, nodes |-> Those(map, keys, i)]
           S == {i \in Nat : i <= n => read[i] = Read(i)}
<1>4. 0 \in S
  <2>1. Those(map, keys, 0) = NoNodes
    BY DEF Those, NoNodes
  <2>2. at + to[0] = at
    BY <1>2
  <2>3. read[0] = Read(0)
    BY <1>1, <2>1, <2>2
  <2> HIDE DEF Read
  <2> QED
    BY <2>3
<1>5. ASSUME NEW i \in Nat, i \in S
      PROVE  i + 1 \in S
  <2> SUFFICES ASSUME i + 1 <= n
               PROVE  read[i + 1] = Read(i + 1)
    OBVIOUS
  <2>0. i + 1 \in 1 .. n /\ (i + 1) - 1 = i /\ i \in 0 .. n
    OBVIOUS
  <2>1. i + 1 \in 1 .. n /\ (i + 1) - 1 = i /\ i \in 0 .. n /\ read[i] = Read(i)
    <3> HIDE DEF Read
    <3> QED
      BY <1>5, <2>0
  <2>2. read[i + 1] = ReadNode(m, read[i])
    <3>1. read[i + 1] = ReadNode(m, read[(i + 1) - 1])
      BY <1>1, <2>1
    <3> QED
      BY <2>1, <3>1
  <2>3. PICK key \in DOMAIN map : key = keys[i + 1]
    BY <1>0, <2>1
  <2>4. PICK node \in StoredNode : node = map[key]
    BY <2>3
  <2>5. PICK o \in Nat : o = at + to[i]
    BY <1>2, <2>1
  <2>6. Holds(m, WriteNode(o, key, node))
    <3>1. Holds(m, WriteNode(at + to[(i + 1) - 1], keys[i + 1], map[keys[i + 1]]))
      BY <1>3, <2>1
    <3> QED
      BY <2>1, <2>3, <2>4, <2>5, <3>1
  <2>7. to[i + 1] = to[i] + (Word + NodeMemSize(node))
    <3>1. to[i + 1] = to[(i + 1) - 1] + (Word + NodeMemSize(map[keys[i + 1]]))
      BY <1>2, <2>1
    <3> QED
      BY <2>1, <2>3, <2>4, <3>1
  <2>8. o + (Word + NodeMemSize(node)) = at + to[i + 1]
    <3>1. NodeMemSize(node) \in Nat /\ to[i] \in Nat
      BY <1>2, <2>1, <2>3, <2>5, NodeLaid
    <3> QED
      BY <2>5, <2>7, <3>1, SerialAssumption
  <2>9. Put(Those(map, keys, i), key, node) = Those(map, keys, i + 1)
    <3>1. \A j \in 1 .. i + 1 : j \in 1 .. i \/ j = i + 1
      OBVIOUS
    <3>2. {keys[j] : j \in 1 .. i + 1} = {keys[j] : j \in 1 .. i} \cup {key}
      BY <2>3, <3>1
    <3> QED
      BY <2>3, <2>4, <3>2 DEF Put, Those
  <2> DEFINE before == Those(map, keys, i)
  <2>10. read[i] = [from |-> o, ok |-> TRUE, nodes |-> before]
    BY <2>1, <2>5
  <2> HIDE DEF before
  <2>11. key \in Nat
    OBVIOUS
  <2>12. read[i + 1] = [from |-> o + (Word + NodeMemSize(node)), ok |-> TRUE,
                        nodes |-> Put(before, key, node)]
    BY <2>2, <2>6, <2>10, <2>11, NodeBack
  <2> QED
    BY <2>8, <2>9, <2>12 DEF before
<1>6. n \in S
  <2> HIDE DEF S
  <2> QED
    BY <1>4, <1>5, Induction
<1> QED
  BY <1>0, <1>1, <1>6

-----------------------------------------------------------------------------
(* The graph *)

\* The region begins with a start address and a number of nodes.
Begins(m, start, n) ==
  /\ 0 \in DOMAIN m /\ m[0] = Number(start)
  /\ Word \in DOMAIN m /\ m[Word] = Number(n)

\* read() counts its nodes by the second number of the head.
LEMMA ReadGraphOf ==
  ASSUME NEW m, Memory(m), NEW start \in Nat, NEW n \in Nat, Begins(m, start, n)
  PROVE  ReadGraph(m) = [ok |-> ReadNodes(m, 2 * Word, n).ok,
                         nodes |-> ReadNodes(m, 2 * Word, n).nodes,
                         start_address_first_node |-> start]
<1> DEFINE fields == <<Number(start), Number(n)>>
           kinds  == <<"word", "word">>
           head   == TakeAll(m, 0, kinds)
<1>1. /\ fields \in Seq(AnyField) /\ Len(fields) = 2
      /\ Total(FieldSizes(fields)) = 2 * Word
      /\ PlaceAll(0, fields) =
           <<[at |-> 0, field |-> Number(start)], [at |-> Word, field |-> Number(n)]>>
  BY HeadLaid
<1>2. Holds(m, PlaceAll(0, fields))
  BY <1>1 DEF Holds, Begins
<1>3. OfKinds(fields, kinds)
  BY DEF OfKinds, Number, Field
<1>4. fields[1].value = start /\ fields[2].value = n
  BY DEF Number, Field
<1> HIDE DEF fields
<1>5. head = [from |-> 2 * Word, ok |-> TRUE, values |-> [i \in 1 .. 2 |-> fields[i].value]]
  <2>1. PICK k : k = kinds
    OBVIOUS
  <2>2. TakeAll(m, 0, k) = [from |-> 0 + Total(FieldSizes(fields)), ok |-> TRUE,
                            values |-> [i \in 1 .. Len(fields) |-> fields[i].value]]
    BY <1>1, <1>2, <1>3, <2>1, TakePlaced
  <2>3. 0 + 2 * Word = 2 * Word
    BY SerialAssumption
  <2> QED
    BY <1>1, <2>1, <2>2, <2>3
<1>6. head.from = 2 * Word /\ head.values[1] = start /\ head.values[2] = n
  BY <1>4, <1>5
<1>7. ReadGraph(m) = [ok |-> ReadNodes(m, head.from, head.values[2]).ok,
                      nodes |-> ReadNodes(m, head.from, head.values[2]).nodes,
                      start_address_first_node |-> head.values[1]]
  BY DEF ReadGraph
<1> HIDE DEF head
<1> QED
  BY <1>6, <1>7

\* Whatever lies behind them, the reader makes a graph of it or gives up.
LEMMA ReadGraphTyped ==
  ASSUME NEW m, Memory(m), NEW start \in Nat, NEW n \in Nat, Begins(m, start, n)
  PROVE  /\ StoredGraph(ReadGraph(m).nodes)
         /\ ReadGraph(m).start_address_first_node = start
         /\ n = 0 => ReadGraph(m).ok = TRUE /\ ReadGraph(m).nodes = NoNodes
<1>1. 2 * Word \in Nat
  BY SerialAssumption
<1>2. PICK read \in NodesRead : read = ReadNodes(m, 2 * Word, n)
  BY <1>1, ReadNodesTyped
<1>3. ReadGraph(m) = [ok |-> read.ok, nodes |-> read.nodes, start_address_first_node |-> start]
  BY <1>2, ReadGraphOf
<1>4. StoredGraph(read.nodes)
  BY StoredGraphsAre DEF NodesRead
<1>5. n = 0 => read.ok = TRUE /\ read.nodes = NoNodes
  <2>1. PICK steps \in [0 .. n -> NodesRead] :
          /\ steps[0] = [from |-> 2 * Word, ok |-> TRUE, nodes |-> NoNodes]
          /\ ReadNodes(m, 2 * Word, n) = steps[n]
    BY <1>1, ReadNodesSteps
  <2> QED
    BY <1>2, <2>1
<1> QED
  BY <1>3, <1>4, <1>5

\* read() of what write() copied is the graph it was given.
LEMMA GraphBack ==
  ASSUME NEW m, Memory(m), NEW map, StoredGraph(map), NEW start \in Nat,
         Holds(m, WriteGraph(map, start))
  PROVE  ReadGraph(m) = [ok |-> TRUE, nodes |-> map, start_address_first_node |-> start]
<1> DEFINE keys == Keys(map)
           head == <<[at |-> 0, field |-> Number(start)], [at |-> Word, field |-> Number(Len(keys))]>>
<1>1. /\ keys \in Seq(DOMAIN map) /\ Len(keys) \in Nat
      /\ \A a \in DOMAIN map : \E i \in 1 .. Len(keys) : keys[i] = a
  BY KeysOf
<1>2. /\ Laid(WriteNodes(2 * Word, map, keys), 2 * Word, MemSize(map))
      /\ WriteGraph(map, start) = head \o WriteNodes(2 * Word, map, keys)
  BY GraphLaid
<1> HIDE DEF keys
<1>3. head \in Seq(Copies) /\ 2 * Word \in Nat
  BY <1>1, SerialAssumption DEF Copies, AnyField, Number, Field
<1>4. Holds(m, head) /\ Holds(m, WriteNodes(2 * Word, map, keys))
  <2> HIDE DEF head
  <2>1. WriteNodes(2 * Word, map, keys) \in Seq(Copies)
    BY <1>2 DEF Laid
  <2> QED
    BY <1>2, <1>3, <2>1, HoldsBehind
<1>5. Begins(m, start, Len(keys))
  <2>1. Len(head) = 2
    OBVIOUS
  <2> QED
    BY <1>4, <2>1 DEF Holds, Begins
<1>6. /\ ReadNodes(m, 2 * Word, Len(keys)).ok = TRUE
      /\ ReadNodes(m, 2 * Word, Len(keys)).nodes = Those(map, keys, Len(keys))
  <2>1. map \in [DOMAIN map -> StoredNode] /\ DOMAIN map \subseteq Nat
    BY DEF StoredGraph
  <2> QED
    BY <1>1, <1>3, <1>4, <2>1, NodesBack
<1>7. Those(map, keys, Len(keys)) = map
  <2>1. {keys[j] : j \in 1 .. Len(keys)} = DOMAIN map
    <3>1. \A j \in 1 .. Len(keys) : keys[j] \in DOMAIN map
      BY <1>1
    <3>2. \A a \in DOMAIN map : \E j \in 1 .. Len(keys) : keys[j] = a
      BY <1>1
    <3> QED
      BY <3>1, <3>2
  <2>2. map = [a \in DOMAIN map |-> map[a]]
    BY DEF StoredGraph
  <2> QED
    BY <2>1, <2>2 DEF Those
<1> QED
  BY <1>1, <1>5, <1>6, <1>7, ReadGraphOf
-----------------------------------------------------------------------------
(* One memcpy *)

InRegion(m) == \A o \in DOMAIN m : o + FieldSize(m[o]) <= RegionSize

\* A copy inside the region leaves a memory inside the region.
LEMMA StoreTyped ==
  ASSUME NEW m, Memory(m), NEW at \in Nat, NEW field \in AnyField
  PROVE  /\ Memory(Store(m, at, field))
         /\ at \in DOMAIN Store(m, at, field) /\ Store(m, at, field)[at] = field
         /\ InRegion(m) /\ at + FieldSize(field) <= RegionSize => InRegion(Store(m, at, field))
<1> DEFINE s == Store(m, at, field)
<1>1. /\ DOMAIN s \subseteq DOMAIN m \cup {at} /\ at \in DOMAIN s /\ s[at] = field
      /\ \A o \in DOMAIN s : o # at => o \in DOMAIN m /\ s[o] = m[o]
  BY DEF Store
<1> HIDE DEF s
<1>2. Memory(s)
  BY <1>1 DEF Memory
<1>3. InRegion(m) /\ at + FieldSize(field) <= RegionSize => InRegion(s)
  BY <1>1 DEF InRegion
<1> QED
  BY <1>1, <1>2, <1>3 DEF s

\* A field that the copy does not overlap is kept.
LEMMA StoreKeeps ==
  ASSUME NEW m, Memory(m), NEW at \in Nat, NEW field \in AnyField, NEW o \in DOMAIN m,
         o + FieldSize(m[o]) <= at \/ o >= at + FieldSize(field)
  PROVE  o \in DOMAIN Store(m, at, field) /\ Store(m, at, field)[o] = m[o]
<1>1. o # at
  <2>1. /\ o \in Nat /\ FieldSize(m[o]) \in Nat /\ FieldSize(m[o]) # 0
        /\ FieldSize(field) \in Nat /\ FieldSize(field) # 0
    BY FieldSizeIsPositive DEF Memory
  <2> QED
    BY <2>1
<1> QED
  BY <1>1 DEF Store

\* Copies made in order: the next one leaves those before it.
LEMMA NextCopy ==
  ASSUME NEW m, Memory(m), NEW cs, NEW lo, NEW hi, Laid(cs, lo, hi),
         NEW k \in Nat, k + 1 <= Len(cs), Holds(m, SubSeq(cs, 1, k))
  PROVE  Holds(Store(m, cs[k + 1].at, cs[k + 1].field), SubSeq(cs, 1, k + 1))
<1>0. cs \in Seq(Copies) /\ Len(cs) \in Nat /\ k + 1 \in 1 .. Len(cs)
  BY DEF Laid
<1>1. PICK copy \in Copies : copy = cs[k + 1]
  BY <1>0
<1>2. copy.at \in Nat /\ copy.field \in AnyField
  BY DEF Copies
<1> DEFINE s == Store(m, copy.at, copy.field)
<1>3. copy.at \in DOMAIN s /\ s[copy.at] = copy.field
  BY <1>2, StoreTyped
<1>4. ASSUME NEW i \in 1 .. k
      PROVE  cs[i].at \in DOMAIN s /\ s[cs[i].at] = cs[i].field
  <2>1. PICK o \in DOMAIN m : o = cs[i].at /\ m[o] = cs[i].field
    <3>1. /\ i \in 1 .. Len(SubSeq(cs, 1, k)) /\ SubSeq(cs, 1, k)[i] = cs[i]
      BY <1>0
    <3> QED
      BY <3>1 DEF Holds
  <2>2. o + FieldSize(m[o]) <= copy.at
    <3>1. i \in 1 .. Len(cs) /\ i < k + 1
      BY <1>0
    <3> QED
      BY <1>0, <1>1, <2>1, <3>1 DEF Laid
  <2>3. o \in DOMAIN s /\ s[o] = m[o]
    BY <1>2, <2>2, StoreKeeps
  <2> QED
    BY <2>1, <2>3
<1> HIDE DEF s
<1>5. ASSUME NEW i \in 1 .. Len(SubSeq(cs, 1, k + 1))
      PROVE  LET c == SubSeq(cs, 1, k + 1)[i] IN c.at \in DOMAIN s /\ s[c.at] = c.field
  <2>1. SubSeq(cs, 1, k + 1)[i] = cs[i] /\ (i \in 1 .. k \/ i = k + 1)
    BY <1>0
  <2> QED
    BY <1>1, <1>3, <1>4, <2>1
<1> QED
  BY <1>1, <1>5 DEF Holds, s

-----------------------------------------------------------------------------
(* What a run does to a graph it may have read from anywhere: ControlFlow's *)
(* own invariant need not hold of a torn region's.                          *)

\* Node::append_instruction, called for any instruction.
LEMMA NodeAppendStored ==
  ASSUME NEW node \in StoredNode, NEW ins \in InstructionRecord, NEW iteration \in Nat
  PROVE  LET new == NodeAppendInstruction(node, ins, iteration)
         IN  new \in StoredNode /\ IsPrefix(node.block, new.block)
<1> DEFINE new == NodeAppendInstruction(node, ins, iteration)
<1>1. node.block \in Seq(StoredInstruction) /\ ins \in StoredInstruction
  BY AddressSpaceAssumption DEF StoredNode, StoredInstruction, InstructionRecord, Address
<1>2. CASE node.is_done /\ ContainsAddress(node, ins.eip)
  <2>1. new \in {node, [node EXCEPT !.occurrences = @ + 1]}
    BY <1>2 DEF NodeAppendInstruction, AlreadyVisited
  <2>2. new \in StoredNode /\ new.block = node.block
    BY <2>1 DEF StoredNode
  <2> QED
    BY <1>1, <2>2, PrefixItself
<1>3. CASE ~(node.is_done /\ ContainsAddress(node, ins.eip))
  <2>1. new = [node EXCEPT !.block = Append(@, ins)]
    BY <1>3 DEF NodeAppendInstruction
  <2>2. Append(node.block, ins) \in Seq(StoredInstruction)
    BY <1>1
  <2>3. new \in StoredNode /\ new.block = Append(node.block, ins)
    BY <2>1, <2>2 DEF StoredNode
  <2>4. IsPrefix(node.block, Append(node.block, ins))
    BY <1>1 DEF IsPrefix
  <2> QED
    BY <2>3, <2>4
<1> QED
  BY <1>2, <1>3

\* Node::append_branch_instruction.
LEMMA NodeAppendBranchStored ==
  ASSUME NEW node \in StoredNode, NEW ins \in InstructionRecord, NEW iteration \in Nat
  PROVE  LET new == NodeAppendBranchInstruction(node, ins, iteration)
         IN  new \in StoredNode /\ IsPrefix(node.block, new.block)
<1> DEFINE new    == NodeAppendBranchInstruction(node, ins, iteration)
           pushed == NodeAppendInstruction(node, ins, iteration)
<1>1. TrueBranchAddress(ins) \in Nat /\ FalseBranchAddress(ins) \in Nat
  BY BranchAddresses, AddressSpaceAssumption DEF Address
<1>2. CASE node.is_done
  <2>1. new = node /\ node.block \in Seq(StoredInstruction)
    BY <1>2 DEF NodeAppendBranchInstruction, StoredNode
  <2> QED
    BY <2>1, PrefixItself
<1>3. CASE ~node.is_done
  <2>1. new = TakeBranch(pushed, ins)
    BY <1>3 DEF NodeAppendBranchInstruction
  <2>2. pushed \in StoredNode /\ IsPrefix(node.block, pushed.block)
    BY NodeAppendStored
  <2> HIDE DEF pushed
  <2>3. new \in StoredNode /\ new.block = pushed.block
    BY <1>1, <2>1, <2>2 DEF TakeBranch, StoredNode
  <2> QED
    BY <2>2, <2>3
<1> QED
  BY <1>2, <1>3

LEMMA NewNodeStored ==
  ASSUME NEW address \in Nat, NEW iteration \in Nat
  PROVE  NewNode(address, iteration) \in StoredNode
BY DEF NewNode, StoredNode

\* append_node_neighbors.
LEMMA WithNeighborsStored ==
  ASSUME NEW map, StoredGraph(map), NEW node \in StoredNode, NEW iteration \in Nat
  PROVE  LET new == WithNeighbors(map, node, iteration) IN
           /\ StoredGraph(new)
           /\ \A a \in DOMAIN map : a \in DOMAIN new /\ new[a] = map[a]
<1> DEFINE new == WithNeighbors(map, node, iteration)
<1>1. Neighbors(node) \subseteq Nat
  BY DEF Neighbors, StoredNode
<1>2. IsFiniteSet(Neighbors(node))
  <2>1. /\ Neighbors(node) \subseteq {node.true_branch_address, node.false_branch_address}
        /\ IsFiniteSet({node.true_branch_address})
    BY FS_Singleton DEF Neighbors
  <2>2. IsFiniteSet({node.true_branch_address} \cup {node.false_branch_address})
    BY <2>1, FS_AddElement
  <2>3. Neighbors(node) \subseteq {node.true_branch_address} \cup {node.false_branch_address}
    BY <2>1
  <2> QED
    BY <2>2, <2>3, FS_Subset
<1>3. IsFiniteSet(DOMAIN map \cup Neighbors(node))
  BY <1>2, FS_Union DEF StoredGraph
<1>4. new \in [DOMAIN map \cup Neighbors(node) -> StoredNode]
  <2>1. \A a \in DOMAIN map \cup Neighbors(node) :
          (IF a \in DOMAIN map THEN map[a] ELSE NewNode(a, iteration)) \in StoredNode
    BY <1>1, NewNodeStored DEF StoredGraph
  <2> QED
    BY <2>1 DEF WithNeighbors
<1>5. DOMAIN new = DOMAIN map \cup Neighbors(node)
  BY DEF WithNeighbors
<1>6. \A a \in DOMAIN map : new[a] = map[a]
  BY DEF WithNeighbors
<1> HIDE DEF new
<1>7. StoredGraph(new)
  BY <1>1, <1>3, <1>4, <1>5 DEF StoredGraph
<1> QED
  BY <1>5, <1>6, <1>7 DEF new

Grown(new, old) ==
  \A a \in DOMAIN old : a \in DOMAIN new /\ IsPrefix(old[a].block, new[a].block)

\* Each node of a graph, and its block.
LEMMA StoredBlock ==
  ASSUME NEW map, StoredGraph(map), NEW a \in DOMAIN map
  PROVE  map[a] \in StoredNode /\ map[a].block \in Seq(StoredInstruction)
BY DEF StoredGraph, StoredNode

LEMMA GrownItself ==
  ASSUME NEW map, StoredGraph(map)
  PROVE  Grown(map, map)
BY StoredBlock, PrefixItself DEF Grown

LEMMA GrownTwice ==
  ASSUME NEW small, StoredGraph(small), NEW old, StoredGraph(old), NEW new, StoredGraph(new),
         Grown(old, small), Grown(new, old)
  PROVE  Grown(new, small)
<1> SUFFICES ASSUME NEW a \in DOMAIN small
             PROVE  a \in DOMAIN new /\ IsPrefix(small[a].block, new[a].block)
  BY DEF Grown
<1>1. /\ a \in DOMAIN old /\ IsPrefix(small[a].block, old[a].block)
      /\ a \in DOMAIN new /\ IsPrefix(old[a].block, new[a].block)
  BY DEF Grown
<1> QED
  BY <1>1, StoredBlock, PrefixTransitive

\* A node put back in the place of one it continues.
LEMMA PutGrown ==
  ASSUME NEW map, StoredGraph(map), NEW key \in Nat, NEW node \in StoredNode,
         key \in DOMAIN map => IsPrefix(map[key].block, node.block)
  PROVE  StoredGraph(Put(map, key, node)) /\ Grown(Put(map, key, node), map)
<1>1. StoredGraph(Put(map, key, node))
  BY PutStored
<1>2. ASSUME NEW a \in DOMAIN map
      PROVE  /\ a \in DOMAIN Put(map, key, node)
             /\ IsPrefix(map[a].block, Put(map, key, node)[a].block)
  <2>1. CASE a = key
    BY <2>1 DEF Put
  <2>2. CASE a # key
    BY <2>2, StoredBlock, PrefixItself DEF Put
  <2> QED
    BY <2>1, <2>2
<1> QED
  BY <1>1, <1>2 DEF Grown

StoredState ==
  StoredGraph(nodes) /\ start_address_first_node \in Nat /\ current_pointer \in Nat

\* append(): the graph stays storable, keeps what it holds and, once it holds
\* something, has a start address.
LEMMA AppendToGraphStored ==
  ASSUME StoredState, NEW ins \in InstructionRecord, NEW iteration \in Nat,
         AppendToGraph(ins, iteration)
  PROVE  /\ StoredState' /\ Grown(nodes', nodes)
         /\ start_address_first_node # 0 => start_address_first_node' = start_address_first_node
         /\ start_address_first_node' = 0 => start_address_first_node = 0 /\ nodes' = nodes
<1>0. ins.eip \in Nat
  BY AddressSpaceAssumption DEF InstructionRecord, Address
<1>1. CASE RejectInstruction(ins, iteration)
  BY <1>0, <1>1, GrownItself DEF RejectInstruction, SetStartOfFirstNode, StoredState, cursor
<1> DEFINE current == CurrentAddress(ins.eip)
           node    == GetCurrentNode(current, iteration)
<1>2. /\ current \in Nat /\ node \in StoredNode
      /\ current \in DOMAIN nodes => node = nodes[current]
  <2>1. current \in Nat
    BY <1>0 DEF CurrentAddress, StoredState
  <2> HIDE DEF current
  <2> QED
    BY <2>1, StoredBlock, NewNodeStored DEF GetCurrentNode, NodeExists, StoredState
<1> HIDE DEF current, node
<1>3. CASE AppendInstruction(ins, iteration)
  <2> DEFINE new == NodeAppendInstruction(node, ins, iteration)
  <2>1. /\ nodes' = Put(nodes, current, new) /\ current_pointer' = current
        /\ SetStartOfFirstNode(ins.eip) /\ ins.eip # 0
    BY <1>3 DEF AppendInstruction, current, node, Validate
  <2>2. new \in StoredNode /\ IsPrefix(node.block, new.block)
    BY <1>2, NodeAppendStored
  <2> HIDE DEF new
  <2>3. StoredGraph(nodes') /\ Grown(nodes', nodes)
    BY <1>2, <2>1, <2>2, PutGrown DEF StoredState
  <2> QED
    BY <1>0, <1>2, <2>1, <2>3 DEF StoredState, SetStartOfFirstNode
<1>4. CASE AppendBranchInstruction(ins, iteration)
  <2> DEFINE new == NodeAppendBranchInstruction(node, ins, iteration)
             map == WithNeighbors(nodes, new, iteration)
  <2>1. /\ nodes' = Put(map, current, new) /\ UnsetCurrentAddress(new, current)
        /\ SetStartOfFirstNode(ins.eip) /\ ins.eip # 0
    BY <1>4 DEF AppendBranchInstruction, current, node, Validate
  <2>2. new \in StoredNode /\ IsPrefix(node.block, new.block)
    BY <1>2, NodeAppendBranchStored
  <2>3. StoredGraph(map) /\ \A a \in DOMAIN nodes : a \in DOMAIN map /\ map[a] = nodes[a]
    <3> HIDE DEF new
    <3> QED
      BY <2>2, WithNeighborsStored DEF StoredState
  <2>4. current_pointer' \in Nat
    BY <1>2, <2>1 DEF UnsetCurrentAddress
  <2>5. current \in DOMAIN map => IsPrefix(map[current].block, new.block)
    <3>1. CASE current \in DOMAIN nodes
      BY <1>2, <2>2, <2>3, <3>1
    <3>2. CASE current \notin DOMAIN nodes
      <4>1. node.block = <<>>
        BY <3>2 DEF node, GetCurrentNode, NodeExists, NewNode
      <4>2. current \in DOMAIN map => map[current].block = <<>>
        BY <3>2 DEF WithNeighbors, NewNode
      <4> HIDE DEF new, map
      <4> QED
        BY <2>2, <4>1, <4>2
    <3> QED
      BY <3>1, <3>2
  <2> HIDE DEF new, map
  <2>6. StoredGraph(nodes') /\ Grown(nodes', map)
    BY <1>2, <2>1, <2>2, <2>3, <2>5, PutGrown
  <2>7. Grown(nodes', nodes)
    BY <2>3, <2>6 DEF Grown
  <2> QED
    BY <1>0, <2>1, <2>4, <2>6, <2>7 DEF StoredState, SetStartOfFirstNode
<1> QED
  BY <1>1, <1>3, <1>4 DEF AppendToGraph

\* generate() keeps every block, and an empty graph empty.
LEMMA GenerateStored ==
  ASSUME StoredState, Generate
  PROVE  /\ StoredState' /\ Grown(nodes', nodes)
         /\ start_address_first_node' = start_address_first_node
         /\ nodes = NoNodes => nodes' = NoNodes
<1>1. PICK max \in LargestOccurrences(nodes) : nodes' = WithMaxOccurrences(nodes, max)
  BY DEF Generate
<1>2. max \in Nat
  BY StoredBlock DEF LargestOccurrences, StoredState, StoredNode
<1>3. \A a \in DOMAIN nodes : [nodes[a] EXCEPT !.max_occurrences = max] \in StoredNode
  BY <1>2, StoredBlock DEF StoredState, StoredNode
<1>4. DOMAIN nodes' = DOMAIN nodes /\ nodes' \in [DOMAIN nodes -> StoredNode]
  BY <1>1, <1>3 DEF WithMaxOccurrences
<1>5. StoredGraph(nodes')
  BY <1>4 DEF StoredState, StoredGraph
<1>6. \A a \in DOMAIN nodes : nodes'[a].block = nodes[a].block
  BY <1>1, StoredBlock DEF WithMaxOccurrences, StoredState, StoredNode
<1>7. Grown(nodes', nodes)
  BY <1>4, <1>6, StoredBlock, PrefixItself DEF Grown, StoredState
<1>8. nodes = NoNodes => nodes' = NoNodes
  BY <1>1, EmptyStored DEF WithMaxOccurrences, NoNodes
<1> QED
  BY <1>5, <1>7, <1>8 DEF Generate, StoredState, cursor

-----------------------------------------------------------------------------
(* The invariant of the runs *)

Start(m) == m[0].value
Count(m) == m[Word].value

\* The region's head is never a count of nodes without a start address, and the
\* open run has a start address as soon as it, or the region, has one.
HeadInv ==
  /\ Start(mem) \in Nat /\ Count(mem) \in Nat /\ Begins(mem, Start(mem), Count(mem))
  /\ Start(mem) = 0 => Count(mem) = 0
  /\ phase \in {"running", "writing"} /\ start_address_first_node = 0 =>
       nodes = NoNodes /\ Start(mem) = 0

\* The open write has copied the first k fields and has the others to copy.
WriteInv ==
  phase = "writing" =>
    LET full == WriteGraph(nodes, start_address_first_node) IN
      \E k \in 0 .. Len(full) :
        copies = SubSeq(full, k + 1, Len(full)) /\ Holds(mem, SubSeq(full, 1, k))

\* A whole region holds the last graph written, and its start address unless
\* that graph is empty and the open write has copied its own.
WholeInv ==
  region = "whole" =>
    /\ Holds(mem, WriteGraph(written.nodes, Start(mem)))
    /\ written.nodes # NoNodes => Start(mem) = written.start_address_first_node

\* The open run continues the last graph written, unless it began on a torn region.
RunInv ==
  phase \in {"running", "writing"} /\ region # "torn" =>
    /\ Grown(nodes, written.nodes)
    /\ written.nodes # NoNodes =>
         start_address_first_node = written.start_address_first_node

WrittenInv ==
  /\ written = [nodes |-> written.nodes,
                start_address_first_node |-> written.start_address_first_node]
  /\ written.start_address_first_node \in Nat
  /\ written.nodes # NoNodes => written.start_address_first_node # 0

PhaseInv ==
  /\ region = "partial" => phase \in {"writing", "overrun"}
  /\ cfg_iteration = 0 => /\ phase = "idle" /\ written.nodes = NoNodes
                          /\ Start(mem) = 0 /\ Count(mem) = 0

SInv ==
  /\ SerialTypeOK
  /\ HeadInv
  /\ WriteInv
  /\ WholeInv
  /\ RunInv
  /\ WrittenInv
  /\ PhaseInv
  /\ FitsIsEnough

\* What the lemmas about the memory and the graph need of the invariant.
LEMMA InvParts ==
  ASSUME SInv
  PROVE  /\ StoredState /\ StoredGraph(written.nodes)
         /\ Memory(mem) /\ InRegion(mem) /\ cfg_iteration \in Nat
BY DEF SInv, SerialTypeOK, StoredState, Memory, InRegion

\* An empty map has no keys.
LEMMA NoKeys == Keys(NoNodes) \in Seq({}) /\ Len(Keys(NoNodes)) = 0
<1>1. Keys(NoNodes) \in Seq({})
  BY EmptyStored, KeysOf
<1>2. PICK keys \in Seq({}) : keys = Keys(NoNodes)
  BY <1>1
<1>3. Len(keys) \in Nat /\ \A i \in 1 .. Len(keys) : keys[i] \in {}
  OBVIOUS
<1>4. Len(keys) = 0
  <2> SUFFICES ASSUME Len(keys) # 0
               PROVE  FALSE
    OBVIOUS
  <2>1. 1 \in 1 .. Len(keys)
    BY <1>3
  <2> QED
    BY <1>3, <2>1
<1> QED
  BY <1>2, <1>4

\* What holds a graph begins with its start address and its number of nodes.
LEMMA HoldsGraph ==
  ASSUME NEW m, NEW map, StoredGraph(map), NEW start \in Nat
  PROVE  Holds(m, WriteGraph(map, start)) <=>
           /\ Begins(m, start, Len(Keys(map)))
           /\ Holds(m, WriteNodes(2 * Word, map, Keys(map)))
<1> DEFINE n    == Len(Keys(map))
           head == <<[at |-> 0, field |-> Number(start)], [at |-> Word, field |-> Number(n)]>>
           rest == WriteNodes(2 * Word, map, Keys(map))
<1>1. WriteGraph(map, start) = head \o rest /\ rest \in Seq(Copies)
  BY GraphLaid DEF Laid
<1>2. n \in Nat
  BY KeysOf
<1> HIDE DEF n, rest
<1>3. head \in Seq(Copies)
  BY <1>2, SerialAssumption DEF Copies, AnyField, Number, Field
<1>4. Holds(m, head) <=> Begins(m, start, n)
  <2>1. Len(head) = 2 /\ \A i \in 1 .. 2 : i = 1 \/ i = 2
    OBVIOUS
  <2>2. /\ head[1].at = 0 /\ head[1].field = Number(start)
        /\ head[2].at = Word /\ head[2].field = Number(n)
    OBVIOUS
  <2> HIDE DEF head
  <2> QED
    BY <2>1, <2>2 DEF Holds, Begins
<1> HIDE DEF head
<1> QED
  BY <1>1, <1>3, <1>4, HoldsBehind DEF n, rest

\* A region whose head says that it has no nodes holds the empty graph.
LEMMA EmptyHeld ==
  ASSUME NEW m, NEW start \in Nat, Begins(m, start, 0)
  PROVE  Holds(m, WriteGraph(NoNodes, start))
<1> DEFINE keys == Keys(NoNodes)
           css  == [i \in DOMAIN keys |->
                      WriteNode(2 * Word + Offsets(NodeSizes(NoNodes, keys))[i - 1],
                                keys[i], NoNodes[keys[i]])]
<1>1. keys \in Seq({}) /\ Len(keys) = 0 /\ DOMAIN NoNodes = {} /\ StoredGraph(NoNodes)
  BY NoKeys, EmptyStored
<1> HIDE DEF keys
<1>2. css \in Seq(Seq(Copies))
  <2>1. NoNodes \in [DOMAIN NoNodes -> StoredNode] /\ DOMAIN NoNodes \subseteq Nat
    BY <1>1 DEF StoredGraph
  <2>2. 2 * Word \in Nat /\ keys \in Seq(DOMAIN NoNodes)
    BY <1>1, SerialAssumption
  <2> QED
    BY <2>1, <2>2, NodesLaid
<1>3. Len(css) = 0
  BY <1>1
<1>4. WriteNodes(2 * Word, NoNodes, keys) = FlattenSeq(css)
  BY DEF WriteNodes
<1> HIDE DEF css
<1>5. Holds(m, FlattenSeq(css))
  <2>1. Holds(m, FlattenSeq(css)) <=> \A i \in 1 .. Len(css) : Holds(m, css[i])
    BY <1>2, FlattenHolds
  <2>2. \A i \in 1 .. Len(css) : Holds(m, css[i])
    BY <1>3
  <2> QED
    BY <2>1, <2>2
<1> QED
  BY <1>1, <1>4, <1>5, HoldsGraph DEF keys

\* Numbers in the head, after a copy behind it or to one of its two places.
LEMMA StoreHead ==
  ASSUME NEW m, Memory(m), NEW start \in Nat, NEW n \in Nat, Begins(m, start, n)
  PROVE  /\ \A at \in Nat : \A field \in AnyField :
              at >= 2 * Word => Begins(Store(m, at, field), start, n)
         /\ \A x \in Nat : Begins(Store(m, 0, Number(x)), x, n)
         /\ \A x \in Nat : Begins(Store(m, Word, Number(x)), start, x)
<1>1. /\ Word \in Nat /\ \A x \in Nat : Number(x) \in AnyField /\ FieldSize(Number(x)) = Word
  BY SerialAssumption DEF Number, Field, AnyField, FieldSize
<1>2. /\ 0 \in DOMAIN m /\ m[0] = Number(start) /\ Word \in DOMAIN m /\ m[Word] = Number(n)
      /\ FieldSize(m[0]) = Word /\ FieldSize(m[Word]) = Word
  BY <1>1 DEF Begins
<1>3. ASSUME NEW at \in Nat, NEW field \in AnyField, at >= 2 * Word
      PROVE  Begins(Store(m, at, field), start, n)
  <2>1. 0 + FieldSize(m[0]) <= at /\ Word + FieldSize(m[Word]) <= at
    BY <1>1, <1>2, <1>3
  <2> QED
    BY <1>2, <2>1, StoreKeeps DEF Begins
<1>4. ASSUME NEW x \in Nat
      PROVE  Begins(Store(m, 0, Number(x)), x, n)
  <2>1. Word >= 0 + FieldSize(Number(x)) /\ Number(x) \in AnyField
    BY <1>1
  <2>2. /\ Word \in DOMAIN Store(m, 0, Number(x))
        /\ Store(m, 0, Number(x))[Word] = m[Word]
    BY <1>2, <2>1, StoreKeeps
  <2>3. 0 \in DOMAIN Store(m, 0, Number(x)) /\ Store(m, 0, Number(x))[0] = Number(x)
    BY <2>1, StoreTyped
  <2> QED
    BY <1>2, <2>2, <2>3 DEF Begins
<1>5. ASSUME NEW x \in Nat
      PROVE  Begins(Store(m, Word, Number(x)), start, x)
  <2>1. 0 + FieldSize(m[0]) <= Word /\ Number(x) \in AnyField
    BY <1>1, <1>2
  <2>2. /\ 0 \in DOMAIN Store(m, Word, Number(x))
        /\ Store(m, Word, Number(x))[0] = m[0]
    BY <1>1, <1>2, <2>1, StoreKeeps
  <2>3. Word \in DOMAIN Store(m, Word, Number(x)) /\ Store(m, Word, Number(x))[Word] = Number(x)
    BY <1>1, <2>1, StoreTyped
  <2> QED
    BY <1>2, <2>2, <2>3 DEF Begins
<1> QED
  BY <1>3, <1>4, <1>5

\* The graph behind a new start address.
LEMMA StoreStart ==
  ASSUME NEW m, Memory(m), NEW map, StoredGraph(map), NEW old \in Nat, NEW new \in Nat,
         Holds(m, WriteGraph(map, old))
  PROVE  Holds(Store(m, 0, Number(new)), WriteGraph(map, new))
<1> DEFINE rest == WriteNodes(2 * Word, map, Keys(map))
           s    == Store(m, 0, Number(new))
<1>1. /\ Word \in Nat /\ Number(new) \in AnyField /\ FieldSize(Number(new)) = Word
  BY SerialAssumption DEF Number, Field, AnyField, FieldSize
<1>2. Begins(m, old, Len(Keys(map))) /\ Holds(m, rest) /\ Len(Keys(map)) \in Nat
  BY HoldsGraph, KeysOf
<1>3. Begins(s, new, Len(Keys(map)))
  BY <1>2, StoreHead
<1>4. Laid(rest, 2 * Word, MemSize(map))
  BY GraphLaid
<1> HIDE DEF rest
<1>5. Holds(s, rest)
  <2> SUFFICES ASSUME NEW i \in 1 .. Len(rest)
               PROVE  rest[i].at \in DOMAIN s /\ s[rest[i].at] = rest[i].field
    BY DEF Holds
  <2>1. PICK o \in DOMAIN m : o = rest[i].at /\ m[o] = rest[i].field
    BY <1>2 DEF Holds
  <2>2. 2 * Word <= o
    BY <1>4, <2>1 DEF Laid
  <2>3. o \in Nat
    BY DEF Memory
  <2>4. o >= 0 + FieldSize(Number(new))
    BY <1>1, <2>2, <2>3
  <2> QED
    BY <1>1, <2>1, <2>4, StoreKeeps
<1> QED
  BY <1>3, <1>5, HoldsGraph DEF rest

-----------------------------------------------------------------------------
(* The steps.  Each keeps the invariant and is a step of SharedGraph, or    *)
(* none at all.                                                             *)

SharedStep == [Shared!SharedNext]_(Shared!shared)

\* The zeroed region holds the empty graph.
LEMMA SerialInitInv ==
  ASSUME SerialInit
  PROVE  SInv /\ Shared!SharedInit
<1> DEFINE first == Store(<<>>, 0, Number(0))
<1>1. mem = Store(first, Word, Number(0))
  BY DEF SerialInit, Number
<1>2. /\ Word \in Nat /\ Number(0) \in AnyField /\ FieldSize(Number(0)) = Word
      /\ RegionSize \in Nat /\ 0 + Word <= RegionSize /\ Word + Word <= RegionSize
  BY SerialAssumption DEF Number, Field, AnyField, FieldSize
<1>3. Memory(<<>>) /\ InRegion(<<>>)
  BY DEF Memory, InRegion
<1>4. Memory(first) /\ InRegion(first) /\ 0 \in DOMAIN first /\ first[0] = Number(0)
  BY <1>2, <1>3, StoreTyped
<1> HIDE DEF first
<1>5. /\ Memory(mem) /\ InRegion(mem) /\ Word \in DOMAIN mem /\ mem[Word] = Number(0)
  BY <1>1, <1>2, <1>4, StoreTyped
<1>6. 0 \in DOMAIN mem /\ mem[0] = Number(0)
  <2>1. 0 + FieldSize(first[0]) <= Word
    BY <1>2, <1>4
  <2> QED
    BY <1>1, <1>2, <1>4, <2>1, StoreKeeps
<1>7. Begins(mem, 0, 0) /\ Start(mem) = 0 /\ Count(mem) = 0
  BY <1>5, <1>6 DEF Begins, Start, Count, Number, Field
<1>8. /\ nodes = NoNodes /\ written.nodes = NoNodes /\ start_address_first_node = 0
      /\ written.start_address_first_node = 0 /\ current_pointer = 0 /\ copies = <<>>
      /\ cfg_iteration = 0 /\ phase = "idle" /\ region = "whole"
      /\ written = [nodes |-> NoNodes, start_address_first_node |-> 0]
  BY DEF SerialInit, Init
<1>9. StoredGraph(NoNodes) /\ DOMAIN NoNodes = {}
  BY EmptyStored
<1> HIDE DEF NoNodes
<1>10. SerialTypeOK
  BY <1>5, <1>8, <1>9 DEF SerialTypeOK, Memory, InRegion, SerialPhase
<1>11. Holds(mem, WriteGraph(written.nodes, Start(mem)))
  BY <1>7, <1>8, EmptyHeld
<1>12. HeadInv /\ WriteInv /\ WholeInv /\ RunInv /\ WrittenInv /\ PhaseInv /\ FitsIsEnough
  BY <1>7, <1>8, <1>11
     DEF HeadInv, WriteInv, WholeInv, RunInv, WrittenInv, PhaseInv, FitsIsEnough
<1>13. Shared!SharedInit
  BY <1>8, <1>9 DEF Shared!SharedInit
<1> QED
  BY <1>10, <1>12, <1>13 DEF SInv

\* What relates the memory to what was written, while neither changes.
LEMMA MemoryKept ==
  ASSUME SInv, mem' = mem, written' = written, region' = region,
         \/ phase' \notin {"running", "writing"}
         \/ start_address_first_node' # 0
         \/ nodes' = NoNodes /\ Start(mem) = 0
  PROVE  HeadInv' /\ WholeInv' /\ WrittenInv'
<1>1. HeadInv'
  BY DEF SInv, HeadInv, Begins, Start, Count
<1>2. WholeInv'
  BY DEF SInv, WholeInv, Holds, Start
<1>3. WrittenInv'
  BY DEF SInv, WrittenInv
<1> QED
  BY <1>1, <1>2, <1>3

\* What read() finds: something storable in every case, the last graph written
\* in a whole region.
LEMMA ReadInv ==
  ASSUME SInv
  PROVE  LET found == ReadGraph(mem) IN
           /\ StoredGraph(found.nodes) /\ found.start_address_first_node = Start(mem)
           /\ Start(mem) \in Nat
           /\ Start(mem) = 0 => found.nodes = NoNodes
           /\ region = "whole" =>
                /\ found.ok /\ found.nodes = written.nodes
                /\ written.nodes # NoNodes =>
                     Start(mem) = written.start_address_first_node
<1>1. /\ Start(mem) \in Nat /\ Count(mem) \in Nat /\ Begins(mem, Start(mem), Count(mem))
      /\ Start(mem) = 0 => Count(mem) = 0
  BY DEF SInv, HeadInv
<1>2. PICK found : found = ReadGraph(mem)
  OBVIOUS
<1>3. /\ StoredGraph(found.nodes) /\ found.start_address_first_node = Start(mem)
      /\ Start(mem) = 0 => found.nodes = NoNodes
  BY <1>1, <1>2, InvParts, ReadGraphTyped
<1>4. CASE region = "whole"
  <2>1. /\ Holds(mem, WriteGraph(written.nodes, Start(mem)))
        /\ written.nodes # NoNodes => Start(mem) = written.start_address_first_node
    BY <1>4 DEF SInv, WholeInv
  <2>2. found = [ok |-> TRUE, nodes |-> written.nodes, start_address_first_node |-> Start(mem)]
    BY <1>1, <1>2, <2>1, InvParts, GraphBack
  <2> QED
    BY <1>1, <1>2, <1>3, <2>1, <2>2
<1> QED
  BY <1>1, <1>2, <1>3, <1>4

\* A run reads the last graph written, or a torn region.
LEMMA BeginRunStep ==
  ASSUME SInv, BeginRun
  PROVE  SInv' /\ SharedStep
<1> DEFINE found == ReadGraph(mem)
<1>1. /\ phase = "idle" /\ cfg_iteration' = cfg_iteration + 1 /\ cfg_iteration \in Nat
      /\ UNCHANGED <<cursor, mem, copies, written, region>>
      /\ IF cfg_iteration # 0 THEN Load(found) ELSE phase' = "running" /\ UNCHANGED graph
  BY InvParts DEF BeginRun
<1>2. /\ StoredGraph(found.nodes) /\ found.start_address_first_node = Start(mem)
      /\ Start(mem) \in Nat
      /\ Start(mem) = 0 => found.nodes = NoNodes
      /\ region = "whole" =>
           /\ found.ok /\ found.nodes = written.nodes
           /\ written.nodes # NoNodes => Start(mem) = written.start_address_first_node
  BY ReadInv
<1> HIDE DEF found
<1>3. /\ nodes = NoNodes /\ start_address_first_node = 0 /\ current_pointer = 0
      /\ copies = <<>> /\ region \in {"whole", "torn"}
  BY <1>1 DEF SInv, SerialTypeOK, PhaseInv
<1>4. cfg_iteration = 0 => written.nodes = NoNodes /\ Start(mem) = 0
  BY DEF SInv, PhaseInv
<1>5. phase' \in {"running", "garbage"} /\ copies' = <<>> /\ current_pointer' = 0
  BY <1>1, <1>3 DEF Load, cursor
<1>6. \/ phase' = "garbage" /\ nodes' = NoNodes /\ start_address_first_node' = 0
      \/ phase' = "running" /\ nodes' = found.nodes /\ start_address_first_node' = Start(mem)
      \/ /\ cfg_iteration = 0 /\ phase' = "running"
         /\ nodes' = NoNodes /\ start_address_first_node' = 0
  BY <1>1, <1>2, <1>3 DEF Load, graph
<1>7. StoredGraph(nodes') /\ start_address_first_node' \in Nat
  BY <1>2, <1>6, EmptyStored
<1>8. SerialTypeOK'
  BY <1>1, <1>5, <1>7 DEF SInv, SerialTypeOK, SerialPhase
<1>9. HeadInv' /\ WholeInv' /\ WrittenInv'
  BY <1>1, <1>2, <1>4, <1>6, MemoryKept
<1>10. WriteInv' /\ PhaseInv' /\ FitsIsEnough'
  BY <1>1, <1>3, <1>5 DEF WriteInv, PhaseInv, FitsIsEnough
<1>11. RunInv'
  <2> SUFFICES ASSUME phase' = "running", region # "torn"
               PROVE  /\ Grown(nodes', written.nodes)
                      /\ written.nodes # NoNodes =>
                           start_address_first_node' = written.start_address_first_node
    BY <1>1, <1>5 DEF RunInv
  <2>1. region = "whole"
    BY <1>3
  <2>2. Grown(written.nodes, written.nodes)
    BY InvParts, GrownItself
  <2> QED
    BY <1>2, <1>4, <1>6, <2>1, <2>2
<1>12. SharedStep
  <2>1. Shared!OpenRun
    BY <1>1, <1>5 DEF Shared!OpenRun
  <2> QED
    BY <2>1 DEF SharedStep, Shared!SharedNext
<1> QED
  BY <1>8, <1>9, <1>10, <1>11, <1>12 DEF SInv

\* A run's own steps leave the memory, and what SharedGraph sees of it, alone.
LEMMA SharedKept ==
  ASSUME UNCHANGED <<cfg_iteration, region, written>>, phase # "idle", phase' # "idle"
  PROVE  SharedStep
BY DEF SharedStep, Shared!shared

\* A run that has a start address keeps it.
LEMMA TraceStep ==
  ASSUME SInv, NEW ins \in InstructionRecord, Trace(ins)
  PROVE  SInv' /\ SharedStep
<1>1. /\ phase = "running" /\ AppendToGraph(ins, cfg_iteration) /\ cfg_iteration \in Nat
      /\ UNCHANGED <<mem, copies, cfg_iteration, phase, written, region>>
  BY InvParts DEF Trace
<1>2. StoredState /\ StoredGraph(written.nodes)
  BY InvParts
<1>3. /\ StoredState' /\ Grown(nodes', nodes)
      /\ start_address_first_node # 0 => start_address_first_node' = start_address_first_node
      /\ start_address_first_node' = 0 => start_address_first_node = 0 /\ nodes' = nodes
  BY <1>1, <1>2, AppendToGraphStored
<1>4. SerialTypeOK'
  BY <1>1, <1>3 DEF SInv, SerialTypeOK, StoredState
<1>5. HeadInv' /\ WholeInv' /\ WrittenInv'
  <2>1. start_address_first_node' = 0 => nodes' = NoNodes /\ Start(mem) = 0
    BY <1>1, <1>3 DEF SInv, HeadInv
  <2>2. mem' = mem /\ written' = written /\ region' = region
    BY <1>1
  <2> QED
    BY <2>1, <2>2, MemoryKept
<1>6. WriteInv' /\ PhaseInv' /\ FitsIsEnough'
  BY <1>1 DEF SInv, WriteInv, PhaseInv, FitsIsEnough, Start, Count
<1>7. RunInv'
  <2> SUFFICES ASSUME region # "torn"
               PROVE  /\ Grown(nodes', written.nodes)
                      /\ written.nodes # NoNodes =>
                           start_address_first_node' = written.start_address_first_node
    BY <1>1 DEF RunInv
  <2>1. /\ Grown(nodes, written.nodes)
        /\ written.nodes # NoNodes =>
             /\ start_address_first_node = written.start_address_first_node
             /\ start_address_first_node # 0
    BY <1>1 DEF SInv, RunInv, WrittenInv
  <2>2. Grown(nodes', written.nodes)
    BY <1>2, <1>3, <2>1, GrownTwice DEF StoredState
  <2> QED
    BY <1>3, <2>1, <2>2
<1> QED
  BY <1>1, <1>4, <1>5, <1>6, <1>7, SharedKept DEF SInv

\* No field is copied yet.
LEMMA BeginWriteStep ==
  ASSUME SInv, BeginWrite
  PROVE  SInv' /\ SharedStep
<1>1. /\ phase = "running" /\ phase' = "writing" /\ Generate
      /\ copies' = WriteGraph(nodes', start_address_first_node)
      /\ mem' = mem /\ cfg_iteration' = cfg_iteration /\ written' = written /\ region' = region
  BY DEF BeginWrite
<1>2. StoredState /\ StoredGraph(written.nodes)
  BY InvParts
<1>3. /\ StoredState' /\ Grown(nodes', nodes)
      /\ start_address_first_node' = start_address_first_node
      /\ nodes = NoNodes => nodes' = NoNodes
  BY <1>1, <1>2, GenerateStored
<1>4. SerialTypeOK'
  BY <1>1, <1>3 DEF SInv, SerialTypeOK, SerialPhase, StoredState
<1>5. HeadInv' /\ WholeInv' /\ WrittenInv'
  <2>1. start_address_first_node' = 0 => nodes' = NoNodes /\ Start(mem) = 0
    BY <1>1, <1>3 DEF SInv, HeadInv
  <2> QED
    BY <1>1, <2>1, MemoryKept
<1>6. WriteInv'
  <2> DEFINE full == WriteGraph(nodes', start_address_first_node)
  <2>1. full \in Seq(Copies)
    BY <1>2, <1>3, GraphLaid DEF StoredState, Laid
  <2>2. copies' = full
    BY <1>1
  <2> HIDE DEF full
  <2>3. 0 \in 0 .. Len(full) /\ full = SubSeq(full, 0 + 1, Len(full))
    BY <2>1
  <2>4. Holds(mem, SubSeq(full, 1, 0))
    BY <2>1 DEF Holds
  <2>5. \E k \in 0 .. Len(full) :
          copies' = SubSeq(full, k + 1, Len(full)) /\ Holds(mem, SubSeq(full, 1, k))
    BY <2>2, <2>3, <2>4
  <2> QED
    BY <1>1, <1>3, <2>5 DEF WriteInv, full
<1>7. PhaseInv' /\ FitsIsEnough'
  BY <1>1 DEF SInv, PhaseInv, FitsIsEnough, Start, Count
<1>8. RunInv'
  <2> SUFFICES ASSUME region # "torn"
               PROVE  /\ Grown(nodes', written.nodes)
                      /\ written.nodes # NoNodes =>
                           start_address_first_node' = written.start_address_first_node
    BY <1>1 DEF RunInv
  <2>1. /\ Grown(nodes, written.nodes)
        /\ written.nodes # NoNodes =>
             start_address_first_node = written.start_address_first_node
    BY <1>1 DEF SInv, RunInv
  <2>2. Grown(nodes', written.nodes)
    BY <1>2, <1>3, <2>1, GrownTwice DEF StoredState
  <2> QED
    BY <1>3, <2>1, <2>2
<1>9. SharedStep
  BY <1>1, SharedKept
<1> QED
  BY <1>4, <1>5, <1>6, <1>7, <1>8, <1>9 DEF SInv

\* What write() copies first, second and then.
LEMMA CopiesInOrder ==
  ASSUME NEW map, StoredGraph(map), NEW start \in Nat
  PROVE  LET full == WriteGraph(map, start) IN
           /\ Laid(full, 0, MemSize(map)) /\ MemSize(map) \in Nat /\ Len(full) \in Nat
           /\ full[1] = [at |-> 0, field |-> Number(start)]
           /\ full[2] = [at |-> Word, field |-> Number(Len(Keys(map)))]
           /\ \A i \in 3 .. Len(full) : full[i].at >= 2 * Word
<1> DEFINE rest == WriteNodes(2 * Word, map, Keys(map))
           head == <<[at |-> 0, field |-> Number(start)],
                     [at |-> Word, field |-> Number(Len(Keys(map)))]>>
           full == WriteGraph(map, start)
<1>1. /\ Laid(full, 0, MemSize(map)) /\ MemSize(map) \in Nat
      /\ Laid(rest, 2 * Word, MemSize(map)) /\ full = head \o rest
  BY GraphLaid
<1>2. rest \in Seq(Copies) /\ Len(rest) \in Nat /\ \A i \in 1 .. Len(rest) : rest[i].at \in Nat
  <2>1. rest \in Seq(Copies)
    BY <1>1 DEF Laid
  <2> HIDE DEF rest
  <2>2. Len(rest) \in Nat /\ \A i \in 1 .. Len(rest) : rest[i] \in Copies
    BY <2>1
  <2> QED
    BY <2>1, <2>2 DEF Copies
<1> HIDE DEF rest
<1>3. full[1] = head[1] /\ full[2] = head[2] /\ Len(full) = 2 + Len(rest)
  BY <1>1, <1>2
<1>4. ASSUME NEW i \in 3 .. Len(full)
      PROVE  full[i].at >= 2 * Word
  <2>1. i - 2 \in 1 .. Len(rest) /\ full[i] = rest[i - 2]
    BY <1>1, <1>2, <1>3
  <2>2. 2 * Word <= rest[i - 2].at
    BY <1>1, <2>1 DEF Laid
  <2>3. 2 * Word \in Nat /\ rest[i - 2].at \in Nat
    BY <1>2, <2>1, SerialAssumption
  <2> QED
    BY <2>1, <2>2, <2>3
<1> HIDE DEF full
<1> QED
  BY <1>1, <1>2, <1>3, <1>4 DEF full

\* The copy that would leave the region: it_fits has said so before.
LEMMA OverrunStep ==
  ASSUME SInv, Copy, phase' = "overrun"
  PROVE  SInv' /\ SharedStep
<1>1. /\ phase = "writing" /\ copies # <<>>
      /\ UNCHANGED <<vars, cfg_iteration, written>> /\ cfg_iteration' = cfg_iteration
      /\ written' = written
      /\ Head(copies).at + FieldSize(Head(copies).field) > RegionSize
      /\ mem' = mem /\ copies' = copies
      /\ region' = IF region = "whole" /\ Head(copies).at # 0 THEN "partial" ELSE region
  BY DEF Copy
<1> DEFINE full == WriteGraph(nodes, start_address_first_node)
<1>2. PICK k \in 0 .. Len(full) : copies = SubSeq(full, k + 1, Len(full))
  BY <1>1 DEF SInv, WriteInv
<1>3. /\ Laid(full, 0, MemSize(nodes)) /\ MemSize(nodes) \in Nat /\ full \in Seq(Copies)
      /\ Len(full) \in Nat
  <2>1. /\ Laid(full, 0, MemSize(nodes)) /\ MemSize(nodes) \in Nat /\ Len(full) \in Nat
    BY InvParts, CopiesInOrder DEF StoredState
  <2> QED
    BY <2>1 DEF Laid
<1> HIDE DEF full
<1>4. k + 1 \in 1 .. Len(full) /\ Head(copies) = full[k + 1]
  BY <1>1, <1>2, <1>3
<1>5. full[k + 1].at + FieldSize(full[k + 1].field) <= MemSize(nodes)
  BY <1>3, <1>4 DEF Laid
<1>6. full[k + 1].at + FieldSize(full[k + 1].field) \in Nat
  <2>1. full[k + 1] \in Copies
    BY <1>3, <1>4
  <2> QED
    BY <2>1, FieldSizeIsPositive DEF Copies
<1>7. ~ ItFits(nodes, RegionSize)
  <2>1. MemSize(nodes) > RegionSize
    BY <1>1, <1>3, <1>4, <1>5, <1>6, SerialAssumption
  <2> QED
    BY <1>3, <2>1, SerialAssumption DEF ItFits
<1>8. /\ nodes' = nodes /\ start_address_first_node' = start_address_first_node
      /\ current_pointer' = current_pointer
  BY <1>1 DEF vars
<1>9. SerialTypeOK'
  BY <1>1, <1>8 DEF SInv, SerialTypeOK, SerialPhase
<1>10. HeadInv' /\ WrittenInv' /\ WriteInv' /\ RunInv'
  BY <1>1 DEF SInv, HeadInv, WrittenInv, WriteInv, RunInv, Begins, Start, Count
<1>11. WholeInv'
  BY <1>1 DEF SInv, WholeInv, Holds, Start
<1>12. PhaseInv'
  BY <1>1 DEF SInv, PhaseInv, Start, Count
<1>13. FitsIsEnough'
  BY <1>7, <1>8 DEF FitsIsEnough, ItFits, MemSize, NodeSizes, Keys
<1>14. SharedStep
  <2>1. CASE region' = region
    BY <1>1, <2>1, SharedKept
  <2>2. CASE region' # region
    <3>1. Shared!TouchRegion
      BY <1>1, <2>2 DEF Shared!TouchRegion
    <3> QED
      BY <3>1 DEF SharedStep, Shared!SharedNext
  <2> QED
    BY <2>1, <2>2
<1> QED
  BY <1>9, <1>10, <1>11, <1>12, <1>13, <1>14 DEF SInv

\* The numbers of a head.
LEMMA BeginsWith ==
  ASSUME NEW m, NEW start, NEW n, Begins(m, start, n)
  PROVE  Start(m) = start /\ Count(m) = n
BY DEF Begins, Start, Count, Number, Field

\* The head of the region while the write goes on: a start address comes before
\* the number of nodes that needs it.
LEMMA CopyHead ==
  ASSUME SInv, phase = "writing",
         NEW k \in Nat, k + 1 <= Len(WriteGraph(nodes, start_address_first_node)),
         Holds(mem, SubSeq(WriteGraph(nodes, start_address_first_node), 1, k)),
         NEW copy, copy = WriteGraph(nodes, start_address_first_node)[k + 1],
         NEW m, m = Store(mem, copy.at, copy.field)
  PROVE  /\ \E s, n \in Nat :
              /\ Begins(m, s, n) /\ (s = 0 => n = 0)
              /\ start_address_first_node = 0 => nodes = NoNodes /\ s = 0
         /\ copy.at = 0 => copy.field = Number(start_address_first_node)
<1> DEFINE full  == WriteGraph(nodes, start_address_first_node)
           start == start_address_first_node
           len   == Len(Keys(nodes))
<1>1. /\ Memory(mem) /\ StoredGraph(nodes) /\ start \in Nat
  BY InvParts DEF StoredState
<1>2. /\ full \in Seq(Copies) /\ Len(full) \in Nat
      /\ full[1] = [at |-> 0, field |-> Number(start)]
      /\ full[2] = [at |-> Word, field |-> Number(len)]
      /\ \A i \in 3 .. Len(full) : full[i].at >= 2 * Word
  BY <1>1, CopiesInOrder DEF Laid
<1>3. len \in Nat /\ (nodes = NoNodes => len = 0)
  BY <1>1, KeysOf, NoKeys
<1>4. PICK s \in Nat, n \in Nat :
        /\ Begins(mem, s, n) /\ (s = 0 => n = 0)
        /\ start = 0 => nodes = NoNodes /\ s = 0
  BY DEF SInv, HeadInv
<1>5. Word \in Nat /\ Word # 0 /\ 2 * Word # 0
  BY SerialAssumption
<1> HIDE DEF full, len
<1>6. CASE k = 0
  <2>1. copy.at = 0 /\ copy.field = Number(start)
    BY <1>2, <1>6 DEF full
  <2>2. Begins(m, start, n)
    BY <1>1, <1>4, <2>1, StoreHead
  <2> QED
    BY <1>1, <1>4, <2>1, <2>2
<1>7. CASE k = 1
  <2>1. copy.at = Word /\ copy.field = Number(len)
    BY <1>2, <1>7 DEF full
  <2>2. Begins(m, s, len)
    BY <1>1, <1>3, <1>4, <2>1, StoreHead
  <2>3. s = start
    <3>1. Holds(mem, SubSeq(full, 1, 1)) /\ 2 <= Len(full)
      BY <1>7 DEF full
    <3>2. 1 \in 1 .. Len(SubSeq(full, 1, 1)) /\ SubSeq(full, 1, 1)[1] = full[1]
      BY <1>2, <3>1
    <3>3. mem[0] = Number(start)
      BY <1>2, <3>1, <3>2 DEF Holds
    <3> QED
      BY <1>4, <3>3 DEF Begins, Number, Field
  <2> QED
    BY <1>3, <1>4, <1>5, <2>1, <2>2, <2>3
<1>8. CASE k # 0 /\ k # 1
  <2>1. k + 1 \in 3 .. Len(full) /\ copy = full[k + 1]
    BY <1>2, <1>8 DEF full
  <2>2. copy.at >= 2 * Word /\ copy \in Copies
    BY <1>2, <2>1
  <2>3. copy.at \in Nat /\ copy.field \in AnyField
    BY <2>2 DEF Copies
  <2>4. Begins(m, s, n)
    BY <1>1, <1>4, <2>2, <2>3, StoreHead
  <2>5. copy.at # 0
    BY <1>5, <2>2, <2>3
  <2> QED
    BY <1>4, <2>4, <2>5
<1> QED
  BY <1>6, <1>7, <1>8

\* One field more of the open write; a whole region stays whole only for the first.
LEMMA CopyFitsStep ==
  ASSUME SInv, Copy, phase' # "overrun"
  PROVE  SInv' /\ SharedStep
<1> DEFINE full == WriteGraph(nodes, start_address_first_node)
           copy == Head(copies)
<1>1. /\ phase = "writing" /\ copies # <<>> /\ cfg_iteration' = cfg_iteration
      /\ written' = written /\ phase' = phase
      /\ mem' = Store(mem, copy.at, copy.field) /\ copies' = Tail(copies)
      /\ ~ (copy.at + FieldSize(copy.field) > RegionSize)
      /\ region' = IF region = "whole" /\ copy.at # 0 THEN "partial" ELSE region
      /\ nodes' = nodes /\ start_address_first_node' = start_address_first_node
      /\ current_pointer' = current_pointer
  BY DEF Copy, vars
<1>2. PICK k \in 0 .. Len(full) :
        copies = SubSeq(full, k + 1, Len(full)) /\ Holds(mem, SubSeq(full, 1, k))
  BY <1>1 DEF SInv, WriteInv
<1>3. /\ Laid(full, 0, MemSize(nodes)) /\ full \in Seq(Copies) /\ Len(full) \in Nat
  <2>1. /\ Laid(full, 0, MemSize(nodes)) /\ Len(full) \in Nat
    BY InvParts, CopiesInOrder DEF StoredState
  <2> QED
    BY <2>1 DEF Laid
<1> HIDE DEF full
<1>4. /\ k \in Nat /\ k + 1 \in 1 .. Len(full) /\ copy = full[k + 1]
      /\ Tail(copies) = SubSeq(full, (k + 1) + 1, Len(full))
  BY <1>1, <1>2, <1>3
<1>5. /\ copy \in Copies /\ copy.at \in Nat /\ copy.field \in AnyField
      /\ copy.at + FieldSize(copy.field) <= RegionSize
  <2>1. copy \in Copies
    BY <1>3, <1>4
  <2>2. copy.at \in Nat /\ copy.field \in AnyField
    BY <2>1 DEF Copies
  <2>3. FieldSize(copy.field) \in Nat
    BY <2>2, FieldSizeIsPositive
  <2> QED
    BY <1>1, <2>1, <2>2, <2>3, SerialAssumption
<1> HIDE DEF copy
<1>6. Memory(mem') /\ InRegion(mem')
  BY <1>1, <1>5, InvParts, StoreTyped
<1>7. Holds(mem', SubSeq(full, 1, k + 1))
  <2>1. Holds(Store(mem, full[k + 1].at, full[k + 1].field), SubSeq(full, 1, k + 1))
    BY <1>2, <1>3, <1>4, InvParts, NextCopy
  <2> QED
    BY <1>1, <1>4, <2>1
<1>8. WriteInv'
  <2>1. copies' = SubSeq(full, (k + 1) + 1, Len(full)) /\ k + 1 \in 0 .. Len(full)
    BY <1>1, <1>3, <1>4
  <2>2. \E j \in 0 .. Len(full) :
          copies' = SubSeq(full, j + 1, Len(full)) /\ Holds(mem', SubSeq(full, 1, j))
    BY <1>7, <2>1
  <2> QED
    BY <1>1, <2>2 DEF WriteInv, full
<1>9. PICK s \in Nat, n \in Nat :
        /\ Begins(mem', s, n) /\ (s = 0 => n = 0)
        /\ start_address_first_node = 0 => nodes = NoNodes /\ s = 0
        /\ copy.at = 0 => copy.field = Number(start_address_first_node)
  <2>1. PICK m : m = mem'
    OBVIOUS
  <2>2. /\ k + 1 <= Len(full) /\ m = Store(mem, copy.at, copy.field) /\ copy = full[k + 1]
    BY <1>1, <1>3, <1>4, <2>1
  <2>3. /\ \E s, n \in Nat :
              /\ Begins(m, s, n) /\ (s = 0 => n = 0)
              /\ start_address_first_node = 0 => nodes = NoNodes /\ s = 0
        /\ copy.at = 0 => copy.field = Number(start_address_first_node)
    BY <1>1, <1>2, <1>4, <2>2, CopyHead DEF full
  <2> QED
    BY <2>1, <2>3
<1>10. HeadInv'
  <2>1. Start(mem') = s /\ Count(mem') = n
    BY <1>9, BeginsWith
  <2> QED
    BY <1>1, <1>9, <2>1 DEF HeadInv
<1>11. WholeInv'
  <2> SUFFICES ASSUME region' = "whole"
               PROVE  /\ Holds(mem', WriteGraph(written.nodes, Start(mem')))
                      /\ written.nodes # NoNodes =>
                           Start(mem') = written.start_address_first_node
    BY <1>1 DEF WholeInv
  <2>1. region = "whole" /\ copy.at = 0 /\ copy.field = Number(start_address_first_node)
    BY <1>1, <1>9
  <2>2. mem' = Store(mem, 0, Number(start_address_first_node))
    BY <1>1, <2>1
  <2>3. /\ Holds(mem, WriteGraph(written.nodes, Start(mem))) /\ Start(mem) \in Nat
        /\ Begins(mem, Start(mem), Count(mem)) /\ Count(mem) \in Nat
    BY <2>1 DEF SInv, WholeInv, HeadInv
  <2>4. start_address_first_node \in Nat
    BY InvParts DEF StoredState
  <2>5. Holds(mem', WriteGraph(written.nodes, start_address_first_node))
    BY <2>2, <2>3, <2>4, InvParts, StoreStart
  <2>6. Start(mem') = start_address_first_node
    <3>1. Begins(mem', start_address_first_node, Count(mem))
      BY <2>2, <2>3, <2>4, InvParts, StoreHead
    <3> QED
      BY <3>1, BeginsWith
  <2>7. written.nodes # NoNodes =>
          start_address_first_node = written.start_address_first_node
    BY <1>1, <2>1 DEF SInv, RunInv
  <2> QED
    BY <2>5, <2>6, <2>7
<1>12. SerialTypeOK'
  BY <1>1, <1>6 DEF SInv, SerialTypeOK, Memory, InRegion
<1>13. WrittenInv' /\ RunInv' /\ FitsIsEnough'
  BY <1>1 DEF SInv, WrittenInv, RunInv, FitsIsEnough
<1>14. PhaseInv'
  BY <1>1 DEF SInv, PhaseInv
<1>15. SharedStep
  <2>1. CASE region' = region
    BY <1>1, <2>1, SharedKept
  <2>2. CASE region' # region
    <3>1. Shared!TouchRegion
      BY <1>1, <2>2 DEF Shared!TouchRegion
    <3> QED
      BY <3>1 DEF SharedStep, Shared!SharedNext
  <2> QED
    BY <2>1, <2>2
<1> QED
  BY <1>8, <1>10, <1>11, <1>12, <1>13, <1>14, <1>15 DEF SInv

LEMMA CopyStep ==
  ASSUME SInv, Copy
  PROVE  SInv' /\ SharedStep
BY OverrunStep, CopyFitsStep

\* The object is deleted: nothing is left for the next run to load into.
LEMMA DeletedStored ==
  ASSUME DeletedGraph
  PROVE  /\ nodes' = NoNodes /\ start_address_first_node' = 0 /\ current_pointer' = 0
         /\ StoredGraph(nodes')
BY EmptyStored DEF DeletedGraph

\* Every field is copied: the region holds the graph of the run.
LEMMA EndWriteStep ==
  ASSUME SInv, EndWrite
  PROVE  SInv' /\ SharedStep
<1>1. /\ phase = "writing" /\ copies = <<>> /\ phase' = "idle" /\ region' = "whole"
      /\ written' = [nodes |-> nodes, start_address_first_node |-> start_address_first_node]
      /\ DeletedGraph
      /\ mem' = mem /\ copies' = copies /\ cfg_iteration' = cfg_iteration
  BY DEF EndWrite
<1>2. /\ nodes' = NoNodes /\ start_address_first_node' = 0 /\ current_pointer' = 0
      /\ StoredGraph(nodes')
  BY <1>1, DeletedStored
<1>3. /\ StoredGraph(nodes) /\ start_address_first_node \in Nat
      /\ written'.nodes = nodes
      /\ written'.start_address_first_node = start_address_first_node
  BY <1>1, InvParts DEF StoredState
<1> DEFINE full == WriteGraph(nodes, start_address_first_node)
<1>4. Holds(mem, full)
  <2>1. PICK k \in 0 .. Len(full) :
          copies = SubSeq(full, k + 1, Len(full)) /\ Holds(mem, SubSeq(full, 1, k))
    BY <1>1 DEF SInv, WriteInv
  <2>2. full \in Seq(Copies)
    BY <1>3, GraphLaid DEF Laid
  <2> HIDE DEF full
  <2>3. k = Len(full)
    <3> SUFFICES ASSUME k # Len(full)
                 PROVE  FALSE
      OBVIOUS
    <3>1. PICK rest : rest = SubSeq(full, k + 1, Len(full))
      OBVIOUS
    <3>2. Len(rest) = Len(full) - k /\ Len(full) - k # 0
      BY <2>2, <3>1
    <3>3. rest = <<>>
      BY <1>1, <2>1, <3>1
    <3>4. Len(rest) = 0
      BY <3>3
    <3> QED
      BY <3>2, <3>4
  <2>4. SubSeq(full, 1, Len(full)) = full
    BY <2>2
  <2> QED
    BY <2>1, <2>3, <2>4
<1>5. Start(mem) = start_address_first_node
  <2>1. Begins(mem, start_address_first_node, Len(Keys(nodes)))
    BY <1>3, <1>4, HoldsGraph
  <2> QED
    BY <2>1, BeginsWith
<1>6. SerialTypeOK'
  BY <1>1, <1>2, <1>3 DEF SInv, SerialTypeOK, SerialPhase
<1>7. HeadInv'
  BY <1>1 DEF SInv, HeadInv, Begins, Start, Count
<1>8. WholeInv'
  BY <1>1, <1>3, <1>4, <1>5 DEF WholeInv
<1>9. WrittenInv'
  <2>1. nodes # NoNodes => start_address_first_node # 0
    BY <1>1 DEF SInv, HeadInv
  <2>2. written' = [nodes |-> written'.nodes,
                    start_address_first_node |-> written'.start_address_first_node]
    BY <1>1
  <2> QED
    BY <1>3, <2>1, <2>2 DEF WrittenInv
<1>10. PhaseInv'
  BY <1>1 DEF SInv, PhaseInv
<1>11. WriteInv' /\ RunInv' /\ FitsIsEnough'
  BY <1>1 DEF WriteInv, RunInv, FitsIsEnough
<1>12. SharedStep
  <2> DEFINE blocks(map) == [a \in DOMAIN map |-> map[a].block]
  <2>1. region # "torn" => Shared!Keeps(blocks(nodes), blocks(written.nodes))
    <3>1. region # "torn" => Grown(nodes, written.nodes)
      BY <1>1 DEF SInv, RunInv
    <3> QED
      BY <3>1 DEF Grown, Shared!Keeps, Shared!IsPrefix, IsPrefix
  <2>2. Shared!CommitRun
    BY <1>1, <1>3, <2>1 DEF Shared!CommitRun
  <2> QED
    BY <2>2 DEF SharedStep, Shared!SharedNext
<1> QED
  BY <1>6, <1>7, <1>8, <1>9, <1>10, <1>11, <1>12 DEF SInv

\* What was copied stays, and tears the region if it had come to the nodes.
LEMMA DieStep ==
  ASSUME SInv, Die
  PROVE  SInv' /\ SharedStep
<1>1. /\ phase \in {"running", "writing"} /\ phase' = "idle" /\ copies' = <<>>
      /\ region' = (IF region = "whole" THEN "whole" ELSE "torn")
      /\ DeletedGraph
      /\ mem' = mem /\ cfg_iteration' = cfg_iteration /\ written' = written
  BY DEF Die
<1>2. /\ nodes' = NoNodes /\ start_address_first_node' = 0 /\ current_pointer' = 0
      /\ StoredGraph(nodes')
  BY <1>1, DeletedStored
<1>3. SerialTypeOK'
  BY <1>1, <1>2 DEF SInv, SerialTypeOK, SerialPhase
<1>4. HeadInv' /\ WrittenInv'
  BY <1>1 DEF SInv, HeadInv, WrittenInv, Begins, Start, Count
<1>5. WholeInv'
  BY <1>1 DEF SInv, WholeInv, Holds, Start
<1>6. PhaseInv'
  BY <1>1 DEF SInv, PhaseInv
<1>7. WriteInv' /\ RunInv' /\ FitsIsEnough'
  BY <1>1 DEF WriteInv, RunInv, FitsIsEnough
<1>8. SharedStep
  <2>1. Shared!AbandonRun
    BY <1>1 DEF Shared!AbandonRun
  <2> QED
    BY <2>1 DEF SharedStep, Shared!SharedNext
<1> QED
  BY <1>3, <1>4, <1>5, <1>6, <1>7, <1>8 DEF SInv

LEMMA SerialStutter ==
  ASSUME SInv, UNCHANGED serial
  PROVE  SInv' /\ SharedStep
<1>1. /\ nodes' = nodes /\ start_address_first_node' = start_address_first_node
      /\ current_pointer' = current_pointer /\ copies' = copies /\ phase' = phase
      /\ mem' = mem /\ cfg_iteration' = cfg_iteration /\ written' = written
      /\ region' = region
  BY DEF serial, vars
<1>2. SerialTypeOK'
  BY <1>1 DEF SInv, SerialTypeOK
<1>3. HeadInv' /\ WrittenInv' /\ RunInv' /\ WriteInv'
  BY <1>1 DEF SInv, HeadInv, WrittenInv, RunInv, WriteInv, Begins, Start, Count
<1>4. WholeInv' /\ PhaseInv' /\ FitsIsEnough'
  BY <1>1 DEF SInv, WholeInv, PhaseInv, FitsIsEnough, Holds, Start, Count
<1>5. SharedStep
  BY <1>1 DEF SharedStep, Shared!shared
<1> QED
  BY <1>2, <1>3, <1>4, <1>5 DEF SInv

LEMMA SerialStep ==
  ASSUME SInv, [SerialNext]_serial
  PROVE  SInv' /\ SharedStep
BY BeginRunStep, TraceStep, BeginWriteStep, CopyStep, EndWriteStep, DieStep, SerialStutter
   DEF SerialNext

-----------------------------------------------------------------------------
(* The theorems *)

\* The invariant holds of every reachable state: whatever a run traced, however
\* long its texts are, wherever a process died and however large the region is.
THEOREM SerialInvariant == SerialSpec => []SInv
<1>1. SInv /\ [SerialNext]_serial => SInv'
  BY SerialStep
<1>2. SerialInit => SInv
  BY SerialInitInv
<1> QED
  BY <1>1, <1>2, PTL DEF SerialSpec

\* The graph is storable even when it was read from a torn region, and no field
\* leaves the mapping.
THEOREM SerialTypeCorrect == SerialSpec => []SerialTypeOK
<1>1. SInv => SerialTypeOK
  BY DEF SInv
<1> QED
  BY <1>1, SerialInvariant, PTL

\* read() of a whole region gives back the last graph written: the reader's
\* offsets, the writer's and mem_size()'s are the same for every graph.
THEOREM ReadsBack == SerialSpec => []ReadsWhatWasWritten
<1>1. SInv => ReadsWhatWasWritten
  BY ReadInv DEF ReadsWhatWasWritten, IsWritten
<1> QED
  BY <1>1, SerialInvariant, PTL

\* A graph that it_fits accepts is written inside the region.
THEOREM FitsSuffices == SerialSpec => []FitsIsEnough
<1>1. SInv => FitsIsEnough
  BY DEF SInv
<1> QED
  BY <1>1, SerialInvariant, PTL

\* The bytes implement the shared memory of SharedGraph.
THEOREM SerialRefines == SerialSpec => SerialImplementsSharedGraph
<1>1. SInv /\ [SerialNext]_serial => [Shared!SharedNext]_(Shared!shared)
  BY SerialStep DEF SharedStep
<1>2. SerialInit => Shared!SharedInit
  BY SerialInitInv
<1> QED
  BY <1>1, <1>2, SerialInvariant, PTL
     DEF SerialSpec, SerialImplementsSharedGraph, Shared!SharedSpec

=============================================================================
